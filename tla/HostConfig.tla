----------------------------- MODULE HostConfig -----------------------------
(***************************************************************************)
(* The schema of host.yaml (config.py): what the validators fill in before *)
(* the model is built and what they refuse after.  A document keeps the    *)
(* fields a validator reads.  Null is an absent key or a null; a key whose *)
(* absence means nothing but its default is written as that default.  Two  *)
(* mounts stand for the seven the STIG wants, and a mirror or a datastream *)
(* is named by the distro it belongs to.                                   *)
(***************************************************************************)
EXTENDS Naturals, Sequences, FiniteSets

Null == "null"

Distros        == {"alma8", "alma9", "alma10"}
RemovedDistros == {"ubuntu2404"}

Elements(s)     == {s[i] : i \in DOMAIN s}
Distinct(s, Of(_)) == \A i, j \in DOMAIN s : Of(s[i]) = Of(s[j]) => i = j

-----------------------------------------------------------------------------
(***************************************************************************)
(* mode="before": the document is checked and filled in.                   *)
(***************************************************************************)
DistroIsSupported(y) == y.distro \in Distros \ RemovedDistros

(* `meta' without a scap_content ("unset") still means alma9's.            *)
ScapContentMatches(y) ==
    y.scap # Null => y.distro = IF y.scap = "unset" THEN "alma9" ELSE y.scap

(* alma8 has no mirror of its own: the field defaults are alma9's.         *)
MirrorOf(distro) == IF distro = "alma10" THEN "alma10" ELSE "alma9"

\* A mutant of InstallUrls: one of the two is left to the field default.
InstallBaseUrl(y) == [y EXCEPT !.baseos = IF @ = Null THEN MirrorOf(y.distro) ELSE @]

InstallUrls(y) ==
    LET OrDefault(url) == IF url = Null THEN MirrorOf(y.distro) ELSE url
    IN  [y EXCEPT !.baseos = OrDefault(@), !.appstream = OrDefault(@)]

PresetXorLayout(y) == y.preset = Null \/ y.layout = <<>>

DefaultPreset(y) ==
    IF y.preset = Null /\ y.layout = <<>> THEN [y EXCEPT !.preset = "stig_server"] ELSE y

DefaultPartition(d) == IF ~d.wipe /\ d.ids = {} THEN [d EXCEPT !.ids = {"partition"}] ELSE d

DefaultPartitions(y) ==
    [y EXCEPT !.data_disks = [i \in DOMAIN @ |-> DefaultPartition(@[i])]]

(* lean takes @standard out of base_groups and adds to required.           *)
NormalizeLean(y) ==
    LET lean == y.packages = "lean"
    IN  [y EXCEPT !.at_standard   = IF lean \/ @ = "no" THEN "no" ELSE "yes",
                  !.lean_required = IF lean \/ @ = "yes" THEN "yes" ELSE "no"]

Config(y) ==
    LET filled == NormalizeLean(DefaultPartitions(DefaultPreset(InstallUrls(y))))
    IN  [filled EXCEPT !.scap = y.distro]

-----------------------------------------------------------------------------
(***************************************************************************)
(* mode="after", part by part.                                             *)
(***************************************************************************)
RequiredMounts == {"/", "/var"}

LayoutIsValid(lvs) ==
    LET mounts == {lv.mount : lv \in Elements(lvs)} \ {Null}
        swaps  == {i \in DOMAIN lvs : lvs[i].fstype = "swap"}
        Name(lv) == lv.name
        Mount(lv) == lv.mount
    IN  /\ RequiredMounts \subseteq mounts
        /\ \A lv \in Elements(lvs) : (lv.fstype = "swap") = (lv.mount = Null)
        /\ Cardinality(swaps) = 1
        /\ Distinct(lvs, Name) /\ Distinct(lvs, Mount)
        /\ \A lv \in Elements(lvs) : lv.sized \/ lv.mount \in RequiredMounts \cup {Null}

LvsAreUnencrypted(lvs) == \A lv \in Elements(lvs) : ~lv.encrypted

PresetIsImplemented(c) == c.preset # "custom"

TangThreshold(tang) == tang.threshold \in 1..tang.servers

LuksIsValid(luks) ==
    IF luks.preset = "none" THEN ~luks.passphrase /\ ~luks.file /\ luks.tang.servers = 0
    ELSE /\ luks.passphrase # luks.file
         /\ (luks.preset = "tang") = (luks.tang.servers > 0)
         /\ luks.preset = "tang" => TangThreshold(luks.tang)

IdentifierIsValid(d) == IF d.wipe THEN d.ids = {} ELSE Cardinality(d.ids) <= 1

PartitionIsStable(d) == "partition" \in d.ids => d.target = "by-id"

AdminIsNotRoot(c)     == c.admin # "root"
KeysOrPassword(c)     == c.password \/ c.keys # {}
NtsServersCanNts(c)   == c.nts => c.servers # "pool"
VolumeRunsImages(c)   == ~c.containers.noexec
ContainerUsersDistinct(c) ==
    LET Name(u) == u.name
    IN  c.containers.enabled => Distinct(c.containers.users, Name)
RebootNeedsTimer(u)   == u.enable /\ u.reboot => u.nightly \/ u.monthly
StaticIsComplete(i)   == i.bootproto = "static" => i.address

PartsAreValid(c) ==
    /\ c.layout # <<>> => LayoutIsValid(c.layout) /\ LvsAreUnencrypted(c.layout)
    /\ PresetIsImplemented(c) /\ LuksIsValid(c.luks)
    /\ \A d \in Elements(c.data_disks) : IdentifierIsValid(d) /\ PartitionIsStable(d)
    /\ AdminIsNotRoot(c) /\ KeysOrPassword(c) /\ NtsServersCanNts(c)
    /\ VolumeRunsImages(c) /\ ContainerUsersDistinct(c)
    /\ RebootNeedsTimer(c.updates) /\ StaticIsComplete(c.interface)

-----------------------------------------------------------------------------
(***************************************************************************)
(* mode="after" of HostConfig itself: what relates one part to another.    *)
(***************************************************************************)
KernelFips(c) == c.policy = "STIG"

FipsModeAgrees(c) == c.fips_mode = "yes" => KernelFips(c)

FipsUsable(keys) == "rsa" \in keys

ConsoleNeedsPassword(c) == c.console_login_only => c.password

HasLoginPath(c) ==
    \/ IF KernelFips(c) THEN FipsUsable(c.keys) ELSE c.keys # {}
    \/ c.password /\ (c.password_auth \/ c.console_login_only)

ContainerKeysUsable(c) ==
    KernelFips(c) /\ c.containers.enabled =>
        \A u \in Elements(c.containers.users) : FipsUsable(u.keys)

(* Foreign mirrors: the default of another distro.                         *)
MirrorsAreOwn(c) ==
    c.source = "network" => {c.baseos, c.appstream} \cap ({"alma9", "alma10"} \ {c.distro}) = {}

CanEscalate(c) == c.password \/ c.sudo = "nopasswd_yes"

MinimalHasNoLvm(c) ==
    c.preset = "minimal" =>
        c.luks.preset = "none" /\ ~c.containers.enabled /\ c.data_disks = <<>>

DataDisksNeedTarget(c) == c.data_disks # <<>> => c.target # Null

TargetsDistinct(c) ==
    LET Target(d) == d.target
    IN  /\ Distinct(c.data_disks, Target)
        /\ \A d \in Elements(c.data_disks) : d.target # c.target

ReservedMounts(c) ==
    {"/", "/boot", "/boot/efi"}
      \cup (IF c.layout # <<>> THEN {lv.mount : lv \in Elements(c.layout)}
            ELSE IF c.preset = "stig_server" THEN RequiredMounts ELSE {})
      \cup (IF c.containers.enabled THEN {"/srv/containers"} ELSE {})

MountsDistinct(c) ==
    LET Mount(d) == d.mount
    IN  /\ Distinct(c.data_disks, Mount)
        /\ \A d \in Elements(c.data_disks) : d.mount \notin ReservedMounts(c)

NtsNotUnderFips(c) == ~(c.nts /\ KernelFips(c))
NtsNotWaived(c)    == ~(c.nts /\ c.waived_nts)

ContainersFit(c) ==
    c.containers.enabled =>
        /\ \A u \in Elements(c.containers.users) : u.name # c.admin
        /\ \A lv \in Elements(c.layout) : lv.mount # "/srv/containers"

HostIsValid(c) ==
    /\ ConsoleNeedsPassword(c) /\ HasLoginPath(c) /\ ContainerKeysUsable(c)
    /\ MirrorsAreOwn(c) /\ CanEscalate(c) /\ MinimalHasNoLvm(c)
    /\ DataDisksNeedTarget(c) /\ TargetsDistinct(c) /\ MountsDistinct(c)
    /\ NtsNotUnderFips(c) /\ NtsNotWaived(c) /\ ContainersFit(c)

-----------------------------------------------------------------------------
(***************************************************************************)
(* load_host_config: HostConfig's own validators run only on valid parts,  *)
(* and in order, so the FIPS conflict (exit 3) is seen before the rest.    *)
(***************************************************************************)
Loads(y) == /\ DistroIsSupported(y) /\ ScapContentMatches(y) /\ PresetXorLayout(y)
            /\ PartsAreValid(Config(y))

ExitOf(y) ==
    IF ~Loads(y) THEN "config_invalid"
    ELSE IF ~FipsModeAgrees(Config(y)) THEN "rule_conflict"
    ELSE IF ~HostIsValid(Config(y)) THEN "config_invalid"
    ELSE "ok"

Accepts(y) == ExitOf(y) = "ok"

(* dump_host_yaml: every field but the deprecated two.                     *)

\* A mutant of Dump: the derived FIPS mode is written back (#84).
DumpDerived(c) == [c EXCEPT !.fips_mode = IF KernelFips(c) THEN "yes" ELSE "no",
                            !.ufw_port = Null]

Dump(c) == [c EXCEPT !.fips_mode = Null, !.ufw_port = Null]

(* What a kickstart is rendered from: mirrors count on a network install.  *)
Effective(c) ==
    IF c.source = "network" THEN Dump(c)
    ELSE [Dump(c) EXCEPT !.baseos = Null, !.appstream = Null]
=============================================================================
