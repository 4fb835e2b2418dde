---------------------------- MODULE HostYamlProofs ----------------------------
(***************************************************************************)
(* Theorems about HostConfig and HostYaml, for any documents, edits and    *)
(* answers, with writes that fail anywhere: what is written back loads to  *)
(* what it was written from, a command that says it wrote a bundle left    *)
(* one configuration, and generating in between never changes what an edit *)
(* means.                                                                  *)
(***************************************************************************)
EXTENDS HostYaml, FiniteSetTheorems, TLAPS

-----------------------------------------------------------------------------
(***************************************************************************)
(* Validation fills in a document field by field.                          *)
(***************************************************************************)

\* A document is a function on the fields; this is how to show two equal.
LEMMA SameDocument ==
    ASSUME NEW y, NEW z, y = [f \in Fields |-> y[f]], z = [f \in Fields |-> z[f]],
           \A f \in Fields : y[f] = z[f]
    PROVE  y = z
OBVIOUS

\* The names that the proofs below may take for fields.
LEMMA FieldNames ==
    Fields = {"distro", "scap", "source", "baseos", "appstream", "policy", "fips_mode",
              "ufw_port", "admin", "keys", "password", "sudo", "password_auth",
              "console_login_only", "preset", "layout", "luks", "target", "data_disks",
              "containers", "nts", "servers", "waived_nts", "packages", "at_standard",
              "lean_required", "updates", "interface"}
BY DEF Fields, Blank

\* A disk keeps the identifier it has or is given one.
LEMMA PartitionOnce ==
    ASSUME NEW d \in Disks
    PROVE  /\ DefaultPartition(d) \in Disks
           /\ DefaultPartition(DefaultPartition(d)) = DefaultPartition(d)
<1>1. CASE ~d.wipe /\ d.ids = {}
  <2> DEFINE e == [d EXCEPT !.ids = {"partition"}]
  <2>1. DefaultPartition(d) = e
    BY <1>1 DEF DefaultPartition
  <2>2. e \in Disks /\ e.ids # {}
    BY DEF Disks
  <2> HIDE DEF e
  <2> QED BY <2>1, <2>2 DEF DefaultPartition
<1>2. CASE ~(~d.wipe /\ d.ids = {})
  BY <1>2 DEF DefaultPartition
<1> QED BY <1>1, <1>2

(***************************************************************************)
(* What validation fills in, and what it leaves alone.                     *)
(***************************************************************************)
FilledIn == {"baseos", "appstream", "preset", "data_disks", "at_standard",
             "lean_required", "scap"}

Partitioned(s) == [i \in DOMAIN s |-> DefaultPartition(s[i])]

FilledFrom(c, y) ==
    /\ c = [f \in Fields |-> c[f]]
    /\ \A f \in Fields \ FilledIn : c[f] = y[f]
    /\ c.baseos = IF y.baseos = Null THEN MirrorOf(y.distro) ELSE y.baseos
    /\ c.appstream = IF y.appstream = Null THEN MirrorOf(y.distro) ELSE y.appstream
    /\ c.preset = IF y.preset = Null /\ y.layout = <<>> THEN "stig_server" ELSE y.preset
    /\ c.data_disks = Partitioned(y.data_disks)
    /\ c.at_standard =
          IF y.packages = "lean" \/ y.at_standard = "no" THEN "no" ELSE "yes"
    /\ c.lean_required =
          IF y.packages = "lean" \/ y.lean_required = "yes" THEN "yes" ELSE "no"
    /\ c.scap = y.distro

\* The fields that the filled-in ones are made of stay.
Sources(c, y) == /\ c.distro = y.distro /\ c.layout = y.layout
                 /\ c.packages = y.packages /\ c.source = y.source

LEMMA SourcesStay ==
    ASSUME NEW c, NEW y, FilledFrom(c, y) PROVE Sources(c, y)
<1>1. {"distro", "layout", "packages", "source"} \subseteq Fields \ FilledIn
  BY FieldNames DEF FilledIn
<1> QED BY <1>1 DEF FilledFrom, Sources

\* The config of a document, field by field.
LEMMA ConfigFields ==
    ASSUME NEW y, IsDocument(y) PROVE FilledFrom(Config(y), y)
<1> DEFINE a == InstallUrls(y)
           b == DefaultPreset(a)
           d == DefaultPartitions(b)
           e == NormalizeLean(d)
           c == Config(y)
<1>0. y = [f \in Fields |-> y[f]]
  BY DEF IsDocument
<1>1. /\ a = [f \in Fields |-> a[f]]
      /\ \A f \in Fields \ {"baseos", "appstream"} : a[f] = y[f]
      /\ a.baseos = IF y.baseos = Null THEN MirrorOf(y.distro) ELSE y.baseos
      /\ a.appstream = IF y.appstream = Null THEN MirrorOf(y.distro) ELSE y.appstream
  BY <1>0, FieldNames DEF InstallUrls
<1>2. /\ b = [f \in Fields |-> b[f]]
      /\ \A f \in Fields \ {"preset"} : b[f] = a[f]
      /\ b.preset = IF a.preset = Null /\ a.layout = <<>> THEN "stig_server" ELSE a.preset
  <2> HIDE DEF a
  <2> QED BY <1>1, FieldNames DEF DefaultPreset
<1>3. /\ d = [f \in Fields |-> d[f]]
      /\ \A f \in Fields \ {"data_disks"} : d[f] = b[f]
      /\ d.data_disks = [i \in DOMAIN b.data_disks |-> DefaultPartition(b.data_disks[i])]
  <2> HIDE DEF b
  <2> QED BY <1>2, FieldNames DEF DefaultPartitions
<1>4. /\ e = [f \in Fields |-> e[f]]
      /\ \A f \in Fields \ {"at_standard", "lean_required"} : e[f] = d[f]
      /\ e.at_standard = IF d.packages = "lean" \/ d.at_standard = "no" THEN "no" ELSE "yes"
      /\ e.lean_required = IF d.packages = "lean" \/ d.lean_required = "yes"
                           THEN "yes" ELSE "no"
  <2> HIDE DEF d
  <2> QED BY <1>3, FieldNames DEF NormalizeLean
<1>5. /\ c = [f \in Fields |-> c[f]]
      /\ \A f \in Fields \ {"scap"} : c[f] = e[f]
      /\ c.scap = y.distro
  <2>1. c = [e EXCEPT !.scap = y.distro]
    BY DEF Config
  <2> HIDE DEF e, c
  <2> QED BY <2>1, <1>4, FieldNames
<1> HIDE DEF a, b, d, e, c
<1>6. /\ a.preset = y.preset /\ a.layout = y.layout /\ b.data_disks = y.data_disks
      /\ d.packages = y.packages /\ d.at_standard = y.at_standard
      /\ d.lean_required = y.lean_required
      /\ c.baseos = a.baseos /\ c.appstream = a.appstream /\ c.preset = b.preset
      /\ c.data_disks = d.data_disks /\ c.at_standard = e.at_standard
      /\ c.lean_required = e.lean_required
  <2>1. a.preset = y.preset /\ a.layout = y.layout /\ a.data_disks = y.data_disks
        /\ a.packages = y.packages /\ a.at_standard = y.at_standard
        /\ a.lean_required = y.lean_required
    BY <1>1, FieldNames
  <2>2. b.data_disks = a.data_disks /\ b.packages = a.packages /\ b.baseos = a.baseos
        /\ b.appstream = a.appstream /\ b.at_standard = a.at_standard
        /\ b.lean_required = a.lean_required
    BY <1>2, FieldNames
  <2>3. d.packages = b.packages /\ d.baseos = b.baseos /\ d.appstream = b.appstream
        /\ d.at_standard = b.at_standard /\ d.lean_required = b.lean_required
        /\ d.preset = b.preset
    BY <1>3, FieldNames
  <2>4. e.baseos = d.baseos /\ e.appstream = d.appstream /\ e.preset = d.preset
        /\ e.data_disks = d.data_disks
    BY <1>4, FieldNames
  <2>5. c.baseos = e.baseos /\ c.appstream = e.appstream /\ c.preset = e.preset
        /\ c.data_disks = e.data_disks /\ c.at_standard = e.at_standard
        /\ c.lean_required = e.lean_required
    BY <1>5, FieldNames
  <2> QED BY <2>1, <2>2, <2>3, <2>4, <2>5
<1>7. \A f \in Fields \ FilledIn : c[f] = y[f]
  BY <1>1, <1>2, <1>3, <1>4, <1>5 DEF FilledIn
<1> QED BY <1>1, <1>2, <1>3, <1>4, <1>5, <1>6, <1>7 DEF c, FilledFrom, Partitioned

\* A config is a document too.
LEMMA ConfigIsDocument == ASSUME NEW y, IsDocument(y) PROVE IsDocument(Config(y))
<1> DEFINE s == y.data_disks
           P(i) == DefaultPartition(s[i])
<1>1. FilledFrom(Config(y), y)
  BY ConfigFields
<1>2. s \in Seq(Disks) /\ \A i \in DOMAIN s : P(i) \in Disks
  BY PartitionOnce DEF IsDocument
<1>3. Config(y).data_disks = [i \in 1..Len(s) |-> P(i)]
  BY <1>1, <1>2 DEF FilledFrom, Partitioned
<1>4. Config(y).data_disks \in Seq(Disks)
  <2> HIDE DEF s, P
  <2> QED BY <1>2, <1>3
<1> QED BY <1>1, <1>4 DEF IsDocument, FilledFrom

(***************************************************************************)
(* The dump leaves every field alone but two.                              *)
(***************************************************************************)
DumpedFrom(d, c) ==
    /\ d = [f \in Fields |-> d[f]]
    /\ \A f \in Fields \ {"fips_mode", "ufw_port"} : d[f] = c[f]
    /\ d.fips_mode = Null /\ d.ufw_port = Null

LEMMA DumpFields ==
    ASSUME NEW c, IsDocument(c) PROVE DumpedFrom(Dump(c), c) /\ IsDocument(Dump(c))
<1> DEFINE d == Dump(c)
<1>1. c = [f \in Fields |-> c[f]]
  BY DEF IsDocument
<1>2. DumpedFrom(d, c)
  BY <1>1, FieldNames DEF Dump, DumpedFrom
<1>3. d.data_disks = c.data_disks
  BY <1>2, FieldNames DEF DumpedFrom
<1> QED BY <1>2, <1>3 DEF IsDocument, DumpedFrom

\* What is written back has nothing left to fill in.
LEMMA NothingLeft ==
    ASSUME NEW y, IsDocument(y), NEW c, FilledFrom(c, y), NEW d, DumpedFrom(d, c),
           NEW e, FilledFrom(e, d)
    PROVE  e = d
<1>1. Sources(c, y)
  BY SourcesStay
<1>2. /\ d.baseos = c.baseos /\ d.appstream = c.appstream /\ d.preset = c.preset
      /\ d.layout = c.layout /\ d.packages = c.packages /\ d.distro = c.distro
      /\ d.at_standard = c.at_standard /\ d.lean_required = c.lean_required
      /\ d.data_disks = c.data_disks /\ d.scap = c.scap
  BY FieldNames DEF DumpedFrom
<1>3. e.baseos = d.baseos /\ e.appstream = d.appstream
  BY <1>1, <1>2 DEF FilledFrom, MirrorOf, Null, Sources
<1>4. e.preset = d.preset
  BY <1>1, <1>2 DEF FilledFrom, Null, Sources
<1>5. e.at_standard = d.at_standard /\ e.lean_required = d.lean_required
  BY <1>1, <1>2 DEF FilledFrom, Sources
<1>6. e.scap = d.scap
  BY <1>1, <1>2 DEF FilledFrom, Sources
<1>7. e.data_disks = d.data_disks
  <2>1. y.data_disks \in Seq(Disks)
    BY DEF IsDocument
  <2>2. c.data_disks = Partitioned(y.data_disks)
    BY DEF FilledFrom
  <2>3. Partitioned(c.data_disks) = c.data_disks
    BY <2>1, <2>2, PartitionOnce DEF Partitioned
  <2>4. e.data_disks = Partitioned(d.data_disks)
    BY DEF FilledFrom
  <2> QED BY <2>3, <2>4, <1>2
<1>8. \A f \in Fields : e[f] = d[f]
  <2>1. \A f \in Fields \ FilledIn : e[f] = d[f]
    BY DEF FilledFrom
  <2> QED BY <2>1, <1>3, <1>4, <1>5, <1>6, <1>7 DEF FilledIn
<1> QED BY <1>8, SameDocument DEF FilledFrom, DumpedFrom

(***************************************************************************)
(* Every file that a command writes back loads to itself: dump and load    *)
(* are inverse from the first dump on (dump_host_yaml, config.py).         *)
(***************************************************************************)
THEOREM DumpIsFixed ==
    ASSUME NEW y, IsDocument(y)
    PROVE  Config(Dump(Config(y))) = Dump(Config(y))
<1>1. IsDocument(Config(y)) /\ IsDocument(Dump(Config(y)))
  BY ConfigIsDocument, DumpFields
<1>2. FilledFrom(Config(y), y) /\ DumpedFrom(Dump(Config(y)), Config(y))
  BY <1>1, ConfigFields, DumpFields
<1>3. FilledFrom(Config(Dump(Config(y))), Dump(Config(y)))
  BY <1>1, ConfigFields
<1> QED BY <1>2, <1>3, NothingLeft

-----------------------------------------------------------------------------
(***************************************************************************)
(* No validator but that of fips_mode reads a field that the dump drops.   *)
(***************************************************************************)
Alike(d, c) ==
    /\ d.distro = c.distro /\ d.source = c.source /\ d.baseos = c.baseos
    /\ d.appstream = c.appstream /\ d.policy = c.policy /\ d.admin = c.admin
    /\ d.keys = c.keys /\ d.password = c.password /\ d.sudo = c.sudo
    /\ d.password_auth = c.password_auth
    /\ d.console_login_only = c.console_login_only /\ d.preset = c.preset
    /\ d.layout = c.layout /\ d.luks = c.luks /\ d.target = c.target
    /\ d.data_disks = c.data_disks /\ d.containers = c.containers /\ d.nts = c.nts
    /\ d.servers = c.servers /\ d.waived_nts = c.waived_nts
    /\ d.updates = c.updates /\ d.interface = c.interface

LEMMA DumpIsAlike == ASSUME NEW c, NEW d, DumpedFrom(d, c) PROVE Alike(d, c)
<1> DEFINE Read == Fields \ {"fips_mode", "ufw_port"}
<1>1. \A f \in Read : d[f] = c[f]
  BY DEF DumpedFrom
<1>2. {"distro", "source", "baseos", "appstream", "policy", "admin", "keys", "password",
       "sudo", "password_auth", "console_login_only"} \subseteq Read
  BY FieldNames
<1>3. {"preset", "layout", "luks", "target", "data_disks", "containers", "nts", "servers",
       "waived_nts", "updates", "interface"} \subseteq Read
  BY FieldNames
<1> HIDE DEF Read
<1>4. /\ d.distro = c.distro /\ d.source = c.source /\ d.baseos = c.baseos
      /\ d.appstream = c.appstream /\ d.policy = c.policy /\ d.admin = c.admin
      /\ d.keys = c.keys /\ d.password = c.password /\ d.sudo = c.sudo
      /\ d.password_auth = c.password_auth
      /\ d.console_login_only = c.console_login_only
  BY <1>1, <1>2
<1>5. /\ d.preset = c.preset /\ d.layout = c.layout /\ d.luks = c.luks
      /\ d.target = c.target /\ d.data_disks = c.data_disks
      /\ d.containers = c.containers /\ d.nts = c.nts
      /\ d.servers = c.servers /\ d.waived_nts = c.waived_nts
      /\ d.updates = c.updates /\ d.interface = c.interface
  BY <1>1, <1>3
<1> QED BY <1>4, <1>5 DEF Alike

LEMMA AlikeParts ==
    ASSUME NEW c, NEW d, Alike(d, c), PartsAreValid(c) PROVE PartsAreValid(d)
BY DEF Alike, PartsAreValid, PresetIsImplemented, AdminIsNotRoot, KeysOrPassword,
       NtsServersCanNts, VolumeRunsImages, ContainerUsersDistinct, Distinct

LEMMA AlikeHost ==
    ASSUME NEW c, NEW d, Alike(d, c), HostIsValid(c) PROVE HostIsValid(d)
<1>1. /\ ConsoleNeedsPassword(d) /\ HasLoginPath(d) /\ ContainerKeysUsable(d)
      /\ MirrorsAreOwn(d) /\ CanEscalate(d) /\ MinimalHasNoLvm(d)
  BY DEF Alike, HostIsValid, ConsoleNeedsPassword, HasLoginPath, ContainerKeysUsable,
         MirrorsAreOwn, CanEscalate, MinimalHasNoLvm, KernelFips
<1>2. /\ DataDisksNeedTarget(d) /\ TargetsDistinct(d)
      /\ NtsNotUnderFips(d) /\ NtsNotWaived(d) /\ ContainersFit(d)
  BY DEF Alike, HostIsValid, DataDisksNeedTarget, TargetsDistinct, Distinct,
         NtsNotUnderFips, NtsNotWaived, ContainersFit, KernelFips
<1>3. MountsDistinct(d)
  <2>1. ReservedMounts(d) = ReservedMounts(c)
    BY DEF Alike, ReservedMounts
  <2> QED BY <2>1 DEF Alike, HostIsValid, MountsDistinct, Distinct
<1> QED BY <1>1, <1>2, <1>3 DEF HostIsValid

\* What was accepted is accepted again when it was written back.
LEMMA DumpIsAccepted ==
    ASSUME NEW y, IsDocument(y), Accepts(y) PROVE Accepts(Dump(Config(y)))
<1> DEFINE c == Config(y)
           d == Dump(c)
<1>1. FilledFrom(c, y) /\ DumpedFrom(d, c) /\ Config(d) = d
  BY ConfigIsDocument, ConfigFields, DumpFields, DumpIsFixed
<1>2. Loads(y) /\ FipsModeAgrees(c) /\ HostIsValid(c)
  BY DEF Accepts, ExitOf
<1> HIDE DEF c, d
<1>3. Sources(c, y) /\ Alike(d, c)
  BY <1>1, SourcesStay, DumpIsAlike
<1>4. PartsAreValid(d) /\ HostIsValid(d)
  BY <1>2, <1>3, AlikeParts, AlikeHost DEF Loads, c
<1>5. FipsModeAgrees(d)
  BY <1>1 DEF DumpedFrom, FipsModeAgrees, Null
<1>6. DistroIsSupported(d)
  BY <1>2, <1>3 DEF Loads, DistroIsSupported, Sources, Alike
<1>7. ScapContentMatches(d)
  <2>1. d.scap = c.scap
    BY <1>1, FieldNames DEF DumpedFrom
  <2>2. d.scap = d.distro /\ d.distro # "unset"
    BY <1>1, <1>3, <1>6, <2>1
    DEF FilledFrom, Sources, Alike, DistroIsSupported, Distros
  <2> QED BY <2>2 DEF ScapContentMatches
<1>8. PresetXorLayout(d)
  BY <1>1, <1>2, <1>3 DEF Loads, PresetXorLayout, FilledFrom, Sources, Alike, Null
<1>9. ExitOf(d) = "ok"
  BY <1>1, <1>4, <1>5, <1>6, <1>7, <1>8 DEF ExitOf, Loads
<1> QED BY <1>9 DEF Accepts, c, d

-----------------------------------------------------------------------------
(***************************************************************************)
(* The inductive invariant: documents stay documents, a command that is    *)
(* writing was given one that validation accepts, what it has written so   *)
(* far is of that document, and what a finished one wrote is one           *)
(* configuration.                                                          *)
(***************************************************************************)
Filing == {"host.yaml"} \cup Rendered

DocumentInv ==
    /\ IsDocument(payload)
    /\ file # Nothing => IsDocument(file)
    /\ source # Nothing \/ file # Nothing \/ stage \in Filing => IsDocument(source)

OneConfig == /\ IsDocument(file) /\ Accepts(file)
             /\ \A f \in Rendered : Effective(made[f]) = Effective(Config(file))

InStep ==
    /\ made = [f \in Rendered |-> made[f]]
    /\ stage # "shell" => outcome = "none"
    /\ stage \in Writing => Accepts(payload)
    /\ stage \in Filing \ {"tailoring.xml"} => made["tailoring.xml"] = Config(payload)
    /\ stage \in {"exceptions.md", "ks.cfg"} => file = Dump(Config(payload))
    /\ stage = "ks.cfg" => made["exceptions.md"] = Config(payload)
    /\ outcome = "written" => OneConfig

\* A config and its dump render the same kickstart.
LEMMA SameEffect ==
    ASSUME NEW y, IsDocument(y)
    PROVE  Effective(Config(Dump(Config(y)))) = Effective(Config(y))
<1> DEFINE c == Config(y)
           d == Dump(c)
<1>1. IsDocument(c) /\ IsDocument(d) /\ Config(d) = d
  BY ConfigIsDocument, DumpFields, DumpIsFixed
<1>2. DumpedFrom(d, c) /\ DumpedFrom(Dump(d), d)
  BY <1>1, DumpFields
<1> HIDE DEF c
<1>3. \A f \in Fields : Dump(d)[f] = d[f]
  BY <1>2 DEF DumpedFrom
<1>4. Dump(d) = d
  BY <1>2, <1>3, SameDocument DEF DumpedFrom
<1>5. d.source = c.source
  BY <1>2, FieldNames DEF DumpedFrom
<1> QED BY <1>1, <1>4, <1>5 DEF Effective, c

\* A field of a document gets a new value.
LEMMA EditedDocument ==
    ASSUME NEW y, IsDocument(y), NEW f \in Fields, NEW v,
           f = "data_disks" => v \in Seq(Disks)
    PROVE  IsDocument([y EXCEPT ![f] = v])
<1> DEFINE z == [y EXCEPT ![f] = v]
<1>1. y = [g \in Fields |-> y[g]] /\ y.data_disks \in Seq(Disks)
  BY DEF IsDocument
<1>2. z = [g \in Fields |-> z[g]]
  BY <1>1
<1>3. z.data_disks = IF f = "data_disks" THEN v ELSE y.data_disks
  BY <1>1, FieldNames
<1> HIDE DEF z
<1> QED BY <1>1, <1>2, <1>3 DEF IsDocument, z

\* What is written is in step.
LEMMA WrittenInStep ==
    ASSUME NEW y, IsDocument(y)
    PROVE  /\ IsDocument(Dump(Config(y)))
           /\ Effective(Config(Dump(Config(y)))) = Effective(Config(y))
           /\ Accepts(y) => Accepts(Dump(Config(y)))
BY ConfigIsDocument, DumpFields, SameEffect, DumpIsAccepted

\* The wizard begins with a document.
LEMMA BlankDocument == IsDocument(Blank)
<1>1. Blank = [f \in Fields |-> Blank[f]]
  BY DEF Blank, Fields
<1>2. Blank.data_disks = <<>>
  BY DEF Blank
<1>3. Blank.data_disks \in Seq(Disks)
  BY <1>2
<1> QED BY <1>1, <1>3 DEF IsDocument

\* The wizard's answers, one field at a time, and one disk more.
LEMMA AnsweredDocument ==
    ASSUME NEW y, IsDocument(y)
    PROVE  /\ \A d \in Disks : IsDocument([y EXCEPT !.data_disks = Append(@, d)])
           /\ \A v : /\ IsDocument([y EXCEPT !.sudo = v])
                     /\ IsDocument([y EXCEPT !.keys = v])
                     /\ IsDocument([y EXCEPT !.policy = v])
                     /\ IsDocument([y EXCEPT !.target = v])
                     /\ IsDocument([y EXCEPT !.preset = v])
                     /\ IsDocument([y EXCEPT !.luks = v])
                     /\ IsDocument([y EXCEPT !.interface = v])
                     /\ IsDocument([y EXCEPT !.updates = v])
<1>1. ASSUME NEW d \in Disks PROVE IsDocument([y EXCEPT !.data_disks = Append(@, d)])
  <2>1. Append(y.data_disks, d) \in Seq(Disks)
    BY DEF IsDocument
  <2> QED BY <2>1, EditedDocument, FieldNames
<1>2. {"sudo", "keys", "policy", "target", "preset", "luks", "interface", "updates"}
        \subseteq Fields \ {"data_disks"}
  BY FieldNames
<1>3. ASSUME NEW f \in Fields \ {"data_disks"}, NEW v PROVE IsDocument([y EXCEPT ![f] = v])
  BY <1>3, EditedDocument
<1> QED BY <1>1, <1>2, <1>3

\* A step that leaves the files alone, and no command at work.
LEMMA AnswerKeeps ==
    ASSUME DocumentInv, InStep, IsDocument(payload'), UNCHANGED bundle,
           stage' \notin Writing, outcome' # "written",
           stage' # "shell" => outcome' = "none"
    PROVE  (DocumentInv /\ InStep)'
<1>1. stage' \notin Filing
  BY DEF Writing, Filing
<1>2. DocumentInv'
  BY <1>1 DEF DocumentInv, bundle
<1>3. stage' \notin {"exceptions.md", "ks.cfg"} /\ stage' \notin Filing \ {"tailoring.xml"}
  BY <1>1 DEF Filing, Rendered
<1> QED BY <1>2, <1>3 DEF InStep, bundle

\* What a prompt does to the stage and to the outcome.
LEMMA PromptStages ==
    ASSUME InStep,
           \/ StartNew \/ GiveUp \/ AskSudo \/ AskKeys \/ AskPolicy \/ PortIsNoNumber
           \/ AskGroups \/ AskDisk \/ AskLuks \/ AskPassphrase \/ AskDataDisk
           \/ EndDataDisks \/ AskNetwork \/ AskOverrides
    PROVE  /\ UNCHANGED bundle /\ stage' \notin Writing /\ outcome' # "written"
           /\ stage' # "shell" => outcome' = "none"
<1>1. \A s \in {"shell", "core", "keys", "policy", "groups", "disk", "luks", "passphrase",
                "data_disks", "network", "overrides", "validate"} : s \notin Writing
  BY DEF Writing, Rendered
<1>2. CASE StartNew
  BY <1>1, <1>2 DEF StartNew
<1>3. CASE GiveUp \/ PortIsNoNumber
  BY <1>1, <1>3 DEF GiveUp, PortIsNoNumber, Ends
<1>4. CASE AskSudo \/ AskKeys \/ AskPolicy \/ AskLuks \/ AskDataDisk
  BY <1>1, <1>4 DEF AskSudo, AskKeys, AskPolicy, AskLuks, AskDataDisk, Answers, At, InStep
<1>5. CASE AskPassphrase
  BY <1>1, <1>5 DEF AskPassphrase, Answers, Ends, At, InStep
<1>6. \A left : NextGroup(left) \in {"disk", "network", "overrides", "validate"}
  BY DEF NextGroup
<1>7. CASE AskGroups \/ AskNetwork \/ AskOverrides
  BY <1>1, <1>6, <1>7 DEF AskGroups, AskNetwork, AskOverrides, AnswersLast, At, InStep
<1>8. CASE AskDisk
  BY <1>1, <1>6, <1>8 DEF AskDisk, Answers, AnswersLast, At, InStep
<1>9. CASE EndDataDisks
  BY <1>1, <1>6, <1>9 DEF EndDataDisks, AnswersLast, Ends, At, InStep
<1> QED BY <1>2, <1>3, <1>4, <1>5, <1>7, <1>8, <1>9

\* The wizard's prompts only collect answers.
LEMMA PromptKeeps ==
    ASSUME DocumentInv, InStep,
           \/ StartNew \/ GiveUp \/ AskSudo \/ AskKeys \/ AskPolicy \/ PortIsNoNumber
           \/ AskGroups \/ AskDisk \/ AskLuks \/ AskPassphrase \/ AskDataDisk
           \/ EndDataDisks \/ AskNetwork \/ AskOverrides
    PROVE  (DocumentInv /\ InStep)'
<1>0. /\ IsDocument(payload)
      /\ UNCHANGED bundle /\ stage' \notin Writing /\ outcome' # "written"
      /\ stage' # "shell" => outcome' = "none"
  BY PromptStages DEF DocumentInv
<1>1. CASE StartNew \/ GiveUp \/ PortIsNoNumber
  BY <1>0, <1>1, BlankDocument, AnswerKeeps DEF StartNew, GiveUp, PortIsNoNumber, Ends
<1>2. CASE AskSudo
  <2>1. PICK v : payload' = payload \/ payload' = [payload EXCEPT !.sudo = v]
    BY <1>2 DEF AskSudo, Answers
  <2>2. IsDocument([payload EXCEPT !.sudo = v])
    BY <1>0, AnsweredDocument
  <2>3. IsDocument(payload')
    BY <1>0, <2>1, <2>2
  <2> QED BY <1>0, <2>3, AnswerKeeps
<1>3. CASE AskKeys
  <2>1. PICK v : payload' = payload \/ payload' = [payload EXCEPT !.keys = v]
    BY <1>3 DEF AskKeys, Answers
  <2>2. IsDocument([payload EXCEPT !.keys = v])
    BY <1>0, AnsweredDocument
  <2>3. IsDocument(payload')
    BY <1>0, <2>1, <2>2
  <2> QED BY <1>0, <2>3, AnswerKeeps
<1>4. CASE AskPolicy
  <2>1. PICK v : payload' = payload \/ payload' = [payload EXCEPT !.policy = v]
    BY <1>4 DEF AskPolicy, Answers
  <2>2. IsDocument([payload EXCEPT !.policy = v])
    BY <1>0, AnsweredDocument
  <2>3. IsDocument(payload')
    BY <1>0, <2>1, <2>2
  <2> QED BY <1>0, <2>3, AnswerKeeps
<1>5. CASE AskGroups
  BY <1>0, <1>5, AnswerKeeps DEF AskGroups, AnswersLast
<1>6. CASE AskDisk
  <2>1. PICK target, preset : payload' = [payload EXCEPT !.target = target,
                                                         !.preset = preset]
    BY <1>6 DEF AskDisk, Answers, AnswersLast
  <2>2. IsDocument([payload EXCEPT !.target = target])
    BY <1>0, AnsweredDocument
  <2>3. IsDocument([[payload EXCEPT !.target = target] EXCEPT !.preset = preset])
    BY <2>2, AnsweredDocument
  <2> QED BY <1>0, <2>1, <2>3, AnswerKeeps
<1>7. CASE AskLuks
  <2>1. PICK v : payload' = payload \/ payload' = [payload EXCEPT !.luks = v]
    BY <1>7 DEF AskLuks, Answers
  <2>2. IsDocument([payload EXCEPT !.luks = v])
    BY <1>0, AnsweredDocument
  <2>3. IsDocument(payload')
    BY <1>0, <2>1, <2>2
  <2> QED BY <1>0, <2>3, AnswerKeeps
<1>8. CASE AskPassphrase
  <2>1. PICK v : payload' \in {payload, Blank, [payload EXCEPT !.luks = v]}
    BY <1>8 DEF AskPassphrase, Answers, Ends
  <2>2. IsDocument([payload EXCEPT !.luks = v])
    BY <1>0, AnsweredDocument
  <2>3. IsDocument(payload')
    BY <1>0, BlankDocument, <2>1, <2>2
  <2> QED BY <1>0, <2>3, AnswerKeeps
<1>9. CASE AskDataDisk
  <2>1. DiskAnswers \subseteq Disks
    BY YamlAssumption
  <2> QED BY <1>0, <1>9, <2>1, AnsweredDocument, AnswerKeeps DEF AskDataDisk, Answers
<1>10. CASE EndDataDisks
  BY <1>0, <1>10, BlankDocument, AnswerKeeps DEF EndDataDisks, Ends, AnswersLast
<1>11. CASE AskNetwork
  <2>1. PICK v : payload' = payload \/ payload' = [payload EXCEPT !.interface = v]
    BY <1>11 DEF AskNetwork, AnswersLast
  <2>2. IsDocument([payload EXCEPT !.interface = v])
    BY <1>0, AnsweredDocument
  <2>3. IsDocument(payload')
    BY <1>0, <2>1, <2>2
  <2> QED BY <1>0, <2>3, AnswerKeeps
<1>12. CASE AskOverrides
  <2>1. PICK v : payload' = [payload EXCEPT !.updates = v]
    BY <1>12 DEF AskOverrides, AnswersLast
  <2>2. IsDocument([payload EXCEPT !.updates = v])
    BY <1>0, AnsweredDocument
  <2>3. IsDocument(payload')
    BY <1>0, <2>1, <2>2
  <2> QED BY <1>0, <2>3, AnswerKeeps
<1> QED BY <1>1, <1>2, <1>3, <1>4, <1>5, <1>6, <1>7, <1>8, <1>9, <1>10, <1>11, <1>12

\* `new' has its answers accepted, writes their dump, and goes on to the
\* bundle unless rendering fails.
LEMMA NewKeeps ==
    ASSUME DocumentInv, InStep, ValidateAnswers \/ WriteInitial
    PROVE  (DocumentInv /\ InStep)'
<1>0. IsDocument(payload) /\ IsDocument(Blank) /\ "shell" \notin Writing
      /\ "initial" \notin Filing /\ "initial" # "shell"
  BY BlankDocument DEF DocumentInv, Writing, Filing, Rendered
<1>1. CASE ValidateAnswers /\ ~Accepts(payload)
  BY <1>0, <1>1, AnswerKeeps DEF ValidateAnswers, Ends
<1>2. CASE ValidateAnswers /\ Accepts(payload)
  <2>1. /\ stage' = "initial" /\ payload' = payload /\ UNCHANGED bundle
        /\ outcome' = "none"
    BY <1>2 DEF ValidateAnswers, Answers, At, InStep
  <2> QED BY <1>0, <1>2, <2>1 DEF DocumentInv, InStep, bundle, Filing, Rendered
<1>3. CASE WriteInitial
  <2>1. /\ file' = Dump(Config(payload)) /\ source' = payload /\ made' = made
        /\ Accepts(payload) /\ outcome = "none"
    BY <1>3 DEF WriteInitial, At, InStep, Writing
  <2>2. IsDocument(file')
    BY <1>0, <2>1, WrittenInStep
  <2>3. PICK present \in BOOLEAN :
          IF Renders(Config(payload), present)
          THEN /\ stage' = "tailoring.xml"
               /\ UNCHANGED <<groups, tries, payload, sets, outcome>>
          ELSE Ends("crash")
    BY <1>3 DEF WriteInitial
  <2>4. CASE Renders(Config(payload), present)
    BY <1>0, <2>1, <2>2, <2>3, <2>4 DEF DocumentInv, InStep
  <2>5. CASE ~Renders(Config(payload), present)
    <3>1. stage' = "shell" /\ payload' = Blank /\ outcome' = "crash"
      BY <2>3, <2>5 DEF Ends
    <3> QED BY <1>0, <2>1, <2>2, <3>1 DEF DocumentInv, InStep, Filing, Rendered
  <2> QED BY <2>3, <2>4, <2>5
<1> QED BY <1>1, <1>2, <1>3

\* gen begins to write what it rendered, or writes nothing.
LEMMA GenerateKeeps ==
    ASSUME DocumentInv, InStep, Command, NEW doc, IsDocument(doc), NEW changed,
           NEW present, Generate(doc, changed, present)
    PROVE  (DocumentInv /\ InStep)'
<1>0. IsDocument(payload) /\ IsDocument(source) /\ UNCHANGED bundle
  BY DEF DocumentInv, Command, Generate
<1>1. CASE Accepts(doc) /\ Renders(Config(doc), present)
  <2>1. stage' = "tailoring.xml" /\ payload' = doc /\ outcome' = "none"
    BY <1>1 DEF Generate
  <2> QED BY <1>0, <1>1, <2>1 DEF DocumentInv, InStep, bundle
<1>2. CASE ~(Accepts(doc) /\ Renders(Config(doc), present))
  <2>1. /\ stage' = stage /\ stage = "shell" /\ payload' = payload
        /\ outcome' = IF Accepts(doc) THEN "crash" ELSE ExitOf(doc)
    BY <1>2 DEF Generate, Command, At
  <2>2. outcome' # "written" /\ stage' \notin Writing
    BY <2>1 DEF ExitOf, Writing, Rendered
  <2> QED BY <1>0, <2>1, <2>2, AnswerKeeps
<1> QED BY <1>1, <1>2

\* One file after the other is written from the same config.
LEMMA FilesKeep ==
    ASSUME DocumentInv, InStep, WriteTailoring \/ WriteYaml \/ WriteExceptions
    PROVE  (DocumentInv /\ InStep)'
<1>0. /\ stage \in Filing /\ stage \in Writing /\ IsDocument(payload) /\ IsDocument(source)
      /\ Accepts(payload) /\ outcome = "none" /\ payload' = payload /\ outcome' = outcome
  <2>1. stage \in {"tailoring.xml", "host.yaml", "exceptions.md"} /\ payload' = payload
        /\ outcome' = outcome
    BY DEF WriteTailoring, WriteYaml, WriteExceptions, Render, At
  <2>2. stage \in Filing /\ stage \in Writing /\ stage # "shell"
    BY <2>1 DEF Filing, Writing, Rendered
  <2> QED BY <2>1, <2>2 DEF DocumentInv, InStep
<1>1. CASE WriteTailoring
  <2>1. /\ stage' = "host.yaml" /\ made' = [made EXCEPT !["tailoring.xml"] = Config(payload)]
        /\ file' = file /\ source' = source
    BY <1>1 DEF WriteTailoring, Render
  <2>2. made' = [f \in Rendered |-> made'[f]] /\ made'["tailoring.xml"] = Config(payload)
    BY <2>1 DEF InStep, Rendered
  <2> QED BY <1>0, <2>1, <2>2 DEF DocumentInv, InStep
<1>2. CASE WriteYaml
  <2>1. /\ stage = "host.yaml" /\ stage' = "exceptions.md" /\ made' = made
        /\ file' = Dump(Config(payload))
        /\ source' = [f \in Fields |-> IF f \in sets THEN payload[f] ELSE source[f]]
    BY <1>2 DEF WriteYaml, WrittenBack, At
  <2>2. IsDocument(file')
    BY <1>0, <2>1, WrittenInStep
  <2>3. IsDocument(source')
    <3>1. source'.data_disks \in {payload.data_disks, source.data_disks}
      BY <2>1, FieldNames
    <3> QED BY <1>0, <2>1, <3>1 DEF IsDocument
  <2>4. made["tailoring.xml"] = Config(payload)
    BY <2>1 DEF InStep, Filing, Rendered
  <2> QED BY <1>0, <2>1, <2>2, <2>3, <2>4 DEF DocumentInv, InStep
<1>3. CASE WriteExceptions
  <2>1. /\ stage = "exceptions.md" /\ stage' = "ks.cfg"
        /\ made' = [made EXCEPT !["exceptions.md"] = Config(payload)]
        /\ file' = file /\ source' = source
    BY <1>3 DEF WriteExceptions, Render, At
  <2>2. /\ made' = [f \in Rendered |-> made'[f]] /\ made'["exceptions.md"] = Config(payload)
        /\ made'["tailoring.xml"] = made["tailoring.xml"]
    BY <2>1 DEF InStep, Rendered
  <2>3. made["tailoring.xml"] = Config(payload) /\ file = Dump(Config(payload))
    BY <2>1 DEF InStep, Filing, Rendered
  <2> QED BY <1>0, <2>1, <2>2, <2>3 DEF DocumentInv, InStep
<1> QED BY <1>1, <1>2, <1>3

\* With the kickstart the bundle is whole.
LEMMA KickstartKeeps ==
    ASSUME DocumentInv, InStep, WriteKickstart PROVE (DocumentInv /\ InStep)'
<1>1. /\ stage = "ks.cfg" /\ stage' = "shell" /\ payload' = Blank /\ outcome' = "written"
      /\ made' = [made EXCEPT !["ks.cfg"] = Config(payload)]
      /\ file' = file /\ source' = source
  BY DEF WriteKickstart, Ends, At
<1>2. /\ Accepts(payload) /\ file = Dump(Config(payload)) /\ IsDocument(payload)
      /\ IsDocument(source)
      /\ made["tailoring.xml"] = Config(payload) /\ made["exceptions.md"] = Config(payload)
  BY <1>1 DEF DocumentInv, InStep, Filing, Writing, Rendered
<1>3. /\ made' = [f \in Rendered |-> made'[f]]
      /\ \A f \in Rendered : made'[f] = Config(payload)
  BY <1>1, <1>2 DEF InStep, Rendered
<1>4. /\ IsDocument(file') /\ Accepts(file')
      /\ Effective(Config(file')) = Effective(Config(payload))
  BY <1>1, <1>2, WrittenInStep
<1>5. OneConfig'
  BY <1>3, <1>4 DEF OneConfig
<1>6. "shell" \notin Writing /\ "shell" \notin Filing
  BY DEF Writing, Filing, Rendered
<1> QED BY <1>1, <1>2, <1>3, <1>4, <1>5, <1>6, BlankDocument DEF DocumentInv, InStep

\* A write that fails ends the command.
LEMMA FailureKeeps ==
    ASSUME DocumentInv, InStep, WriteFails PROVE (DocumentInv /\ InStep)'
<1>1. stage' = "shell" /\ payload' = Blank /\ outcome' = "crash" /\ source' = source
  BY DEF WriteFails, Ends
<1>2. file' \in {file, Nothing}
  BY DEF WriteFails
<1>3. made' = [f \in Rendered |-> made'[f]]
  <2>1. made' = made \/ made' = [made EXCEPT ![stage] = Nothing]
    BY DEF WriteFails
  <2> QED BY <2>1 DEF InStep
<1>4. "shell" \notin Writing /\ "shell" \notin Filing
  BY DEF Writing, Filing, Rendered
<1> QED BY <1>1, <1>2, <1>3, <1>4, BlankDocument DEF DocumentInv, InStep, Filing, Rendered

\* Turning one flag of a disk leaves a disk.
LEMMA WipedDisk ==
    ASSUME NEW d \in Disks PROVE [d EXCEPT !.wipe = ~@] \in Disks
<1> DEFINE w == ~d.wipe
<1>1. w \in BOOLEAN
  OBVIOUS
<1>2. [d EXCEPT !.wipe = ~@] = [d EXCEPT !.wipe = w]
  OBVIOUS
<1>3. [d EXCEPT !.wipe = w] \in Disks
  <2> HIDE DEF w
  <2> QED BY <1>1 DEF Disks
<1> QED BY <1>2, <1>3

\* Turning the wipe flag of the first disk, if there is one, leaves a document.
LEMMA FlippedDocument ==
    ASSUME NEW y, IsDocument(y) PROVE IsDocument([y EXCEPT !.data_disks[1].wipe = ~@])
<1> DEFINE s == y.data_disks
           t == [s EXCEPT ![1].wipe = ~@]
<1>1. [y EXCEPT !.data_disks[1].wipe = ~@] = [y EXCEPT !.data_disks = t]
  OBVIOUS
<1>2. s \in Seq(Disks)
  BY DEF IsDocument
<1>3. t \in Seq(Disks)
  <2>1. CASE 1 \in DOMAIN s
    <3>1. [s[1] EXCEPT !.wipe = ~@] \in Disks
      <4> HIDE DEF s
      <4>1. s[1] \in Disks
        BY <1>2, <2>1
      <4> QED BY <4>1, WipedDisk
    <3> HIDE DEF s, Disks
    <3> QED BY <1>2, <2>1, <3>1
  <2>2. CASE 1 \notin DOMAIN s
    <3> HIDE DEF s, Disks
    <3>1. t = s
      BY <1>2, <2>2
    <3> QED BY <1>2, <3>1
  <2> QED BY <2>1, <2>2
<1>4. "data_disks" \in Fields
  BY FieldNames
<1> HIDE DEF t
<1> QED BY <1>1, <1>3, <1>4, EditedDocument

\* An editor leaves documents, and no claim about the bundle.
LEMMA EditKeeps ==
    ASSUME DocumentInv, InStep, Edit \/ EditWipe PROVE (DocumentInv /\ InStep)'
<1>1. /\ payload' = payload /\ stage' = stage /\ stage = "shell" /\ made' = made
      /\ outcome' = "none" /\ file # Nothing
  BY DEF Edit, EditWipe, Edits, Command, At, wizard
<1>2. IsDocument(file) /\ IsDocument(source) /\ IsDocument(payload)
  BY <1>1 DEF DocumentInv
<1>3. IsDocument(file') /\ IsDocument(source')
  <2>1. CASE Edit
    <3>1. PICK f \in Fields : \E v \in Values(f) :
             file' = [file EXCEPT ![f] = v] /\ source' = [source EXCEPT ![f] = v]
      BY <2>1 DEF Edit, Edits
    <3>2. PICK v \in Values(f) :
             file' = [file EXCEPT ![f] = v] /\ source' = [source EXCEPT ![f] = v]
      BY <3>1
    <3>3. f = "data_disks" => v \in Seq(Disks)
      BY <3>2, YamlAssumption
    <3> QED BY <1>2, <3>2, <3>3, EditedDocument
  <2>2. CASE EditWipe
    <3>1. /\ file' = [file EXCEPT !.data_disks[1].wipe = ~@]
          /\ source' = [source EXCEPT !.data_disks[1].wipe = ~@]
      BY <2>2 DEF EditWipe, Edits
    <3> QED BY <1>2, <3>1, FlippedDocument
  <2> QED BY <2>1, <2>2
<1>4. "shell" \notin Writing /\ "shell" \notin Filing
  BY DEF Writing, Filing, Rendered
<1> QED BY <1>1, <1>2, <1>3, <1>4 DEF DocumentInv, InStep, Filing, Rendered

\* Each step keeps the invariant.
LEMMA NextInv == DocumentInv /\ InStep /\ [Next]_vars => (DocumentInv /\ InStep)'
<1> SUFFICES ASSUME DocumentInv, InStep, [Next]_vars PROVE (DocumentInv /\ InStep)'
  OBVIOUS
<1>1. CASE UNCHANGED vars
  BY <1>1 DEF vars, wizard, bundle, DocumentInv, InStep, OneConfig
<1>2. CASE Gen
  <2>1. PICK present : Generate(file, {}, present)
    BY <1>2 DEF Gen
  <2>2. IsDocument(file) /\ Command
    BY <1>2 DEF Gen, Command, DocumentInv
  <2> QED BY <2>1, <2>2, GenerateKeeps
<1>3. CASE GenSet
  <2>1. PICK f \in Scalars : \E v \in Values(f) : Generate(ApplySet(file, f, v), {f}, TRUE)
    BY <1>3 DEF GenSet
  <2>2. PICK v \in Values(f) : Generate(ApplySet(file, f, v), {f}, TRUE)
    BY <2>1
  <2>3. IsDocument(file) /\ Command
    BY <1>3 DEF GenSet, Command, DocumentInv
  <2>4. f \in Fields /\ f # "data_disks"
    BY FieldNames DEF Scalars
  <2>5. IsDocument(ApplySet(file, f, v))
    BY <2>3, <2>4, EditedDocument DEF ApplySet
  <2> QED BY <2>2, <2>3, <2>5, GenerateKeeps
<1>4. CASE Restore
  <2>1. /\ stage' = stage /\ stage = "shell" /\ payload' = payload /\ made' = made
        /\ file' = source /\ source' = source /\ outcome' = "none" /\ source # Nothing
    BY <1>4 DEF Restore, At, wizard
  <2>2. "shell" \notin Writing /\ "shell" \notin Filing
    BY DEF Writing, Filing, Rendered
  <2> QED BY <2>1, <2>2 DEF DocumentInv, InStep, Filing, Rendered
<1> QED BY <1>1, <1>2, <1>3, <1>4, PromptKeeps, NewKeeps, FilesKeep, KickstartKeeps,
           FailureKeeps, EditKeeps DEF Next

(***************************************************************************)
(* Whatever was edited, refused, killed or cut short while it was written  *)
(* before, on any document: a `new' or `gen' that says it wrote a bundle   *)
(* left four files of one configuration, host.yaml loading to the config   *)
(* that the others were rendered from, until somebody edits it (#134).     *)
(***************************************************************************)
THEOREM BundleStaysOne == Spec => []BundleIsOneConfig
<1>1. Init => DocumentInv /\ InStep
  <2> SUFFICES ASSUME Init PROVE DocumentInv /\ InStep
    OBVIOUS
  <2>1. "shell" \notin Writing /\ "shell" \notin Filing
    BY DEF Writing, Filing, Rendered
  <2> QED BY <2>1, BlankDocument, YamlAssumption
          DEF Init, DocumentInv, InStep, Filing, Rendered
<1>2. InStep => BundleIsOneConfig
  BY DEF InStep, OneConfig, BundleIsOneConfig
<1> QED BY <1>1, <1>2, NextInv, PTL DEF Spec

-----------------------------------------------------------------------------
(***************************************************************************)
(* What generated bundles carry over: the file and what the operator asked *)
(* for differ only in what validation filled in and the dump dropped, and  *)
(* as long as nobody edited the fields that a value was derived from, it   *)
(* is the value validation would derive again.                             *)
(***************************************************************************)
Dropped == {"fips_mode", "ufw_port"}

MirrorCarried(a, b, y, e) ==
    a = b \/ (b = Null /\ a \in {"alma9", "alma10"}
                       /\ ("distro" \notin e => a = MirrorOf(y.distro)))

PresetCarried(y, z, e) ==
    y.preset = z.preset \/ (z.preset = Null /\ y.preset = "stig_server"
                            /\ (e \cap {"preset", "layout"} = {} => y.layout = <<>>))

DiskCarried(d, b) == d = b \/ (b.ids = {} /\ d = [b EXCEPT !.ids = {"partition"}])

DisksCarried(s, t) ==
    DOMAIN s = DOMAIN t /\ \A i \in DOMAIN s : DiskCarried(s[i], t[i])

NoStandard(y)  == y.packages = "lean" \/ y.at_standard = "no"
LeanRequired(y) == y.packages = "lean" \/ y.lean_required = "yes"

PackagesCarried(y, z) ==
    (NoStandard(y) <=> NoStandard(z)) /\ (LeanRequired(y) <=> LeanRequired(z))

Carries(y, z, e) ==
    /\ IsDocument(y) /\ IsDocument(z)
    /\ \A f \in Fields \ (FilledIn \cup Dropped) : y[f] = z[f]
    /\ y.fips_mode \in {z.fips_mode, Null}
    /\ MirrorCarried(y.baseos, z.baseos, y, e)
    /\ MirrorCarried(y.appstream, z.appstream, y, e)
    /\ "distro" \notin e => y.scap \in {z.scap, y.distro}
    /\ PresetCarried(y, z, e)
    /\ DisksCarried(y.data_disks, z.data_disks)
    /\ "data_disks" \notin e => Partitioned(y.data_disks) = Partitioned(z.data_disks)
    /\ "packages" \notin e => PackagesCarried(y, z)

\* What was asked for, once the overrides of the command at work count.
Asked == [f \in Fields |-> IF f \in sets THEN payload[f] ELSE source[f]]

Unwritten == {"tailoring.xml", "host.yaml"}

CarryInv ==
    /\ file # Nothing => Carries(file, source, edited)
    /\ stage \in Unwritten => Carries(payload, Asked, edited \cup sets)
    /\ stage \notin Unwritten => sets = {}

\* A document carries itself.
LEMMA CarriesItself == ASSUME NEW y, IsDocument(y), NEW e PROVE Carries(y, y, e)
BY DEF Carries, MirrorCarried, PresetCarried, DisksCarried, DiskCarried, PackagesCarried

\* What the fields beside the filled-in ones are.
LEMMA CarriedNames ==
    /\ {"distro", "source", "policy", "admin", "keys", "password", "sudo", "password_auth",
        "console_login_only", "layout", "luks", "target", "containers", "nts", "servers",
        "waived_nts", "packages", "updates", "interface"}
         = Fields \ (FilledIn \cup Dropped)
    /\ FilledIn \cup Dropped \subseteq Fields
BY FieldNames DEF FilledIn, Dropped

\* An edit of both leaves them carried, the edited field counted.
LEMMA CarriesEdit ==
    ASSUME NEW y, NEW z, NEW e, Carries(y, z, e), NEW f \in Fields, NEW v,
           f = "data_disks" => v \in Seq(Disks),
           NEW y2, y2 = [y EXCEPT ![f] = v],
           NEW z2, z2 = [z EXCEPT ![f] = v]
    PROVE  Carries(y2, z2, e \cup {f})
<1>0. IsDocument(y) /\ IsDocument(z)
  BY DEF Carries
<1>1. IsDocument(y2) /\ IsDocument(z2)
  BY <1>0, EditedDocument
<1>2. /\ \A g \in Fields : y2[g] = IF g = f THEN v ELSE y[g]
      /\ \A g \in Fields : z2[g] = IF g = f THEN v ELSE z[g]
  BY <1>0 DEF IsDocument
<1> DEFINE e2 == e \cup {f}
<1>3. \A g \in Fields \ (FilledIn \cup Dropped) : y2[g] = z2[g]
  BY <1>2 DEF Carries
<1>4. y2.fips_mode \in {z2.fips_mode, Null}
  <2>1. "fips_mode" \in Fields
    BY FieldNames
  <2> QED BY <1>2, <2>1 DEF Carries
<1>5. f # "distro" => y2.distro = y.distro
  BY <1>2, FieldNames
<1>6. MirrorCarried(y2.baseos, z2.baseos, y2, e2)
  <2>1. "baseos" \in Fields
    BY FieldNames
  <2> QED BY <1>2, <1>5, <2>1 DEF Carries, MirrorCarried
<1>7. MirrorCarried(y2.appstream, z2.appstream, y2, e2)
  <2>1. "appstream" \in Fields
    BY FieldNames
  <2> QED BY <1>2, <1>5, <2>1 DEF Carries, MirrorCarried
<1>8. "distro" \notin e2 => y2.scap \in {z2.scap, y2.distro}
  <2>1. "scap" \in Fields
    BY FieldNames
  <2> QED BY <1>2, <1>5, <2>1 DEF Carries
<1>9. PresetCarried(y2, z2, e2)
  <2>1. {"preset", "layout"} \subseteq Fields
    BY FieldNames
  <2>2. PresetCarried(y, z, e)
    BY DEF Carries
  <2>3. CASE f = "preset"
    BY <1>2, <2>1, <2>3 DEF PresetCarried
  <2>4. CASE f # "preset"
    <3>1. y2.preset = y.preset /\ z2.preset = z.preset
      BY <1>2, <2>1, <2>4
    <3>2. f # "layout" => y2.layout = y.layout
      BY <1>2, <2>1
    <3> QED BY <2>2, <3>1, <3>2 DEF PresetCarried
  <2> QED BY <2>3, <2>4
<1>10. /\ DisksCarried(y2.data_disks, z2.data_disks)
       /\ "data_disks" \notin e2 =>
             Partitioned(y2.data_disks) = Partitioned(z2.data_disks)
  <2>1. "data_disks" \in Fields
    BY FieldNames
  <2>2. CASE f = "data_disks"
    <3>1. y2.data_disks = v /\ z2.data_disks = v
      BY <1>2, <2>1, <2>2
    <3> QED BY <3>1 DEF DisksCarried, DiskCarried
  <2>3. CASE f # "data_disks"
    <3>1. y2.data_disks = y.data_disks /\ z2.data_disks = z.data_disks
      BY <1>2, <2>1, <2>3
    <3> QED BY <3>1 DEF Carries
  <2> QED BY <2>2, <2>3
<1>11. "packages" \notin e2 => PackagesCarried(y2, z2)
  <2>1. {"packages", "at_standard", "lean_required"} \subseteq Fields
    BY FieldNames
  <2> SUFFICES ASSUME f # "packages", "packages" \notin e PROVE PackagesCarried(y2, z2)
    OBVIOUS
  <2>2. y2.packages = y.packages /\ z2.packages = z.packages
    BY <1>2, <2>1
  <2>3. PackagesCarried(y, z) /\ y.packages = z.packages
    BY CarriedNames DEF Carries
  <2>4. NoStandard(y2) <=> NoStandard(z2)
    <3>1. y2.at_standard = IF f = "at_standard" THEN v ELSE y.at_standard
      BY <1>2, <2>1
    <3>2. z2.at_standard = IF f = "at_standard" THEN v ELSE z.at_standard
      BY <1>2, <2>1
    <3> QED BY <2>2, <2>3, <3>1, <3>2 DEF PackagesCarried, NoStandard
  <2>5. LeanRequired(y2) <=> LeanRequired(z2)
    <3>1. y2.lean_required = IF f = "lean_required" THEN v ELSE y.lean_required
      BY <1>2, <2>1
    <3>2. z2.lean_required = IF f = "lean_required" THEN v ELSE z.lean_required
      BY <1>2, <2>1
    <3> QED BY <2>2, <2>3, <3>1, <3>2 DEF PackagesCarried, LeanRequired
  <2> QED BY <2>4, <2>5 DEF PackagesCarried
<1> HIDE DEF e2
<1>12. Carries(y2, z2, e2)
  BY <1>1, <1>3, <1>4, <1>6, <1>7, <1>8, <1>9, <1>10, <1>11 DEF Carries
<1> QED BY <1>12 DEF e2

\* A disk that was given an identifier stays as it was written.
LEMMA DiskDefaulted ==
    ASSUME NEW d \in Disks, NEW b \in Disks, DiskCarried(d, b)
    PROVE  DiskCarried(DefaultPartition(d), b)
<1>1. CASE d = b
  BY <1>1 DEF DiskCarried, DefaultPartition
<1>2. CASE b.ids = {} /\ d = [b EXCEPT !.ids = {"partition"}]
  <2>1. d.ids # {}
    BY <1>2 DEF Disks
  <2>2. DefaultPartition(d) = d
    BY <2>1 DEF DefaultPartition
  <2> QED BY <2>2
<1> QED BY <1>1, <1>2 DEF DiskCarried

\* A command that writes the file back carries over what it was made from.
LEMMA CarriesDump ==
    ASSUME NEW y, NEW z, NEW e, Carries(y, z, e)
    PROVE  Carries(Dump(Config(y)), z, e)
<1> DEFINE c == Config(y)
           d == Dump(c)
<1>0. IsDocument(y) /\ IsDocument(z)
  BY DEF Carries
<1>1. IsDocument(d) /\ FilledFrom(c, y) /\ DumpedFrom(d, c) /\ Sources(c, y)
  BY <1>0, ConfigIsDocument, ConfigFields, DumpFields, SourcesStay
<1> HIDE DEF c, d
<1>2. \A f \in Fields \ (FilledIn \cup Dropped) : d[f] = y[f]
  BY <1>1 DEF FilledFrom, DumpedFrom, Dropped
<1>3. /\ d.baseos = c.baseos /\ d.appstream = c.appstream /\ d.preset = c.preset
      /\ d.at_standard = c.at_standard /\ d.lean_required = c.lean_required
      /\ d.data_disks = c.data_disks /\ d.scap = c.scap /\ d.fips_mode = Null
  BY <1>1, FieldNames DEF DumpedFrom
<1>4. d.distro = y.distro /\ d.layout = y.layout /\ d.packages = y.packages
  BY <1>2, CarriedNames
<1>5. MirrorCarried(d.baseos, z.baseos, d, e) /\ MirrorCarried(d.appstream, z.appstream, d, e)
  BY <1>1, <1>3, <1>4 DEF Carries, MirrorCarried, FilledFrom, MirrorOf
<1>6. "distro" \notin e => d.scap \in {z.scap, d.distro}
  BY <1>1, <1>3, <1>4 DEF FilledFrom
<1>7. PresetCarried(d, z, e)
  BY <1>1, <1>3, <1>4 DEF Carries, PresetCarried, FilledFrom
<1>8. d.data_disks = Partitioned(y.data_disks)
  BY <1>1, <1>3 DEF FilledFrom
<1>9. DisksCarried(d.data_disks, z.data_disks)
  <2>1. /\ DOMAIN d.data_disks = DOMAIN y.data_disks
        /\ \A i \in DOMAIN y.data_disks :
              d.data_disks[i] = DefaultPartition(y.data_disks[i])
    BY <1>8 DEF Partitioned
  <2>2. DisksCarried(y.data_disks, z.data_disks)
    BY DEF Carries
  <2>3. y.data_disks \in Seq(Disks) /\ z.data_disks \in Seq(Disks)
    BY <1>0 DEF IsDocument
  <2>4. \A i \in DOMAIN y.data_disks : y.data_disks[i] \in Disks /\ z.data_disks[i] \in Disks
    BY <2>2, <2>3 DEF DisksCarried
  <2>5. \A i \in DOMAIN y.data_disks : DiskCarried(d.data_disks[i], z.data_disks[i])
    BY <2>1, <2>2, <2>4, DiskDefaulted DEF DisksCarried
  <2> QED BY <2>1, <2>2, <2>5 DEF DisksCarried
<1>10. Partitioned(d.data_disks) = Partitioned(y.data_disks)
  <2>1. y.data_disks \in Seq(Disks)
    BY <1>0 DEF IsDocument
  <2> QED BY <1>8, <2>1, PartitionOnce DEF Partitioned
<1>11. PackagesCarried(d, y)
  BY <1>1, <1>3, <1>4 DEF PackagesCarried, NoStandard, LeanRequired, FilledFrom
<1>12. "packages" \notin e => PackagesCarried(d, z)
  BY <1>11 DEF Carries, PackagesCarried
<1>13. Carries(d, z, e)
  BY <1>0, <1>1, <1>2, <1>3, <1>5, <1>6, <1>7, <1>9, <1>10, <1>12 DEF Carries
<1> QED BY <1>13 DEF c, d

\* Two fields of a disk are set in either order.
LEMMA EitherOrder ==
    ASSUME NEW b \in Disks, NEW p, NEW v
    PROVE  /\ [[b EXCEPT !.ids = p] EXCEPT !.wipe = v] = [[b EXCEPT !.wipe = v] EXCEPT !.ids = p]
           /\ [b EXCEPT !.wipe = v].ids = b.ids
BY DEF Disks

Flipped(s) == [s EXCEPT ![1].wipe = ~@]

\* Turning the wipe flag of the same disk in both leaves them carried.
LEMMA CarriesWipe ==
    ASSUME NEW y, NEW z, NEW e, Carries(y, z, e), y.data_disks # <<>>,
           NEW y2, y2 = [y EXCEPT !.data_disks = Flipped(y.data_disks)],
           NEW z2, z2 = [z EXCEPT !.data_disks = Flipped(z.data_disks)]
    PROVE  Carries(y2, z2, e \cup {"data_disks"})
<1> DEFINE s == y.data_disks
           t == z.data_disks
           e2 == e \cup {"data_disks"}
           s2 == Flipped(s)
           t2 == Flipped(t)
<1>0. IsDocument(y) /\ IsDocument(z)
  BY DEF Carries
<1>1. s \in Seq(Disks) /\ t \in Seq(Disks) /\ DisksCarried(s, t)
  BY <1>0 DEF IsDocument, Carries
<1>2. 1 \in DOMAIN s /\ 1 \in DOMAIN t
  BY <1>1 DEF DisksCarried
<1>3. y2 = [y EXCEPT !.data_disks = s2] /\ z2 = [z EXCEPT !.data_disks = t2]
  OBVIOUS
<1> HIDE DEF s, t
<1>4. /\ DOMAIN s2 = DOMAIN s /\ DOMAIN t2 = DOMAIN t
      /\ \A i \in DOMAIN s : s2[i] = IF i = 1 THEN [s[1] EXCEPT !.wipe = ~@] ELSE s[i]
      /\ \A i \in DOMAIN t : t2[i] = IF i = 1 THEN [t[1] EXCEPT !.wipe = ~@] ELSE t[i]
  BY <1>2 DEF Flipped
<1>5. s2 \in Seq(Disks) /\ t2 \in Seq(Disks)
  <2>1. s[1] \in Disks /\ t[1] \in Disks
    BY <1>1, <1>2
  <2>2. [s[1] EXCEPT !.wipe = ~@] \in Disks /\ [t[1] EXCEPT !.wipe = ~@] \in Disks
    BY <2>1, WipedDisk
  <2> HIDE DEF Disks
  <2> QED BY <1>1, <1>2, <2>2 DEF Flipped
<1> HIDE DEF s2, t2
<1>6. DiskCarried(s2[1], t2[1])
  <2> DEFINE a == s[1]
             b == t[1]
             p == {"partition"}
             v == ~b.wipe
  <2>1. a \in Disks /\ b \in Disks /\ DiskCarried(a, b)
    BY <1>1, <1>2 DEF DisksCarried
  <2>2. s2[1] = [a EXCEPT !.wipe = ~a.wipe] /\ t2[1] = [b EXCEPT !.wipe = v]
    BY <1>2, <1>4
  <2> HIDE DEF a, b
  <2>3. CASE a = b
    BY <2>2, <2>3 DEF DiskCarried
  <2>4. CASE b.ids = {} /\ a = [b EXCEPT !.ids = p]
    <3> HIDE DEF p
    <3>1. a.wipe = b.wipe
      BY <2>1, <2>4 DEF Disks
    <3>2. s2[1] = [a EXCEPT !.wipe = v]
      BY <2>2, <3>1
    <3> HIDE DEF v
    <3>3. /\ [[b EXCEPT !.ids = p] EXCEPT !.wipe = v] = [[b EXCEPT !.wipe = v] EXCEPT !.ids = p]
          /\ [b EXCEPT !.wipe = v].ids = b.ids
      BY <2>1, EitherOrder
    <3>4. s2[1] = [t2[1] EXCEPT !.ids = p]
      BY <2>2, <2>4, <3>2, <3>3, Zenon
    <3>5. t2[1].ids = {}
      BY <2>2, <2>4, <3>3, Zenon
    <3> QED BY <3>4, <3>5 DEF DiskCarried, p
  <2> QED BY <2>1, <2>3, <2>4 DEF DiskCarried
<1>7. DisksCarried(s2, t2)
  <2>1. ASSUME NEW i \in DOMAIN s PROVE DiskCarried(s2[i], t2[i])
    <3>1. CASE i = 1
      BY <1>6, <3>1
    <3>2. CASE i # 1
      <4>1. i \in DOMAIN t /\ DiskCarried(s[i], t[i])
        BY <1>1 DEF DisksCarried
      <4>2. s2[i] = s[i] /\ t2[i] = t[i]
        BY <1>4, <3>2, <4>1
      <4> QED BY <4>1, <4>2
    <3> QED BY <3>1, <3>2
  <2>2. DOMAIN s2 = DOMAIN t2 /\ DOMAIN s2 = DOMAIN s
    BY <1>1, <1>4 DEF DisksCarried
  <2> QED BY <2>1, <2>2 DEF DisksCarried
<1>8. "data_disks" \in Fields
  BY FieldNames
<1>9. IsDocument(y2) /\ IsDocument(z2)
  BY <1>0, <1>3, <1>5, <1>8, EditedDocument
<1>10. /\ \A g \in Fields : y2[g] = IF g = "data_disks" THEN s2 ELSE y[g]
       /\ \A g \in Fields : z2[g] = IF g = "data_disks" THEN t2 ELSE z[g]
  BY <1>0, <1>3 DEF IsDocument
<1>11. \A g \in Fields \ (FilledIn \cup Dropped) : y2[g] = z2[g]
  BY <1>10 DEF Carries, FilledIn
<1>12. /\ y2.fips_mode = y.fips_mode /\ z2.fips_mode = z.fips_mode
       /\ y2.baseos = y.baseos /\ z2.baseos = z.baseos
       /\ y2.appstream = y.appstream /\ z2.appstream = z.appstream
       /\ y2.scap = y.scap /\ z2.scap = z.scap /\ y2.distro = y.distro
       /\ y2.preset = y.preset /\ z2.preset = z.preset /\ y2.layout = y.layout
       /\ y2.packages = y.packages /\ z2.packages = z.packages
       /\ y2.at_standard = y.at_standard /\ z2.at_standard = z.at_standard
       /\ y2.lean_required = y.lean_required /\ z2.lean_required = z.lean_required
       /\ y2.data_disks = s2 /\ z2.data_disks = t2
  BY <1>10, FieldNames
<1>13. /\ y2.fips_mode \in {z2.fips_mode, Null}
       /\ MirrorCarried(y2.baseos, z2.baseos, y2, e2)
       /\ MirrorCarried(y2.appstream, z2.appstream, y2, e2)
       /\ "distro" \notin e2 => y2.scap \in {z2.scap, y2.distro}
       /\ PresetCarried(y2, z2, e2)
  BY <1>12 DEF Carries, MirrorCarried, PresetCarried
<1>14. "packages" \notin e2 => PackagesCarried(y2, z2)
  BY <1>12 DEF Carries, PackagesCarried, NoStandard, LeanRequired
<1>15. DisksCarried(y2.data_disks, z2.data_disks)
  BY <1>7, <1>12
<1>16. "data_disks" \in e2
  OBVIOUS
<1> HIDE DEF e2
<1>17. Carries(y2, z2, e2)
  BY <1>9, <1>11, <1>13, <1>14, <1>15, <1>16 DEF Carries
<1> QED BY <1>17 DEF e2

\* A step that leaves the files alone, with no command at work.
LEMMA UntouchedCarry ==
    ASSUME CarryInv, UNCHANGED bundle, stage' \notin Unwritten, sets' = {} PROVE CarryInv'
BY DEF CarryInv, bundle

\* `new' begins again: the answers are all that was asked for.
LEMMA NewCarry == ASSUME DocumentInv, CarryInv, WriteInitial PROVE CarryInv'
<1>1. /\ file' = Dump(Config(payload)) /\ source' = payload /\ edited' = {}
      /\ sets = {} /\ "shell" \notin Unwritten
  BY DEF WriteInitial, At, CarryInv, Unwritten
<1>2. Carries(payload, payload, {}) /\ payload = [f \in Fields |-> payload[f]]
  BY CarriesItself DEF DocumentInv, IsDocument
<1>3. Carries(file', source', edited')
  BY <1>1, <1>2, CarriesDump
<1>4. CASE stage' = "tailoring.xml" /\ payload' = payload /\ sets' = sets
  <2>1. Asked' = payload
    BY <1>1, <1>2, <1>4 DEF Asked
  <2>2. edited' \cup sets' = {}
    BY <1>1, <1>4
  <2>3. Carries(payload', Asked', edited' \cup sets')
    BY <1>2, <1>4, <2>1, <2>2
  <2> QED BY <1>3, <1>4, <2>3 DEF CarryInv, Unwritten
<1>5. CASE stage' = "shell" /\ sets' = {}
  BY <1>1, <1>3, <1>5 DEF CarryInv
<1> QED BY <1>4, <1>5 DEF WriteInitial, Ends

\* A command that is refused, or begins with a document that carries what is
\* asked of it.
LEMMA GenerateCarry ==
    ASSUME CarryInv, Command, NEW doc, NEW changed, NEW present,
           Generate(doc, changed, present),
           Carries(doc, [g \in Fields |-> IF g \in changed THEN doc[g] ELSE source[g]],
                   edited \cup changed)
    PROVE  CarryInv'
<1>1. UNCHANGED bundle /\ stage = "shell" /\ stage \notin Unwritten /\ sets = {}
  BY DEF Generate, Command, At, CarryInv, Unwritten
<1>2. CASE Accepts(doc) /\ Renders(Config(doc), present)
  <2>1. stage' = "tailoring.xml" /\ payload' = doc /\ sets' = changed
    BY <1>2 DEF Generate
  <2>2. Asked' = [g \in Fields |-> IF g \in changed THEN doc[g] ELSE source[g]]
    BY <1>1, <2>1 DEF Asked, bundle
  <2>3. Carries(payload', Asked', edited' \cup sets')
    BY <1>1, <2>1, <2>2 DEF bundle
  <2> QED BY <1>1, <2>1, <2>3 DEF CarryInv, Unwritten, bundle
<1>3. CASE ~(Accepts(doc) /\ Renders(Config(doc), present))
  BY <1>1, <1>3, UntouchedCarry DEF Generate
<1> QED BY <1>2, <1>3

\* gen carries over what it loaded.
LEMMA GenCarry == ASSUME CarryInv, Gen PROVE CarryInv'
<1>1. PICK present : Generate(file, {}, present)
  BY DEF Gen
<1>2. Carries(file, source, edited) /\ Command
  BY DEF Gen, Command, CarryInv
<1>3. source = [g \in Fields |-> IF g \in {} THEN file[g] ELSE source[g]]
  BY <1>2 DEF Carries, IsDocument
<1>4. edited = edited \cup {}
  OBVIOUS
<1>5. Carries(file, [g \in Fields |-> IF g \in {} THEN file[g] ELSE source[g]], edited \cup {})
  BY <1>2, <1>3, <1>4
<1> QED BY <1>1, <1>2, <1>5, GenerateCarry

\* An override is an edit of both, and then a generation.
LEMMA GenSetCarry == ASSUME CarryInv, GenSet PROVE CarryInv'
<1>1. PICK f \in Scalars : \E v \in Values(f) : Generate(ApplySet(file, f, v), {f}, TRUE)
  BY DEF GenSet
<1>2. PICK v \in Values(f) : Generate(ApplySet(file, f, v), {f}, TRUE)
  BY <1>1
<1>3. Carries(file, source, edited) /\ Command
  BY DEF GenSet, Command, CarryInv
<1>4. f \in Fields /\ f # "data_disks"
  BY FieldNames DEF Scalars
<1> DEFINE y2 == [file EXCEPT ![f] = v]
           z2 == [source EXCEPT ![f] = v]
<1>5. Carries(y2, z2, edited \cup {f})
  BY <1>3, <1>4, CarriesEdit
<1>6. Generate(y2, {f}, TRUE)
  BY <1>2 DEF ApplySet
<1>7. [g \in Fields |-> IF g \in {f} THEN y2[g] ELSE source[g]] = z2
  <2>1. source = [g \in Fields |-> source[g]] /\ file = [g \in Fields |-> file[g]]
    BY <1>3 DEF Carries, IsDocument
  <2> QED BY <1>4, <2>1
<1> HIDE DEF y2, z2
<1> QED BY <1>3, <1>5, <1>6, <1>7, GenerateCarry

\* host.yaml is written back: it carries what the command was given.
LEMMA YamlCarry == ASSUME CarryInv, WriteYaml PROVE CarryInv'
<1>1. /\ stage = "host.yaml" /\ stage' = "exceptions.md" /\ file' = Dump(Config(payload))
      /\ source' = Asked /\ edited' = edited \cup sets /\ sets' = {}
  BY DEF WriteYaml, At, WrittenBack, Asked
<1>2. Carries(payload, Asked, edited \cup sets)
  BY <1>1 DEF CarryInv, Unwritten
<1>3. Carries(file', source', edited')
  BY <1>1, <1>2, CarriesDump
<1> QED BY <1>1, <1>3 DEF CarryInv, Unwritten

\* The other files of a bundle do not touch it.
LEMMA FilesCarry ==
    ASSUME CarryInv, WriteTailoring \/ WriteExceptions \/ WriteKickstart PROVE CarryInv'
<1>1. UNCHANGED <<file, source, edited>>
  BY DEF WriteTailoring, WriteExceptions, WriteKickstart, Render
<1>2. CASE WriteTailoring
  <2>1. stage = "tailoring.xml" /\ stage' = "host.yaml" /\ payload' = payload /\ sets' = sets
    BY <1>2 DEF WriteTailoring, Render, At
  <2>2. Asked' = Asked
    BY <1>1, <2>1 DEF Asked
  <2>3. Carries(payload', Asked', edited' \cup sets')
    BY <1>1, <2>1, <2>2 DEF CarryInv, Unwritten
  <2> QED BY <1>1, <2>1, <2>3 DEF CarryInv, Unwritten
<1>3. CASE WriteExceptions \/ WriteKickstart
  <2>1. stage' \notin Unwritten /\ stage \notin Unwritten /\ sets' \in {sets, {}}
    BY <1>3 DEF WriteExceptions, WriteKickstart, Render, Ends, At, Unwritten
  <2> QED BY <1>1, <2>1 DEF CarryInv
<1> QED BY <1>2, <1>3

\* A write that fails leaves the file as it was, or none.
LEMMA FailureCarry == ASSUME CarryInv, WriteFails PROVE CarryInv'
<1>1. stage' = "shell" /\ sets' = {} /\ "shell" \notin Unwritten
  BY DEF WriteFails, Ends, Unwritten
<1>2. file' = Nothing \/ UNCHANGED <<file, source, edited>>
  BY DEF WriteFails
<1> QED BY <1>1, <1>2 DEF CarryInv

\* A copy of what was asked for carries it.
LEMMA RestoreCarry == ASSUME DocumentInv, CarryInv, Restore PROVE CarryInv'
<1>1. /\ file' = source /\ source' = source /\ source # Nothing
      /\ stage' = "shell" /\ stage = "shell" /\ sets' = sets /\ "shell" \notin Unwritten
  BY DEF Restore, At, wizard, Unwritten
<1>2. Carries(file', source', edited')
  BY <1>1, CarriesItself DEF DocumentInv
<1> QED BY <1>1, <1>2 DEF CarryInv

\* The editor runs while no command does.
LEMMA EditorAlone ==
    ASSUME CarryInv, Edit \/ EditWipe
    PROVE  stage' \notin Unwritten /\ sets' = {}
BY DEF Edit, EditWipe, Edits, Command, At, wizard, CarryInv, Unwritten

\* It changes both.
LEMMA EditCarry == ASSUME CarryInv, Edit PROVE CarryInv'
<1>1. PICK f \in Fields : \E v \in Values(f) :
        Edits(f, <<[file EXCEPT ![f] = v], [source EXCEPT ![f] = v]>>)
  BY DEF Edit
<1>2. PICK v \in Values(f) :
        Edits(f, <<[file EXCEPT ![f] = v], [source EXCEPT ![f] = v]>>)
  BY <1>1
<1>3. /\ file' = [file EXCEPT ![f] = v] /\ source' = [source EXCEPT ![f] = v]
      /\ edited' = edited \cup {f} /\ file # Nothing
  BY <1>2 DEF Edits, Command
<1>4. f = "data_disks" => v \in Seq(Disks)
  BY <1>2, YamlAssumption
<1>5. Carries(file', source', edited')
  BY <1>3, <1>4, CarriesEdit DEF CarryInv
<1> QED BY <1>5, EditorAlone DEF CarryInv

LEMMA WipeCarry == ASSUME CarryInv, EditWipe PROVE CarryInv'
<1>1. /\ file' = [file EXCEPT !.data_disks = Flipped(file.data_disks)]
      /\ source' = [source EXCEPT !.data_disks = Flipped(source.data_disks)]
      /\ edited' = edited \cup {"data_disks"} /\ file # Nothing
      /\ file.data_disks # <<>>
  BY DEF EditWipe, Edits, Command, Flipped
<1>2. Carries(file', source', edited')
  BY <1>1, CarriesWipe DEF CarryInv
<1> QED BY <1>2, EditorAlone DEF CarryInv

LEMMA CarryStep == DocumentInv /\ CarryInv /\ [Next]_vars => CarryInv'
<1> SUFFICES ASSUME DocumentInv, CarryInv, [Next]_vars PROVE CarryInv'
  OBVIOUS
<1>1. CASE UNCHANGED vars
  BY <1>1 DEF vars, wizard, bundle, CarryInv, Asked
<1>2. CASE \/ StartNew \/ GiveUp \/ AskSudo \/ AskKeys \/ AskPolicy \/ PortIsNoNumber
           \/ AskGroups \/ AskDisk \/ AskLuks \/ AskPassphrase \/ AskDataDisk
           \/ EndDataDisks \/ AskNetwork \/ AskOverrides \/ ValidateAnswers
  <2>1. UNCHANGED bundle /\ sets' \in {sets, {}}
    BY <1>2 DEF StartNew, GiveUp, AskSudo, AskKeys, AskPolicy, PortIsNoNumber, AskGroups,
       AskDisk, AskLuks, AskPassphrase, AskDataDisk, EndDataDisks, AskNetwork,
       AskOverrides, ValidateAnswers, Answers, AnswersLast, Ends
  <2>2. stage \notin Unwritten
    BY <1>2 DEF StartNew, GiveUp, AskSudo, AskKeys, AskPolicy, PortIsNoNumber, AskGroups,
       AskDisk, AskLuks, AskPassphrase, AskDataDisk, EndDataDisks, AskNetwork,
       AskOverrides, ValidateAnswers, At, Writing, Rendered, Unwritten
  <2>3. stage' \notin Unwritten
    <3>1. \A left : NextGroup(left) \notin Unwritten
      BY DEF NextGroup, Unwritten
    <3>2. \A s \in {"shell", "core", "keys", "policy", "groups", "luks", "passphrase",
                    "data_disks", "initial"} : s \notin Unwritten
      BY DEF Unwritten
    <3>3. CASE StartNew \/ GiveUp \/ AskSudo \/ AskKeys \/ AskPolicy \/ PortIsNoNumber
      BY <3>2, <3>3 DEF StartNew, GiveUp, AskSudo, AskKeys, AskPolicy, PortIsNoNumber,
         Answers, Ends
    <3>4. CASE AskGroups \/ AskNetwork \/ AskOverrides
      BY <3>1, <3>4 DEF AskGroups, AskNetwork, AskOverrides, AnswersLast
    <3>5. CASE AskDisk \/ EndDataDisks
      BY <3>1, <3>2, <3>5 DEF AskDisk, EndDataDisks, Answers, AnswersLast, Ends
    <3>6. CASE AskLuks \/ AskDataDisk \/ ValidateAnswers
      BY <3>2, <3>6 DEF AskLuks, AskDataDisk, ValidateAnswers, Answers, Ends
    <3>7. CASE AskPassphrase
      BY <2>2, <3>2, <3>7 DEF AskPassphrase, Answers, Ends
    <3> QED BY <1>2, <3>3, <3>4, <3>5, <3>6, <3>7
  <2>4. sets' = {}
    BY <2>1, <2>2 DEF CarryInv
  <2> QED BY <2>1, <2>3, <2>4, UntouchedCarry
<1> QED BY <1>1, <1>2, NewCarry, GenCarry, GenSetCarry, YamlCarry, FilesCarry,
           FailureCarry, RestoreCarry, EditCarry, WipeCarry DEF Next

LEMMA InitInv == Init => DocumentInv /\ InStep /\ CarryInv
<1> SUFFICES ASSUME Init PROVE DocumentInv /\ InStep /\ CarryInv
  OBVIOUS
<1>1. "shell" \notin Writing /\ "shell" \notin Filing /\ "shell" \notin Unwritten
  BY DEF Writing, Filing, Rendered, Unwritten
<1>2. DocumentInv /\ InStep
  BY <1>1, BlankDocument, YamlAssumption DEF Init, DocumentInv, InStep, Filing, Rendered
<1>3. file # Nothing => Carries(file, source, edited)
  BY YamlAssumption, CarriesItself DEF Init
<1> QED BY <1>1, <1>2, <1>3 DEF Init, CarryInv

-----------------------------------------------------------------------------
(***************************************************************************)
(* What carrying over is good for: both load to the same config.           *)
(***************************************************************************)
Mirrors == {"baseos", "appstream"}

\* The kickstart does not see the dropped fields, nor the mirrors of a
\* media install.
LEMMA EffectOf ==
    ASSUME NEW c, NEW k, IsDocument(c), IsDocument(k),
           \A f \in Fields \ (Dropped \cup Mirrors) : c[f] = k[f],
           c.source = "network" => c.baseos = k.baseos /\ c.appstream = k.appstream
    PROVE  Effective(c) = Effective(k)
<1> DEFINE d == Dump(c)
           m == Dump(k)
<1>1. DumpedFrom(d, c) /\ DumpedFrom(m, k)
  BY DumpFields
<1>2. c.source = k.source
  BY FieldNames DEF Dropped, Mirrors
<1> HIDE DEF d, m
<1>3. \A f \in Fields \ Mirrors : d[f] = m[f]
  <2>1. \A f \in Fields \ (Dropped \cup Mirrors) : d[f] = m[f]
    BY <1>1 DEF DumpedFrom, Dropped
  <2>2. d.fips_mode = m.fips_mode /\ d.ufw_port = m.ufw_port
    BY <1>1 DEF DumpedFrom
  <2> QED BY <2>1, <2>2 DEF Dropped
<1>4. CASE c.source = "network"
  <2>1. d.baseos = c.baseos /\ d.appstream = c.appstream
        /\ m.baseos = k.baseos /\ m.appstream = k.appstream
    BY <1>1, FieldNames DEF DumpedFrom
  <2>2. \A f \in Fields : d[f] = m[f]
    BY <1>3, <1>4, <2>1 DEF Mirrors
  <2>3. d = m
    BY <1>1, <2>2, SameDocument DEF DumpedFrom
  <2> QED BY <1>2, <1>4, <2>3 DEF Effective, d, m
<1>5. CASE c.source # "network"
  <2> DEFINE a == [d EXCEPT !.baseos = Null, !.appstream = Null]
             b == [m EXCEPT !.baseos = Null, !.appstream = Null]
  <2>1. d = [f \in Fields |-> d[f]] /\ m = [f \in Fields |-> m[f]]
    BY <1>1 DEF DumpedFrom
  <2>2. a = [f \in Fields |-> a[f]] /\ \A f \in Fields : a[f] = IF f \in Mirrors THEN Null ELSE d[f]
    BY <2>1, FieldNames DEF Mirrors
  <2>3. b = [f \in Fields |-> b[f]] /\ \A f \in Fields : b[f] = IF f \in Mirrors THEN Null ELSE m[f]
    BY <2>1, FieldNames DEF Mirrors
  <2>4. Effective(c) = a /\ Effective(k) = b
    BY <1>2, <1>5 DEF Effective, d, m
  <2> HIDE DEF a, b
  <2>5. \A f \in Fields : a[f] = b[f]
    BY <1>3, <2>2, <2>3
  <2>6. a = b
    BY <2>2, <2>3, <2>5, SameDocument
  <2> QED BY <2>4, <2>6
<1> QED BY <1>4, <1>5

\* Both configs, beside the filled-in fields.
LEMMA SameConfig ==
    ASSUME NEW y, NEW z, NEW e, Carries(y, z, e),
           NEW c, FilledFrom(c, y), NEW k, FilledFrom(k, z)
    PROVE  /\ \A f \in Fields \ (FilledIn \cup Dropped) : c[f] = k[f]
           /\ y.distro = z.distro /\ y.layout = z.layout /\ y.source = z.source
           /\ y.policy = z.policy
           /\ c.distro = y.distro /\ c.layout = y.layout /\ c.source = y.source
           /\ c.policy = y.policy
           /\ k.distro = z.distro /\ k.policy = z.policy /\ k.layout = z.layout
           /\ k.scap = c.scap
<1>1. \A f \in Fields \ (FilledIn \cup Dropped) :
         c[f] = y[f] /\ y[f] = z[f] /\ k[f] = z[f]
  BY DEF FilledFrom, Carries
<1>2. \A f \in Fields \ (FilledIn \cup Dropped) : c[f] = k[f]
  BY <1>1
<1>3. /\ y.distro = z.distro /\ y.layout = z.layout /\ y.source = z.source
      /\ y.policy = z.policy
      /\ c.distro = y.distro /\ c.layout = y.layout /\ c.source = y.source
      /\ c.policy = y.policy
      /\ k.distro = z.distro /\ k.policy = z.policy /\ k.layout = z.layout
  BY <1>1, CarriedNames
<1>4. k.scap = c.scap
  BY <1>3 DEF FilledFrom
<1> QED BY <1>2, <1>3, <1>4

\* Nobody edited what is spelled out next to its origin: the file loads.
LEMMA CarriedIsAccepted ==
    ASSUME NEW y, NEW z, NEW e, Carries(y, z, e), Accepts(z),
           e \cap SpelledOut = {}
    PROVE  Accepts(y)
<1> DEFINE c == Config(y)
           k == Config(z)
<1>1. FilledFrom(c, y) /\ FilledFrom(k, z)
  BY ConfigFields DEF Carries
<1>2. Loads(z) /\ PartsAreValid(k) /\ FipsModeAgrees(k) /\ HostIsValid(k)
  BY DEF Accepts, ExitOf, Loads
<1> HIDE DEF c, k
<1>3. /\ \A f \in Fields \ (FilledIn \cup Dropped) : c[f] = k[f]
      /\ y.distro = z.distro /\ y.layout = z.layout
      /\ c.policy = k.policy
  BY <1>1, SameConfig
<1>4. "distro" \notin e /\ e \cap {"preset", "layout"} = {} /\ "data_disks" \notin e
  BY DEF SpelledOut
<1>5. y.distro \in Distros
  BY <1>2, <1>3 DEF Loads, DistroIsSupported
<1>6. c.baseos = k.baseos /\ c.appstream = k.appstream
  BY <1>1, <1>3, <1>4 DEF Carries, MirrorCarried, FilledFrom, Null
<1>7. c.preset = k.preset /\ c.data_disks = k.data_disks
  BY <1>1, <1>3, <1>4 DEF Carries, PresetCarried, FilledFrom, Null
<1>8. Alike(c, k)
  <2>1. /\ c.distro = k.distro /\ c.source = k.source /\ c.policy = k.policy
        /\ c.admin = k.admin /\ c.keys = k.keys /\ c.password = k.password
        /\ c.sudo = k.sudo /\ c.password_auth = k.password_auth
        /\ c.console_login_only = k.console_login_only
    BY <1>3, CarriedNames
  <2>2. /\ c.layout = k.layout /\ c.luks = k.luks
        /\ c.target = k.target /\ c.containers = k.containers /\ c.nts = k.nts
        /\ c.servers = k.servers /\ c.waived_nts = k.waived_nts
        /\ c.updates = k.updates /\ c.interface = k.interface
    BY <1>3, CarriedNames
  <2> QED BY <1>6, <1>7, <2>1, <2>2 DEF Alike
<1>9. PartsAreValid(c) /\ HostIsValid(c)
  BY <1>2, <1>8, AlikeParts, AlikeHost
<1>10. FipsModeAgrees(c)
  <2>1. "fips_mode" \in Fields \ FilledIn
    BY FieldNames DEF FilledIn
  <2>2. c.fips_mode = y.fips_mode /\ k.fips_mode = z.fips_mode
    BY <1>1, <2>1 DEF FilledFrom
  <2>3. c.fips_mode \in {k.fips_mode, Null}
    BY <2>2 DEF Carries
  <2> QED BY <1>2, <1>3, <2>3 DEF FipsModeAgrees, KernelFips, Null
<1>11. ScapContentMatches(y)
  <2>1. y.scap \in {z.scap, y.distro} /\ y.distro # "unset"
    BY <1>4, <1>5 DEF Carries, Distros
  <2> QED BY <1>2, <1>3, <2>1 DEF Loads, ScapContentMatches
<1>12. PresetXorLayout(y)
  BY <1>2, <1>3, <1>4 DEF Loads, PresetXorLayout, Carries, PresetCarried
<1>13. DistroIsSupported(y)
  BY <1>2, <1>3 DEF Loads, DistroIsSupported
<1> QED BY <1>9, <1>10, <1>11, <1>12, <1>13 DEF Accepts, ExitOf, Loads, c

\* A disk that both documents may name is the same disk of the host.
LEMMA CarriedDisks ==
    ASSUME NEW s \in Seq(Disks), NEW t \in Seq(Disks), DisksCarried(s, t),
           \A d \in Elements(Partitioned(s)) : IdentifierIsValid(d)
    PROVE  Partitioned(s) = Partitioned(t)
<1>1. ASSUME NEW i \in DOMAIN s PROVE DefaultPartition(s[i]) = DefaultPartition(t[i])
  <2> DEFINE d == s[i]
             b == t[i]
  <2>1. DiskCarried(d, b) /\ d \in Disks /\ b \in Disks
    BY DEF DisksCarried
  <2>2. IdentifierIsValid(DefaultPartition(d))
    <3>1. DefaultPartition(d) \in Elements(Partitioned(s))
      BY DEF Elements, Partitioned
    <3> QED BY <3>1
  <2> HIDE DEF d, b
  <2>3. CASE d = b
    BY <2>3 DEF d, b
  <2>4. CASE b.ids = {} /\ d = [b EXCEPT !.ids = {"partition"}]
    <3>1. d.ids = {"partition"} /\ d.wipe = b.wipe
      BY <2>1, <2>4 DEF Disks
    <3>2. DefaultPartition(d) = d
      BY <3>1 DEF DefaultPartition
    <3>3. ~b.wipe
      BY <2>2, <3>1, <3>2 DEF IdentifierIsValid
    <3>4. DefaultPartition(b) = d
      BY <2>4, <3>3 DEF DefaultPartition
    <3> QED BY <3>2, <3>4 DEF d, b
  <2> QED BY <2>1, <2>3, <2>4 DEF DiskCarried
<1> QED BY <1>1 DEF Partitioned, DisksCarried

\* A mirror that both may name is the same mirror.
LEMMA CarriedMirror ==
    ASSUME NEW a, NEW b, NEW y, NEW e, MirrorCarried(a, b, y, e), NEW distro \in Distros,
           a \notin {"alma9", "alma10"} \ {distro}
    PROVE  a = b \/ (b = Null /\ a = MirrorOf(distro) /\ a # Null)
BY DEF MirrorCarried, MirrorOf, Distros, Null

\* What both accept is the same host.
LEMMA CarriedIsMeant ==
    ASSUME NEW y, NEW z, NEW e, Carries(y, z, e), Accepts(z), Accepts(y),
           "packages" \notin e
    PROVE  Effective(Config(y)) = Effective(Config(z))
<1> DEFINE c == Config(y)
           k == Config(z)
<1>0. IsDocument(y) /\ IsDocument(z)
  BY DEF Carries
<1>1. FilledFrom(c, y) /\ FilledFrom(k, z) /\ IsDocument(c) /\ IsDocument(k)
  BY <1>0, ConfigFields, ConfigIsDocument
<1>2. Loads(y) /\ PartsAreValid(c) /\ HostIsValid(c)
  BY DEF Accepts, ExitOf, Loads
<1> HIDE DEF c, k
<1>3. /\ \A f \in Fields \ (FilledIn \cup Dropped) : c[f] = k[f]
      /\ y.distro = z.distro /\ y.layout = z.layout /\ c.distro = y.distro
      /\ k.scap = c.scap
  BY <1>1, SameConfig
<1>4. c.preset = k.preset
  BY <1>1, <1>2, <1>3 DEF Carries, PresetCarried, FilledFrom, Loads, PresetXorLayout, Null
<1>5. c.data_disks = k.data_disks
  <2>1. c.data_disks = Partitioned(y.data_disks) /\ k.data_disks = Partitioned(z.data_disks)
    BY <1>1 DEF FilledFrom
  <2>2. \A d \in Elements(Partitioned(y.data_disks)) : IdentifierIsValid(d)
    BY <1>2, <2>1 DEF PartsAreValid
  <2>3. DisksCarried(y.data_disks, z.data_disks)
    BY DEF Carries
  <2>4. y.data_disks \in Seq(Disks) /\ z.data_disks \in Seq(Disks)
    BY <1>0 DEF IsDocument
  <2> QED BY <2>1, <2>2, <2>3, <2>4, CarriedDisks
<1>6. c.at_standard = k.at_standard /\ c.lean_required = k.lean_required
  <2>1. PackagesCarried(y, z)
    BY DEF Carries
  <2> QED BY <1>1, <2>1 DEF FilledFrom, PackagesCarried, NoStandard, LeanRequired
<1>7. \A f \in Fields \ (Dropped \cup Mirrors) : c[f] = k[f]
  BY <1>3, <1>4, <1>5, <1>6 DEF FilledIn, Mirrors
<1>8. ASSUME c.source = "network" PROVE c.baseos = k.baseos /\ c.appstream = k.appstream
  <2>1. {c.baseos, c.appstream} \cap ({"alma9", "alma10"} \ {y.distro}) = {}
    BY <1>2, <1>3, <1>8 DEF HostIsValid, MirrorsAreOwn
  <2>2. y.distro \in Distros
    BY <1>2 DEF Loads, DistroIsSupported
  <2>3. /\ MirrorCarried(y.baseos, z.baseos, y, e)
        /\ MirrorCarried(y.appstream, z.appstream, y, e)
    BY DEF Carries
  <2>4. /\ y.baseos # Null => c.baseos = y.baseos
        /\ y.appstream # Null => c.appstream = y.appstream
        /\ y.baseos = Null => c.baseos = MirrorOf(y.distro)
        /\ y.appstream = Null => c.appstream = MirrorOf(y.distro)
        /\ k.baseos = IF z.baseos = Null THEN MirrorOf(y.distro) ELSE z.baseos
        /\ k.appstream = IF z.appstream = Null THEN MirrorOf(y.distro) ELSE z.appstream
    BY <1>1, <1>3 DEF FilledFrom
  <2>5. Null \notin {"alma9", "alma10"}
    BY DEF Null
  <2>6. y.baseos \notin {"alma9", "alma10"} \ {y.distro}
    BY <2>1, <2>4, <2>5
  <2>7. y.appstream \notin {"alma9", "alma10"} \ {y.distro}
    BY <2>1, <2>4, <2>5
  <2>8. y.baseos = z.baseos
        \/ (z.baseos = Null /\ y.baseos = MirrorOf(y.distro) /\ y.baseos # Null)
    BY <2>2, <2>3, <2>6, CarriedMirror
  <2>9. y.appstream = z.appstream
        \/ (z.appstream = Null /\ y.appstream = MirrorOf(y.distro) /\ y.appstream # Null)
    BY <2>2, <2>3, <2>7, CarriedMirror
  <2> QED BY <2>4, <2>8, <2>9
<1>9. Effective(c) = Effective(k)
  BY <1>1, <1>7, <1>8, EffectOf
<1> QED BY <1>9 DEF c, k

(***************************************************************************)
(* Generating a bundle in place never changes what a later edit means,     *)
(* after any number of commands and edits of any values: where the file    *)
(* loads it loads to the config of the operator's own file with the same   *)
(* edits, and it loads if nobody edited what is spelled out next to its    *)
(* origin (#84, #134).                                                     *)
(***************************************************************************)
THEOREM EditsStayMeant == Spec => []EditsMeanTheSame
<1>1. Init => DocumentInv /\ InStep /\ CarryInv
  BY InitInv
<1>2. CarryInv => EditsMeanTheSame
  BY CarriedIsAccepted, CarriedIsMeant DEF CarryInv, EditsMeanTheSame
<1> QED BY <1>1, <1>2, NextInv, CarryStep, PTL DEF Spec

-----------------------------------------------------------------------------
(***************************************************************************)
(* The parts of the type invariant.                                        *)
(***************************************************************************)
PromptsOK ==
    /\ stage \in {"shell", "core", "keys", "policy", "groups", "disk", "luks",
                  "passphrase", "data_disks", "network", "overrides", "validate"}
                 \cup Writing
    /\ groups \subseteq {"disk", "network", "overrides"} /\ tries \in 0..(RetryLimit - 1)

EditsOK ==
    /\ edited \subseteq Fields /\ budget \in 0..MaxEdits
    /\ sets = {} \/ (budget > 0 /\ \E f \in Fields : sets = {f})

Outcomes == {"written", "none", "usage", "crash", "config_invalid", "rule_conflict"}

Complete(c) == /\ Null \notin {c.scap, c.baseos, c.appstream, c.at_standard, c.lean_required}
               /\ c.preset # Null \/ c.layout # <<>>

MadeOK == \A f \in Rendered : made[f] # Nothing => Complete(made[f])

TypeInv == PromptsOK /\ EditsOK /\ outcome \in Outcomes /\ MadeOK

\* Nothing is left open in a config that was accepted.
LEMMA AcceptedIsComplete ==
    ASSUME NEW y, IsDocument(y), Accepts(y) PROVE Complete(Config(y))
<1> DEFINE c == Config(y)
<1>1. FilledFrom(c, y)
  BY ConfigFields
<1>2. y.distro \in Distros
  BY DEF Accepts, ExitOf, Loads, DistroIsSupported
<1> HIDE DEF c
<1>3. c.scap # Null /\ c.baseos # Null /\ c.appstream # Null
  BY <1>1, <1>2 DEF FilledFrom, MirrorOf, Distros, Null
<1>4. c.at_standard # Null /\ c.lean_required # Null
  BY <1>1 DEF FilledFrom, Null
<1>5. c.preset # Null \/ c.layout # <<>>
  BY <1>1, SourcesStay DEF FilledFrom, Sources, Null
<1>6. Complete(c)
  BY <1>3, <1>4, <1>5 DEF Complete
<1> QED BY <1>6 DEF c

\* A prompt leads to a prompt, a file to the next one.
LEMMA PromptsStep == PromptsOK /\ [Next]_vars => PromptsOK'
<1> SUFFICES ASSUME PromptsOK, [Next]_vars PROVE PromptsOK'
  OBVIOUS
<1>1. CASE UNCHANGED vars \/ Edit \/ EditWipe \/ Restore
  <2>1. UNCHANGED wizard
    BY <1>1 DEF vars, Edit, EditWipe, Edits, Restore
  <2> QED BY <2>1 DEF wizard, PromptsOK
<1>2. ASSUME NEW how, Ends(how) PROVE PromptsOK'
  BY <1>2 DEF Ends, PromptsOK, RetryLimit
<1>3. ASSUME stage' \in {"core", "initial"} \cup Writing, UNCHANGED <<groups, tries>>
      PROVE  PromptsOK'
  BY <1>3 DEF PromptsOK, Writing
<1>4. CASE StartNew
  BY <1>3, <1>4 DEF StartNew
<1>5. CASE GiveUp \/ PortIsNoNumber \/ WriteKickstart \/ WriteFails
  BY <1>2, <1>5 DEF GiveUp, PortIsNoNumber, WriteKickstart, WriteFails
<1>6. CASE ValidateAnswers
  BY <1>2, <1>3, <1>6 DEF ValidateAnswers, Answers
<1>7. CASE WriteInitial
  BY <1>2, <1>3, <1>7 DEF WriteInitial, Writing, Rendered
<1>8. ASSUME NEW doc, NEW changed, NEW present, Generate(doc, changed, present)
      PROVE  PromptsOK'
  <2>1. stage' \in {stage, "tailoring.xml"} /\ UNCHANGED <<groups, tries>>
    BY <1>8 DEF Generate
  <2> QED BY <2>1 DEF PromptsOK, Writing, Rendered
<1>9. CASE Gen \/ GenSet
  BY <1>8, <1>9 DEF Gen, GenSet
<1>10. CASE WriteTailoring \/ WriteYaml \/ WriteExceptions
  BY <1>3, <1>10 DEF WriteTailoring, WriteYaml, WriteExceptions, Render, Writing, Rendered
<1>11. CASE AskSudo \/ AskKeys \/ AskPolicy \/ AskLuks \/ AskDataDisk
  BY <1>11 DEF AskSudo, AskKeys, AskPolicy, AskLuks, AskDataDisk, Answers, PromptsOK
<1>12. CASE AskPassphrase
  BY <1>12 DEF AskPassphrase, Answers, Ends, PromptsOK, RetryLimit
<1>13. ASSUME NEW left \in SUBSET {"disk", "network", "overrides"}, NEW answers,
              AnswersLast(left, answers)
       PROVE  PromptsOK'
  BY <1>13 DEF AnswersLast, NextGroup, PromptsOK
<1>14. CASE AskGroups
  BY <1>13, <1>14 DEF AskGroups
<1>15. groups \ {"disk"} \in SUBSET {"disk", "network", "overrides"}
       /\ groups \ {"network"} \in SUBSET {"disk", "network", "overrides"}
  BY DEF PromptsOK
<1>16. CASE AskDisk
  <2>1. PICK answers : AnswersLast(groups \ {"disk"}, answers) \/ Answers("luks", answers)
    BY <1>16 DEF AskDisk
  <2> QED BY <1>13, <1>15, <2>1 DEF Answers, PromptsOK
<1>17. CASE EndDataDisks
  BY <1>2, <1>13, <1>15, <1>17 DEF EndDataDisks
<1>18. CASE AskNetwork
  <2>1. PICK answers : AnswersLast(groups \ {"network"}, answers)
    BY <1>18 DEF AskNetwork
  <2> QED BY <1>13, <1>15, <2>1
<1>19. CASE AskOverrides
  <2>1. PICK answers : AnswersLast({}, answers)
    BY <1>19 DEF AskOverrides
  <2> QED BY <1>13, <2>1
<1> QED BY <1>1, <1>4, <1>5, <1>6, <1>7, <1>9, <1>10, <1>11, <1>12, <1>14, <1>16, <1>17,
           <1>18, <1>19 DEF Next

\* The edits, and an override on its way to the file.
LEMMA EditsStep ==
    ASSUME CarryInv, EditsOK, [Next]_vars PROVE EditsOK'
<1>0. budget \in 0..MaxEdits /\ MaxEdits \in Nat
  BY YamlAssumption DEF EditsOK
<1>1. ASSUME UNCHANGED <<edited, budget>>, sets' \in {sets, {}} PROVE EditsOK'
  BY <1>1 DEF EditsOK
<1>2. CASE UNCHANGED vars
  BY <1>1, <1>2 DEF vars, wizard, bundle
<1>3. CASE \/ StartNew \/ GiveUp \/ AskSudo \/ AskKeys \/ AskPolicy \/ PortIsNoNumber
           \/ AskGroups \/ AskDisk \/ AskLuks \/ AskPassphrase \/ AskDataDisk
           \/ EndDataDisks \/ AskNetwork \/ AskOverrides \/ ValidateAnswers
  BY <1>1, <1>3 DEF StartNew, GiveUp, AskSudo, AskKeys, AskPolicy, PortIsNoNumber, AskGroups,
     AskDisk, AskLuks, AskPassphrase, AskDataDisk, EndDataDisks, AskNetwork,
     AskOverrides, ValidateAnswers, Answers, AnswersLast, Ends, bundle
<1>4. CASE WriteTailoring \/ WriteExceptions \/ WriteKickstart \/ Restore
  BY <1>1, <1>4 DEF WriteTailoring, WriteExceptions, WriteKickstart, Restore, Render, Ends,
     wizard
<1>5. CASE WriteInitial
  <2>1. edited' = {} /\ budget' = 0 /\ sets = {} /\ sets' \in {sets, {}}
    BY <1>5 DEF WriteInitial, Ends, At, CarryInv, Unwritten
  <2> QED BY <1>0, <2>1 DEF EditsOK
<1>6. CASE Gen
  <2>1. UNCHANGED <<edited, budget>> /\ sets' \in {sets, {}}
    BY <1>6 DEF Gen, Generate, bundle
  <2> QED BY <1>1, <2>1
<1>7. CASE GenSet
  <2>1. PICK f \in Scalars : \E v \in Values(f) : Generate(ApplySet(file, f, v), {f}, TRUE)
    BY <1>7 DEF GenSet
  <2>2. /\ UNCHANGED <<edited, budget>> /\ sets' \in {sets, {f}} /\ budget > 0
        /\ f \in Fields
    BY <1>7, <2>1, FieldNames DEF GenSet, Generate, bundle, Scalars
  <2> QED BY <2>2 DEF EditsOK
<1>8. CASE WriteYaml
  <2>1. edited' = edited \cup sets /\ budget' = budget - Cardinality(sets) /\ sets' = {}
    BY <1>8 DEF WriteYaml
  <2>2. CASE sets = {}
    BY <1>0, <2>1, <2>2, FS_EmptySet DEF EditsOK
  <2>3. CASE budget > 0 /\ \E f \in Fields : sets = {f}
    <3>1. PICK f \in Fields : sets = {f}
      BY <2>3
    <3>2. Cardinality(sets) = 1
      BY <3>1, FS_Singleton
    <3> QED BY <1>0, <2>1, <2>3, <3>1, <3>2 DEF EditsOK
  <2> QED BY <2>2, <2>3 DEF EditsOK
<1>9. CASE WriteFails
  <2>1. /\ edited' = edited /\ sets' = {}
        /\ budget' = budget \/ (budget > 0 /\ budget' = budget - 1)
    BY <1>9 DEF WriteFails, Ends
  <2> QED BY <1>0, <2>1 DEF EditsOK
<1>10. CASE Edit \/ EditWipe
  <2>1. PICK f \in Fields : /\ edited' = edited \cup {f} /\ budget > 0
                            /\ budget' = budget - 1
    BY <1>10, FieldNames DEF Edit, EditWipe, Edits
  <2>2. sets' = sets /\ sets = {}
    BY <1>10 DEF Edit, EditWipe, Edits, Command, At, wizard, CarryInv, Unwritten
  <2> QED BY <1>0, <2>1, <2>2 DEF EditsOK
<1> QED BY <1>2, <1>3, <1>4, <1>5, <1>6, <1>7, <1>8, <1>9, <1>10 DEF Next

\* Only complete configs are rendered.
LEMMA MadeStep ==
    ASSUME DocumentInv, InStep, MadeOK, [Next]_vars PROVE MadeOK'
<1>1. CASE UNCHANGED made
  BY <1>1 DEF MadeOK
<1>2. ASSUME NEW name \in Rendered, NEW c, made' = [made EXCEPT ![name] = c],
             c # Nothing => Complete(c)
      PROVE  MadeOK'
  <2>1. \A f \in Rendered : made'[f] = IF f = name THEN c ELSE made[f]
    BY <1>2 DEF InStep
  <2> QED BY <1>2, <2>1 DEF MadeOK
<1>3. stage \in Writing => Complete(Config(payload))
  BY AcceptedIsComplete DEF DocumentInv, InStep
<1>4. CASE WriteTailoring \/ WriteExceptions \/ WriteKickstart
  <2>1. PICK name \in Rendered : stage = name /\ made' = [made EXCEPT ![name] = Config(payload)]
    BY <1>4 DEF WriteTailoring, WriteExceptions, WriteKickstart, Render, At, Rendered
  <2> QED BY <1>2, <1>3, <2>1 DEF Writing
<1>5. CASE WriteFails
  <2>1. CASE stage \in Rendered /\ made' = [made EXCEPT ![stage] = Nothing]
    BY <1>2, <2>1
  <2> QED BY <1>1, <1>5, <2>1 DEF WriteFails
<1>6. CASE UNCHANGED vars \/ Gen \/ GenSet \/ Edit \/ EditWipe \/ Restore \/ WriteInitial
           \/ WriteYaml
  <2>1. UNCHANGED made
    BY <1>6 DEF vars, bundle, Gen, GenSet, Generate, Edit, EditWipe, Edits, Restore,
       WriteInitial, WriteYaml
  <2> QED BY <1>1, <2>1
<1>7. CASE \/ StartNew \/ GiveUp \/ AskSudo \/ AskKeys \/ AskPolicy \/ PortIsNoNumber
           \/ AskGroups \/ AskDisk \/ AskLuks \/ AskPassphrase \/ AskDataDisk
           \/ EndDataDisks \/ AskNetwork \/ AskOverrides \/ ValidateAnswers
  <2>1. UNCHANGED made
    BY <1>7 DEF StartNew, GiveUp, AskSudo, AskKeys, AskPolicy, PortIsNoNumber, AskGroups,
       AskDisk, AskLuks, AskPassphrase, AskDataDisk, EndDataDisks, AskNetwork,
       AskOverrides, ValidateAnswers, Answers, AnswersLast, bundle
  <2> QED BY <1>1, <2>1
<1> QED BY <1>4, <1>5, <1>6, <1>7 DEF Next

\* A command ends in one of the outcomes.
LEMMA OutcomeStep ==
    ASSUME outcome \in Outcomes, [Next]_vars PROVE outcome' \in Outcomes
<1>1. CASE Gen \/ GenSet
  <2>1. PICK doc, changed, present : Generate(doc, changed, present)
    BY <1>1 DEF Gen, GenSet
  <2>2. /\ outcome' \in {"none", "crash", ExitOf(doc)}
        /\ outcome' \in {"none", "crash"} \/ ~Accepts(doc)
    BY <2>1 DEF Generate
  <2> QED BY <2>2 DEF ExitOf, Accepts, Outcomes
<1>2. CASE \/ StartNew \/ GiveUp \/ AskSudo \/ AskKeys \/ AskPolicy \/ PortIsNoNumber
           \/ AskGroups \/ AskDisk \/ AskLuks \/ AskPassphrase \/ AskDataDisk
           \/ EndDataDisks \/ AskNetwork \/ AskOverrides \/ ValidateAnswers
  <2>1. outcome' \in {outcome, "none", "usage", "crash"}
    BY <1>2 DEF StartNew, GiveUp, AskSudo, AskKeys, AskPolicy, PortIsNoNumber, AskGroups,
       AskDisk, AskLuks, AskPassphrase, AskDataDisk, EndDataDisks, AskNetwork,
       AskOverrides, ValidateAnswers, Answers, AnswersLast, Ends
  <2> QED BY <2>1 DEF Outcomes
<1>3. CASE UNCHANGED vars \/ Edit \/ EditWipe \/ Restore \/ WriteInitial \/ WriteTailoring
           \/ WriteYaml \/ WriteExceptions \/ WriteKickstart \/ WriteFails
  <2>1. outcome' \in {outcome, "none", "written", "crash"}
    BY <1>3 DEF vars, Edit, EditWipe, Edits, Restore, WriteInitial, WriteTailoring,
       WriteYaml, WriteExceptions, WriteKickstart, WriteFails, Render, Ends
  <2> QED BY <2>1 DEF Outcomes
<1> QED BY <1>1, <1>2, <1>3 DEF Next

LEMMA TypeStep == DocumentInv /\ InStep /\ CarryInv /\ TypeInv /\ [Next]_vars => TypeInv'
BY PromptsStep, EditsStep, MadeStep, OutcomeStep DEF TypeInv

(***************************************************************************)
(* The state keeps its shape, and whatever was edited or answered, a config*)
(* that reached the renderer has nothing left to fill in (config.py's      *)
(* validators).                                                            *)
(***************************************************************************)
THEOREM TypeCorrect == Spec => []TypeOK
<1>1. Init => DocumentInv /\ InStep /\ CarryInv /\ TypeInv
  <2> SUFFICES ASSUME Init PROVE TypeInv
    BY InitInv
  <2> QED BY YamlAssumption
          DEF Init, TypeInv, PromptsOK, EditsOK, MadeOK, Outcomes, RetryLimit
<1>2. DocumentInv /\ InStep /\ CarryInv /\ TypeInv => TypeOK
  <2> SUFFICES ASSUME DocumentInv, InStep, CarryInv, TypeInv PROVE TypeOK
    OBVIOUS
  <2>1. DOMAIN payload = Fields /\ sets \subseteq Fields /\ DOMAIN made = Rendered
    BY DEF DocumentInv, IsDocument, InStep, TypeInv, EditsOK
  <2>2. file # Nothing => DOMAIN file = Fields /\ DOMAIN source = Fields
    BY DEF CarryInv, Carries, IsDocument
  <2>3. /\ stage \in {"shell", "core", "keys", "policy", "groups", "disk", "luks",
                      "passphrase", "data_disks", "network", "overrides", "validate"}
                     \cup Writing
        /\ groups \subseteq {"disk", "network", "overrides"}
        /\ tries \in 0..(RetryLimit - 1) /\ edited \subseteq Fields /\ budget \in 0..MaxEdits
        /\ outcome \in Outcomes
    BY DEF TypeInv, PromptsOK, EditsOK
  <2>4. \A f \in Rendered : LET c == made[f] IN
          c # Nothing =>
             /\ Null \notin {c.scap, c.baseos, c.appstream, c.at_standard, c.lean_required}
             /\ c.preset # Null \/ c.layout # <<>>
    BY DEF TypeInv, MadeOK, Complete
  <2> QED BY <2>1, <2>2, <2>3, <2>4 DEF TypeOK, Outcomes
<1> QED BY <1>1, <1>2, NextInv, CarryStep, TypeStep, PTL DEF Spec
=============================================================================
