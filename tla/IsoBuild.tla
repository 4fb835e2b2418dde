------------------------------ MODULE IsoBuild ------------------------------
(***************************************************************************)
(* `ks-gen iso': an AlmaLinux installer is repacked with a kickstart and   *)
(* an unattended boot entry, under a volume label of its own.              *)
(*                                                                         *)
(* One command runs after the other on a shelf of ISO files; the output of *)
(* one may be the source, or the output, of the next.  A command may fail  *)
(* or be killed at each of its steps, and the kickstart file may be edited *)
(* between them.                                                           *)
(*                                                                         *)
(*   iso/builder.py, iso/bootloader.py, iso/_menu.py, cli.py (iso_cmd)     *)
(***************************************************************************)
EXTENDS Naturals, Sequences, Functions

CONSTANTS
    Path,        \* ISO files
    Shelf,       \* what they hold at first
    Label,       \* volume labels
    Command,     \* the commands that may be given
    Faults,      \* tools that may fail
    Flaky,       \* TRUE: extracting a file that is there may fail
    EditsDuring, \* TRUE: the kickstart may be edited while a command runs
    MaxBuilds,   \* bound on commands
    MaxEdits     \* bound on edits of the kickstart

(***************************************************************************)
(* A label has a form, which is all that the code looks at:                *)
(*   alma    AlmaLinux-<name>-...            ksal    KS-AL<name>           *)
(*   word    a word of a boot configuration  spaced  not valid             *)
(*   other   anything else                   none    no label              *)
(***************************************************************************)
LabelForm == {"alma", "ksal", "word", "spaced", "other", "none"}
NoLabel   == [form |-> "none", name |-> "none"]
Word(w)   == [form |-> "word", name |-> w]

\* default_volid, where NoLabel is its VolidError
DefaultVolid(l) == IF l.form = "alma" THEN [form |-> "ksal", name |-> l.name] ELSE NoLabel
\* validate_volid
ValidVolid(l) == l.form # "spaced"

(***************************************************************************)
(* Boot configurations.  The words of an entry are its marker (the comment *)
(* above it, ours only) and the command that loads its kernel; its refs    *)
(* are the labels by which it finds the medium.  `root' is the label that  *)
(* a grub.cfg searches for before any entry, `default' the entry that is   *)
(* booted when nobody chooses one.                                         *)
(***************************************************************************)
CfgName == {"isolinux", "bios", "efi", "esp"}   \* "bios": grub2; "esp": in the EFI partition
Bios    == {"isolinux", "bios"}
RefName == {"search", "stage2", "repo", "ks"}
Marker  == Word("ks-gen")
Loader(c) == Word(CASE c = "isolinux" -> "kernel"
                    [] c = "bios"     -> "linux"
                    [] OTHER          -> "linuxefi")

Entry  == [ours : BOOLEAN, marker : Label, loader : Label, refs : [RefName -> Label]]
Config == [root : Label, entries : Seq(Entry), default : Nat]
NoConfig == [root |-> NoLabel, entries |-> <<>>, default |-> 0]   \* no such file

\* The unattended entry
Unattended(c, volid, net) ==
    [ours   |-> TRUE, marker |-> Marker, loader |-> Loader(c),
     refs   |-> [r \in RefName |->
                    IF (r = "search" /\ c = "isolinux") \/ (r = "repo" /\ net)
                    THEN NoLabel ELSE volid]]

Marked(config)  == \E i \in DOMAIN config.entries : config.entries[i].marker = Marker
NoMenu(config)  == config.entries = <<>>

\* A mutant of Retarget: the search before the first entry is forgotten
RetargetEntries(config, old, new) ==
    LET Sub(w) == IF w = old THEN new ELSE w
    IN  [config EXCEPT !.entries = [i \in DOMAIN @ |->
            [@[i] EXCEPT !.refs = [r \in RefName |-> Sub(@[r])]]]]

\* _retarget: every whole word that equals the old label, wherever it stands
Retarget(config, old, new) ==
    LET Sub(w) == IF w = old THEN new ELSE w
        SubEntry(e) == [e EXCEPT !.marker = Sub(@), !.loader = Sub(@),
                                 !.refs = [r \in RefName |-> Sub(@[r])]]
    IN  [config EXCEPT !.root = Sub(@),
                       !.entries = [i \in DOMAIN @ |-> SubEntry(@[i])]]

\* A mutant of Rewrite: the vendor's default stays
RewriteKeepsDefault(config, c, volid, net) ==
    IF Marked(config) THEN config
    ELSE [config EXCEPT !.entries = <<Unattended(c, volid, net)>> \o @]

\* rewrite_isolinux and rewrite_grub; a config without an entry is an error
Rewrite(config, c, volid, net) ==
    IF Marked(config) THEN config
    ELSE [config EXCEPT !.entries = <<Unattended(c, volid, net)>> \o @, !.default = 1]

\* _rewrite_cfg
Patched(config, c, old, volid, net) == Rewrite(Retarget(config, old, volid), c, volid, net)
Unpatchable(config, old, volid) ==
    NoMenu(config) /\ ~Marked(Retarget(config, old, volid))

(***************************************************************************)
(* ISO files.  esp: where the EFI image is, as xorriso reports it.  ks:    *)
(* the kind of kickstart on the medium, by its install source.             *)
(***************************************************************************)
EspKind == {"none", "file", "appended", "several", "odd"}
KsKind  == {"media", "network", "binary", "gone"}
Cfgs    == [CfgName -> Config]
Present(cfg) == {c \in CfgName : cfg[c] # NoConfig}
Iso     == [state : {"whole", "torn", "missing"}, volid : Label, cfg : Cfgs,
            esp : EspKind, ks : KsKind \cup {"none"}]
NoCfg   == [c \in CfgName |-> NoConfig]
Unusable(state) == [state |-> state, volid |-> NoLabel, cfg |-> NoCfg,
                    esp |-> "none", ks |-> "none"]
IsKsGen(iso) == iso.state = "whole" /\ iso.ks # "none"

NoCommand == [src |-> CHOOSE p \in Path : TRUE, out |-> CHOOSE p \in Path : TRUE,
              volid |-> NoLabel, net |-> "auto"]

\* Every label by which a configuration looks for the medium
Lookups(config) ==
    ({config.root} \cup UNION {Range(config.entries[i].refs) : i \in DOMAIN config.entries})
        \ {NoLabel}

\* AlmaLinux media find themselves by their own label, and have one BIOS
\* loader: EL10 dropped isolinux for grub2 (builder.py:32).
AlmaMedium(iso) ==
    /\ \A c \in Present(iso.cfg) : Lookups(iso.cfg[c]) \subseteq {iso.volid}
    /\ ~(Bios \subseteq Present(iso.cfg))
    /\ iso.esp = "none" => "esp" \notin Present(iso.cfg)

ASSUME IsoAssumption ==
    /\ Label \subseteq [form : LabelForm, name : STRING]
    /\ NoLabel \in Label /\ Marker \in Label
    /\ \A c \in CfgName : Loader(c) \in Label
    /\ \A l \in Label : DefaultVolid(l) \in Label
    /\ Shelf \in [Path -> Iso]
    /\ \A p \in Path : AlmaMedium(Shelf[p])
    /\ Command \subseteq [src : Path, out : Path, volid : Label, net : {"auto", "yes", "no"}]
    /\ Faults \subseteq {"xorriso", "mcopy"}
    /\ Flaky \in BOOLEAN /\ EditsDuring \in BOOLEAN
    /\ MaxBuilds \in Nat /\ MaxEdits \in Nat

VARIABLES
    disk,    \* the ISO files
    ks,      \* the kickstart file
    pc,      \* the step of the command
    cmd,     \* its arguments
    net,     \* network_install
    volid,   \* the label it writes
    vendor,  \* the label of its source
    staged,  \* the boot configurations it has extracted
    rebuilt, \* observation: its source was made by ks-gen
    exit,    \* how it ended
    builds,  \* commands so far
    edits    \* edits so far

local == <<cmd, net, volid, vendor, staged, rebuilt>>
vars  == <<disk, ks, pc, local, exit, builds, edits>>

PC   == {"idle", "flag", "volid", "inspect", "patch", "esp", "unlink", "author", "done"}
Exit == {"none", "ok", "usage", "tool", "killed"}

TypeOK ==
    /\ disk \in [Path -> Iso] /\ ks \in KsKind
    /\ pc \in PC /\ exit \in Exit
    /\ cmd \in Command \/ (pc = "idle" /\ cmd = NoCommand)
    /\ net \in BOOLEAN /\ rebuilt \in BOOLEAN
    /\ volid \in Label /\ vendor \in Label /\ staged \in Cfgs
    /\ pc \in {"patch", "esp", "unlink", "author"} => volid # NoLabel /\ vendor # NoLabel
    /\ builds \in 0 .. MaxBuilds /\ edits \in 0 .. MaxEdits

Init ==
    /\ disk = Shelf /\ ks \in KsKind
    /\ pc = "idle" /\ exit = "none"
    /\ cmd = NoCommand /\ net = FALSE /\ volid = NoLabel /\ vendor = NoLabel
    /\ staged = NoCfg /\ rebuilt = FALSE
    /\ builds = 0 /\ edits = 0

Source   == disk[cmd.src]
Readable == ks \in {"media", "network"}

Step(from, to) == pc = from /\ pc' = to
Fail(from, how) ==
    /\ Step(from, "done") /\ exit' = how
    /\ UNCHANGED <<disk, ks, local, builds, edits>>

(***************************************************************************)
(* iso_cmd, as far as build_iso.                                           *)
(***************************************************************************)
Start ==
    /\ pc \in {"idle", "done"} /\ builds < MaxBuilds
    /\ \E c \in Command :
        /\ disk[c.src].state # "missing"        \* --src: exists=True
        /\ cmd' = c
    /\ pc' = "flag" /\ exit' = "none" /\ builds' = builds + 1
    /\ net' = FALSE /\ volid' = NoLabel /\ vendor' = NoLabel
    /\ staged' = NoCfg /\ rebuilt' = FALSE
    /\ UNCHANGED <<disk, ks, edits>>

\* A flag that contradicts the kickstart is refused.
Contradicts == cmd.net = (IF ks = "network" THEN "no" ELSE "yes")

\* A mutant of CheckFlag: an explicit flag is trusted
CheckFlagTrusting ==
    \/ ~Readable /\ Fail("flag", "usage")
    \/ /\ Readable
       /\ Step("flag", "volid")
       /\ net' = IF cmd.net = "auto" THEN ks = "network" ELSE cmd.net = "yes"
       /\ UNCHANGED <<disk, ks, cmd, volid, vendor, staged, rebuilt, exit, builds, edits>>

CheckFlag ==
    \/ (~Readable \/ Contradicts) /\ Fail("flag", "usage")
    \/ /\ Readable /\ ~Contradicts
       /\ Step("flag", "volid") /\ net' = (ks = "network")
       /\ UNCHANGED <<disk, ks, cmd, volid, vendor, staged, rebuilt, exit, builds, edits>>

(***************************************************************************)
(* build_iso                                                               *)
(***************************************************************************)
CheckVolid ==
    \/ (~ValidVolid(cmd.volid) \/ ~Readable) /\ Fail("volid", "usage")
    \/ "xorriso" \in Faults /\ Fail("volid", "tool")
    \/ /\ ValidVolid(cmd.volid) /\ Readable
       /\ Step("volid", "inspect") /\ volid' = cmd.volid
       /\ UNCHANGED <<disk, ks, cmd, net, vendor, staged, rebuilt, exit, builds, edits>>

\* Which configurations are extracted: isolinux, else the grub2 one, and efi
Extracted(found) ==
    {"efi"} \cup (IF "isolinux" \in found THEN {"isolinux"} ELSE found \cap {"bios"})

\* The label: as given, or kept if the source is ours, or else derived
ChosenVolid == IF volid # NoLabel THEN volid
               ELSE IF Marked(Source.cfg["efi"]) THEN Source.volid
               ELSE DefaultVolid(Source.volid)

Inspectable == Source.state = "whole" /\ Source.volid # NoLabel /\ "efi" \in Present(Source.cfg)

\* A mutant of Inspect: the derived label is not stored
InspectKeepsNone ==
    \/ (~Inspectable \/ "xorriso" \in Faults \/ Flaky) /\ Fail("inspect", "tool")
    \/ Inspectable /\ ChosenVolid = NoLabel /\ Fail("inspect", "usage")
    \/ /\ Inspectable /\ ChosenVolid # NoLabel
       /\ \E found \in SUBSET (Present(Source.cfg)) :
            /\ Flaky \/ found = Present(Source.cfg)
            /\ staged' = [c \in CfgName |->
                    IF c \in Extracted(found) THEN Source.cfg[c] ELSE NoConfig]
       /\ Step("inspect", "patch")
       /\ vendor' = Source.volid /\ volid' = volid
       /\ rebuilt' = Marked(Source.cfg["efi"])
       /\ UNCHANGED <<disk, ks, cmd, net, exit, builds, edits>>

Inspect ==
    \/ (~Inspectable \/ "xorriso" \in Faults \/ Flaky) /\ Fail("inspect", "tool")
    \/ Inspectable /\ ChosenVolid = NoLabel /\ Fail("inspect", "usage")
    \/ /\ Inspectable /\ ChosenVolid # NoLabel
       /\ \E found \in SUBSET (Present(Source.cfg)) :
            /\ Flaky \/ found = Present(Source.cfg)
            /\ staged' = [c \in CfgName |->
                    IF c \in Extracted(found) THEN Source.cfg[c] ELSE NoConfig]
       /\ Step("inspect", "patch")
       /\ vendor' = Source.volid /\ volid' = ChosenVolid
       /\ rebuilt' = Marked(Source.cfg["efi"])
       /\ UNCHANGED <<disk, ks, cmd, net, exit, builds, edits>>

Patch ==
    \/ (\E c \in Present(staged) : Unpatchable(staged[c], vendor, volid)) /\ Fail("patch", "tool")
    \/ /\ \A c \in Present(staged) : ~Unpatchable(staged[c], vendor, volid)
       /\ Step("patch", "esp")
       /\ staged' = [c \in CfgName |->
              IF c \in Present(staged) THEN Patched(staged[c], c, vendor, volid, net) ELSE NoConfig]
       /\ UNCHANGED <<disk, ks, cmd, net, volid, vendor, rebuilt, exit, builds, edits>>

\* _extract_esp and _patch_esp: every failure is fatal.
EspPatchable ==
    /\ Source.esp \in {"file", "appended"} /\ "esp" \in Present(Source.cfg)
    /\ ~Unpatchable(Source.cfg["esp"], vendor, volid)

\* A mutant of PatchEsp: a failure leaves the vendor's image in place
PatchEspIfPossible ==
    /\ Step("esp", "unlink")
    /\ \/ (~EspPatchable \/ Faults # {}) /\ UNCHANGED staged
       \/ /\ EspPatchable
          /\ staged' = [staged EXCEPT !["esp"] =
                 Patched(Source.cfg["esp"], "esp", vendor, volid, net)]
    /\ UNCHANGED <<disk, ks, cmd, net, volid, vendor, rebuilt, exit, builds, edits>>

PatchEsp ==
    \/ Source.esp # "none" /\ (~EspPatchable \/ Faults # {}) /\ Fail("esp", "tool")
    \/ /\ Step("esp", "unlink")
       /\ \/ Source.esp = "none" /\ UNCHANGED staged
          \/ /\ EspPatchable
             /\ staged' = [staged EXCEPT !["esp"] =
                    Patched(Source.cfg["esp"], "esp", vendor, volid, net)]
       /\ UNCHANGED <<disk, ks, cmd, net, volid, vendor, rebuilt, exit, builds, edits>>

(***************************************************************************)
(* _author: the old output goes, then xorriso writes the new one from the  *)
(* source, the staged configurations and the kickstart as it is by then.   *)
(***************************************************************************)
Unlink ==
    /\ Step("unlink", "author")
    /\ disk' = [disk EXCEPT ![cmd.out] = Unusable("missing")]
    /\ UNCHANGED <<ks, local, exit, builds, edits>>

NewIso == [state |-> "whole", volid |-> volid, esp |-> Source.esp, ks |-> ks,
           cfg |-> [c \in CfgName |->
                        IF c \in Present(staged) THEN staged[c] ELSE Source.cfg[c]]]

CanAuthor == Source.state = "whole" /\ ks # "gone"
Leftover  == \E state \in {"torn", "missing"} : disk' = [disk EXCEPT ![cmd.out] = Unusable(state)]

AuthorFails ==
    /\ "xorriso" \in Faults \/ ~CanAuthor
    /\ Leftover
    /\ Step("author", "done") /\ exit' = "tool"
    /\ UNCHANGED <<ks, local, builds, edits>>

Author ==
    \/ /\ CanAuthor
       /\ disk' = [disk EXCEPT ![cmd.out] = NewIso]
       /\ Step("author", "done") /\ exit' = "ok"
       /\ UNCHANGED <<ks, local, builds, edits>>
    \/ AuthorFails

(***************************************************************************)
(* The environment.                                                        *)
(***************************************************************************)
Kill ==
    /\ pc \notin {"idle", "done"} /\ pc' = "done" /\ exit' = "killed"
    /\ IF pc = "author" THEN Leftover ELSE UNCHANGED disk
    /\ UNCHANGED <<ks, local, builds, edits>>

EditKs ==
    /\ edits < MaxEdits /\ edits' = edits + 1
    /\ EditsDuring \/ pc \in {"idle", "done"}
    /\ ks' \in KsKind \ {ks}
    /\ UNCHANGED <<disk, pc, local, exit, builds>>

Next == Start \/ CheckFlag \/ CheckVolid \/ Inspect \/ Patch \/ PatchEsp
        \/ Unlink \/ Author \/ Kill \/ EditKs

Spec == Init /\ [][Next]_vars

(***************************************************************************)
(* Properties.                                                             *)
(***************************************************************************)

\* Every boot entry of every medium, the vendor's fallback entries included,
\* looks for the medium by the label that the medium has, whatever was built
\* from what (builder.py:_retarget, MANUAL 5.4).
SelfContained ==
    \A p \in Path : disk[p].state = "whole" =>
        \A c \in Present(disk[p].cfg) : Lookups(disk[p].cfg[c]) \subseteq {disk[p].volid}

\* Whichever way a medium of ours is booted, it starts the one unattended
\* entry, also after rebuilds (rewrite_grub, rewrite_isolinux, _patch_esp).
UnattendedBoot ==
    \A p \in Path : IsKsGen(disk[p]) =>
        \A c \in Present(disk[p].cfg) :
            LET conf == disk[p].cfg[c]
            IN  {i \in DOMAIN conf.entries : conf.entries[i].ours} = {conf.default}

TakesMedia(conf) == conf.entries[conf.default].refs["repo"] # NoLabel

\* A command that reports success has left a whole medium with the label it
\* printed and a kickstart that anaconda can read (_author, iso_cmd).  From a
\* vendor's source the unattended entry takes its packages from the medium exactly
\* if that kickstart does, and a derived label is that of no vendor medium, so a
\* vendor stick that is plugged in as well cannot answer the lookup (#128).
SuccessIsMedium ==
    exit = "ok" =>
        LET iso == disk[cmd.out] IN
        /\ IsKsGen(iso) /\ iso.volid = volid
        /\ ~rebuilt => \A c \in Present(iso.cfg) : TakesMedia(iso.cfg[c]) <=> iso.ks = "media"
        /\ ~rebuilt /\ cmd.volid = NoLabel =>
             \A p \in Path : disk[p].state = "whole" /\ ~IsKsGen(disk[p]) =>
                 disk[p].volid # iso.volid

\* What --out held is only given up once every configuration that the new
\* medium will have carries our entry: what can be refused is refused before
\* (build_iso).  A BIOS configuration that xorriso failed to extract is not among
\* them, and an edit of the kickstart in the middle of a command goes unnoticed.
\* Nothing but --out is ever touched.  That --out is not what is being repacked
\* is not checked, and then the source itself is given up: see SourceSurvives.
CheckedBeforeUnlink ==
    [][disk' # disk =>
         /\ \A p \in Path : disk'[p] # disk[p] => p = cmd.out
         /\ EditsDuring \/ Readable
         /\ \A c \in Present(Source.cfg) :
                (Flaky /\ c \in Bios) \/ (c \in Present(staged) /\ Marked(staged[c]))]_vars

(***************************************************************************)
(* What the documents also say, and the code does not keep.                *)
(***************************************************************************)

\* An unattended entry fits its kickstart, for rebuilds as well (builder.py:69).
EntryAlwaysFits ==
    exit = "ok" =>
        \A c \in Present(disk[cmd.out].cfg) :
            TakesMedia(disk[cmd.out].cfg[c]) <=> disk[cmd.out].ks = "media"

\* Retargeting leaves every entry able to load its kernel (MANUAL 5.4).
FallbackBoots ==
    \A p \in Path : IsKsGen(disk[p]) =>
        \A c \in Present(disk[p].cfg) :
            \A i \in DOMAIN disk[p].cfg[c].entries : disk[p].cfg[c].entries[i].loader = Loader(c)

\* The warning that the source has no BIOS configuration is only printed when
\* it has none (iso_cmd).
BiosWarningTrue ==
    exit = "ok" /\ Bios \cap Present(staged) = {} => Bios \cap Present(disk[cmd.out].cfg) = {}

\* What is deleted before authoring is a prior output (builder.py:414), never
\* what is being repacked.
SourceSurvives == exit # "none" => Source.state # "missing"

=============================================================================
