--------------------------- MODULE IsoBuildProofs ---------------------------
(***************************************************************************)
(* Theorems about IsoBuild, for any shelf of AlmaLinux media, any commands *)
(* (in place ones too) and any number of rebuilds.  As long as a file that *)
(* is on the source can be extracted: every medium finds itself by its own *)
(* label; a medium of ours always boots the unattended entry; what success *)
(* means.  Without any assumption: what is checked before the old output   *)
(* is given up.                                                            *)
(***************************************************************************)
EXTENDS IsoBuild, SequenceTheorems, TLAPS

\* Every file on the source can be extracted.
Reliable == ~Flaky

(***************************************************************************)
(* Types.                                                                  *)
(***************************************************************************)

\* A function on 1 .. n is a sequence.
LEMMA FunctionIsSeq ==
    ASSUME NEW T, NEW n \in Nat, NEW f \in [1 .. n -> T]
    PROVE  f \in Seq(T)
BY SeqDef

\* Retargeting a configuration yields a configuration.
LEMMA RetargetType ==
    ASSUME NEW conf \in Config, NEW old \in Label, NEW new \in Label
    PROVE  Retarget(conf, old, new) \in Config
<1> DEFINE Sub(w) == IF w = old THEN new ELSE w
           SubEntry(e) == [e EXCEPT !.marker = Sub(@), !.loader = Sub(@),
                                    !.refs = [r \in RefName |-> Sub(@[r])]]
           f == [i \in DOMAIN conf.entries |-> SubEntry(conf.entries[i])]
<1>1. \A e \in Entry : SubEntry(e) \in Entry
  <2> SUFFICES ASSUME NEW e \in Entry PROVE SubEntry(e) \in Entry
    OBVIOUS
  <2>1. \A w \in Label : Sub(w) \in Label
    OBVIOUS
  <2>2. e.refs \in [RefName -> Label] /\ e.marker \in Label /\ e.loader \in Label
    BY DEF Entry
  <2>3. [r \in RefName |-> Sub(e.refs[r])] \in [RefName -> Label]
    BY <2>1, <2>2
  <2> HIDE DEF Sub
  <2> QED BY <2>1, <2>2, <2>3 DEF Entry
<1>2. conf.entries \in Seq(Entry) /\ conf.root \in Label
  BY DEF Config
<1>3. Len(conf.entries) \in Nat /\ DOMAIN conf.entries = 1 .. Len(conf.entries)
      /\ \A i \in DOMAIN conf.entries : conf.entries[i] \in Entry
  BY <1>2, LenProperties, ElementOfSeq
<1>4. f \in [1 .. Len(conf.entries) -> Entry]
  BY <1>1, <1>3
<1>5. f \in Seq(Entry)
  BY <1>3, <1>4, FunctionIsSeq
<1>6. Retarget(conf, old, new) = [conf EXCEPT !.root = Sub(@), !.entries = f]
  BY DEF Retarget
<1> HIDE DEF f
<1> QED BY <1>2, <1>5, <1>6 DEF Config

\* Adding our entry yields a configuration, which has an entry and thus a file.
LEMMA RewriteType ==
    ASSUME NEW conf \in Config, NEW c \in CfgName, NEW l \in Label, NEW n \in BOOLEAN,
           ~NoMenu(conf)
    PROVE  Rewrite(conf, c, l, n) \in Config /\ Rewrite(conf, c, l, n).entries # <<>>
<1> DEFINE e == Unattended(c, l, n)
<1>1. e \in Entry
  BY IsoAssumption DEF Unattended, Entry
<1>2. <<e>> \in Seq(Entry) /\ conf.entries \in Seq(Entry)
  BY <1>1 DEF Config
<1> HIDE DEF e
<1>3. <<e>> \o conf.entries \in Seq(Entry) /\ Len(<<e>> \o conf.entries) = 1 + Len(conf.entries)
  BY <1>1, <1>2, ConcatProperties
<1>4. <<e>> \o conf.entries # <<>>
  BY <1>2, <1>3, EmptySeq, LenProperties
<1>5. CASE Marked(conf)
  BY <1>5 DEF Rewrite, NoMenu
<1>6. CASE ~Marked(conf)
  <2> DEFINE new == <<e>> \o conf.entries
  <2>1. Rewrite(conf, c, l, n) = [conf EXCEPT !.entries = new, !.default = 1]
    BY <1>6 DEF Rewrite, e
  <2>2. new \in Seq(Entry) /\ new # <<>>
    BY <1>3, <1>4
  <2> HIDE DEF new
  <2>3. Rewrite(conf, c, l, n).entries = new
    BY <2>1 DEF Config
  <2>4. Rewrite(conf, c, l, n) \in Config
    <3>1. conf = [root |-> conf.root, entries |-> conf.entries, default |-> conf.default]
          /\ conf.root \in Label
      BY DEF Config
    <3>2. Rewrite(conf, c, l, n) = [root |-> conf.root, entries |-> new, default |-> 1]
      BY <2>1, <3>1
    <3> QED BY <2>2, <3>1, <3>2 DEF Config
  <2> QED BY <2>2, <2>3, <2>4
<1> QED BY <1>5, <1>6

\* Patching a configuration yields a configuration with an entry.
LEMMA PatchedType ==
    ASSUME NEW conf \in Config, NEW c \in CfgName, NEW old \in Label, NEW l \in Label,
           NEW n \in BOOLEAN, ~Unpatchable(conf, old, l)
    PROVE  /\ Patched(conf, c, old, l, n) \in Config
           /\ Patched(conf, c, old, l, n) # NoConfig
<1> DEFINE t == Retarget(conf, old, l)
<1>1. t \in Config
  BY RetargetType
<1>2. conf.entries \in Seq(Entry) /\ t.entries \in Seq(Entry)
  BY <1>1 DEF Config
<1>3. DOMAIN t.entries = DOMAIN conf.entries
  BY DEF Retarget, Config
<1>4. ~NoMenu(t)
  <2>1. CASE Marked(t)
    <3>1. PICK i \in DOMAIN t.entries : TRUE
      BY <2>1 DEF Marked
    <3>2. t.entries # <<>>
      BY <3>1
    <3> QED BY <3>2 DEF NoMenu
  <2>2. CASE ~Marked(t)
    <3>1. conf.entries # <<>>
      BY <2>2 DEF Unpatchable, NoMenu
    <3>2. Len(conf.entries) # 0 /\ Len(conf.entries) = Len(t.entries)
      BY <3>1, <1>2, <1>3, EmptySeq, LenProperties
    <3>3. t.entries # <<>>
      BY <3>2, EmptySeq
    <3> QED BY <3>3 DEF NoMenu
  <2> QED BY <2>1, <2>2
<1> HIDE DEF t
<1>5. Patched(conf, c, old, l, n) = Rewrite(t, c, l, n)
  BY DEF Patched, t
<1>6. Rewrite(t, c, l, n) \in Config /\ Rewrite(t, c, l, n).entries # <<>>
  BY <1>1, <1>4, RewriteType
<1> QED BY <1>5, <1>6 DEF NoConfig

-----------------------------------------------------------------------------
(***************************************************************************)
(* What a configuration looks for.                                         *)
(***************************************************************************)

\* A configuration looks for nothing but l.
LooksFor(conf, l) ==
    /\ conf.root \in {l, NoLabel}
    /\ \A i \in 1 .. Len(conf.entries) :
           \A r \in RefName : conf.entries[i].refs[r] \in {l, NoLabel}

\* LooksFor is what Lookups says.
LEMMA LookupsAreLooksFor ==
    ASSUME NEW conf \in Config, NEW l
    PROVE  Lookups(conf) \subseteq {l} <=> LooksFor(conf, l)
<1>1. conf.entries \in Seq(Entry)
  BY DEF Config
<1>2. DOMAIN conf.entries = 1 .. Len(conf.entries)
      /\ \A i \in 1 .. Len(conf.entries) : conf.entries[i] \in Entry
  BY <1>1, LenProperties, ElementOfSeq
<1>3. \A i \in 1 .. Len(conf.entries) : DOMAIN conf.entries[i].refs = RefName
  BY <1>2 DEF Entry
<1>4. ASSUME Lookups(conf) \subseteq {l} PROVE LooksFor(conf, l)
  <2>1. conf.root # NoLabel => conf.root \in Lookups(conf)
    BY DEF Lookups
  <2>2. ASSUME NEW i \in 1 .. Len(conf.entries), NEW r \in RefName,
               conf.entries[i].refs[r] # NoLabel
        PROVE  conf.entries[i].refs[r] \in Lookups(conf)
    <3>1. conf.entries[i].refs[r] \in Range(conf.entries[i].refs)
      BY <1>3 DEF Range
    <3> QED BY <1>2, <2>2, <3>1 DEF Lookups
  <2> QED BY <1>4, <2>1, <2>2 DEF LooksFor
<1>5. ASSUME LooksFor(conf, l) PROVE Lookups(conf) \subseteq {l}
  BY <1>2, <1>3, <1>5 DEF Lookups, LooksFor, Range
<1> QED BY <1>4, <1>5

\* Once retargeted, a configuration that looked for the old label looks for
\* the new one, and the entry that is added does too.
LEMMA PatchedLooksFor ==
    ASSUME NEW conf \in Config, NEW c \in CfgName, NEW old \in Label, NEW l \in Label,
           NEW n \in BOOLEAN, LooksFor(conf, old), old # NoLabel
    PROVE  LooksFor(Patched(conf, c, old, l, n), l)
<1> DEFINE t == Retarget(conf, old, l)
           e == Unattended(c, l, n)
<1>1. t \in Config
  BY RetargetType
<1>2. conf.entries \in Seq(Entry) /\ t.entries \in Seq(Entry)
  BY <1>1 DEF Config
<1>3. DOMAIN t.entries = DOMAIN conf.entries /\ Len(t.entries) = Len(conf.entries)
  <2>1. DOMAIN t.entries = DOMAIN conf.entries
    BY DEF Retarget, Config
  <2> HIDE DEF t
  <2>2. /\ Len(t.entries) \in Nat /\ DOMAIN t.entries = 1 .. Len(t.entries)
        /\ Len(conf.entries) \in Nat /\ DOMAIN conf.entries = 1 .. Len(conf.entries)
    BY <1>2, LenProperties
  <2>3. \A a, b \in Nat : 1 .. a = 1 .. b => a = b
    OBVIOUS
  <2>4. 1 .. Len(t.entries) = 1 .. Len(conf.entries)
    BY <2>1, <2>2
  <2>5. Len(t.entries) = Len(conf.entries)
    BY <2>2, <2>3, <2>4
  <2> QED BY <2>1, <2>5
<1>4. \A i \in 1 .. Len(conf.entries) : conf.entries[i] \in Entry
  BY <1>2, ElementOfSeq
<1>5. ASSUME NEW i \in 1 .. Len(t.entries), NEW r \in RefName
      PROVE  t.entries[i].refs[r] \in {l, NoLabel}
  <2>1. i \in DOMAIN conf.entries /\ conf.entries[i] \in Entry
    BY <1>2, <1>3, <1>4, LenProperties
  <2>2. t.entries[i].refs[r] =
            IF conf.entries[i].refs[r] = old THEN l ELSE conf.entries[i].refs[r]
    BY <2>1 DEF Retarget, Config, Entry
  <2> QED BY <1>3, <2>2 DEF LooksFor
<1>6. t.root \in {l, NoLabel}
  BY DEF LooksFor, Retarget, Config
<1>7. \A r \in RefName : e.refs[r] \in {l, NoLabel}
  BY DEF Unattended
<1>8. e \in Entry
  BY IsoAssumption DEF Unattended, Entry
<1> HIDE DEF t, e
<1>9. CASE Marked(t)
  BY <1>5, <1>6, <1>9 DEF Patched, Rewrite, LooksFor, t
<1>10. CASE ~Marked(t)
  <2> DEFINE new == <<e>> \o t.entries
  <2>1. Patched(conf, c, old, l, n) = [t EXCEPT !.entries = new, !.default = 1]
    BY <1>10 DEF Patched, Rewrite, t, e
  <2>2. <<e>> \in Seq(Entry) /\ Len(<<e>>) = 1 /\ <<e>>[1] = e
    BY <1>8
  <2>3. /\ Len(new) = 1 + Len(t.entries)
        /\ \A i \in 1 .. Len(new) : new[i] = IF i <= 1 THEN <<e>>[i] ELSE t.entries[i - 1]
    BY <1>2, <2>2, ConcatProperties
  <2> HIDE DEF new
  <2>4. ASSUME NEW i \in 1 .. Len(new), NEW r \in RefName PROVE new[i].refs[r] \in {l, NoLabel}
    <3>1. CASE i = 1
      BY <1>7, <2>2, <2>3, <3>1
    <3>2. CASE i # 1
      <4>1. i - 1 \in 1 .. Len(t.entries) /\ new[i] = t.entries[i - 1]
        BY <1>2, <2>3, <3>2, LenProperties
      <4> QED BY <1>5, <4>1
    <3> QED BY <3>1, <3>2
  <2> QED BY <1>1, <1>6, <2>1, <2>4 DEF LooksFor, Config
<1> QED BY <1>9, <1>10

-----------------------------------------------------------------------------
(***************************************************************************)
(* Type correctness.                                                       *)
(***************************************************************************)

\* A missing or torn file is an ISO file, and no configuration is one.
LEMMA UnusableType ==
    /\ NoConfig \in Config /\ NoCfg \in Cfgs
    /\ \A state \in {"torn", "missing"} : Unusable(state) \in Iso
<1>1. NoConfig \in Config
  BY IsoAssumption, EmptySeq DEF NoConfig, Config
<1>2. NoCfg \in Cfgs
  BY <1>1 DEF NoCfg, Cfgs
<1> QED BY <1>1, <1>2, IsoAssumption DEF Unusable, Iso, EspKind

\* What a command has to work with once it has started.
LEMMA CommandType ==
    ASSUME TypeOK, pc # "idle"
    PROVE  /\ cmd \in Command /\ cmd.src \in Path /\ cmd.out \in Path /\ cmd.volid \in Label
           /\ Source \in Iso /\ Source.cfg \in Cfgs /\ Source.volid \in Label
           /\ Source.esp \in EspKind
           /\ \A c \in CfgName : Source.cfg[c] \in Config /\ staged[c] \in Config
<1>1. cmd \in Command
  BY DEF TypeOK
<1>2. cmd.src \in Path /\ cmd.out \in Path /\ cmd.volid \in Label
  BY <1>1, IsoAssumption
<1>3. Source \in Iso
  BY <1>2 DEF TypeOK, Source
<1>4. Source.cfg \in Cfgs /\ Source.volid \in Label /\ Source.esp \in EspKind
  BY <1>3 DEF Iso
<1> QED BY <1>1, <1>2, <1>3, <1>4 DEF TypeOK, Cfgs

\* Every step keeps the types.
LEMMA TypeStep == TypeOK /\ [Next]_vars => TypeOK'
<1> SUFFICES ASSUME TypeOK, [Next]_vars PROVE TypeOK'
  OBVIOUS
<1> USE DEF Step, local
<1>1. ASSUME NEW from \in PC \ {"idle"}, NEW how \in Exit, Fail(from, how) PROVE TypeOK'
  BY <1>1 DEF Fail, TypeOK, PC, Exit
<1>2. CASE Start
  <2>1. PICK c \in Command : cmd' = c
    BY <1>2 DEF Start
  <2>2. builds' \in 0 .. MaxBuilds
    BY <1>2, IsoAssumption DEF Start, TypeOK
  <2>3. NoLabel \in Label /\ NoCfg \in Cfgs
    BY IsoAssumption, UnusableType
  <2> QED BY <1>2, <2>1, <2>2, <2>3 DEF Start, TypeOK, PC, Exit
<1>3. CASE CheckFlag
  <2>1. CASE Fail("flag", "usage")
    BY <1>1, <2>1 DEF PC, Exit
  <2>2. CASE ~Fail("flag", "usage")
    BY <1>3, <2>2 DEF CheckFlag, TypeOK, PC, Exit
  <2> QED BY <2>1, <2>2
<1>4. CASE CheckVolid
  <2>1. CASE Fail("volid", "usage") \/ Fail("volid", "tool")
    BY <1>1, <2>1 DEF PC, Exit
  <2>2. CASE ~(Fail("volid", "usage") \/ Fail("volid", "tool"))
    <3>1. pc = "volid" /\ volid' = cmd.volid
      BY <1>4, <2>2 DEF CheckVolid
    <3>2. cmd.volid \in Label
      BY <3>1, CommandType
    <3> QED BY <1>4, <2>2, <3>1, <3>2 DEF CheckVolid, TypeOK, PC, Exit
  <2> QED BY <2>1, <2>2
<1>5. CASE Inspect
  <2>1. CASE Fail("inspect", "usage") \/ Fail("inspect", "tool")
    BY <1>1, <2>1 DEF PC, Exit
  <2>2. CASE ~(Fail("inspect", "usage") \/ Fail("inspect", "tool"))
    <3>1. PICK found \in SUBSET Present(Source.cfg) :
              staged' = [c \in CfgName |->
                            IF c \in Extracted(found) THEN Source.cfg[c] ELSE NoConfig]
      BY <1>5, <2>2 DEF Inspect
    <3>2. pc = "inspect" /\ vendor' = Source.volid /\ volid' = ChosenVolid
      BY <1>5, <2>2 DEF Inspect
    <3>3. staged' \in Cfgs
      BY <3>1, <3>2, CommandType, UnusableType DEF Cfgs
    <3>4. vendor' \in Label /\ volid' \in Label
      BY <3>2, CommandType, IsoAssumption DEF ChosenVolid, TypeOK
    <3>5. vendor' # NoLabel /\ volid' # NoLabel
      BY <1>5, <2>2, <3>2 DEF Inspect, Inspectable
    <3>6. rebuilt' \in BOOLEAN
      BY <1>5, <2>2 DEF Inspect, Marked
    <3>7. cmd' = cmd /\ pc' = "patch"
          /\ UNCHANGED <<disk, ks, net, exit, builds, edits>>
      BY <1>5, <2>2 DEF Inspect
    <3> QED BY <3>2, <3>3, <3>4, <3>5, <3>6, <3>7 DEF TypeOK, PC, Exit
  <2> QED BY <2>1, <2>2
<1>6. CASE Patch
  <2>1. CASE Fail("patch", "tool")
    BY <1>1, <2>1 DEF PC, Exit
  <2>2. CASE ~Fail("patch", "tool")
    <3>1. pc = "patch" /\ \A c \in Present(staged) : ~Unpatchable(staged[c], vendor, volid)
      BY <1>6, <2>2 DEF Patch
    <3>2. staged' \in Cfgs
      BY <1>6, <2>2, <3>1, CommandType, PatchedType, UnusableType
         DEF Patch, Cfgs, Present, TypeOK
    <3> QED BY <1>6, <2>2, <3>1, <3>2 DEF Patch, TypeOK, PC, Exit
  <2> QED BY <2>1, <2>2
<1>7. CASE PatchEsp
  <2>1. CASE Fail("esp", "tool")
    BY <1>1, <2>1 DEF PC, Exit
  <2>2. CASE ~Fail("esp", "tool")
    <3>1. pc = "esp"
      BY <1>7, <2>2 DEF PatchEsp
    <3>2. staged' \in Cfgs
      <4>1. CASE UNCHANGED staged
        BY <4>1 DEF TypeOK
      <4>2. CASE ~UNCHANGED staged
        <5>1. /\ ~Unpatchable(Source.cfg["esp"], vendor, volid)
              /\ staged' = [staged EXCEPT !["esp"] =
                     Patched(Source.cfg["esp"], "esp", vendor, volid, net)]
          BY <1>7, <2>2, <4>2 DEF PatchEsp, EspPatchable
        <5>2. "esp" \in CfgName
          BY DEF CfgName
        <5>3. Patched(Source.cfg["esp"], "esp", vendor, volid, net) \in Config
          BY <3>1, <5>1, <5>2, CommandType, PatchedType DEF TypeOK
        <5> QED BY <5>1, <5>3 DEF TypeOK, Cfgs
      <4> QED BY <4>1, <4>2
    <3> QED BY <1>7, <2>2, <3>1, <3>2 DEF PatchEsp, TypeOK, PC, Exit
  <2> QED BY <2>1, <2>2
<1>8. CASE Unlink
  <2>1. Unusable("missing") \in Iso
    BY UnusableType
  <2> QED BY <1>8, <2>1 DEF Unlink, TypeOK, PC, Exit
<1>9. ASSUME Leftover PROVE disk' \in [Path -> Iso]
  <2>1. PICK state \in {"torn", "missing"} : disk' = [disk EXCEPT ![cmd.out] = Unusable(state)]
    BY <1>9 DEF Leftover
  <2>2. Unusable(state) \in Iso
    BY UnusableType
  <2> QED BY <2>1, <2>2 DEF TypeOK
<1>10. CASE Author
  <2>1. CASE AuthorFails
    BY <1>9, <2>1 DEF AuthorFails, TypeOK, PC, Exit
  <2>2. CASE ~AuthorFails
    <3>1. pc = "author" /\ disk' = [disk EXCEPT ![cmd.out] = NewIso]
      BY <1>10, <2>2 DEF Author
    <3>2. NewIso.cfg \in Cfgs
      BY <3>1, CommandType DEF NewIso, Cfgs
    <3>3. NewIso \in Iso
      BY <3>1, <3>2, CommandType DEF NewIso, Iso, TypeOK
    <3> QED BY <1>10, <2>2, <3>1, <3>3 DEF Author, TypeOK, PC, Exit
  <2> QED BY <2>1, <2>2
<1>11. CASE Kill
  <2>1. disk' \in [Path -> Iso]
    BY <1>9, <1>11 DEF Kill, TypeOK
  <2> QED BY <1>11, <2>1 DEF Kill, TypeOK, PC, Exit
<1>12. CASE EditKs
  BY <1>12, IsoAssumption DEF EditKs, TypeOK
<1>13. CASE UNCHANGED vars
  BY <1>13 DEF vars, TypeOK
<1> QED BY <1>2, <1>3, <1>4, <1>5, <1>6, <1>7, <1>8, <1>10, <1>11, <1>12, <1>13 DEF Next

\* The first state has the types.
LEMMA TypeInit == Init => TypeOK
<1>1. Shelf \in [Path -> Iso] /\ NoLabel \in Label /\ MaxBuilds \in Nat /\ MaxEdits \in Nat
  BY IsoAssumption
<1>2. NoCfg \in Cfgs
  BY UnusableType
<1>3. 0 \in 0 .. MaxBuilds /\ 0 \in 0 .. MaxEdits
  BY <1>1
<1> QED BY <1>1, <1>2, <1>3 DEF Init, TypeOK, PC, Exit

\* Every variable of `ks-gen iso' stays in its type; in particular volid is a
\* label from _extract on (build_iso's `volid: str | None').
THEOREM TypeCorrect == Spec => []TypeOK
BY TypeInit, TypeStep, PTL DEF Spec

-----------------------------------------------------------------------------
(***************************************************************************)
(* Every medium finds itself.  The invariant follows a command: what it    *)
(* has staged looks for the source's label before it is patched, and for   *)
(* the new one after; and nothing that is on the source is left out.       *)
(***************************************************************************)
OnTree == CfgName \ {"esp"}

MediaInv == \A p \in Path : AlmaMedium(disk[p])

StagedFor(l) == \A c \in CfgName : LooksFor(staged[c], l)

TreeStaged ==
    /\ OnTree \cap Present(Source.cfg) \subseteq Present(staged)
    /\ "esp" \notin Present(staged)
    /\ ~(Bios \subseteq Present(staged))
    /\ Source.volid = vendor

AllStaged ==
    /\ StagedFor(volid)
    /\ ~(Bios \subseteq Present(staged))
    /\ Source.state = "whole" =>
           /\ Present(Source.cfg) \subseteq Present(staged)
           /\ Source.esp = "none" => "esp" \notin Present(staged)

StageInv ==
    /\ pc = "patch" => StagedFor(vendor) /\ TreeStaged
    /\ pc = "esp" => StagedFor(volid) /\ TreeStaged
    /\ pc \in {"unlink", "author"} => AllStaged

IsoInv == TypeOK /\ MediaInv /\ StageInv

\* A file that is not there looks for nothing.
LEMMA NoConfigLooksFor == \A l : LooksFor(NoConfig, l)
BY EmptySeq DEF LooksFor, NoConfig

\* A missing or torn file has no configuration at all.
LEMMA UnusableIsAlma == \A state : AlmaMedium(Unusable(state))
BY DEF AlmaMedium, Unusable, Present, NoCfg, Bios

\* What a step reads of its source stays the same while no file changes.
LEMMA SameSource ==
    ASSUME UNCHANGED <<disk, cmd>>
    PROVE  Source' = Source
BY DEF Source

\* Steps that change neither the files nor what is staged, and do not enter a
\* step that StageInv speaks of, keep the invariant.
LEMMA QuietStep ==
    ASSUME IsoInv, TypeOK', UNCHANGED disk, pc' \notin {"patch", "esp", "unlink", "author"}
    PROVE  IsoInv'
BY DEF IsoInv, MediaInv, StageInv

\* Every step keeps the invariant.
LEMMA IsoStep ==
    ASSUME Reliable, IsoInv, [Next]_vars
    PROVE  IsoInv'
<1> USE DEF Step, local
<1>0. TypeOK /\ TypeOK' /\ MediaInv /\ StageInv
  BY TypeStep DEF IsoInv
<1>1. CASE pc' \notin {"patch", "esp", "unlink", "author"} /\ UNCHANGED disk
  BY <1>0, <1>1, QuietStep
<1>2. CASE Inspect
  <2>1. CASE Fail("inspect", "usage") \/ Fail("inspect", "tool")
    BY <1>1, <2>1 DEF Fail
  <2>2. CASE ~(Fail("inspect", "usage") \/ Fail("inspect", "tool"))
    <3>1. /\ pc = "inspect" /\ pc' = "patch" /\ vendor' = Source.volid
          /\ Source.state = "whole" /\ UNCHANGED <<disk, cmd>>
      BY <1>2, <2>2 DEF Inspect, Inspectable
    <3>2. staged' = [c \in CfgName |->
              IF c \in Extracted(Present(Source.cfg)) THEN Source.cfg[c] ELSE NoConfig]
      BY <1>2, <2>2 DEF Inspect, Reliable
    <3>3. AlmaMedium(Source)
      BY <1>0, <3>1, CommandType DEF MediaInv, Source
    <3>4. Source' = Source
      BY <3>1, SameSource
    <3>5. \A c \in CfgName : LooksFor(Source.cfg[c], Source.volid)
      <4>1. \A c \in Present(Source.cfg) : Lookups(Source.cfg[c]) \subseteq {Source.volid}
        BY <3>3 DEF AlmaMedium
      <4>2. \A c \in CfgName : Source.cfg[c] \in Config
        BY <1>0, <3>1, CommandType
      <4> QED BY <4>1, <4>2, LookupsAreLooksFor, NoConfigLooksFor DEF Present
    <3>6. StagedFor(vendor)'
      BY <3>1, <3>2, <3>5, NoConfigLooksFor DEF StagedFor
    <3>7. Present(staged') = Extracted(Present(Source.cfg)) \cap Present(Source.cfg)
      BY <3>2 DEF Present, Extracted, CfgName
    <3>8. ~(Bios \subseteq Present(Source.cfg))
      BY <3>3 DEF AlmaMedium
    <3>9. TreeStaged'
      BY <3>1, <3>4, <3>7, <3>8 DEF TreeStaged, Extracted, OnTree, CfgName, Bios, Present
    <3> QED BY <1>0, <3>1, <3>6, <3>9 DEF IsoInv, MediaInv, StageInv
  <2> QED BY <2>1, <2>2
<1>3. CASE Patch
  <2>1. CASE Fail("patch", "tool")
    BY <1>1, <2>1 DEF Fail
  <2>2. CASE ~Fail("patch", "tool")
    <3>1. /\ pc = "patch" /\ pc' = "esp" /\ UNCHANGED <<disk, cmd, vendor, volid>>
          /\ \A c \in Present(staged) : ~Unpatchable(staged[c], vendor, volid)
      BY <1>3, <2>2 DEF Patch
    <3>2. staged' = [c \in CfgName |->
              IF c \in Present(staged) THEN Patched(staged[c], c, vendor, volid, net) ELSE NoConfig]
      BY <1>3, <2>2 DEF Patch
    <3>3. Source' = Source
      BY <3>1, SameSource
    <3>4. /\ vendor \in Label /\ vendor # NoLabel /\ volid \in Label /\ net \in BOOLEAN
          /\ \A c \in CfgName : staged[c] \in Config
      BY <1>0, <3>1, CommandType DEF TypeOK
    <3>5. StagedFor(vendor) /\ TreeStaged
      BY <1>0, <3>1 DEF StageInv
    <3>6. \A c \in Present(staged) : LooksFor(Patched(staged[c], c, vendor, volid, net), volid)
      BY <3>4, <3>5, PatchedLooksFor DEF StagedFor, Present
    <3>7. StagedFor(volid)'
      BY <3>1, <3>2, <3>6, NoConfigLooksFor DEF StagedFor
    <3>8. Present(staged') = Present(staged)
      BY <3>1, <3>2, <3>4, PatchedType DEF Present
    <3>9. TreeStaged'
      BY <3>1, <3>3, <3>5, <3>8 DEF TreeStaged, Present
    <3> QED BY <1>0, <3>1, <3>7, <3>9 DEF IsoInv, MediaInv, StageInv
  <2> QED BY <2>1, <2>2
<1>4. CASE PatchEsp
  <2>1. CASE Fail("esp", "tool")
    BY <1>1, <2>1 DEF Fail
  <2>2. CASE ~Fail("esp", "tool")
    <3>1. pc = "esp" /\ pc' = "unlink" /\ UNCHANGED <<disk, cmd, vendor, volid>>
      BY <1>4, <2>2 DEF PatchEsp
    <3>2. Source' = Source
      BY <3>1, SameSource
    <3>3. AlmaMedium(Source)
      BY <1>0, <3>1, CommandType DEF MediaInv, Source
    <3>4. StagedFor(volid) /\ TreeStaged
      BY <1>0, <3>1 DEF StageInv
    <3>5. CASE Source.esp = "none" /\ UNCHANGED staged
      <4>1. "esp" \notin Present(Source.cfg)
        BY <3>3, <3>5 DEF AlmaMedium
      <4>2. Present(Source.cfg) \subseteq Present(staged)
        BY <3>4, <4>1 DEF TreeStaged, OnTree, Present
      <4>3. AllStaged'
        BY <3>1, <3>2, <3>4, <3>5, <4>2 DEF AllStaged, StagedFor, TreeStaged, Present
      <4> QED BY <1>0, <3>1, <4>3 DEF IsoInv, MediaInv, StageInv
    <3>6. CASE /\ EspPatchable
               /\ staged' = [staged EXCEPT !["esp"] =
                      Patched(Source.cfg["esp"], "esp", vendor, volid, net)]
      <4> DEFINE new == Patched(Source.cfg["esp"], "esp", vendor, volid, net)
      <4>1. /\ vendor \in Label /\ vendor # NoLabel /\ volid \in Label /\ net \in BOOLEAN
            /\ Source.cfg["esp"] \in Config /\ "esp" \in CfgName
            /\ staged \in [CfgName -> Config]
        BY <1>0, <3>1, CommandType DEF TypeOK, CfgName, Cfgs
      <4>2. Lookups(Source.cfg["esp"]) \subseteq {vendor}
        BY <3>3, <3>4, <3>6 DEF AlmaMedium, TreeStaged, EspPatchable
      <4>3. LooksFor(Source.cfg["esp"], vendor)
        BY <4>1, <4>2, LookupsAreLooksFor
      <4>4. LooksFor(new, volid) /\ new # NoConfig
        BY <3>6, <4>1, <4>3, PatchedLooksFor, PatchedType DEF EspPatchable
      <4> HIDE DEF new
      <4>5. staged' = [staged EXCEPT !["esp"] = new]
        BY <3>6 DEF new
      <4>6. \A c \in CfgName : staged'[c] = IF c = "esp" THEN new ELSE staged[c]
        BY <4>1, <4>5
      <4>7. StagedFor(volid)'
        BY <3>1, <3>4, <4>4, <4>6 DEF StagedFor
      <4>8. Present(staged') = Present(staged) \cup {"esp"}
        BY <4>1, <4>4, <4>6 DEF Present
      <4>9. Present(Source.cfg) \subseteq Present(staged')
        BY <3>4, <4>8 DEF TreeStaged, OnTree, Present
      <4>10. ~(Bios \subseteq Present(staged'))
        BY <3>4, <4>8 DEF TreeStaged, Bios
      <4>11. Source.esp # "none"
        BY <3>6 DEF EspPatchable
      <4>12. AllStaged'
        BY <3>2, <4>7, <4>9, <4>10, <4>11 DEF AllStaged, Present
      <4> QED BY <1>0, <3>1, <4>12 DEF IsoInv, MediaInv, StageInv
    <3> QED BY <1>4, <2>2, <3>5, <3>6 DEF PatchEsp
  <2> QED BY <2>1, <2>2
<1>5. CASE Unlink
  <2>1. /\ pc = "unlink" /\ pc' = "author" /\ UNCHANGED <<cmd, volid, staged>>
        /\ disk' = [disk EXCEPT ![cmd.out] = Unusable("missing")]
    BY <1>5 DEF Unlink
  <2>2. MediaInv'
    BY <1>0, <2>1, UnusableIsAlma DEF MediaInv, TypeOK
  <2>3. Source' = Source \/ Source'.state # "whole"
    BY <1>0, <2>1, CommandType DEF Source, TypeOK, Unusable
  <2>4. AllStaged
    BY <1>0, <2>1 DEF StageInv
  <2>5. AllStaged'
    BY <2>1, <2>3, <2>4 DEF AllStaged, StagedFor, Present
  <2> QED BY <1>0, <2>1, <2>2, <2>5 DEF IsoInv, StageInv
<1>6. ASSUME Leftover PROVE MediaInv'
  BY <1>0, <1>6, UnusableIsAlma DEF MediaInv, TypeOK, Leftover
<1>7. CASE Author
  <2>1. CASE AuthorFails
    BY <1>0, <1>6, <2>1 DEF AuthorFails, IsoInv, StageInv
  <2>2. CASE ~AuthorFails
    <3>1. /\ pc = "author" /\ pc' = "done" /\ Source.state = "whole"
          /\ disk' = [disk EXCEPT ![cmd.out] = NewIso]
      BY <1>7, <2>2 DEF Author, CanAuthor
    <3>2. AllStaged /\ Present(Source.cfg) \subseteq Present(staged)
      BY <1>0, <3>1 DEF StageInv, AllStaged
    <3>3. Present(NewIso.cfg) = Present(staged)
          /\ \A c \in Present(staged) : NewIso.cfg[c] = staged[c]
      BY <3>2 DEF NewIso, Present
    <3>4. \A c \in Present(staged) : Lookups(staged[c]) \subseteq {volid}
      BY <1>0, <3>1, <3>2, CommandType, LookupsAreLooksFor DEF AllStaged, StagedFor, Present
    <3>5. NewIso.volid = volid /\ NewIso.esp = Source.esp
      BY DEF NewIso
    <3>6. AlmaMedium(NewIso)
      BY <3>1, <3>2, <3>3, <3>4, <3>5 DEF AlmaMedium, AllStaged
    <3>7. MediaInv'
      BY <1>0, <3>1, <3>6 DEF MediaInv, TypeOK
    <3> QED BY <1>0, <3>1, <3>7 DEF IsoInv, StageInv
  <2> QED BY <2>1, <2>2
<1>8. CASE Kill
  BY <1>0, <1>6, <1>8 DEF Kill, IsoInv, StageInv, MediaInv
<1>9. CASE EditKs \/ UNCHANGED vars
  <2>1. UNCHANGED <<disk, pc, cmd, volid, vendor, staged>>
    BY <1>9 DEF EditKs, vars
  <2>2. Source' = Source
    BY <2>1, SameSource
  <2> QED BY <1>0, <2>1, <2>2 DEF IsoInv, MediaInv, StageInv, AllStaged, StagedFor, TreeStaged, Present
<1>10. CASE Start \/ CheckFlag \/ CheckVolid
  BY <1>1, <1>10 DEF Start, CheckFlag, CheckVolid, Fail
<1> QED BY <1>2, <1>3, <1>4, <1>5, <1>7, <1>8, <1>9, <1>10 DEF Next

\* Whatever is built from what, in place or not, killed or failing: every
\* entry of every medium looks for that medium's own label.
THEOREM EveryMediumFindsItself ==
    ASSUME Reliable
    PROVE  Spec => []SelfContained
<1>1. Init => IsoInv
  <2>1. Init => TypeOK /\ MediaInv
    BY TypeInit, IsoAssumption DEF Init, MediaInv
  <2> QED BY <2>1 DEF Init, IsoInv, StageInv
<1>2. IsoInv /\ [Next]_vars => IsoInv'
  BY IsoStep
<1>3. IsoInv => SelfContained
  BY DEF IsoInv, MediaInv, SelfContained, AlmaMedium
<1> QED BY <1>1, <1>2, <1>3, PTL DEF Spec

-----------------------------------------------------------------------------
(***************************************************************************)
(* The unattended entry.  It is recognised by its marker, so what has to   *)
(* be known is that a marker stands where an entry of ours does, and that  *)
(* the one entry of ours is the one that boots.                            *)
(***************************************************************************)

\* The media on the shelf are the vendor's own: they hold no kickstart and no
\* entry of ours, and no label that is a word of a menu or one of ours.
VendorMedium(iso) ==
    /\ iso.ks = "none" /\ iso.volid.form \notin {"word", "ksal"}
    /\ \A c \in CfgName : \A i \in DOMAIN iso.cfg[c].entries :
           ~iso.cfg[c].entries[i].ours /\ iso.cfg[c].entries[i].marker # Marker
VendorShelf == \A p \in Path : VendorMedium(Shelf[p])

\* No label that is asked for is a word of a menu.
PlainLabels == \A c \in Command : c.volid.form # "word"

\* The kickstart stays as it is while a command runs.
SteadyKs == ~EditsDuring

OursIsDefault(conf) == {i \in DOMAIN conf.entries : conf.entries[i].ours} = {conf.default}

Tidy(conf) ==
    /\ \A i \in DOMAIN conf.entries : conf.entries[i].ours <=> conf.entries[i].marker = Marker
    /\ Marked(conf) => OursIsDefault(conf)

\* A file that is not there has no entry.
LEMMA NoConfigTidy == Tidy(NoConfig) /\ ~Marked(NoConfig)
BY DEF Tidy, Marked, NoConfig

\* What retargeting does to the entries one by one.
LEMMA RetargetedEntries ==
    ASSUME NEW conf \in Config, NEW old \in Label, NEW l \in Label
    PROVE  LET t == Retarget(conf, old, l)
           IN  /\ t.default = conf.default
               /\ DOMAIN t.entries = DOMAIN conf.entries
               /\ \A i \in DOMAIN conf.entries :
                      /\ t.entries[i].ours = conf.entries[i].ours
                      /\ t.entries[i].marker = IF conf.entries[i].marker = old
                                                 THEN l ELSE conf.entries[i].marker
<1>1. conf.entries \in Seq(Entry) /\ DOMAIN conf.entries = 1 .. Len(conf.entries)
  BY LenProperties DEF Config
<1>2. \A i \in DOMAIN conf.entries : conf.entries[i] \in Entry
  BY <1>1, ElementOfSeq
<1> QED BY <1>2 DEF Retarget, Config, Entry

\* An entry put before a sequence of them.
LEMMA Prepended ==
    ASSUME NEW T, NEW e \in T, NEW s \in Seq(T)
    PROVE  LET new == <<e>> \o s
           IN  /\ 1 \in DOMAIN new /\ new[1] = e
               /\ \A i \in DOMAIN new \ {1} : i - 1 \in DOMAIN s /\ new[i] = s[i - 1]
<1> DEFINE new == <<e>> \o s
<1>1. <<e>> \in Seq(T) /\ Len(<<e>>) = 1 /\ <<e>>[1] = e
  OBVIOUS
<1>2. /\ new \in Seq(T) /\ Len(new) = 1 + Len(s)
      /\ \A i \in 1 .. Len(new) : new[i] = IF i <= 1 THEN <<e>>[i] ELSE s[i - 1]
  BY <1>1, ConcatProperties
<1> HIDE DEF new
<1>3. DOMAIN new = 1 .. Len(new) /\ DOMAIN s = 1 .. Len(s) /\ Len(s) \in Nat
  BY <1>2, LenProperties
<1>4. 1 \in DOMAIN new /\ new[1] = e
  BY <1>1, <1>2, <1>3
<1>5. ASSUME NEW i \in DOMAIN new \ {1} PROVE i - 1 \in DOMAIN s /\ new[i] = s[i - 1]
  BY <1>2, <1>3
<1> QED BY <1>4, <1>5 DEF new

\* A patched configuration is marked, whatever the labels are.
LEMMA PatchedIsMarked ==
    ASSUME NEW conf \in Config, NEW c \in CfgName, NEW old \in Label, NEW l \in Label,
           NEW n \in BOOLEAN
    PROVE  Marked(Patched(conf, c, old, l, n))
<1> DEFINE t == Retarget(conf, old, l)
           e == Unattended(c, l, n)
<1>1. t \in Config
  BY RetargetType
<1>2. e \in Entry /\ e.marker = Marker
  BY IsoAssumption DEF Unattended, Entry
<1> HIDE DEF t, e
<1>3. CASE Marked(t)
  BY <1>3 DEF Patched, Rewrite, t
<1>4. CASE ~Marked(t)
  <2> DEFINE new == <<e>> \o t.entries
  <2>1. Patched(conf, c, old, l, n) = [t EXCEPT !.entries = new, !.default = 1]
    BY <1>4 DEF Patched, Rewrite, t, e
  <2>2. 1 \in DOMAIN new /\ new[1] = e
    BY <1>1, <1>2, Prepended DEF Config
  <2> HIDE DEF new
  <2>3. Patched(conf, c, old, l, n).entries = new
    BY <1>1, <2>1 DEF Config
  <2> QED BY <1>2, <2>2, <2>3 DEF Marked
<1> QED BY <1>3, <1>4

\* Patching a tidy configuration leaves a tidy one; if it was not marked, the
\* entry that boots takes its packages from the medium unless told otherwise.
LEMMA PatchedTidy ==
    ASSUME NEW conf \in Config, NEW c \in CfgName, NEW old \in Label, NEW l \in Label,
           NEW n \in BOOLEAN, old.form # "word", l.form # "word", l # NoLabel, Tidy(conf)
    PROVE  /\ Tidy(Patched(conf, c, old, l, n))
           /\ ~Marked(conf) => (TakesMedia(Patched(conf, c, old, l, n)) <=> ~n)
<1> DEFINE t == Retarget(conf, old, l)
           e == Unattended(c, l, n)
<1>1. t \in Config
  BY RetargetType
<1>2. /\ e \in Entry /\ e.marker = Marker /\ e.ours
      /\ e.refs["repo"] = IF n THEN NoLabel ELSE l
  BY IsoAssumption DEF Unattended, Entry, RefName
<1>3. old # Marker /\ l # Marker
  BY DEF Marker, Word
<1>4. /\ t.default = conf.default /\ DOMAIN t.entries = DOMAIN conf.entries
      /\ \A i \in DOMAIN t.entries : t.entries[i].ours = conf.entries[i].ours
                                     /\ (t.entries[i].marker = Marker
                                            <=> conf.entries[i].marker = Marker)
  BY <1>3, RetargetedEntries
<1> HIDE DEF t, e
<1>5. Marked(t) <=> Marked(conf)
  BY <1>4 DEF Marked
<1>6. Tidy(t)
  BY <1>4, <1>5 DEF Tidy, OursIsDefault
<1>7. CASE Marked(t)
  BY <1>5, <1>6, <1>7 DEF Patched, Rewrite, t
<1>8. CASE ~Marked(t)
  <2> DEFINE new == <<e>> \o t.entries
             p == Patched(conf, c, old, l, n)
  <2>1. p = [t EXCEPT !.entries = new, !.default = 1]
    BY <1>8 DEF Patched, Rewrite, t, e
  <2>2. /\ 1 \in DOMAIN new /\ new[1] = e
        /\ \A i \in DOMAIN new \ {1} : i - 1 \in DOMAIN t.entries /\ new[i] = t.entries[i - 1]
    BY <1>1, <1>2, Prepended DEF Config
  <2> HIDE DEF new
  <2>3. p.entries = new /\ p.default = 1
    BY <1>1, <2>1 DEF Config
  <2> HIDE DEF p
  <2>4. \A i \in DOMAIN t.entries : t.entries[i].marker # Marker /\ ~t.entries[i].ours
    BY <1>6, <1>8 DEF Marked, Tidy
  <2>5. \A i \in DOMAIN new \ {1} : new[i].marker # Marker /\ ~new[i].ours
    BY <2>2, <2>4
  <2>6. \A i \in DOMAIN new : new[i].ours <=> new[i].marker = Marker
    BY <1>2, <2>2, <2>5
  <2>7. {i \in DOMAIN new : new[i].ours} = {1}
    BY <1>2, <2>2, <2>5
  <2>8. Tidy(p)
    BY <2>3, <2>6, <2>7 DEF Tidy, OursIsDefault
  <2>9. TakesMedia(p) <=> ~n
    BY <1>2, <2>2, <2>3 DEF TakesMedia
  <2> QED BY <2>8, <2>9 DEF p
<1> QED BY <1>7, <1>8

\* Every file, ours and the vendor's.
MarksInv == \A p \in Path :
    /\ disk[p].volid.form # "word"
    /\ \A c \in CfgName : Tidy(disk[p].cfg[c])
    /\ IsKsGen(disk[p]) => \A c \in Present(disk[p].cfg) : Marked(disk[p].cfg[c])
    /\ ~IsKsGen(disk[p]) =>
           disk[p].volid.form # "ksal" /\ \A c \in CfgName : ~Marked(disk[p].cfg[c])

\* What is staged is tidy from its extraction on, and marked once patched.
Working == {"patch", "esp", "unlink", "author"}
StagedTidy ==
    pc \in Working =>
        volid.form # "word" /\ vendor.form # "word" /\ \A c \in CfgName : Tidy(staged[c])
StagedMarked ==
    pc \in Working \ {"patch"} => \A c \in Present(staged) : Marked(staged[c])

\* From a vendor's source: no entry of ours until the patch, then one that takes
\* its packages from where net says, and a label of ours unless one was given.
FirstBuild ==
    /\ pc = "inspect" => volid = cmd.volid
    /\ pc \in Working /\ ~rebuilt /\ cmd.volid = NoLabel => volid.form = "ksal"
    /\ pc \in {"patch", "esp"} /\ ~rebuilt => ~IsKsGen(Source)
    /\ pc = "patch" /\ ~rebuilt => \A c \in CfgName : ~Marked(staged[c])
    /\ pc \in Working \ {"patch"} /\ ~rebuilt =>
           \A c \in Present(staged) : TakesMedia(staged[c]) <=> ~net

BuildInv == IsoInv /\ MarksInv /\ StagedTidy /\ StagedMarked /\ FirstBuild

\* A missing or torn file holds nothing.
LEMMA MarksOfUnusable ==
    ASSUME MarksInv, TypeOK, cmd.out \in Path, NEW state,
           state # "whole", disk' = [disk EXCEPT ![cmd.out] = Unusable(state)]
    PROVE  MarksInv'
<1> DEFINE u == Unusable(state)
<1>1. /\ u.volid.form = "none" /\ ~IsKsGen(u)
      /\ \A c \in CfgName : Tidy(u.cfg[c]) /\ ~Marked(u.cfg[c])
  BY NoConfigTidy DEF Unusable, NoLabel, NoCfg, IsKsGen
<1> HIDE DEF u
<1>2. \A p \in Path : disk'[p] = IF p = cmd.out THEN u ELSE disk[p]
  BY DEF TypeOK, u
<1> QED BY <1>1, <1>2 DEF MarksInv

\* The first state has the invariant.
LEMMA BuildInit == VendorShelf /\ Init => BuildInv
<1> SUFFICES ASSUME VendorShelf, Init PROVE BuildInv
  OBVIOUS
<1>1. IsoInv
  BY TypeInit, IsoAssumption DEF Init, IsoInv, MediaInv, StageInv
<1>2. MarksInv
  BY DEF Init, VendorShelf, VendorMedium, MarksInv, Tidy, Marked, IsKsGen
<1> QED BY <1>1, <1>2 DEF Init, BuildInv, StagedTidy, StagedMarked, FirstBuild, Working

\* What has been patched is marked, whatever the media and the labels are.
LEMMA MarkedStep ==
    ASSUME TypeOK, StagedMarked, [Next]_vars
    PROVE  StagedMarked'
<1> USE DEF Step, Fail, local, Working, StagedMarked
<1>1. CASE pc' \notin Working \ {"patch"}
  BY <1>1
<1>2. CASE Start \/ CheckFlag \/ CheckVolid \/ Inspect \/ Author \/ Kill
  BY <1>1, <1>2 DEF Start, CheckFlag, CheckVolid, Inspect, Author, AuthorFails, Kill
<1>3. CASE Patch
  <2>1. CASE Fail("patch", "tool")
    BY <1>1, <2>1
  <2>2. CASE ~Fail("patch", "tool")
    <3>1. /\ pc = "patch"
          /\ staged' = [c \in CfgName |->
              IF c \in Present(staged) THEN Patched(staged[c], c, vendor, volid, net) ELSE NoConfig]
      BY <1>3, <2>2 DEF Patch
    <3>2. /\ vendor \in Label /\ volid \in Label /\ net \in BOOLEAN
          /\ \A c \in CfgName : staged[c] \in Config
      BY <3>1, CommandType DEF TypeOK
    <3> QED BY <3>1, <3>2, PatchedIsMarked DEF Present
  <2> QED BY <2>1, <2>2
<1>4. CASE PatchEsp
  <2>1. CASE Fail("esp", "tool")
    BY <1>1, <2>1
  <2>2. CASE ~Fail("esp", "tool")
    <3> DEFINE new == Patched(Source.cfg["esp"], "esp", vendor, volid, net)
    <3>1. pc = "esp" /\ pc' = "unlink"
      BY <1>4, <2>2 DEF PatchEsp
    <3>2. /\ vendor \in Label /\ volid \in Label /\ net \in BOOLEAN
          /\ Source.cfg["esp"] \in Config /\ "esp" \in CfgName
          /\ staged \in [CfgName -> Config]
      BY <3>1, CommandType DEF TypeOK, CfgName, Cfgs
    <3>3. Marked(new)
      BY <3>2, PatchedIsMarked
    <3> HIDE DEF new
    <3>4. \A c \in CfgName : staged'[c] = staged[c] \/ staged'[c] = new
      BY <1>4, <2>2, <3>2 DEF PatchEsp, new
    <3> QED BY <3>1, <3>3, <3>4 DEF Present
  <2> QED BY <2>1, <2>2
<1>5. CASE Unlink \/ EditKs \/ UNCHANGED vars
  BY <1>5 DEF Unlink, EditKs, vars, Present
<1> QED BY <1>2, <1>3, <1>4, <1>5 DEF Next

\* Every step keeps it.
LEMMA BuildStep ==
    ASSUME Reliable, PlainLabels, BuildInv, [Next]_vars
    PROVE  BuildInv'
<1> USE DEF Step, local
<1>0. TypeOK /\ MarksInv /\ StagedTidy /\ StagedMarked /\ FirstBuild /\ StageInv
  BY DEF BuildInv, IsoInv
<1>1. IsoInv' /\ TypeOK' /\ StagedMarked'
  BY IsoStep, MarkedStep DEF BuildInv, IsoInv
<1>2. ASSUME UNCHANGED disk PROVE MarksInv'
  BY <1>0, <1>2 DEF MarksInv
<1>3. CASE pc' \notin Working \cup {"inspect"} /\ UNCHANGED disk
  BY <1>1, <1>2, <1>3 DEF BuildInv, StagedTidy, FirstBuild, Working
<1>4. CASE Start \/ CheckFlag
  BY <1>3, <1>4 DEF Start, CheckFlag, Fail, Working
<1>5. CASE CheckVolid
  <2>1. CASE Fail("volid", "usage") \/ Fail("volid", "tool")
    BY <1>3, <2>1 DEF Fail, Working
  <2>2. CASE ~(Fail("volid", "usage") \/ Fail("volid", "tool"))
    <3>1. UNCHANGED disk /\ pc' = "inspect" /\ volid' = cmd.volid /\ cmd' = cmd
      BY <1>5, <2>2 DEF CheckVolid
    <3> QED BY <1>1, <1>2, <3>1 DEF BuildInv, StagedTidy, FirstBuild, Working
  <2> QED BY <2>1, <2>2
<1>6. CASE Inspect
  <2>1. CASE Fail("inspect", "usage") \/ Fail("inspect", "tool")
    BY <1>3, <2>1 DEF Fail, Working
  <2>2. CASE ~(Fail("inspect", "usage") \/ Fail("inspect", "tool"))
    <3>1. /\ pc = "inspect" /\ pc' = "patch" /\ vendor' = Source.volid /\ volid' = ChosenVolid
          /\ ChosenVolid # NoLabel /\ Inspectable
          /\ rebuilt' = Marked(Source.cfg["efi"]) /\ UNCHANGED <<disk, cmd>>
      BY <1>6, <2>2 DEF Inspect
    <3>2. PICK found \in SUBSET Present(Source.cfg) :
              staged' = [c \in CfgName |->
                            IF c \in Extracted(found) THEN Source.cfg[c] ELSE NoConfig]
      BY <1>6, <2>2 DEF Inspect
    <3>3. /\ cmd \in Command /\ cmd.src \in Path /\ Source' = Source
          /\ volid = cmd.volid
      BY <1>0, <3>1, CommandType, SameSource DEF FirstBuild
    <3>4. /\ Source.volid.form # "word" /\ \A c \in CfgName : Tidy(Source.cfg[c])
          /\ IsKsGen(Source) => \A c \in Present(Source.cfg) : Marked(Source.cfg[c])
          /\ ~IsKsGen(Source) => \A c \in CfgName : ~Marked(Source.cfg[c])
      BY <1>0, <3>3 DEF MarksInv, Source
    <3>5. ChosenVolid.form # "word"
      BY <3>3, <3>4 DEF ChosenVolid, PlainLabels, DefaultVolid, NoLabel
    <3>6. \A c \in CfgName : staged'[c] = Source.cfg[c] \/ staged'[c] = NoConfig
      BY <3>2
    <3>7. StagedTidy'
      BY <3>1, <3>4, <3>5, <3>6, NoConfigTidy DEF StagedTidy
    <3>8. ~rebuilt' => ~IsKsGen(Source)
      BY <3>1, <3>4 DEF Inspectable
    <3>9. ~rebuilt' => \A c \in CfgName : ~Marked(staged'[c])
      BY <3>4, <3>6, <3>8, NoConfigTidy
    <3>10. ~rebuilt' /\ cmd.volid = NoLabel => ChosenVolid.form = "ksal"
      BY <3>1, <3>3 DEF ChosenVolid, DefaultVolid
    <3>11. FirstBuild'
      BY <3>1, <3>3, <3>8, <3>9, <3>10 DEF FirstBuild, Working
    <3> QED BY <1>1, <1>2, <3>1, <3>7, <3>11 DEF BuildInv
  <2> QED BY <2>1, <2>2
<1>7. CASE Patch
  <2>1. CASE Fail("patch", "tool")
    BY <1>3, <2>1 DEF Fail, Working
  <2>2. CASE ~Fail("patch", "tool")
    <3>1. /\ pc = "patch" /\ pc' = "esp"
          /\ UNCHANGED <<disk, cmd, vendor, volid, net, rebuilt>>
          /\ staged' = [c \in CfgName |->
              IF c \in Present(staged) THEN Patched(staged[c], c, vendor, volid, net) ELSE NoConfig]
      BY <1>7, <2>2 DEF Patch
    <3>2. /\ vendor \in Label /\ volid \in Label /\ volid # NoLabel /\ net \in BOOLEAN
          /\ \A c \in CfgName : staged[c] \in Config
      BY <1>0, <3>1, CommandType DEF TypeOK
    <3>3. /\ volid.form # "word" /\ vendor.form # "word" /\ \A c \in CfgName : Tidy(staged[c])
      BY <1>0, <3>1 DEF StagedTidy, Working
    <3>4. Source' = Source
      BY <3>1, SameSource
    <3>5. \A c \in CfgName :
              staged'[c] = NoConfig \/ staged'[c] = Patched(staged[c], c, vendor, volid, net)
      BY <3>1
    <3>6. StagedTidy'
      BY <3>1, <3>2, <3>3, <3>5, PatchedTidy, NoConfigTidy DEF StagedTidy
    <3>7. ~rebuilt => \A c \in CfgName :
              TakesMedia(Patched(staged[c], c, vendor, volid, net)) <=> ~net
      BY <1>0, <3>1, <3>2, <3>3, PatchedTidy DEF FirstBuild
    <3>8. FirstBuild'
      BY <1>0, <3>1, <3>4, <3>5, <3>7 DEF FirstBuild, Working, Present
    <3> QED BY <1>1, <1>2, <3>1, <3>6, <3>8 DEF BuildInv
  <2> QED BY <2>1, <2>2
<1>8. CASE PatchEsp
  <2>1. CASE Fail("esp", "tool")
    BY <1>3, <2>1 DEF Fail, Working
  <2>2. CASE ~Fail("esp", "tool")
    <3>1. /\ pc = "esp" /\ pc' = "unlink"
          /\ UNCHANGED <<disk, cmd, vendor, volid, net, rebuilt>>
      BY <1>8, <2>2 DEF PatchEsp
    <3>2. /\ vendor \in Label /\ volid \in Label /\ volid # NoLabel /\ net \in BOOLEAN
          /\ cmd.src \in Path /\ Source.cfg["esp"] \in Config /\ "esp" \in CfgName
          /\ staged \in [CfgName -> Config]
      BY <1>0, <3>1, CommandType DEF TypeOK, CfgName, Cfgs
    <3>3. /\ volid.form # "word" /\ vendor.form # "word" /\ \A c \in CfgName : Tidy(staged[c])
          /\ ~rebuilt => ~IsKsGen(Source)
                         /\ \A c \in Present(staged) : TakesMedia(staged[c]) <=> ~net
          /\ ~rebuilt /\ cmd.volid = NoLabel => volid.form = "ksal"
      BY <1>0, <3>1 DEF StagedTidy, FirstBuild, Working
    <3>4. /\ Tidy(Source.cfg["esp"])
          /\ ~IsKsGen(Source) => ~Marked(Source.cfg["esp"])
      BY <1>0, <3>2 DEF MarksInv, Source
    <3> DEFINE new == Patched(Source.cfg["esp"], "esp", vendor, volid, net)
    <3>5. Tidy(new) /\ (~rebuilt => (TakesMedia(new) <=> ~net))
      BY <3>2, <3>3, <3>4, PatchedTidy
    <3> HIDE DEF new
    <3>6. \A c \in CfgName : staged'[c] = staged[c] \/ staged'[c] = new
      BY <1>8, <2>2, <3>2 DEF PatchEsp, new
    <3>7. StagedTidy'
      BY <3>1, <3>3, <3>5, <3>6 DEF StagedTidy
    <3>8. FirstBuild'
      BY <3>1, <3>3, <3>5, <3>6 DEF FirstBuild, Working, Present
    <3> QED BY <1>1, <1>2, <3>1, <3>7, <3>8 DEF BuildInv
  <2> QED BY <2>1, <2>2
<1>9. CASE Unlink
  <2>1. /\ pc = "unlink" /\ pc' = "author"
        /\ UNCHANGED <<cmd, vendor, volid, net, rebuilt, staged>>
        /\ disk' = [disk EXCEPT ![cmd.out] = Unusable("missing")]
    BY <1>9 DEF Unlink
  <2>2. MarksInv'
    BY <1>0, <2>1, CommandType, MarksOfUnusable
  <2>3. StagedTidy' /\ FirstBuild'
    BY <1>0, <2>1 DEF StagedTidy, FirstBuild, Working, Present
  <2> QED BY <1>1, <2>2, <2>3 DEF BuildInv
<1>10. ASSUME Leftover, pc # "idle" PROVE MarksInv'
  <2>1. PICK state \in {"torn", "missing"} : disk' = [disk EXCEPT ![cmd.out] = Unusable(state)]
    BY <1>10 DEF Leftover
  <2> QED BY <1>0, <1>10, <2>1, CommandType, MarksOfUnusable
<1>11. ASSUME pc' = "done" PROVE StagedTidy' /\ FirstBuild'
  BY <1>11 DEF StagedTidy, FirstBuild, Working
<1>12. CASE Author
  <2>1. CASE AuthorFails
    BY <1>1, <1>10, <1>11, <2>1 DEF AuthorFails, BuildInv
  <2>2. CASE ~AuthorFails
    <3>1. /\ pc = "author" /\ pc' = "done" /\ Source.state = "whole"
          /\ disk' = [disk EXCEPT ![cmd.out] = NewIso]
      BY <1>12, <2>2 DEF Author, CanAuthor
    <3>2. /\ volid.form # "word" /\ \A c \in CfgName : Tidy(staged[c])
          /\ \A c \in Present(staged) : Marked(staged[c])
      BY <1>0, <3>1 DEF StagedTidy, StagedMarked, Working
    <3>3. Present(Source.cfg) \subseteq Present(staged)
      BY <1>0, <3>1 DEF StageInv, AllStaged
    <3>4. /\ Present(NewIso.cfg) = Present(staged)
          /\ \A c \in CfgName : NewIso.cfg[c] = staged[c]
      BY <3>3 DEF NewIso, Present
    <3>5. NewIso.volid = volid /\ NewIso.state = "whole" /\ NewIso.ks = ks
      BY DEF NewIso
    <3>6. IsKsGen(NewIso)
      BY <1>0, <3>5 DEF IsKsGen, TypeOK, KsKind
    <3>7. \A p \in Path : disk'[p] = IF p = cmd.out THEN NewIso ELSE disk[p]
      BY <1>0, <3>1 DEF TypeOK
    <3>8. /\ NewIso.volid.form # "word"
          /\ \A c \in CfgName : Tidy(NewIso.cfg[c])
          /\ \A c \in Present(NewIso.cfg) : Marked(NewIso.cfg[c])
      BY <3>2, <3>4, <3>5 DEF Present
    <3>9. MarksInv'
      BY <1>0, <3>6, <3>7, <3>8 DEF MarksInv
    <3> QED BY <1>1, <1>11, <3>1, <3>9 DEF BuildInv
  <2> QED BY <2>1, <2>2
<1>13. CASE Kill
  <2>1. MarksInv'
    BY <1>2, <1>10, <1>13 DEF Kill
  <2> QED BY <1>1, <1>11, <1>13, <2>1 DEF Kill, BuildInv
<1>14. CASE EditKs \/ UNCHANGED vars
  <2>1. UNCHANGED <<disk, pc, local>>
    BY <1>14 DEF EditKs, vars
  <2>2. Source' = Source
    BY <2>1, SameSource
  <2>3. StagedTidy' /\ FirstBuild'
    BY <1>0, <2>1, <2>2 DEF StagedTidy, FirstBuild, Present
  <2> QED BY <1>1, <1>2, <2>1, <2>3 DEF BuildInv
<1> QED BY <1>4, <1>5, <1>6, <1>7, <1>8, <1>9, <1>12, <1>13, <1>14 DEF Next

\* From vendor media, with labels that are no words of a menu: whichever way a
\* medium of ours is booted, it starts the one unattended entry.  In place or
\* not, and whatever the kickstart turns into meanwhile.
THEOREM OursAlwaysBoots ==
    ASSUME Reliable, VendorShelf, PlainLabels
    PROVE  Spec => []UnattendedBoot
<1>1. Init => BuildInv
  BY BuildInit
<1>2. BuildInv /\ [Next]_vars => BuildInv'
  BY BuildStep
<1>3. BuildInv => UnattendedBoot
  BY DEF BuildInv, MarksInv, UnattendedBoot, Tidy, OursIsDefault, IsoInv, TypeOK, Iso, Present
<1> QED BY <1>1, <1>2, <1>3, PTL DEF Spec

-----------------------------------------------------------------------------
(***************************************************************************)
(* What a command that reports success has done, and what it had checked   *)
(* before it gave up the old output.                                       *)
(***************************************************************************)

\* From its check on, the kickstart is readable and net says where it installs from.
KsInv ==
    pc \in Working \cup {"volid", "inspect"} => Readable /\ (net <=> ks = "network")

\* Only a command that has ended has succeeded.
EndInv == exit = "ok" => pc = "done"

\* While nobody edits the kickstart, it stays what it was when it was read.
LEMMA KsStep ==
    ASSUME SteadyKs, TypeOK, KsInv, [Next]_vars
    PROVE  KsInv'
<1> USE DEF Step, Fail, local, Working, KsInv, Readable
<1>1. CASE pc' \in {"flag", "done"}
  BY <1>1
<1>2. CASE Start \/ CheckFlag
  BY <1>2 DEF Start, CheckFlag
<1>3. CASE CheckVolid \/ Inspect
  BY <1>3 DEF CheckVolid, Inspect
<1>4. CASE Patch \/ PatchEsp
  BY <1>4 DEF Patch, PatchEsp
<1>5. CASE Unlink
  BY <1>5 DEF Unlink
<1>6. CASE Author \/ Kill
  BY <1>1, <1>6 DEF Author, AuthorFails, Kill
<1>7. CASE EditKs
  BY <1>7 DEF EditKs, SteadyKs, TypeOK
<1>8. CASE UNCHANGED vars
  BY <1>8 DEF vars
<1> QED BY <1>2, <1>3, <1>4, <1>5, <1>6, <1>7, <1>8 DEF Next

\* Success is only ever reported at the end.
LEMMA EndStep ==
    ASSUME EndInv, [Next]_vars
    PROVE  EndInv'
<1> USE DEF Step, Fail, local, EndInv
<1>1. CASE Start \/ CheckFlag
  BY <1>1 DEF Start, CheckFlag
<1>2. CASE CheckVolid \/ Inspect
  BY <1>2 DEF CheckVolid, Inspect
<1>3. CASE Patch \/ PatchEsp
  BY <1>3 DEF Patch, PatchEsp
<1>4. CASE Unlink \/ Kill
  BY <1>4 DEF Unlink, Kill
<1>5. CASE Author
  BY <1>5 DEF Author, AuthorFails
<1>6. CASE EditKs \/ UNCHANGED vars
  BY <1>6 DEF EditKs, vars
<1> QED BY <1>1, <1>2, <1>3, <1>4, <1>5, <1>6 DEF Next

\* Only _author changes a file, and only the output.
LEMMA OnlyTheOutput ==
    ASSUME TypeOK, [Next]_vars, disk' # disk
    PROVE  /\ pc \in {"unlink", "author"}
           /\ \A p \in Path : disk'[p] # disk[p] => p = cmd.out
<1> USE DEF Step, Fail, local
<1>1. CASE Unlink
  BY <1>1 DEF Unlink, TypeOK
<1>2. ASSUME Leftover PROVE \A p \in Path : disk'[p] # disk[p] => p = cmd.out
  BY <1>2 DEF Leftover, TypeOK
<1>3. CASE Author
  BY <1>2, <1>3 DEF Author, AuthorFails, TypeOK
<1>4. CASE Kill
  BY <1>2, <1>4 DEF Kill
<1>5. ~(Start \/ CheckFlag \/ CheckVolid \/ Inspect \/ Patch \/ PatchEsp \/ EditKs)
  BY DEF Start, CheckFlag, CheckVolid, Inspect, Patch, PatchEsp, EditKs
<1> QED BY <1>1, <1>3, <1>4, <1>5 DEF Next, vars

\* Success is a medium, and stays one until the next command.
LEMMA SuccessStep ==
    ASSUME BuildInv, BuildInv', KsInv, EndInv, SuccessIsMedium, [Next]_vars
    PROVE  SuccessIsMedium'
<1> USE DEF Step, Fail, local
<1>0. TypeOK /\ FirstBuild /\ StageInv /\ MarksInv'
  BY DEF BuildInv, IsoInv
<1>1. CASE exit' # "ok"
  BY <1>1 DEF SuccessIsMedium
<1>2. CASE EditKs \/ UNCHANGED vars
  BY <1>2 DEF EditKs, vars, SuccessIsMedium
<1>3. CASE Author
  <2>1. CASE AuthorFails
    BY <1>1, <2>1 DEF AuthorFails
  <2>2. CASE ~AuthorFails
    <3>1. /\ pc = "author" /\ Source.state = "whole"
          /\ disk' = [disk EXCEPT ![cmd.out] = NewIso]
          /\ UNCHANGED <<cmd, volid, net, rebuilt, ks>>
      BY <1>3, <2>2 DEF Author, CanAuthor
    <3>2. disk'[cmd'.out] = NewIso
      BY <1>0, <3>1, CommandType DEF TypeOK
    <3>3. NewIso.volid = volid /\ NewIso.state = "whole" /\ NewIso.ks = ks /\ IsKsGen(NewIso)
      BY <1>0 DEF NewIso, IsKsGen, TypeOK, KsKind
    <3>4. Present(Source.cfg) \subseteq Present(staged)
      BY <1>0, <3>1 DEF StageInv, AllStaged
    <3>5. /\ Present(NewIso.cfg) = Present(staged)
          /\ \A c \in CfgName : NewIso.cfg[c] = staged[c]
      BY <3>4 DEF NewIso, Present
    <3>6. ks = "media" <=> ~net
      BY <3>1 DEF KsInv, Working, Readable
    <3>7. ~rebuilt => \A c \in Present(NewIso.cfg) : TakesMedia(NewIso.cfg[c]) <=> NewIso.ks = "media"
      BY <1>0, <3>1, <3>3, <3>5, <3>6 DEF FirstBuild, Working, Present
    <3>8. ~rebuilt /\ cmd.volid = NoLabel => NewIso.volid.form = "ksal"
      BY <1>0, <3>1, <3>3 DEF FirstBuild, Working
    <3>9. \A p \in Path : ~IsKsGen(disk'[p]) => disk'[p].volid.form # "ksal"
      BY <1>0 DEF MarksInv
    <3> QED BY <3>1, <3>2, <3>3, <3>7, <3>8, <3>9 DEF SuccessIsMedium
  <2> QED BY <2>1, <2>2
<1>4. CASE Start \/ Kill
  BY <1>1, <1>4 DEF Start, Kill
<1>5. CASE CheckFlag \/ CheckVolid \/ Inspect
  BY <1>1, <1>5 DEF CheckFlag, CheckVolid, Inspect, EndInv
<1>6. CASE Patch \/ PatchEsp \/ Unlink
  BY <1>1, <1>6 DEF Patch, PatchEsp, Unlink, EndInv
<1> QED BY <1>2, <1>3, <1>4, <1>5, <1>6 DEF Next

\* A command that reports success has left a whole medium of ours with the label
\* it printed; its first build takes its packages from where the kickstart says,
\* and a derived label is that of no vendor medium.
THEOREM SuccessMeansMedium ==
    ASSUME Reliable, VendorShelf, PlainLabels, SteadyKs
    PROVE  Spec => []SuccessIsMedium
<1> DEFINE I == BuildInv /\ KsInv /\ EndInv /\ SuccessIsMedium
<1>1. Init => I
  BY BuildInit DEF Init, KsInv, EndInv, SuccessIsMedium, Working
<1>2. I /\ [Next]_vars => I'
  <2> SUFFICES ASSUME I, [Next]_vars PROVE I'
    OBVIOUS
  <2>1. TypeOK
    BY DEF BuildInv, IsoInv
  <2> QED BY <2>1, BuildStep, KsStep, EndStep, SuccessStep
<1> QED BY <1>1, <1>2, PTL DEF Spec

-----------------------------------------------------------------------------
(***************************************************************************)
(* What is checked before the old output goes, whatever can be extracted.  *)
(* Of a medium only its shape matters here, not what it looks for; and of  *)
(* a command, that it staged what is on its source, and nothing else.      *)
(***************************************************************************)
Shaped(iso) ==
    /\ ~(Bios \subseteq Present(iso.cfg))
    /\ iso.esp = "none" => "esp" \notin Present(iso.cfg)
ShapeInv == \A p \in Path : Shaped(disk[p])

\* Each of these configurations is staged, or could not be extracted.
Covered(cs) == \A c \in cs : (Flaky /\ c \in Bios) \/ c \in Present(staged)

CoverInv ==
    /\ pc \in {"patch", "esp"} =>
           Present(staged) \subseteq Present(Source.cfg) /\ Covered(OnTree \cap Present(Source.cfg))
    /\ pc \in {"unlink", "author"} =>
           /\ Covered(Present(Source.cfg))
           /\ Source.state = "whole" => Present(staged) \subseteq Present(Source.cfg)

\* A missing or torn file has the shape, and a command that ends does not matter.
LEMMA ShapeLeftover ==
    ASSUME ShapeInv, TypeOK, NEW state, disk' = [disk EXCEPT ![cmd.out] = Unusable(state)]
    PROVE  ShapeInv'
<1>1. Shaped(Unusable(state))
  BY DEF Shaped, Unusable, Present, NoCfg, Bios
<1>2. \A p \in Path : disk'[p] = disk[p] \/ disk'[p] = Unusable(state)
  BY DEF TypeOK
<1> QED BY <1>1, <1>2 DEF ShapeInv

\* Every step keeps both.
LEMMA CoverStep ==
    ASSUME TypeOK, TypeOK', ShapeInv, CoverInv, [Next]_vars
    PROVE  ShapeInv' /\ CoverInv'
<1> USE DEF Step, local
<1>1. CASE pc' \notin {"patch", "esp", "unlink", "author"} /\ UNCHANGED disk
  BY <1>1 DEF ShapeInv, CoverInv
<1>2. CASE Inspect
  <2>1. CASE Fail("inspect", "usage") \/ Fail("inspect", "tool")
    BY <1>1, <2>1 DEF Fail
  <2>2. CASE ~(Fail("inspect", "usage") \/ Fail("inspect", "tool"))
    <3>1. pc = "inspect" /\ pc' = "patch" /\ UNCHANGED <<disk, cmd>>
          /\ "efi" \in Present(Source.cfg)
      BY <1>2, <2>2 DEF Inspect, Inspectable
    <3>2. PICK found \in SUBSET Present(Source.cfg) :
              /\ Flaky \/ found = Present(Source.cfg)
              /\ staged' = [c \in CfgName |->
                     IF c \in Extracted(found) THEN Source.cfg[c] ELSE NoConfig]
      BY <1>2, <2>2 DEF Inspect
    <3>3. Source' = Source
      BY <3>1, SameSource
    <3>4. Present(staged') = Extracted(found) \cap Present(Source.cfg)
      BY <3>2 DEF Present, Extracted, CfgName
    <3>5. ~(Bios \subseteq Present(Source.cfg))
      BY <3>1, CommandType DEF ShapeInv, Shaped, Source
    <3>6. \A c \in OnTree \cap Present(Source.cfg) :
              (Flaky /\ c \in Bios) \/ c \in Present(staged')
      <4> SUFFICES ASSUME NEW c \in OnTree \cap Present(Source.cfg)
                   PROVE  (Flaky /\ c \in Bios) \/ c \in Present(staged')
        OBVIOUS
      <4>1. CASE c = "efi"
        BY <3>4, <4>1 DEF Extracted
      <4>2. CASE c \in Bios
        <5>1. Flaky \/ c \in Extracted(found)
          BY <3>2, <3>5, <4>2 DEF Extracted, Bios
        <5> QED BY <3>4, <4>2, <5>1
      <4> QED BY <4>1, <4>2 DEF OnTree, CfgName, Bios
    <3> QED BY <3>1, <3>3, <3>4, <3>6 DEF ShapeInv, CoverInv, Covered
  <2> QED BY <2>1, <2>2
<1>3. CASE Patch
  <2>1. CASE Fail("patch", "tool")
    BY <1>1, <2>1 DEF Fail
  <2>2. CASE ~Fail("patch", "tool")
    <3>1. /\ pc = "patch" /\ pc' = "esp" /\ UNCHANGED <<disk, cmd>>
          /\ \A c \in Present(staged) : ~Unpatchable(staged[c], vendor, volid)
          /\ staged' = [c \in CfgName |->
              IF c \in Present(staged) THEN Patched(staged[c], c, vendor, volid, net) ELSE NoConfig]
      BY <1>3, <2>2 DEF Patch
    <3>2. Source' = Source
      BY <3>1, SameSource
    <3>3. /\ vendor \in Label /\ volid \in Label /\ net \in BOOLEAN
          /\ \A c \in CfgName : staged[c] \in Config
      BY <3>1, CommandType DEF TypeOK
    <3>4. Present(staged') = Present(staged)
      BY <3>1, <3>3, PatchedType DEF Present
    <3> QED BY <3>1, <3>2, <3>4 DEF ShapeInv, CoverInv, Covered
  <2> QED BY <2>1, <2>2
<1>4. CASE PatchEsp
  <2>1. CASE Fail("esp", "tool")
    BY <1>1, <2>1 DEF Fail
  <2>2. CASE ~Fail("esp", "tool")
    <3>1. pc = "esp" /\ pc' = "unlink" /\ UNCHANGED <<disk, cmd>>
      BY <1>4, <2>2 DEF PatchEsp
    <3>2. Source' = Source /\ Shaped(Source)
      BY <3>1, SameSource, CommandType DEF ShapeInv, Source
    <3>3. /\ Present(staged) \subseteq Present(Source.cfg)
          /\ Covered(OnTree \cap Present(Source.cfg))
      BY <3>1 DEF CoverInv
    <3>4. CASE Source.esp = "none" /\ UNCHANGED staged
      <4>1. Present(Source.cfg) = OnTree \cap Present(Source.cfg)
        BY <3>2, <3>4 DEF Shaped, OnTree, Present
      <4> QED BY <3>1, <3>2, <3>3, <3>4, <4>1 DEF ShapeInv, CoverInv, Covered
    <3>5. CASE /\ EspPatchable
               /\ staged' = [staged EXCEPT !["esp"] =
                      Patched(Source.cfg["esp"], "esp", vendor, volid, net)]
      <4> DEFINE new == Patched(Source.cfg["esp"], "esp", vendor, volid, net)
      <4>1. /\ vendor \in Label /\ volid \in Label /\ net \in BOOLEAN
            /\ Source.cfg["esp"] \in Config /\ "esp" \in CfgName
            /\ staged \in [CfgName -> Config]
        BY <3>1, CommandType DEF TypeOK, CfgName, Cfgs
      <4>2. new # NoConfig
        BY <3>5, <4>1, PatchedType DEF EspPatchable
      <4> HIDE DEF new
      <4>3. \A c \in CfgName : staged'[c] = IF c = "esp" THEN new ELSE staged[c]
        BY <3>5, <4>1 DEF new
      <4>4. Present(staged') = Present(staged) \cup {"esp"}
        BY <4>1, <4>2, <4>3 DEF Present
      <4>5. Present(staged') \subseteq Present(Source.cfg)
        BY <3>3, <3>5, <4>4 DEF EspPatchable
      <4>6. \A c \in Present(Source.cfg) : (Flaky /\ c \in Bios) \/ c \in Present(staged')
        BY <3>3, <4>4 DEF Covered, OnTree, Present
      <4> QED BY <3>1, <3>2, <4>5, <4>6 DEF ShapeInv, CoverInv, Covered
    <3> QED BY <1>4, <2>2, <3>4, <3>5 DEF PatchEsp
  <2> QED BY <2>1, <2>2
<1>5. CASE Unlink
  <2>1. /\ pc = "unlink" /\ pc' = "author" /\ UNCHANGED <<cmd, staged>>
        /\ disk' = [disk EXCEPT ![cmd.out] = Unusable("missing")]
    BY <1>5 DEF Unlink
  <2>2. Source' = Source \/ Source' = Unusable("missing")
    BY <2>1, CommandType DEF Source, TypeOK
  <2>3. Unusable("missing").state # "whole" /\ Present(Unusable("missing").cfg) = {}
    BY DEF Unusable, Present, NoCfg
  <2>4. CoverInv'
    BY <2>1, <2>2, <2>3 DEF CoverInv, Covered
  <2> QED BY <2>1, <2>4, ShapeLeftover
<1>6. ASSUME Leftover PROVE ShapeInv'
  BY <1>6, ShapeLeftover DEF Leftover
<1>7. CASE Author
  <2>1. CASE AuthorFails
    BY <1>6, <2>1 DEF AuthorFails, CoverInv
  <2>2. CASE ~AuthorFails
    <3>1. /\ pc = "author" /\ pc' = "done" /\ Source.state = "whole"
          /\ disk' = [disk EXCEPT ![cmd.out] = NewIso]
      BY <1>7, <2>2 DEF Author, CanAuthor
    <3>2. Present(staged) \subseteq Present(Source.cfg) /\ Shaped(Source)
      BY <3>1, CommandType DEF CoverInv, ShapeInv, Source
    <3>3. Present(NewIso.cfg) = Present(Source.cfg) /\ NewIso.esp = Source.esp
      BY <3>2 DEF NewIso, Present
    <3>4. Shaped(NewIso)
      BY <3>2, <3>3 DEF Shaped
    <3>5. \A p \in Path : disk'[p] = disk[p] \/ disk'[p] = NewIso
      BY <3>1 DEF TypeOK
    <3> QED BY <3>1, <3>4, <3>5 DEF ShapeInv, CoverInv
  <2> QED BY <2>1, <2>2
<1>8. CASE Kill
  BY <1>6, <1>8 DEF Kill, ShapeInv, CoverInv
<1>9. CASE EditKs \/ UNCHANGED vars
  <2>1. UNCHANGED <<disk, pc, cmd, staged>>
    BY <1>9 DEF EditKs, vars
  <2> QED BY <2>1, SameSource DEF ShapeInv, CoverInv, Covered
<1>10. CASE Start \/ CheckFlag \/ CheckVolid
  BY <1>1, <1>10 DEF Start, CheckFlag, CheckVolid, Fail
<1> QED BY <1>2, <1>3, <1>4, <1>5, <1>7, <1>8, <1>9, <1>10 DEF Next

\* What --out held is only given up once every configuration that the new
\* medium will have carries our entry, and no other file is touched: for any
\* media, labels and commands, those that work in place among them.
THEOREM NothingLostInVain == Spec => CheckedBeforeUnlink
<1> DEFINE I == TypeOK /\ ShapeInv /\ CoverInv /\ StagedMarked /\ (SteadyKs => KsInv)
<1>1. Init => I
  <2>1. Init => ShapeInv
    BY IsoAssumption DEF Init, ShapeInv, Shaped, AlmaMedium
  <2> QED BY <2>1, TypeInit DEF Init, CoverInv, StagedMarked, KsInv, Working
<1>2. I /\ [Next]_vars => I'
  <2> SUFFICES ASSUME I, [Next]_vars PROVE I'
    OBVIOUS
  <2>1. TypeOK' /\ StagedMarked'
    BY TypeStep, MarkedStep
  <2>2. ShapeInv' /\ CoverInv'
    BY <2>1, CoverStep
  <2>3. SteadyKs => KsInv'
    BY KsStep
  <2>4. SteadyKs' = SteadyKs
    BY DEF SteadyKs
  <2> QED BY <2>1, <2>2, <2>3, <2>4
<1>3. I /\ [Next]_vars =>
        (disk' # disk =>
             /\ \A p \in Path : disk'[p] # disk[p] => p = cmd.out
             /\ EditsDuring \/ Readable
             /\ \A c \in Present(Source.cfg) :
                    (Flaky /\ c \in Bios) \/ (c \in Present(staged) /\ Marked(staged[c])))
  <2> SUFFICES ASSUME I, [Next]_vars, disk' # disk
               PROVE  /\ \A p \in Path : disk'[p] # disk[p] => p = cmd.out
                      /\ EditsDuring \/ Readable
                      /\ \A c \in Present(Source.cfg) :
                             (Flaky /\ c \in Bios) \/ (c \in Present(staged) /\ Marked(staged[c]))
    OBVIOUS
  <2>1. pc \in {"unlink", "author"} /\ \A p \in Path : disk'[p] # disk[p] => p = cmd.out
    BY OnlyTheOutput
  <2>2. EditsDuring \/ Readable
    BY <2>1 DEF KsInv, SteadyKs, Working
  <2>3. Covered(Present(Source.cfg))
    BY <2>1 DEF CoverInv
  <2> QED BY <2>1, <2>2, <2>3 DEF StagedMarked, Working, Covered
<1> QED BY <1>1, <1>2, <1>3, PTL DEF Spec, CheckedBeforeUnlink

=============================================================================
