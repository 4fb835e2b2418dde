-------------------------- MODULE VerifyApplyProofs --------------------------
(***************************************************************************)
(* Theorems about VerifyApply, for any number of commands, rules, edits    *)
(* and kills: as long as one command at a time is applying, host.yaml is   *)
(* whole at every moment, only grows, and can be recovered from the .bak;  *)
(* an apply that reports failure has not changed it.                       *)
(***************************************************************************)
EXTENDS VerifyApply, FiniteSetTheorems, TLAPS

Writing == Applying \ {"read"}

(***************************************************************************)
(* The inductive invariant, in parts.                                      *)
(***************************************************************************)
OnlyOneWriting ==
    \A c, o \in Cmd : c # o /\ pc[c] \in Writing => pc[o] \notin Writing

\* A command has a file open for writing only between opening and writing it,
\* and that file is never host.yaml.
Handle(c) ==
    /\ pc[c] = "copy" <=> fd[c] = "bak"
    /\ pc[c] = "write" <=> fd[c] = "tmp"
    /\ fd[c] \in {"none", "bak", "tmp"}

\* The candidate is host.yaml with exceptions appended, until it replaces it.
Candidate(c) ==
    pc[c] \in {"backup", "copy", "tmp", "write", "replace"} =>
        /\ Loads(file.yaml)
        /\ cand[c].form = Validated(file.yaml.form)
        /\ cand[c].ids \in Seq(Decl)
        /\ cand[c] = [ids |-> cand[c].ids, form |-> cand[c].form]
        /\ \E new \in Seq(Decl) : new # <<>> /\ cand[c].ids = file.yaml.ids \o new

\* What the other two files hold on the way there.
Files(c) ==
    /\ pc[c] = "copy" => src[c] = file.yaml /\ file.bak = Empty
    /\ pc[c] \in {"tmp", "write", "replace"} => file.bak = file.yaml
    /\ pc[c] = "write" => file.tmp = Empty
    /\ pc[c] = "replace" => file.tmp = cand[c]

\* A command that has not replaced host.yaml has not touched it, nor failed.
Untouched(c) ==
    /\ pc[c] \in {"idle", "verify", "emit"} \cup (Applying \ {"unlink"}) =>
           ~touched[c] /\ err[c] = "none"
    /\ err[c] = "apply" => ~touched[c]

CmdInv(c) == Handle(c) /\ Candidate(c) /\ Files(c) /\ Untouched(c)

Finite == \A c \in Cmd : IsFiniteSet(sugg[c])

ApplyInv == TypeOK /\ YamlIsWhole /\ OnlyOneWriting /\ Finite /\ \A c \in Cmd : CmdInv(c)

-----------------------------------------------------------------------------
\* The members of a finite set, as a sequence.
LEMMA SequenceOfSet ==
    ASSUME NEW T, NEW S \in SUBSET T, IsFiniteSet(S)
    PROVE  SetToSeq(S) \in Seq(T)
<1>1. \E f \in [1 .. Cardinality(S) -> S] : IsInjective(f)
  <2>1. ExistsBijection(1 .. Cardinality(S), S)
    BY FS_NatBijection, FS_CardinalityType
  <2> QED BY <2>1 DEF ExistsBijection, Bijection, Injection, IsInjective
<1>2. SetToSeq(S) \in [1 .. Cardinality(S) -> S]
  BY <1>1 DEF SetToSeq
<1>3. Cardinality(S) \in Nat
  BY FS_CardinalityType
<1> QED BY <1>2, <1>3, SMT

\* SetToSeq enumerates a finite set without repetition.
LEMMA Enumeration ==
    ASSUME NEW S, IsFiniteSet(S)
    PROVE  ToSet(SetToSeq(S)) = S /\ IsInjective(SetToSeq(S))
<1> DEFINE n == Cardinality(S)
           f == SetToSeq(S)
<1>1. n \in Nat
  BY FS_CardinalityType
<1>2. \E g \in [1 .. n -> S] : IsInjective(g)
  <2>1. ExistsBijection(1 .. n, S)
    BY FS_CardinalityType
  <2> QED BY <2>1 DEF ExistsBijection, Bijection, Injection, IsInjective
<1>3. f \in [1 .. n -> S] /\ IsInjective(f)
  BY <1>2 DEF SetToSeq
<1> HIDE DEF f
<1>4. f \in Injection(1 .. n, S)
  BY <1>3 DEF Injection, IsInjective
<1>5. IsFiniteSet(1 .. n) /\ Cardinality(1 .. n) = n
  BY <1>1, FS_Interval
<1>6. f \in Surjection(1 .. n, S)
  BY <1>4, <1>5, FS_Injection
<1>7. ToSet(f) = S
  BY <1>3, <1>6 DEF Surjection, ToSet
<1> QED BY <1>3, <1>7 DEF f

\* build_suggestions proposes at most one exception for a rule of the scan.
LEMMA SuggestionType ==
    ASSUME NEW rows, DOMAIN rows = Rule, NEW managed,
           \A r \in Rule : rows[r].category \in Category
    PROVE  /\ Suggestions(rows, managed) \in SUBSET Decl
           /\ IsFiniteSet(Suggestions(rows, managed))
<1>1. Suggestions(rows, managed) \in SUBSET Decl
  BY DEF Suggestions, Decl
<1> DEFINE R == {x \in Rule : rows[x].category \in FailingCategory /\ x \notin managed}
<1>2. IsFiniteSet(R)
  BY ApplyAssumption, FS_Subset
<1>3. Suggestions(rows, managed)
        = {[origin |-> rows[r].category, rule |-> r] : r \in R}
  BY DEF Suggestions
<1> DEFINE T == {[origin |-> rows[r].category, rule |-> r] : r \in R}
           f == [r \in R |-> [origin |-> rows[r].category, rule |-> r]]
<1>4. f \in Surjection(R, T)
  BY DEF Surjection
<1>5. IsFiniteSet(T)
  BY <1>2, <1>4, FS_Surjection
<1> QED BY <1>1, <1>3, <1>5

\* Appending keeps what was there, and adds to it.
LEMMA PrefixOfAppended ==
    ASSUME NEW s \in Seq(Decl), NEW t \in Seq(Decl), t # <<>>
    PROVE  IsStrictPrefix(s, s \o t)
<1>1. IsPrefix(s, s \o t)
  BY DEF IsPrefix
<1>2. Len(s \o t) = Len(s) + Len(t) /\ Len(t) # 0
  OBVIOUS
<1>3. s # s \o t
  BY <1>2
<1> QED BY <1>1, <1>3 DEF IsStrictPrefix

-----------------------------------------------------------------------------
\* What the type invariant says of the three files.
LEMMA FileTypes ==
    ASSUME file \in [{"yaml", "bak", "tmp"} -> Content]
    PROVE  /\ file.yaml \in Content /\ file.bak \in Content /\ file.tmp \in Content
           /\ file.yaml.ids \in Seq(Decl)
           /\ \A x \in Content :
                 /\ [file EXCEPT !.yaml = x] \in [{"yaml", "bak", "tmp"} -> Content]
                 /\ [file EXCEPT !.bak = x] \in [{"yaml", "bak", "tmp"} -> Content]
                 /\ [file EXCEPT !.tmp = x] \in [{"yaml", "bak", "tmp"} -> Content]
<1>1. ASSUME NEW x \in Content PROVE x.ids \in Seq(Decl)
  <2>1. <<>> \in Seq(Decl)
    OBVIOUS
  <2>2. CASE x \in Whole
    BY <2>2 DEF Whole
  <2>3. CASE x \in {NoFile, Empty, Torn}
    <3>1. x.ids = <<>>
      BY <2>3 DEF NoFile, Empty, Torn
    <3> QED BY <2>1, <3>1
  <2> QED BY <2>2, <2>3 DEF Content
<1>2. file.yaml \in Content
  OBVIOUS
<1> QED BY <1>1, <1>2

(***************************************************************************)
(* One lemma per action: it keeps the invariant, with one writer at a time *)
(***************************************************************************)
\* A command outside step 7 and 8 of apply_to_host_yaml moves on, there or to
\* its end, and leaves every file alone.
LEMMA Outside ==
    ASSUME ApplyInv, TypeOK', Finite', NEW c \in Cmd,
           UNCHANGED <<file, touched, cand, src, fd>>,
           pc' = [pc EXCEPT ![c] = pc'[c]],
           err' = [err EXCEPT ![c] = err'[c]],
           pc[c] \notin Writing, pc'[c] \notin Writing,
           \/ err'[c] = err[c] /\ pc[c] \in {"idle", "verify", "emit", "read"}
           \/ err'[c] = err[c] /\ pc'[c] \in {"done", "killed", "record"}
           \/ ~touched[c] /\ pc'[c] = "done"
    PROVE  ApplyInv'
<1>1. /\ \A o \in Cmd \ {c} : pc'[o] = pc[o] /\ err'[o] = err[o]
      /\ pc'[c] \notin Writing /\ pc'[c] \in PC
  BY DEF ApplyInv, TypeOK
<1>2. YamlIsWhole' /\ OnlyOneWriting'
  BY <1>1 DEF ApplyInv, YamlIsWhole, OnlyOneWriting
<1>3. ASSUME NEW o \in Cmd \ {c} PROVE CmdInv(o)'
  <2>1. Handle(o)' /\ Candidate(o)'
    BY <1>1 DEF ApplyInv, CmdInv, Handle, Candidate
  <2>2. Files(o)' /\ Untouched(o)'
    BY <1>1 DEF ApplyInv, CmdInv, Files, Untouched
  <2> QED BY <2>1, <2>2 DEF CmdInv
<1>4. CmdInv(c)'
  <2>1. Handle(c)' /\ Candidate(c)' /\ Files(c)'
    BY <1>1 DEF ApplyInv, CmdInv, Handle, Candidate, Files, Writing, Applying
  <2>2. Untouched(c)'
    BY <1>1 DEF ApplyInv, CmdInv, Untouched, Writing, Applying
  <2> QED BY <2>1, <2>2 DEF CmdInv
<1> QED BY <1>2, <1>3, <1>4 DEF ApplyInv

\* A command that is the only one writing takes a step.
LEMMA Inside ==
    ASSUME ApplyInv, TypeOK', Finite', NEW c \in Cmd,
           \A o \in Cmd \ {c} : pc[o] \notin Writing,
           pc' = [pc EXCEPT ![c] = pc'[c]],
           err' = [err EXCEPT ![c] = err'[c]],
           touched' = [touched EXCEPT ![c] = touched'[c]],
           fd' = [fd EXCEPT ![c] = fd'[c]],
           YamlIsWhole', CmdInv(c)'
    PROVE  ApplyInv'
<1>1. \A o \in Cmd \ {c} : /\ pc'[o] = pc[o] /\ err'[o] = err[o] /\ pc[o] \in PC
                            /\ touched'[o] = touched[o] /\ pc'[o] \notin Writing
                            /\ fd'[o] = fd[o]
  BY DEF ApplyInv, TypeOK
<1>2. OnlyOneWriting'
  BY <1>1 DEF OnlyOneWriting
<1>3. ASSUME NEW o \in Cmd \ {c} PROVE CmdInv(o)'
  <2>1. Handle(o)' /\ Candidate(o)'
    BY <1>1 DEF ApplyInv, CmdInv, Handle, Candidate, Writing, Applying
  <2>2. Files(o)' /\ Untouched(o)'
    BY <1>1 DEF ApplyInv, CmdInv, Files, Untouched, Writing, Applying
  <2> QED BY <2>1, <2>2 DEF CmdInv
<1> QED BY <1>2, <1>3 DEF ApplyInv

\* load_host_config only reads: the invariant on the files is untouched.
LEMMA LoadConfigKeeps ==
    ASSUME ApplyInv, NEW c \in Cmd, LoadConfig(c)
    PROVE  ApplyInv'
<1>1. TypeOK'
  BY FileTypes DEF ApplyInv, TypeOK, LoadConfig, Goto, Fail, PC, Failure
<1>2. ~touched[c]
  BY DEF ApplyInv, CmdInv, LoadConfig, Untouched
<1>3. Finite'
  BY DEF ApplyInv, Finite, LoadConfig
<1>4. /\ pc' = [pc EXCEPT ![c] = pc'[c]] /\ err' = [err EXCEPT ![c] = err'[c]]
      /\ pc[c] = "idle"
      /\ \/ pc'[c] = "verify" /\ err'[c] = err[c]
         \/ pc'[c] = "done"
  BY DEF ApplyInv, TypeOK, LoadConfig, Goto, Fail
<1> QED BY <1>1, <1>2, <1>3, <1>4, Outside DEF LoadConfig, Writing, Applying

\* run_verify and _suggest: the suggestions are a finite set of exceptions.
LEMMA VerifyKeeps ==
    ASSUME ApplyInv, NEW c \in Cmd, Verify(c)
    PROVE  ApplyInv'
<1>1. ASSUME NEW cur \in Current, NEW ins \in Install
      PROVE  LET S == Suggestions(BuildReport(cur, ins, WaivedBy(cfg[c])), Managed(cfg[c]))
             IN  S \in SUBSET Decl /\ IsFiniteSet(S)
  <2> DEFINE rows == BuildReport(cur, ins, WaivedBy(cfg[c]))
  <2>1. DOMAIN rows = Rule
    BY ApplyAssumption DEF BuildReport
  <2>2. \A r \in Rule : rows[r].category \in Category
    BY ApplyAssumption DEF BuildReport, Categorize, Category
  <2> HIDE DEF rows
  <2> QED BY <2>1, <2>2, SuggestionType DEF rows
<1>2. sugg' \in [Cmd -> SUBSET Decl] /\ Finite'
  <2>1. CASE UNCHANGED sugg
    BY <2>1 DEF ApplyInv, TypeOK, Finite
  <2>2. ASSUME NEW S \in SUBSET Decl, IsFiniteSet(S), sugg' = [sugg EXCEPT ![c] = S]
        PROVE  sugg' \in [Cmd -> SUBSET Decl] /\ Finite'
    BY <2>2 DEF ApplyInv, TypeOK, Finite
  <2> QED BY <1>1, <2>1, <2>2 DEF Verify
<1>3. TypeOK'
  BY <1>2 DEF ApplyInv, TypeOK, Verify, Goto, Fail, PC, Failure
<1>4. ~touched[c]
  BY DEF ApplyInv, CmdInv, Verify, Untouched
<1>5. /\ pc' = [pc EXCEPT ![c] = pc'[c]] /\ err' = [err EXCEPT ![c] = err'[c]]
      /\ pc[c] = "verify"
      /\ \/ pc'[c] = "emit" /\ err'[c] = err[c]
         \/ pc'[c] = "done"
  BY DEF ApplyInv, TypeOK, Verify, Goto, Fail
<1> QED BY <1>2, <1>3, <1>4, <1>5, Outside DEF Verify, Writing, Applying

\* Writing the report or a history line does not touch host.yaml.
LEMMA EmitRecordKeeps ==
    ASSUME ApplyInv, NEW c \in Cmd, Emit(c) \/ Record(c)
    PROVE  ApplyInv'
<1>1. TypeOK'
  BY DEF ApplyInv, TypeOK, Emit, Record, Goto, Fail, PC, Failure, Applying
<1>2. Finite'
  BY DEF ApplyInv, Finite, Emit, Record
<1>3. pc[c] = "emit" => ~touched[c]
  BY DEF ApplyInv, CmdInv, Untouched
<1>4. /\ pc' = [pc EXCEPT ![c] = pc'[c]] /\ err' = [err EXCEPT ![c] = err'[c]]
      /\ \/ pc[c] = "emit" /\ pc'[c] = "read" /\ err'[c] = err[c]
         \/ pc[c] = "emit" /\ pc'[c] = "done"
         \/ pc[c] = "record" /\ pc'[c] = "done" /\ err'[c] = err[c]
  BY DEF ApplyInv, TypeOK, Emit, Record, Goto, Fail
<1> QED BY <1>1, <1>2, <1>3, <1>4, Outside DEF Emit, Record, Writing, Applying

\* A command may be killed at any step, holding a half-written file or not.
LEMMA KillKeeps ==
    ASSUME ApplyInv, NEW c \in Cmd, Kill(c)
    PROVE  ApplyInv'
<1>1. TypeOK' /\ Finite'
  BY ApplyAssumption DEF ApplyInv, TypeOK, Finite, Kill, Goto, PC
<1>2. /\ pc' = [pc EXCEPT ![c] = "killed"] /\ UNCHANGED <<err, file, touched, cand, src>>
      /\ fd' = [fd EXCEPT ![c] = "none"]
  BY DEF Kill, Goto
<1>3. ASSUME NEW o \in Cmd PROVE CmdInv(o)'
  <2>1. CmdInv(o)
    BY DEF ApplyInv
  <2>2. CASE o = c
    BY <1>2, <2>1, <2>2
       DEF ApplyInv, TypeOK, CmdInv, Handle, Candidate, Files, Untouched, Applying
  <2>3. CASE o # c
    BY <1>2, <2>1, <2>3
       DEF ApplyInv, TypeOK, CmdInv, Handle, Candidate, Files, Untouched
  <2> QED BY <2>2, <2>3
<1>4. YamlIsWhole' /\ OnlyOneWriting'
  BY <1>2 DEF ApplyInv, TypeOK, YamlIsWhole, OnlyOneWriting, Writing, Applying
<1> QED BY <1>1, <1>3, <1>4 DEF ApplyInv

\* The candidate that is built is the file's content with exceptions appended.
LEMMA ReadYamlKeeps ==
    ASSUME ApplyInv, OneApplier, NEW c \in Cmd, ReadYaml(c)
    PROVE  ApplyInv'
<1>1. CmdInv(c) /\ Finite' /\ pc[c] = "read" /\ ~touched[c] /\ fd[c] = "none"
  BY DEF ApplyInv, CmdInv, Finite, ReadYaml, Untouched, Handle, Applying
<1>2. CASE Loads(file.yaml) /\ ToApply(c) # {} /\ pc'[c] = "backup"
  <2> DEFINE new == SetToSeq(ToApply(c))
  <2>1. new \in Seq(Decl)
    <3>1. ToApply(c) \in SUBSET Decl /\ ToApply(c) \subseteq sugg[c]
      BY DEF ApplyInv, TypeOK, ToApply, Considered
    <3>2. IsFiniteSet(ToApply(c))
      BY <3>1, FS_Subset DEF ApplyInv, Finite
    <3> QED BY <3>1, <3>2, SequenceOfSet
  <2>a. new # <<>>
    <3>1. IsFiniteSet(ToApply(c))
      BY FS_Subset DEF ApplyInv, Finite, ToApply, Considered
    <3>2. ToSet(new) # {}
      BY <1>2, <3>1, Enumeration
    <3>3. ToSet(<<>>) = {}
      BY DEF ToSet
    <3> QED BY <3>2, <3>3
  <2> HIDE DEF new
  <2>2. /\ pc' = [pc EXCEPT ![c] = "backup"] /\ err' = err
        /\ added' = [added EXCEPT ![c] = new]
        /\ cand' = [cand EXCEPT ![c] =
                       [ids |-> file.yaml.ids \o new, form |-> Validated(file.yaml.form)]]
        /\ UNCHANGED <<cfg, sugg, src, fd, file, edits, kills, touched>>
    <3>1. ~Fail(c, "apply") /\ ~Fail(c, "decodeerror") /\ ~Fail(c, "typeerror")
      BY <1>2 DEF Fail, ApplyInv, TypeOK
    <3>2. ~Goto(c, "record")
      BY <1>2 DEF Goto, ApplyInv, TypeOK
    <3> QED BY <3>1, <3>2 DEF ReadYaml, WithAppended, Goto, new
  <2>3. /\ file.yaml.ids \in Seq(Decl) /\ file.yaml.ids \o new \in Seq(Decl)
        /\ [ids |-> file.yaml.ids \o new, form |-> Validated(file.yaml.form)] \in Whole
    <3>1. file.yaml.ids \in Seq(Decl) /\ Validated(file.yaml.form) \in WholeForm
      BY FileTypes DEF ApplyInv, TypeOK, YamlIsWhole, Validated, WholeForm
    <3>2. file.yaml.ids \o new \in Seq(Decl)
      BY <2>1, <3>1
    <3> QED BY <3>1, <3>2 DEF Whole
  <2>4. TypeOK'
    BY <2>1, <2>2, <2>3 DEF ApplyInv, TypeOK, Content, PC, Applying
  <2>5. CmdInv(c)'
    <3>1. pc'[c] = "backup" /\ fd'[c] = "none" /\ err'[c] = "none" /\ ~touched'[c]
      BY <1>1, <2>2 DEF ApplyInv, TypeOK, CmdInv, Untouched, Applying
    <3>2. Candidate(c)'
      BY <1>2, <2>1, <2>a, <2>2, <2>3 DEF ApplyInv, TypeOK, Candidate, Loads
    <3> QED BY <3>1, <3>2 DEF CmdInv, Handle, Files, Untouched
  <2>6. \A o \in Cmd \ {c} : pc[o] \notin Writing
    BY DEF ReadYaml, Free, Writing
  <2> QED BY <1>1, <2>2, <2>4, <2>5, <2>6, Inside DEF ApplyInv, TypeOK, YamlIsWhole
<1>3. CASE pc'[c] # "backup"
  <2>1. /\ pc' = [pc EXCEPT ![c] = pc'[c]] /\ err' = [err EXCEPT ![c] = err'[c]]
        /\ pc'[c] \in {"done", "record"}
        /\ pc'[c] = "record" => err'[c] = err[c]
        /\ err'[c] \in {err[c], "apply", "decodeerror", "typeerror"}
        /\ UNCHANGED <<cfg, sugg, added, cand, src, fd, file, edits, kills, touched>>
    BY <1>3 DEF ReadYaml, Goto, Fail, ApplyInv, TypeOK
  <2>2. err'[c] \in Failure \cup {"none"} /\ pc'[c] \in PC
    BY <2>1 DEF ApplyInv, TypeOK, PC, Failure, Uncaught
  <2>3. TypeOK'
    BY <2>1, <2>2 DEF ApplyInv, TypeOK
  <2> QED BY <1>1, <2>1, <2>3, Outside DEF Writing, Applying
<1>4. CASE pc'[c] = "backup"
  <2>1. ~Fail(c, "apply") /\ ~Fail(c, "decodeerror") /\ ~Fail(c, "typeerror")
    BY <1>4 DEF Fail, ApplyInv, TypeOK
  <2>2. ~Goto(c, "record")
    BY <1>4 DEF Goto, ApplyInv, TypeOK
  <2> QED BY <1>2, <1>4, <2>1, <2>2 DEF ReadYaml
<1> QED BY <1>3, <1>4

\* While one command writes, no other has a file open.
LEMMA Alone ==
    ASSUME ApplyInv, NEW c \in Cmd, pc[c] \in Writing
    PROVE  \A o \in Cmd \ {c} : pc[o] \notin Writing /\ fd[o] = "none"
BY DEF ApplyInv, OnlyOneWriting, CmdInv, Handle, Writing, Applying

\* The types after a step of one command inside apply_to_host_yaml.
LEMMA TypeStep ==
    ASSUME TypeOK, NEW c \in Cmd,
           pc' = [pc EXCEPT ![c] = pc'[c]], pc'[c] \in Applying \cup {"done", "record"},
           err' = [err EXCEPT ![c] = err'[c]],
           err'[c] \in {err[c], "apply", "dump", "oserror"},
           touched' = [touched EXCEPT ![c] = touched'[c]], touched'[c] \in BOOLEAN,
           src' = [src EXCEPT ![c] = src'[c]], src'[c] \in {src[c], file.yaml},
           fd' = [fd EXCEPT ![c] = fd'[c]], fd'[c] \in {"none", "bak", "tmp"},
           file' \in [{"yaml", "bak", "tmp"} -> Content],
           UNCHANGED <<cfg, sugg, added, cand, edits, kills>>
    PROVE  TypeOK'
<1>1. pc' \in [Cmd -> PC]
  BY DEF TypeOK, PC
<1>2. err' \in [Cmd -> Failure \cup {"none"}]
  BY DEF TypeOK, Failure, Uncaught
<1>3. touched' \in [Cmd -> BOOLEAN] /\ src' \in [Cmd -> Content]
  <2>1. src \in [Cmd -> Content] /\ touched \in [Cmd -> BOOLEAN] /\ src'[c] \in Content
    BY DEF TypeOK
  <2>2. src' \in [Cmd -> Content]
    BY <2>1
  <2>3. touched' \in [Cmd -> BOOLEAN]
    BY <2>1
  <2> QED BY <2>2, <2>3
<1>4. fd' \in [Cmd -> {"none", "bak", "tmp", "yaml", "gone"}]
  BY DEF TypeOK
<1> QED BY <1>1, <1>2, <1>3, <1>4 DEF TypeOK

\* Opening the backup empties host.yaml.bak, and nothing else.
LEMMA OpenBackupKeeps ==
    ASSUME ApplyInv, NEW c \in Cmd, OpenBackup(c)
    PROVE  ApplyInv'
<1>1. /\ CmdInv(c) /\ Finite' /\ ~touched[c] /\ fd[c] = "none" /\ err[c] = "none"
      /\ pc[c] = "backup" /\ pc[c] \in Writing /\ TypeOK
  BY DEF ApplyInv, CmdInv, Finite, OpenBackup, Untouched, Handle, Writing, Applying
<1>2. /\ pc' = [pc EXCEPT ![c] = pc'[c]] /\ err' = [err EXCEPT ![c] = err'[c]]
      /\ touched' = [touched EXCEPT ![c] = touched'[c]] /\ touched'[c] = touched[c]
      /\ src' = [src EXCEPT ![c] = src'[c]] /\ fd' = [fd EXCEPT ![c] = fd'[c]]
      /\ UNCHANGED <<cfg, sugg, added, cand, edits, kills>>
      /\ \/ /\ pc'[c] = "copy" /\ err'[c] = "none" /\ fd'[c] = "bak"
            /\ src'[c] = file.yaml /\ file' = [file EXCEPT !.bak = Empty]
         \/ /\ pc'[c] = "done" /\ err'[c] = "apply" /\ fd'[c] = "none"
            /\ src'[c] = src[c] /\ file' = file
  BY <1>1 DEF OpenBackup, Goto, Fail, Truncate, TypeOK
<1>3. /\ file' \in [{"yaml", "bak", "tmp"} -> Content]
      /\ file'.yaml = file.yaml /\ (pc'[c] = "copy" => file'.bak = Empty)
  <2>1. Empty \in Content
    BY DEF Content
  <2>2. file \in [{"yaml", "bak", "tmp"} -> Content]
    BY <1>1 DEF TypeOK
  <2> QED BY <1>1, <1>2, <2>1, <2>2
<1>4. TypeOK'
  <2>1. pc'[c] \in Applying \cup {"done", "record"} /\ touched'[c] \in BOOLEAN
    BY <1>1, <1>2 DEF Applying, TypeOK
  <2> QED BY <1>1, <1>2, <1>3, <2>1, TypeStep
<1>5. CmdInv(c)'
  BY <1>1, <1>2, <1>3 DEF CmdInv, Handle, Candidate, Files, Untouched, Applying
<1>6. YamlIsWhole'
  BY <1>3 DEF ApplyInv, YamlIsWhole
<1> QED BY <1>1, <1>2, <1>4, <1>5, <1>6, Alone, Inside

\* After the copy the backup equals host.yaml.
LEMMA CopyBackupKeeps ==
    ASSUME ApplyInv, NEW c \in Cmd, CopyBackup(c)
    PROVE  ApplyInv'
<1>1. /\ CmdInv(c) /\ Finite' /\ ~touched[c] /\ err[c] = "none" /\ pc[c] = "copy"
      /\ fd[c] = "bak" /\ src[c] = file.yaml /\ file.bak = Empty
      /\ pc[c] \in Writing /\ TypeOK
  BY DEF ApplyInv, CmdInv, Finite, CopyBackup, Untouched, Handle, Files, Writing, Applying
<1>2. /\ pc' = [pc EXCEPT ![c] = pc'[c]] /\ err' = [err EXCEPT ![c] = err'[c]]
      /\ touched' = [touched EXCEPT ![c] = touched'[c]] /\ touched'[c] = touched[c]
      /\ src' = [src EXCEPT ![c] = src'[c]] /\ src'[c] = src[c]
      /\ fd' = [fd EXCEPT ![c] = fd'[c]] /\ fd'[c] = "none"
      /\ UNCHANGED <<cfg, sugg, added, cand, edits, kills>>
      /\ \/ pc'[c] = "tmp" /\ err'[c] = "none" /\ file' = [file EXCEPT !.bak = file.yaml]
         \/ pc'[c] = "done" /\ err'[c] = "apply" /\ file' = [file EXCEPT !.bak = Torn]
  BY <1>1 DEF CopyBackup, Put, PutFails, Goto, Fail, TypeOK
<1>3. /\ file' \in [{"yaml", "bak", "tmp"} -> Content]
      /\ file'.yaml = file.yaml /\ (pc'[c] = "tmp" => file'.bak = file.yaml)
  <2>1. Torn \in Content
    BY DEF Content
  <2>2. file \in [{"yaml", "bak", "tmp"} -> Content]
    BY <1>1 DEF TypeOK
  <2> QED BY <1>1, <1>2, <2>1, <2>2
<1>4. TypeOK'
  <2>1. pc'[c] \in Applying \cup {"done", "record"} /\ touched'[c] \in BOOLEAN
    BY <1>1, <1>2 DEF Applying, TypeOK
  <2> QED BY <1>1, <1>2, <1>3, <2>1, TypeStep
<1>5. CmdInv(c)'
  BY <1>1, <1>2, <1>3 DEF CmdInv, Handle, Candidate, Files, Untouched, Applying
<1>6. YamlIsWhole'
  BY <1>3 DEF ApplyInv, YamlIsWhole
<1> QED BY <1>1, <1>2, <1>4, <1>5, <1>6, Alone, Inside

\* Opening the temporary file leaves host.yaml and its backup alone.
LEMMA OpenTmpKeeps ==
    ASSUME ApplyInv, NEW c \in Cmd, OpenTmp(c)
    PROVE  ApplyInv'
<1>1. /\ CmdInv(c) /\ Finite' /\ ~touched[c] /\ err[c] = "none" /\ pc[c] = "tmp"
      /\ fd[c] = "none" /\ file.bak = file.yaml
      /\ pc[c] \in Writing /\ TypeOK
  BY DEF ApplyInv, CmdInv, Finite, OpenTmp, Untouched, Handle, Files, Writing, Applying
<1>2. /\ pc' = [pc EXCEPT ![c] = pc'[c]] /\ err' = [err EXCEPT ![c] = err'[c]]
      /\ touched' = [touched EXCEPT ![c] = touched'[c]] /\ touched'[c] = touched[c]
      /\ src' = [src EXCEPT ![c] = src'[c]] /\ src'[c] = src[c]
      /\ fd' = [fd EXCEPT ![c] = fd'[c]]
      /\ UNCHANGED <<cfg, sugg, added, cand, edits, kills>>
      /\ \/ /\ pc'[c] = "write" /\ err'[c] = "none" /\ fd'[c] = "tmp"
            /\ file' = [file EXCEPT !.tmp = Empty]
         \/ /\ pc'[c] = "unlink" /\ err'[c] \in {"apply", "dump"} /\ fd'[c] = "none"
            /\ file' = file
  BY <1>1 DEF OpenTmp, TmpName, Truncate, Goto, FailLater, TypeOK
<1>3. /\ file' \in [{"yaml", "bak", "tmp"} -> Content]
      /\ file'.yaml = file.yaml /\ file'.bak = file.bak
      /\ pc'[c] = "write" => file'.tmp = Empty
  <2>1. Empty \in Content
    BY DEF Content
  <2>2. file \in [{"yaml", "bak", "tmp"} -> Content]
    BY <1>1 DEF TypeOK
  <2> QED BY <1>1, <1>2, <2>1, <2>2
<1>4. TypeOK'
  <2>1. pc'[c] \in Applying \cup {"done", "record"} /\ touched'[c] \in BOOLEAN
    BY <1>1, <1>2 DEF Applying, TypeOK
  <2> QED BY <1>1, <1>2, <1>3, <2>1, TypeStep
<1>5. CmdInv(c)'
  BY <1>1, <1>2, <1>3 DEF CmdInv, Handle, Candidate, Files, Untouched, Applying
<1>6. YamlIsWhole'
  BY <1>3 DEF ApplyInv, YamlIsWhole
<1> QED BY <1>1, <1>2, <1>4, <1>5, <1>6, Alone, Inside

\* After the write the temporary file is the candidate.
LEMMA WriteTmpKeeps ==
    ASSUME ApplyInv, NEW c \in Cmd, WriteTmp(c)
    PROVE  ApplyInv'
<1>1. /\ CmdInv(c) /\ Finite' /\ ~touched[c] /\ err[c] = "none" /\ pc[c] = "write"
      /\ fd[c] = "tmp" /\ file.bak = file.yaml /\ file.tmp = Empty
      /\ pc[c] \in Writing /\ TypeOK
  BY DEF ApplyInv, CmdInv, Finite, WriteTmp, Untouched, Handle, Files, Writing, Applying
<1>2. /\ pc' = [pc EXCEPT ![c] = pc'[c]] /\ err' = [err EXCEPT ![c] = err'[c]]
      /\ touched' = [touched EXCEPT ![c] = touched'[c]] /\ touched'[c] = touched[c]
      /\ src' = [src EXCEPT ![c] = src'[c]] /\ src'[c] = src[c]
      /\ fd' = [fd EXCEPT ![c] = fd'[c]] /\ fd'[c] = "none"
      /\ UNCHANGED <<cfg, sugg, added, cand, edits, kills>>
      /\ \/ pc'[c] = "replace" /\ err'[c] = "none" /\ file' = [file EXCEPT !.tmp = cand[c]]
         \/ pc'[c] = "unlink" /\ err'[c] = "apply" /\ file' = [file EXCEPT !.tmp = Torn]
  BY <1>1 DEF WriteTmp, Put, PutFails, Goto, FailLater, TypeOK
<1>3. /\ file' \in [{"yaml", "bak", "tmp"} -> Content]
      /\ file'.yaml = file.yaml /\ file'.bak = file.bak
      /\ pc'[c] = "replace" => file'.tmp = cand[c]
  <2>1. Torn \in Content /\ cand[c] \in Content
    BY <1>1 DEF Content, TypeOK
  <2>2. file \in [{"yaml", "bak", "tmp"} -> Content]
    BY <1>1 DEF TypeOK
  <2> QED BY <1>1, <1>2, <2>1, <2>2
<1>4. TypeOK'
  <2>1. pc'[c] \in Applying \cup {"done", "record"} /\ touched'[c] \in BOOLEAN
    BY <1>1, <1>2 DEF Applying, TypeOK
  <2> QED BY <1>1, <1>2, <1>3, <2>1, TypeStep
<1>5. CmdInv(c)'
  BY <1>1, <1>2, <1>3 DEF CmdInv, Handle, Candidate, Files, Untouched, Applying
<1>6. YamlIsWhole'
  BY <1>3 DEF ApplyInv, YamlIsWhole
<1> QED BY <1>1, <1>2, <1>4, <1>5, <1>6, Alone, Inside

\* What os.replace puts in the place of host.yaml.
LEMMA Replaced ==
    ASSUME ApplyInv, NEW c \in Cmd, ReplaceYaml(c)
    PROVE  /\ file.bak = file.yaml
           /\ file.tmp \in Whole
           /\ Loads(file.yaml)
           /\ file.tmp.form = Validated(file.yaml.form)
           /\ IsStrictPrefix(file.yaml.ids, file.tmp.ids)
<1>1. CmdInv(c) /\ pc[c] = "replace"
  BY DEF ApplyInv, ReplaceYaml
<1>2. PICK new \in Seq(Decl) : new # <<>> /\ cand[c].ids = file.yaml.ids \o new
  BY <1>1 DEF CmdInv, Candidate
<1>3. file.yaml.ids \in Seq(Decl) /\ file.yaml.form \in WholeForm
  BY FileTypes DEF ApplyInv, TypeOK, YamlIsWhole
<1>4. /\ file.tmp = cand[c] /\ cand[c].form = Validated(file.yaml.form) /\ Loads(file.yaml)
      /\ cand[c] = [ids |-> cand[c].ids, form |-> cand[c].form]
      /\ cand[c].ids \in Seq(Decl)
  BY <1>1 DEF CmdInv, Candidate, Files
<1>5. cand[c] \in Whole
  BY <1>3, <1>4 DEF Whole, Validated, WholeForm
<1>6. IsStrictPrefix(file.yaml.ids, cand[c].ids)
  BY <1>2, <1>3, PrefixOfAppended
<1> QED BY <1>1, <1>4, <1>5, <1>6 DEF CmdInv, Files

\* The rename puts the candidate, a whole file, in the place of host.yaml.
LEMMA ReplaceYamlKeeps ==
    ASSUME ApplyInv, NEW c \in Cmd, ReplaceYaml(c)
    PROVE  ApplyInv'
<1>1. /\ CmdInv(c) /\ Finite' /\ ~touched[c] /\ err[c] = "none" /\ pc[c] = "replace"
      /\ fd[c] = "none" /\ pc[c] \in Writing /\ TypeOK
  BY DEF ApplyInv, CmdInv, Finite, ReplaceYaml, Untouched, Handle, Writing, Applying
<1>2. fd' = fd
  <2>1. \A o \in Cmd : fd[o] = "none"
    BY <1>1, Alone
  <2>2. [o \in Cmd |-> Moved(fd[o])] = fd
    BY <1>1, <2>1 DEF Moved, TypeOK
  <2> QED BY <2>2 DEF ReplaceYaml
<1>3. /\ pc' = [pc EXCEPT ![c] = pc'[c]] /\ err' = [err EXCEPT ![c] = err'[c]]
      /\ touched' = [touched EXCEPT ![c] = touched'[c]] /\ touched'[c] \in BOOLEAN
      /\ src' = [src EXCEPT ![c] = src'[c]] /\ src'[c] = src[c]
      /\ fd' = [fd EXCEPT ![c] = fd'[c]] /\ fd'[c] = "none"
      /\ UNCHANGED <<cfg, sugg, added, cand, edits, kills>>
      /\ pc'[c] = "unlink"
      /\ \/ /\ err'[c] = "none"
            /\ file' = [file EXCEPT !.yaml = file.tmp, !.tmp = NoFile]
         \/ err'[c] = "apply" /\ ~touched'[c] /\ file' = file
  BY <1>1, <1>2 DEF ReplaceYaml, Goto, FailLater, TypeOK
<1>4. file' \in [{"yaml", "bak", "tmp"} -> Content] /\ YamlIsWhole'
  <2>1. file.tmp \in Content /\ file.tmp.form \in WholeForm /\ NoFile \in Content
    BY Replaced DEF Content, Whole
  <2>2. file \in [{"yaml", "bak", "tmp"} -> Content] /\ file.yaml.form \in WholeForm
    BY <1>1 DEF ApplyInv, TypeOK, YamlIsWhole
  <2> QED BY <1>1, <1>3, <2>1, <2>2 DEF YamlIsWhole
<1>5. TypeOK'
  <2>1. pc'[c] \in Applying \cup {"done", "record"}
    BY <1>3 DEF Applying
  <2> QED BY <1>1, <1>3, <1>4, <2>1, TypeStep
<1>6. CmdInv(c)'
  BY <1>1, <1>3 DEF CmdInv, Handle, Candidate, Files, Untouched, Applying
<1> QED BY <1>1, <1>3, <1>4, <1>5, <1>6, Alone, Inside

\* Removing the temporary file leaves host.yaml alone.
LEMMA UnlinkTmpKeeps ==
    ASSUME ApplyInv, NEW c \in Cmd, UnlinkTmp(c)
    PROVE  ApplyInv'
<1>1. /\ CmdInv(c) /\ Finite' /\ pc[c] = "unlink" /\ fd[c] = "none" /\ pc[c] \in Writing
      /\ TypeOK
  BY DEF ApplyInv, CmdInv, Finite, UnlinkTmp, Handle, Writing, Applying
<1>2. fd' = fd
  <2>1. \A o \in Cmd : fd[o] = "none"
    BY <1>1, Alone
  <2>2. [o \in Cmd |-> IF fd[o] = "tmp" THEN "gone" ELSE fd[o]] = fd
    BY <1>1, <2>1 DEF TypeOK
  <2> QED BY <2>2 DEF UnlinkTmp
<1>3. /\ pc' = [pc EXCEPT ![c] = pc'[c]] /\ err' = [err EXCEPT ![c] = err'[c]]
      /\ touched' = [touched EXCEPT ![c] = touched'[c]] /\ touched'[c] = touched[c]
      /\ src' = [src EXCEPT ![c] = src'[c]] /\ src'[c] = src[c]
      /\ fd' = [fd EXCEPT ![c] = fd'[c]] /\ fd'[c] = "none"
      /\ UNCHANGED <<cfg, sugg, added, cand, edits, kills>>
      /\ pc'[c] \in {"done", "record"}
      /\ err'[c] \in {err[c], "oserror"}
      /\ file' \in {file, [file EXCEPT !.tmp = NoFile]}
  BY <1>1, <1>2 DEF UnlinkTmp, Goto, Fail, TypeOK
<1>4. file' \in [{"yaml", "bak", "tmp"} -> Content] /\ file'.yaml = file.yaml
  <2>1. NoFile \in Content
    BY DEF Content
  <2>2. file \in [{"yaml", "bak", "tmp"} -> Content]
    BY <1>1 DEF TypeOK
  <2> QED BY <1>1, <1>3, <2>1, <2>2
<1>5. TypeOK'
  <2>1. pc'[c] \in Applying \cup {"done", "record"} /\ touched'[c] \in BOOLEAN
    BY <1>1, <1>3 DEF Applying, TypeOK
  <2> QED BY <1>1, <1>3, <1>4, <2>1, TypeStep
<1>6. CmdInv(c)'
  BY <1>1, <1>3 DEF CmdInv, Handle, Candidate, Files, Untouched, Applying
<1>7. YamlIsWhole'
  BY <1>4 DEF ApplyInv, YamlIsWhole
<1> QED BY <1>1, <1>3, <1>5, <1>6, <1>7, Alone, Inside

\* The operator edits the file while nobody writes it.
LEMMA EditKeeps ==
    ASSUME ApplyInv, OneApplier, Edit
    PROVE  ApplyInv'
<1>1. \A c \in Cmd : pc[c] \notin Writing /\ fd[c] = "none"
  BY DEF ApplyInv, CmdInv, Handle, Edit, Writing, Applying
<1>2. fd' = fd
  <2>1. fd \in [Cmd -> {"none", "bak", "tmp", "yaml", "gone"}]
    BY DEF ApplyInv, TypeOK
  <2>2. [o \in Cmd |-> IF fd[o] = "yaml" THEN "gone" ELSE fd[o]] = fd
    BY <1>1, <2>1
  <2> QED BY <2>2 DEF Edit
<1>3. file' \in [{"yaml", "bak", "tmp"} -> Content] /\ file'.yaml.form \in WholeForm
  <2>0. file \in [{"yaml", "bak", "tmp"} -> Content] /\ file.yaml.form \in WholeForm
    BY DEF ApplyInv, TypeOK, YamlIsWhole
  <2>1. file \in [{"yaml", "bak", "tmp"} -> Content] /\ file.yaml \in Whole
    BY <2>0, FileTypes DEF Content, NoFile, Empty, Torn, WholeForm
  <2>2. ASSUME NEW r \in Rule,
               file' = [file EXCEPT !.yaml.ids =
                            Append(@, [origin |-> "hand", rule |-> r])]
        PROVE  file' \in [{"yaml", "bak", "tmp"} -> Content] /\ file'.yaml.form \in WholeForm
    <3>1. [origin |-> "hand", rule |-> r] \in Decl
      BY DEF Decl
    <3>2. Append(file.yaml.ids, [origin |-> "hand", rule |-> r]) \in Seq(Decl)
      BY <2>1, <3>1 DEF Whole
    <3> DEFINE y == [file.yaml EXCEPT !.ids =
                         Append(file.yaml.ids, [origin |-> "hand", rule |-> r])]
    <3>3. y \in Whole /\ file' = [file EXCEPT !.yaml = y]
      BY <2>1, <2>2, <3>2 DEF Whole
    <3> HIDE DEF y
    <3>4. y \in Content /\ y.form \in WholeForm
      BY <3>3 DEF Content, Whole
    <3> QED BY <2>1, <3>3, <3>4
  <2>3. ASSUME NEW f \in WholeForm, file' = [file EXCEPT !.yaml.form = f]
        PROVE  file' \in [{"yaml", "bak", "tmp"} -> Content] /\ file'.yaml.form \in WholeForm
    <3> DEFINE y == [file.yaml EXCEPT !.form = f]
    <3>1. y \in Whole /\ file' = [file EXCEPT !.yaml = y]
      BY <2>1, <2>3 DEF Whole
    <3> HIDE DEF y
    <3>2. y \in Content /\ y.form \in WholeForm
      BY <3>1 DEF Content, Whole
    <3> QED BY <2>1, <3>1, <3>2
  <2> QED BY <2>2, <2>3 DEF Edit
<1>4. TypeOK'
  BY <1>2, <1>3, ApplyAssumption DEF ApplyInv, TypeOK, Edit
<1>5. ASSUME NEW c \in Cmd PROVE CmdInv(c)'
  BY <1>1, <1>2
     DEF ApplyInv, CmdInv, Handle, Candidate, Files, Untouched, Edit, Writing, Applying
<1>6. YamlIsWhole' /\ OnlyOneWriting' /\ Finite'
  BY <1>3 DEF ApplyInv, YamlIsWhole, OnlyOneWriting, Finite, Edit
<1> QED BY <1>4, <1>5, <1>6 DEF ApplyInv

-----------------------------------------------------------------------------
\* The invariant is established, and every step preserves it.
LEMMA ApplyInit == Init => ApplyInv
<1> SUFFICES ASSUME Init PROVE ApplyInv
  OBVIOUS
<1>1. PICK f \in Forms :
        file = [yaml |-> [ids |-> <<>>, form |-> f], bak |-> NoFile, tmp |-> NoFile]
  BY DEF Init
<1>2. /\ file \in [{"yaml", "bak", "tmp"} -> Content]
      /\ file.yaml.form \in WholeForm
  <2>1. f \in WholeForm
    BY ApplyAssumption
  <2>2. [ids |-> <<>>, form |-> f] \in Content
    BY <2>1 DEF Content, Whole
  <2>3. NoFile \in Content
    BY DEF Content
  <2> QED BY <1>1, <2>1, <2>2, <2>3
<1>3. TypeOK
  <2>1. <<>> \in Seq(Decl) /\ NoFile \in Content
    BY DEF Content
  <2>2. "idle" \in PC
    BY DEF PC
  <2> QED BY <1>2, <2>1, <2>2, ApplyAssumption DEF Init, TypeOK
<1>4. Finite
  BY FS_EmptySet DEF Init, Finite
<1>5. ASSUME NEW c \in Cmd PROVE CmdInv(c)
  BY DEF Init, CmdInv, Handle, Candidate, Files, Untouched
<1> QED BY <1>2, <1>3, <1>4, <1>5
        DEF Init, ApplyInv, YamlIsWhole, OnlyOneWriting, Writing, Applying

\* One step of a command or of the operator.
LEMMA ApplyStep == OneApplier /\ ApplyInv /\ [Next]_vars => ApplyInv'
<1> SUFFICES ASSUME OneApplier, ApplyInv, [Next]_vars PROVE ApplyInv'
  OBVIOUS
<1>1. ASSUME NEW c \in Cmd, LoadConfig(c) \/ Verify(c) \/ Emit(c) \/ Record(c) \/ Kill(c)
      PROVE  ApplyInv'
  BY <1>1, LoadConfigKeeps, VerifyKeeps, EmitRecordKeeps, KillKeeps
<1>2. ASSUME NEW c \in Cmd, Apply(c) PROVE ApplyInv'
  BY <1>2, ReadYamlKeeps, OpenBackupKeeps, CopyBackupKeeps, OpenTmpKeeps, WriteTmpKeeps,
     ReplaceYamlKeeps, UnlinkTmpKeeps DEF Apply
<1>3. CASE Edit
  BY <1>3, EditKeeps
<1>4. CASE UNCHANGED vars
  <2>1. UNCHANGED <<pc, err, touched, src, fd, cfg, sugg, added, cand, edits, kills, file>>
    BY <1>4 DEF vars, cmdVars
  <2>2. TypeOK' /\ YamlIsWhole' /\ OnlyOneWriting' /\ Finite'
    BY <2>1 DEF ApplyInv, TypeOK, YamlIsWhole, OnlyOneWriting, Finite
  <2>3. ASSUME NEW c \in Cmd PROVE CmdInv(c)'
    BY <2>1 DEF ApplyInv, CmdInv, Handle, Candidate, Files, Untouched
  <2> QED BY <2>2, <2>3 DEF ApplyInv
<1> QED BY <1>1, <1>2, <1>3, <1>4 DEF Next

\* Every variable stays in its type while one command at a time is applying.
THEOREM TypeCorrect == OneApplier /\ Spec => []TypeOK
<1> SUFFICES ASSUME OneApplier PROVE Spec => []TypeOK
  OBVIOUS
<1>0. ApplyInv /\ [Next]_vars => ApplyInv'
  BY ApplyStep
<1>1. ApplyInv => TypeOK
  BY DEF ApplyInv
<1> QED BY <1>0, <1>1, ApplyInit, PTL DEF Spec

\* host.yaml is whole at every moment: whichever file operation fails, whichever
\* command is killed, however many of them there are.
THEOREM AlwaysWhole == OneApplier /\ Spec => []YamlIsWhole
<1> SUFFICES ASSUME OneApplier PROVE Spec => []YamlIsWhole
  OBVIOUS
<1>0. ApplyInv /\ [Next]_vars => ApplyInv'
  BY ApplyStep
<1>1. ApplyInv => YamlIsWhole
  BY DEF ApplyInv
<1> QED BY <1>0, <1>1, ApplyInit, PTL DEF Spec

\* An apply that reports failure has left host.yaml alone.
THEOREM FailureIsHarmless == OneApplier /\ Spec => []FailureLeavesYaml
<1> SUFFICES ASSUME OneApplier PROVE Spec => []FailureLeavesYaml
  OBVIOUS
<1>0. ApplyInv /\ [Next]_vars => ApplyInv'
  BY ApplyStep
<1>1. ApplyInv => FailureLeavesYaml
  BY DEF ApplyInv, CmdInv, Untouched, FailureLeavesYaml
<1> QED BY <1>0, <1>1, ApplyInit, PTL DEF Spec

\* The only step that changes host.yaml is the rename.
LEMMA OnlyReplaceWrites ==
    ASSUME ApplyInv, [Next]_vars, edits' = edits, file'.yaml # file.yaml
    PROVE  \E c \in Cmd : ReplaceYaml(c) /\ file'.yaml = file.tmp /\ file'.bak = file.bak
<1> USE DEF ApplyInv, TypeOK
<1>1. ASSUME NEW c \in Cmd, LoadConfig(c) \/ Verify(c) \/ Emit(c) \/ Record(c) \/ Kill(c)
                            \/ ReadYaml(c)
      PROVE  FALSE
  BY <1>1 DEF LoadConfig, Verify, Emit, Record, Kill, ReadYaml
<1>2. ASSUME NEW c \in Cmd, OpenBackup(c) \/ OpenTmp(c) \/ UnlinkTmp(c) PROVE FALSE
  BY <1>2 DEF OpenBackup, OpenTmp, TmpName, UnlinkTmp, Truncate
<1>3. ASSUME NEW c \in Cmd, CopyBackup(c) \/ WriteTmp(c) PROVE FALSE
  <2>1. fd[c] \in {"bak", "tmp"}
    BY <1>3 DEF CopyBackup, WriteTmp, CmdInv, Handle
  <2> QED BY <1>3, <2>1 DEF CopyBackup, WriteTmp, Put, PutFails
<1>4. ASSUME NEW c \in Cmd, ReplaceYaml(c)
      PROVE  file'.yaml = file.tmp /\ file'.bak = file.bak
  BY <1>4 DEF ReplaceYaml
<1>5. ASSUME Edit PROVE FALSE
  BY <1>5 DEF Edit
<1>6. ASSUME UNCHANGED vars PROVE FALSE
  BY <1>6 DEF vars
<1> QED BY <1>1, <1>2, <1>3, <1>4, <1>5, <1>6 DEF Next, Apply

\* Apply only ever appends, to the exceptions of a file that loads; of the rest it
\* spells out a default at most, and the file still loads.
THEOREM OnlyAppends == OneApplier /\ Spec => AppendOnly
<1> SUFFICES ASSUME OneApplier PROVE Spec => AppendOnly
  OBVIOUS
<1>0. ApplyInv /\ [Next]_vars => ApplyInv'
  BY ApplyStep
<1>1. ASSUME ApplyInv, [Next]_vars, edits' = edits, file'.yaml # file.yaml
      PROVE  /\ IsStrictPrefix(file.yaml.ids, file'.yaml.ids)
             /\ \/ file'.yaml.form = file.yaml.form
                \/ file.yaml.form = "implied" /\ file'.yaml.form = "plain"
             /\ Loads(file.yaml) /\ Loads(file'.yaml)
  <2>1. /\ IsStrictPrefix(file.yaml.ids, file'.yaml.ids)
        /\ Loads(file.yaml) /\ file'.yaml.form = Validated(file.yaml.form)
    BY <1>1, OnlyReplaceWrites, Replaced
  <2> QED BY <2>1 DEF Validated, Loads
<1>2. ApplyInv /\ [Next]_vars =>
        [edits' = edits /\ file'.yaml # file.yaml =>
             /\ IsStrictPrefix(file.yaml.ids, file'.yaml.ids)
             /\ \/ file'.yaml.form = file.yaml.form
                \/ file.yaml.form = "implied" /\ file'.yaml.form = "plain"
             /\ Loads(file.yaml) /\ Loads(file'.yaml)]_vars
  BY <1>1
<1> QED BY <1>0, <1>2, ApplyInit, PTL DEF Spec, AppendOnly

\* The backup next to a changed host.yaml is exactly what it replaced.
THEOREM BackupRecovers == OneApplier /\ Spec => BackupIsPredecessor
<1> SUFFICES ASSUME OneApplier PROVE Spec => BackupIsPredecessor
  OBVIOUS
<1>0. ApplyInv /\ [Next]_vars => ApplyInv'
  BY ApplyStep
<1>1. ApplyInv /\ [Next]_vars =>
        [edits' = edits /\ file'.yaml # file.yaml => file'.bak = file.yaml]_vars
  BY OnlyReplaceWrites, Replaced
<1> QED BY <1>0, <1>1, ApplyInit, PTL DEF Spec, BackupIsPredecessor
-----------------------------------------------------------------------------
(***************************************************************************)
(* What apply writes, and whether it has: the inductive invariant on the   *)
(* suggestions.  Between the read and the rename a command holds a plan,   *)
(* host.yaml and the permitted suggestions that it lacks, each once; and   *)
(* a command that has finished has nothing left to append.                 *)
(***************************************************************************)
Appending == {"backup", "copy", "tmp", "write", "replace"}

Permitted(c) == \A d \in sugg[c] : d.origin \in FailingCategory /\ d.rule \notin Enforced

Planned(c) ==
    pc[c] \in Appending =>
        /\ cand[c].ids = file.yaml.ids \o added[c]
        /\ ToSet(added[c]) = ToApply(c)
        /\ IsInjective(added[c])

Applied(c) ==
    pc[c] \in {"unlink", "record", "done"} /\ err[c] = "none" =>
        Considered(c) \subseteq ToSet(file.yaml.ids)

\* A temporary file belongs to a command that will remove it, or could not.
TmpOwned ==
    file.tmp # NoFile =>
        \E c \in Cmd : \/ pc[c] \in {"write", "replace", "unlink", "killed"}
                       \/ err[c] = "oserror"

WaiverInv == /\ OnlyPermittedWaivers /\ TmpOwned
             /\ \A c \in Cmd : Permitted(c) /\ Planned(c) /\ Applied(c)

\* The members of two sequences, one after the other.
LEMMA MembersOfConcat ==
    ASSUME NEW s \in Seq(Decl), NEW t \in Seq(Decl)
    PROVE  ToSet(s \o t) = ToSet(s) \cup ToSet(t)
<1>1. /\ Len(s) \in Nat /\ Len(t) \in Nat /\ Len(s \o t) = Len(s) + Len(t)
      /\ DOMAIN s = 1 .. Len(s) /\ DOMAIN t = 1 .. Len(t)
      /\ DOMAIN (s \o t) = 1 .. Len(s) + Len(t)
      /\ \A i \in 1 .. Len(s) : (s \o t)[i] = s[i]
      /\ \A i \in 1 .. Len(t) : (s \o t)[Len(s) + i] = t[i]
  OBVIOUS
<1>2. \A i \in 1 .. Len(s) : i \in 1 .. Len(s) + Len(t)
  BY <1>1
<1>3. \A i \in 1 .. Len(t) : Len(s) + i \in 1 .. Len(s) + Len(t)
  BY <1>1
<1>4. \A i \in 1 .. Len(s) + Len(t) :
         i \in 1 .. Len(s) \/ \E j \in 1 .. Len(t) : i = Len(s) + j
  <2> SUFFICES ASSUME NEW i \in 1 .. Len(s) + Len(t), i \notin 1 .. Len(s)
               PROVE  \E j \in 1 .. Len(t) : i = Len(s) + j
    OBVIOUS
  <2>1. i - Len(s) \in 1 .. Len(t) /\ i = Len(s) + (i - Len(s))
    BY <1>1
  <2> QED BY <2>1
<1>5. \A x \in ToSet(s \o t) : x \in ToSet(s) \cup ToSet(t)
  <2> SUFFICES ASSUME NEW x \in ToSet(s \o t) PROVE x \in ToSet(s) \cup ToSet(t)
    OBVIOUS
  <2>1. PICK i \in 1 .. Len(s) + Len(t) : x = (s \o t)[i]
    BY <1>1 DEF ToSet
  <2>2. CASE i \in 1 .. Len(s)
    BY <1>1, <2>1, <2>2 DEF ToSet
  <2>3. CASE \E j \in 1 .. Len(t) : i = Len(s) + j
    BY <1>1, <2>1, <2>3 DEF ToSet
  <2> QED BY <1>4, <2>2, <2>3
<1>6. \A x \in ToSet(s) : x \in ToSet(s \o t)
  BY <1>1, <1>2 DEF ToSet
<1>7. \A x \in ToSet(t) : x \in ToSet(s \o t)
  BY <1>1, <1>3 DEF ToSet
<1> QED BY <1>5, <1>6, <1>7

\* build_suggestions proposes nothing that ks-gen enforces: a rule that is enforced
\* and was waived is an expected failure, and the others are withheld.
LEMMA SuggestedIsPermitted ==
    ASSUME NEW cur \in Current, NEW ins \in Install, NEW ids \in Seq(Decl),
           NEW d \in Suggestions(BuildReport(cur, ins, WaivedBy(ids)), Managed(ids))
    PROVE  d.origin \in FailingCategory /\ d.rule \notin Enforced
<1> DEFINE rows == BuildReport(cur, ins, WaivedBy(ids))
<1>1. PICK r \in DOMAIN rows : /\ d = [origin |-> rows[r].category, rule |-> r]
                               /\ rows[r].category \in FailingCategory
                               /\ r \notin Managed(ids)
  BY DEF Suggestions
<1>2. d.origin = rows[r].category /\ d.rule = r
  BY <1>1
<1>3. r \notin WaivedBy(ids)
  <2>1. DOMAIN rows = DOMAIN cur
    BY DEF BuildReport
  <2>2. rows[r].category
          = Categorize(cur[r], InstallState(ins, r), r \in WaivedBy(ids))
    BY <2>1 DEF BuildReport
  <2> HIDE DEF rows
  <2>3. r \in WaivedBy(ids) => rows[r].category \in {"clean", "incomplete", "expected_fail"}
    BY <2>2 DEF Categorize
  <2> QED BY <1>1, <2>3 DEF FailingCategory
<1> QED BY <1>1, <1>2, <1>3 DEF Managed
\* A step that changes neither the exceptions of host.yaml nor any plan.
LEMMA Quiet ==
    ASSUME WaiverInv, NEW c \in Cmd,
           UNCHANGED <<sugg, cand, added, touched>>, file'.yaml = file.yaml,
           \A o \in Cmd \ {c} : pc'[o] = pc[o] /\ err'[o] = err[o],
           pc'[c] \in Appending => pc[c] \in Appending,
           Applied(c)', TmpOwned'
    PROVE  WaiverInv'
<1>1. OnlyPermittedWaivers'
  BY DEF WaiverInv, OnlyPermittedWaivers
<1>2. ASSUME NEW o \in Cmd PROVE Permitted(o)' /\ Planned(o)'
  <2>1. Permitted(o) /\ Planned(o) /\ (pc'[o] \in Appending => pc[o] \in Appending)
    BY DEF WaiverInv
  <2> QED BY <2>1 DEF Permitted, Planned, ToApply, Considered
<1>3. ASSUME NEW o \in Cmd \ {c} PROVE Applied(o)'
  BY DEF WaiverInv, Applied, Considered
<1> QED BY <1>1, <1>2, <1>3 DEF WaiverInv

\* A step of a command that has nothing to do with the temporary file.
LEMMA TmpStays ==
    ASSUME WaiverInv, NEW c \in Cmd, file'.tmp = file.tmp,
           \A o \in Cmd \ {c} : pc'[o] = pc[o] /\ err'[o] = err[o],
           err[c] = "oserror" => err'[c] = "oserror",
           pc[c] \in {"write", "replace", "unlink", "killed"} =>
               pc'[c] \in {"write", "replace", "unlink", "killed"}
    PROVE  TmpOwned'
BY DEF WaiverInv, TmpOwned

\* Before the apply, and after it: no command plans anything there.
LEMMA OutsideWaives ==
    ASSUME ApplyInv, WaiverInv, NEW c \in Cmd,
           LoadConfig(c) \/ Emit(c) \/ Record(c) \/ Kill(c)
    PROVE  WaiverInv'
<1>1. /\ pc' = [pc EXCEPT ![c] = pc'[c]] /\ err' = [err EXCEPT ![c] = err'[c]]
      /\ UNCHANGED <<sugg, cand, added, touched, file>>
      /\ pc'[c] \notin Appending
      /\ \/ pc[c] \in {"idle", "emit"} /\ (pc'[c] = "done" => err'[c] # "none")
                                       /\ pc'[c] \notin {"unlink", "record"}
                                       /\ err[c] = "none"
         \/ pc[c] = "record" /\ pc'[c] = "done" /\ err'[c] = err[c]
         \/ pc'[c] = "killed" /\ err'[c] = err[c]
  BY DEF ApplyInv, TypeOK, CmdInv, Untouched, LoadConfig, Emit, Record, Kill, Goto, Fail,
         Appending
<1>2. \A o \in Cmd \ {c} : pc'[o] = pc[o] /\ err'[o] = err[o]
  BY <1>1 DEF ApplyInv, TypeOK
<1>3. Applied(c)'
  BY <1>1 DEF WaiverInv, Applied, Considered
<1>4. TmpOwned'
  BY <1>1, <1>2, TmpStays
<1> QED BY <1>1, <1>2, <1>3, <1>4, Quiet

\* What a scan suggests is permitted, and nothing is planned yet.
LEMMA VerifyWaives ==
    ASSUME ApplyInv, WaiverInv, NEW c \in Cmd, Verify(c)
    PROVE  WaiverInv'
<1>1. /\ pc' = [pc EXCEPT ![c] = pc'[c]] /\ err' = [err EXCEPT ![c] = err'[c]]
      /\ UNCHANGED <<cand, added, touched, file>> /\ err[c] = "none" /\ pc[c] = "verify"
      /\ \/ pc'[c] = "emit"
         \/ pc'[c] = "done" /\ err'[c] = "verify"
  BY DEF ApplyInv, TypeOK, CmdInv, Untouched, Verify, Goto, Fail
<1>2. \A o \in Cmd \ {c} : pc'[o] = pc[o] /\ err'[o] = err[o] /\ sugg'[o] = sugg[o]
  BY <1>1 DEF ApplyInv, TypeOK, Verify
<1>3. Permitted(c)'
  <2>1. CASE sugg' = sugg
    BY <2>1 DEF WaiverInv, Permitted
  <2>2. ASSUME NEW cur \in Current, NEW ins \in Install,
               sugg' = [sugg EXCEPT ![c] =
                   Suggestions(BuildReport(cur, ins, WaivedBy(cfg[c])), Managed(cfg[c]))]
        PROVE  Permitted(c)'
    <3>1. sugg'[c] = Suggestions(BuildReport(cur, ins, WaivedBy(cfg[c])), Managed(cfg[c]))
      BY <2>2 DEF ApplyInv, TypeOK
    <3>2. cfg[c] \in Seq(Decl)
      BY DEF ApplyInv, TypeOK
    <3> QED BY <3>1, <3>2, SuggestedIsPermitted DEF Permitted
  <2> QED BY <2>1, <2>2 DEF Verify
<1>4. Planned(c)' /\ Applied(c)'
  BY <1>1 DEF Planned, Applied, Appending
<1>5. ASSUME NEW o \in Cmd \ {c} PROVE Permitted(o)' /\ Planned(o)' /\ Applied(o)'
  BY <1>1, <1>2 DEF WaiverInv, Permitted, Planned, Applied, ToApply, Considered
<1>6. OnlyPermittedWaivers'
  BY <1>1 DEF WaiverInv, OnlyPermittedWaivers
<1>7. TmpOwned'
  BY <1>1, <1>2, TmpStays
<1> QED BY <1>3, <1>4, <1>5, <1>6, <1>7 DEF WaiverInv

\* The plan is made of what host.yaml holds at the read, not of what it held when the
\* command loaded it.
LEMMA ReadYamlWaives ==
    ASSUME ApplyInv, WaiverInv, NEW c \in Cmd, ReadYaml(c)
    PROVE  WaiverInv'
<1>1. pc[c] = "read" /\ err[c] = "none" /\ UNCHANGED <<sugg, cfg, src, fd, file, touched>>
  BY DEF ApplyInv, CmdInv, Untouched, ReadYaml, Applying
<1>2. CASE pc'[c] # "backup"
  <2>1. /\ pc' = [pc EXCEPT ![c] = pc'[c]] /\ err' = [err EXCEPT ![c] = err'[c]]
        /\ UNCHANGED <<cand, added>>
        /\ \/ pc'[c] = "done" /\ err'[c] \in {"apply", "decodeerror", "typeerror"}
           \/ pc'[c] = "record" /\ ToApply(c) = {}
    BY <1>2 DEF ReadYaml, Goto, Fail, ApplyInv, TypeOK
  <2>2. \A o \in Cmd \ {c} : pc'[o] = pc[o] /\ err'[o] = err[o]
    BY <2>1 DEF ApplyInv, TypeOK
  <2>3. Applied(c)'
    BY <1>1, <2>1 DEF Applied, ToApply, Considered
  <2>4. TmpOwned'
    BY <1>1, <2>1, <2>2, TmpStays
  <2> QED BY <1>1, <2>1, <2>2, <2>3, <2>4, Quiet DEF Appending
<1>3. CASE pc'[c] = "backup"
  <2> DEFINE new == SetToSeq(ToApply(c))
  <2>1. /\ pc' = [pc EXCEPT ![c] = "backup"] /\ err' = err
        /\ added' = [added EXCEPT ![c] = new]
        /\ cand' = [cand EXCEPT ![c] = WithAppended(file.yaml, new)]
    BY <1>3 DEF ReadYaml, Goto, Fail, ApplyInv, TypeOK
  <2>2. ToSet(new) = ToApply(c) /\ IsInjective(new)
    <3>1. IsFiniteSet(ToApply(c))
      BY FS_Subset DEF ApplyInv, Finite, ToApply, Considered
    <3> QED BY <3>1, Enumeration
  <2> HIDE DEF new
  <2>3. /\ \A o \in Cmd \ {c} : /\ pc'[o] = pc[o] /\ err'[o] = err[o]
                                 /\ added'[o] = added[o] /\ cand'[o] = cand[o]
        /\ pc'[c] = "backup" /\ added'[c] = new
        /\ cand'[c] = WithAppended(file.yaml, new)
    BY <2>1 DEF ApplyInv, TypeOK
  <2>4. Permitted(c)' /\ Planned(c)' /\ Applied(c)'
    <3>1. Permitted(c)' /\ Applied(c)'
      BY <1>1, <2>3 DEF WaiverInv, Permitted, Applied
    <3>2. ToApply(c)' = ToApply(c)
      BY <1>1 DEF ToApply, Considered
    <3>3. cand'[c].ids = file.yaml.ids \o new
      BY <2>3 DEF WithAppended
    <3> QED BY <1>1, <2>2, <2>3, <3>1, <3>2, <3>3 DEF Planned
  <2>5. ASSUME NEW o \in Cmd \ {c} PROVE Permitted(o)' /\ Planned(o)' /\ Applied(o)'
    BY <1>1, <2>3 DEF WaiverInv, Permitted, Planned, Applied, ToApply, Considered
  <2>6. OnlyPermittedWaivers'
    BY <1>1 DEF WaiverInv, OnlyPermittedWaivers
  <2>7. TmpOwned'
    BY <1>1, <2>1, <2>3, TmpStays
  <2> QED BY <2>4, <2>5, <2>6, <2>7 DEF WaiverInv
<1> QED BY <1>2, <1>3
\* The steps that prepare the two files next to host.yaml.
LEMMA PrepareWaives ==
    ASSUME ApplyInv, WaiverInv, NEW c \in Cmd, OpenBackup(c) \/ CopyBackup(c)
    PROVE  WaiverInv'
<1>1. err[c] = "none" /\ TypeOK /\ pc[c] \in {"backup", "copy"}
  BY DEF ApplyInv, CmdInv, Untouched, OpenBackup, CopyBackup, Applying
<1>2. pc[c] = "copy" => fd[c] = "bak"
  BY DEF ApplyInv, CmdInv, Handle
<1>3. /\ pc' = [pc EXCEPT ![c] = pc'[c]] /\ err' = [err EXCEPT ![c] = err'[c]]
      /\ UNCHANGED <<sugg, cand, added>>
      /\ \/ pc'[c] \in {"copy", "tmp"}
         \/ pc'[c] = "done" /\ err'[c] = "apply"
  BY <1>1 DEF OpenBackup, CopyBackup, Goto, Fail, TypeOK
<1>4. touched' = touched /\ file'.yaml = file.yaml /\ file'.tmp = file.tmp
  BY <1>1, <1>2 DEF TypeOK, OpenBackup, CopyBackup, Truncate, Put, PutFails
<1>5. \A o \in Cmd \ {c} : pc'[o] = pc[o] /\ err'[o] = err[o]
  BY <1>1, <1>3 DEF TypeOK
<1>6. Applied(c)'
  BY <1>3 DEF Applied
<1>7. TmpOwned'
  BY <1>1, <1>3, <1>4, <1>5, TmpStays
<1> QED BY <1>1, <1>3, <1>4, <1>5, <1>6, <1>7, Quiet DEF Appending

LEMMA TmpWaives ==
    ASSUME ApplyInv, WaiverInv, NEW c \in Cmd, OpenTmp(c) \/ WriteTmp(c)
    PROVE  WaiverInv'
<1>1. err[c] = "none" /\ TypeOK /\ pc[c] \in {"tmp", "write"}
  BY DEF ApplyInv, CmdInv, Untouched, OpenTmp, WriteTmp, Applying
<1>2. pc[c] = "write" => fd[c] = "tmp"
  BY DEF ApplyInv, CmdInv, Handle
<1>3. /\ pc' = [pc EXCEPT ![c] = pc'[c]] /\ err' = [err EXCEPT ![c] = err'[c]]
      /\ UNCHANGED <<sugg, cand, added>>
      /\ \/ pc'[c] \in {"write", "replace"}
         \/ pc'[c] = "unlink" /\ err'[c] \in {"apply", "dump"}
  BY <1>1 DEF OpenTmp, WriteTmp, Goto, FailLater, TypeOK
<1>4. touched' = touched /\ file'.yaml = file.yaml
  BY <1>1, <1>2 DEF TypeOK, OpenTmp, WriteTmp, TmpName, Truncate, Put, PutFails
<1>5. \A o \in Cmd \ {c} : pc'[o] = pc[o] /\ err'[o] = err[o]
  BY <1>1, <1>3 DEF TypeOK
<1>6. Applied(c)' /\ TmpOwned'
  BY <1>3 DEF Applied, TmpOwned
<1> QED BY <1>1, <1>3, <1>4, <1>5, <1>6, Quiet DEF Appending

\* The temporary file is gone, or its removal failed and is reported.
LEMMA UnlinkWaives ==
    ASSUME ApplyInv, WaiverInv, NEW c \in Cmd, UnlinkTmp(c)
    PROVE  WaiverInv'
<1>1. TypeOK /\ pc[c] = "unlink"
  BY DEF ApplyInv, UnlinkTmp
<1>2. /\ pc' = [pc EXCEPT ![c] = pc'[c]] /\ err' = [err EXCEPT ![c] = err'[c]]
      /\ UNCHANGED <<sugg, cand, added, touched>> /\ file'.yaml = file.yaml
      /\ pc'[c] \notin Appending
      /\ \/ file'.tmp = NoFile /\ err'[c] = err[c]
         \/ err'[c] = "oserror"
  BY <1>1 DEF UnlinkTmp, Goto, Fail, TypeOK, Appending
<1>3. \A o \in Cmd \ {c} : pc'[o] = pc[o] /\ err'[o] = err[o]
  BY <1>1, <1>2 DEF TypeOK
<1>4. Applied(c)'
  BY <1>1, <1>2 DEF WaiverInv, Applied, Considered
<1>5. TmpOwned'
  BY <1>2 DEF TmpOwned
<1> QED BY <1>1, <1>2, <1>3, <1>4, <1>5, Quiet

\* An exception in ids that is not the operator's is in P, and there once.
OnceIn(ids, P) ==
    \A i \in 1 .. Len(ids) :
        ids[i].origin # "hand" =>
            ids[i] \in P /\ \A j \in 1 .. Len(ids) : i # j => ids[j] # ids[i]

\* Appending permitted exceptions, each once and none that is there, keeps that.
LEMMA AppendWaivers ==
    ASSUME NEW old \in Seq(Decl), NEW new \in Seq(Decl), NEW P, OnceIn(old, P),
           \A d \in ToSet(new) :
              d.origin # "hand" => d \in P /\ d \notin ToSet(old),
           \A i, j \in DOMAIN new : new[i].origin # "hand" /\ i # j => new[i] # new[j]
    PROVE  OnceIn(old \o new, P)
<1> DEFINE all == old \o new
<1>1. /\ Len(old) \in Nat /\ Len(new) \in Nat /\ Len(all) = Len(old) + Len(new)
      /\ DOMAIN old = 1 .. Len(old) /\ DOMAIN new = 1 .. Len(new)
      /\ \A i \in 1 .. Len(old) : all[i] = old[i]
      /\ \A i \in 1 .. Len(new) : all[Len(old) + i] = new[i]
  OBVIOUS
<1> HIDE DEF all
<1>2. \A i \in 1 .. Len(all) :
         i \in 1 .. Len(old) \/ \E k \in 1 .. Len(new) : i = Len(old) + k
  <2> SUFFICES ASSUME NEW i \in 1 .. Len(all), i \notin 1 .. Len(old)
               PROVE  \E k \in 1 .. Len(new) : i = Len(old) + k
    OBVIOUS
  <2>1. i - Len(old) \in 1 .. Len(new) /\ i = Len(old) + (i - Len(old))
    BY <1>1
  <2> QED BY <2>1
<1>3. ASSUME NEW i \in 1 .. Len(all), all[i].origin # "hand" PROVE all[i] \in P
  <2>1. CASE i \in 1 .. Len(old)
    BY <1>1, <1>3, <2>1 DEF OnceIn
  <2>2. CASE \E k \in 1 .. Len(new) : i = Len(old) + k
    BY <1>1, <1>3, <2>2 DEF ToSet
  <2> QED BY <1>2, <2>1, <2>2
<1>4. ASSUME NEW i \in 1 .. Len(all), NEW j \in 1 .. Len(all), i # j,
             all[i].origin # "hand"
      PROVE  all[j] # all[i]
  <2>1. CASE i \in 1 .. Len(old) /\ j \in 1 .. Len(old)
    BY <1>1, <1>4, <2>1 DEF OnceIn
  <2>2. ASSUME i \in 1 .. Len(old), NEW k \in 1 .. Len(new), j = Len(old) + k
        PROVE  all[j] # all[i]
    <3>1. all[i] = old[i] /\ old[i] \in ToSet(old) /\ all[j] = new[k] /\ new[k] \in ToSet(new)
      BY <1>1, <2>2 DEF ToSet
    <3> QED BY <1>4, <2>2, <3>1
  <2>3. ASSUME j \in 1 .. Len(old), NEW k \in 1 .. Len(new), i = Len(old) + k
        PROVE  all[j] # all[i]
    <3>1. all[j] = old[j] /\ old[j] \in ToSet(old) /\ all[i] = new[k] /\ new[k] \in ToSet(new)
      BY <1>1, <2>3 DEF ToSet
    <3> QED BY <1>4, <2>3, <3>1
  <2>4. ASSUME NEW k \in 1 .. Len(new), NEW l \in 1 .. Len(new),
               i = Len(old) + k, j = Len(old) + l
        PROVE  all[j] # all[i]
    <3>1. all[i] = new[k] /\ all[j] = new[l] /\ k # l
      BY <1>1, <1>4, <2>4
    <3> QED BY <1>1, <1>4, <3>1
  <2>5. CASE i \in 1 .. Len(old)
    BY <1>2, <2>1, <2>2, <2>5
  <2>6. CASE \E k \in 1 .. Len(new) : i = Len(old) + k
    BY <1>2, <2>3, <2>4, <2>6
  <2> QED BY <1>2, <2>5, <2>6
<1> QED BY <1>3, <1>4 DEF all, OnceIn
\* Edit appends exceptions of the operator's own, or none.
LEMMA EditAppends ==
    ASSUME ApplyInv, Edit
    PROVE  \E new \in Seq(Decl) : /\ file'.yaml.ids = file.yaml.ids \o new
                                  /\ \A d \in ToSet(new) : d.origin = "hand"
<1>1. /\ file \in [{"yaml", "bak", "tmp"} -> Content] /\ file.yaml.ids \in Seq(Decl)
      /\ file.yaml \in Whole
  <2>1. /\ file \in [{"yaml", "bak", "tmp"} -> Content] /\ file.yaml \in Content
        /\ file.yaml.ids \in Seq(Decl)
    BY FileTypes DEF ApplyInv, TypeOK
  <2>2. file.yaml.form \in WholeForm
    BY DEF Edit
  <2> QED BY <2>1, <2>2 DEF Content, NoFile, Empty, Torn, WholeForm
<1>2. ASSUME NEW r \in Rule,
             file' = [file EXCEPT !.yaml.ids =
                          Append(@, [origin |-> "hand", rule |-> r])]
      PROVE  \E new \in Seq(Decl) : /\ file'.yaml.ids = file.yaml.ids \o new
                                    /\ \A d \in ToSet(new) : d.origin = "hand"
  <2> DEFINE d == [origin |-> "hand", rule |-> r]
  <2>1. d \in Decl /\ d.origin = "hand"
    BY DEF Decl
  <2>2. file'.yaml.ids = Append(file.yaml.ids, d)
    BY <1>1, <1>2 DEF Whole
  <2> HIDE DEF d
  <2>3. file'.yaml.ids = file.yaml.ids \o <<d>> /\ <<d>> \in Seq(Decl)
    BY <1>1, <2>1, <2>2
  <2>4. \A x \in ToSet(<<d>>) : x.origin = "hand"
    BY <2>1 DEF ToSet
  <2> QED BY <2>3, <2>4
<1>3. ASSUME NEW f \in WholeForm, file' = [file EXCEPT !.yaml.form = f]
      PROVE  \E new \in Seq(Decl) : /\ file'.yaml.ids = file.yaml.ids \o new
                                    /\ \A d \in ToSet(new) : d.origin = "hand"
  <2>1. file'.yaml.ids = file.yaml.ids
    BY <1>1, <1>3 DEF Whole
  <2>2. <<>> \in Seq(Decl) /\ file.yaml.ids \o <<>> = file.yaml.ids /\ ToSet(<<>>) = {}
    BY <1>1 DEF ToSet
  <2> QED BY <2>1, <2>2
<1> QED BY <1>2, <1>3 DEF Edit

\* What apply has to say of host.yaml's exceptions, as a set.
OnceAndAllowed ==
    {d \in Decl : d.rule \notin Enforced
                  /\ (d.origin = "regression" => \E c \in Cmd : Allow[c] /\ touched[c])}

LEMMA WaiversAsSet ==
    ASSUME NEW ids \in Seq(Decl)
    PROVE  (\A i \in 1 .. Len(ids) :
               LET d == ids[i] IN
               /\ d.origin # "hand" =>
                    /\ d.rule \notin Enforced
                    /\ \A j \in 1 .. Len(ids) : i # j => ids[j] # d
               /\ d.origin = "regression" => \E c \in Cmd : Allow[c] /\ touched[c])
           <=>
           OnceIn(ids, OnceAndAllowed)
<1>1. \A i \in 1 .. Len(ids) : ids[i] \in Decl
  OBVIOUS
<1> QED BY <1>1 DEF OnceAndAllowed, OnceIn

\* An edit keeps the invariant: no plan is made while it happens.
LEMMA EditWaives ==
    ASSUME OneApplier, ApplyInv, WaiverInv, Edit
    PROVE  WaiverInv'
<1>1. /\ UNCHANGED <<pc, err, sugg, added, cand, touched>>
      /\ \A c \in Cmd : pc[c] \notin Writing
      /\ file'.tmp = file.tmp /\ file.yaml.ids \in Seq(Decl)
  BY FileTypes DEF ApplyInv, TypeOK, Edit, Writing, Applying
<1>2. PICK new \in Seq(Decl) : /\ file'.yaml.ids = file.yaml.ids \o new
                               /\ \A d \in ToSet(new) : d.origin = "hand"
  BY EditAppends
<1>3. OnlyPermittedWaivers'
  <2>1. \A i, j \in DOMAIN new : new[i].origin # "hand" /\ i # j => new[i] # new[j]
    BY <1>2 DEF ToSet
  <2>2. OnceIn(file.yaml.ids, OnceAndAllowed)
    BY <1>1, WaiversAsSet DEF WaiverInv, OnlyPermittedWaivers
  <2>3. file'.yaml.ids \in Seq(Decl)
    BY <1>1, <1>2
  <2>4. OnceIn(file'.yaml.ids, OnceAndAllowed)
    BY <1>1, <1>2, <2>1, <2>2, AppendWaivers
  <2> QED BY <1>1, <2>3, <2>4, WaiversAsSet DEF OnlyPermittedWaivers
<1>4. ToSet(file.yaml.ids) \subseteq ToSet(file'.yaml.ids)
  BY <1>1, <1>2, MembersOfConcat
<1>5. ASSUME NEW c \in Cmd PROVE Permitted(c)' /\ Planned(c)' /\ Applied(c)'
  <2>1. Permitted(c)' /\ Planned(c)'
    BY <1>1 DEF WaiverInv, Permitted, Planned, Writing, Applying, Appending
  <2>2. Applied(c)'
    BY <1>1, <1>4 DEF WaiverInv, Applied, Considered
  <2> QED BY <2>1, <2>2
<1>6. TmpOwned'
  BY <1>1 DEF WaiverInv, TmpOwned
<1> QED BY <1>3, <1>5, <1>6 DEF WaiverInv

\* The rename appends the plan to what the read found, for nobody else writes in between.
LEMMA ReplaceWaives ==
    ASSUME ApplyInv, WaiverInv, NEW c \in Cmd, ReplaceYaml(c)
    PROVE  WaiverInv'
<1>1. /\ TypeOK /\ pc[c] = "replace" /\ err[c] = "none" /\ UNCHANGED <<sugg, added, cand>>
      /\ \A o \in Cmd \ {c} : pc[o] \notin Writing
  BY Alone DEF ApplyInv, CmdInv, Untouched, ReplaceYaml, Applying, Writing
<1>2. /\ pc' = [pc EXCEPT ![c] = "unlink"] /\ err' = [err EXCEPT ![c] = err'[c]]
  BY <1>1 DEF ReplaceYaml, Goto, FailLater, TypeOK
<1>3. \A o \in Cmd \ {c} : pc'[o] = pc[o] /\ err'[o] = err[o]
  BY <1>1, <1>2 DEF TypeOK
<1>4. pc'[c] = "unlink"
  BY <1>1, <1>2 DEF TypeOK
<1>5. TmpOwned'
  BY <1>4 DEF TmpOwned
<1>6. CASE err'[c] = "apply"
  <2>1. UNCHANGED <<file, touched>>
    BY <1>1, <1>6 DEF ReplaceYaml, Goto, TypeOK
  <2>2. Applied(c)'
    BY <1>6 DEF Applied
  <2> QED BY <1>1, <1>3, <1>4, <1>5, <2>1, <2>2, Quiet DEF Appending
<1>7. CASE err'[c] # "apply"
  <2>1. /\ file'.yaml = file.tmp /\ touched' = [touched EXCEPT ![c] = TRUE] /\ err' = err
    BY <1>1, <1>7 DEF ReplaceYaml, Goto, FailLater, TypeOK
  <2>2. Planned(c) /\ file.tmp = cand[c]
    BY <1>1 DEF ApplyInv, CmdInv, Files, WaiverInv
  <2>3. /\ file.yaml.ids \in Seq(Decl) /\ added[c] \in Seq(Decl)
        /\ file'.yaml.ids = file.yaml.ids \o added[c]
        /\ ToSet(added[c]) = ToApply(c) /\ IsInjective(added[c])
    BY <1>1, <2>1, <2>2, FileTypes DEF TypeOK, Planned, Appending
  <2>4. ToSet(file'.yaml.ids) = ToSet(file.yaml.ids) \cup ToApply(c)
    BY <2>3, MembersOfConcat
  <2>5. OnlyPermittedWaivers'
    <3>0. file'.yaml.ids \in Seq(Decl)
      BY <2>3
    <3>1. \A o \in Cmd : touched[o] => touched'[o]
      BY <1>1, <2>1 DEF TypeOK
    <3>2. touched'[c]
      BY <1>1, <2>1 DEF TypeOK
    <3>3. OnceAndAllowed \subseteq OnceAndAllowed'
      BY <3>1 DEF OnceAndAllowed
    <3>4. OnceIn(file.yaml.ids, OnceAndAllowed')
      <4>1. OnceIn(file.yaml.ids, OnceAndAllowed)
        BY <2>3, WaiversAsSet DEF WaiverInv, OnlyPermittedWaivers
      <4> QED BY <3>3, <4>1 DEF OnceIn
    <3>5. \A d \in ToSet(added[c]) :
             d.origin # "hand" => d \in OnceAndAllowed' /\ d \notin ToSet(file.yaml.ids)
      <4> SUFFICES ASSUME NEW d \in ToApply(c)
                   PROVE  d \in OnceAndAllowed' /\ d \notin ToSet(file.yaml.ids)
        BY <2>3
      <4>1. d \in sugg[c] /\ d \notin ToSet(file.yaml.ids)
            /\ (d.origin = "regression" => Allow[c])
        BY DEF ToApply, Considered
      <4>2. d \in Decl /\ d.rule \notin Enforced
        BY <1>1, <4>1 DEF TypeOK, WaiverInv, Permitted
      <4> QED BY <3>2, <4>1, <4>2 DEF OnceAndAllowed
    <3>6. \A i, j \in DOMAIN added[c] :
             added[c][i].origin # "hand" /\ i # j => added[c][i] # added[c][j]
      BY <2>3 DEF IsInjective
    <3>7. OnceIn(file'.yaml.ids, OnceAndAllowed')
      <4> DEFINE P == OnceAndAllowed'
      <4> HIDE DEF P
      <4> QED BY <2>3, <3>4, <3>5, <3>6, AppendWaivers DEF P
    <3>8. \A i \in 1 .. Len(file'.yaml.ids) : file'.yaml.ids[i] \in Decl
      BY <3>0
    <3> QED BY <3>7, <3>8 DEF OnlyPermittedWaivers, OnceAndAllowed, OnceIn
  <2>6. Permitted(c)' /\ Planned(c)' /\ Applied(c)'
    <3>1. Permitted(c)' /\ Planned(c)'
      BY <1>1, <1>4 DEF WaiverInv, Permitted, Planned, Appending
    <3>2. Considered(c)' \subseteq ToSet(file'.yaml.ids)
      BY <1>1, <2>4 DEF Considered, ToApply
    <3> QED BY <3>1, <3>2 DEF Applied
  <2>7. ASSUME NEW o \in Cmd \ {c} PROVE Permitted(o)' /\ Planned(o)' /\ Applied(o)'
    <3>1. pc'[o] \notin Appending
      BY <1>1, <1>3 DEF Writing, Applying, Appending
    <3>2. Permitted(o)' /\ Planned(o)'
      BY <1>1, <3>1 DEF WaiverInv, Permitted, Planned
    <3>3. Applied(o)'
      BY <1>1, <1>3, <2>4 DEF WaiverInv, Applied, Considered
    <3> QED BY <3>2, <3>3
  <2> QED BY <1>5, <2>5, <2>6, <2>7 DEF WaiverInv
<1> QED BY <1>6, <1>7
\* The invariant holds at first, and every step keeps it.
LEMMA WaiverInit == Init => WaiverInv
<1> SUFFICES ASSUME Init PROVE WaiverInv
  OBVIOUS
<1>1. file.yaml.ids = <<>> /\ file.tmp = NoFile
  BY DEF Init
<1>2. OnlyPermittedWaivers /\ TmpOwned
  BY <1>1 DEF OnlyPermittedWaivers, TmpOwned
<1> QED BY <1>2 DEF Init, WaiverInv, Permitted, Planned, Applied, Appending

LEMMA WaiverStep == OneApplier /\ ApplyInv /\ WaiverInv /\ [Next]_vars => WaiverInv'
<1> SUFFICES ASSUME OneApplier, ApplyInv, WaiverInv, [Next]_vars PROVE WaiverInv'
  OBVIOUS
<1>1. ASSUME NEW c \in Cmd, LoadConfig(c) \/ Verify(c) \/ Emit(c) \/ Record(c) \/ Kill(c)
      PROVE  WaiverInv'
  BY <1>1, OutsideWaives, VerifyWaives
<1>2. ASSUME NEW c \in Cmd, Apply(c) PROVE WaiverInv'
  BY <1>2, ReadYamlWaives, PrepareWaives, TmpWaives, ReplaceWaives, UnlinkWaives DEF Apply
<1>3. CASE Edit
  BY <1>3, EditWaives
<1>4. CASE UNCHANGED vars
  <2>1. UNCHANGED <<pc, err, touched, sugg, added, cand, file>>
    BY <1>4 DEF vars, cmdVars
  <2> QED BY <2>1 DEF WaiverInv, OnlyPermittedWaivers, TmpOwned, Permitted, Planned, Applied,
                      ToApply, Considered
<1> QED BY <1>1, <1>2, <1>3, <1>4 DEF Next

\* Whatever scans, edits and kills come between the load and the write: apply writes no
\* rule that ks-gen enforces, no regression without the flag, and nothing twice.
THEOREM WaiversPermitted == OneApplier /\ Spec => []OnlyPermittedWaivers
<1> SUFFICES ASSUME OneApplier PROVE Spec => []OnlyPermittedWaivers
  OBVIOUS
<1>1. ApplyInv /\ WaiverInv /\ [Next]_vars => (ApplyInv /\ WaiverInv)'
  BY ApplyStep, WaiverStep
<1>2. WaiverInv => OnlyPermittedWaivers
  BY DEF WaiverInv
<1> QED BY <1>1, <1>2, ApplyInit, WaiverInit, PTL DEF Spec

\* A command that ends without an error has everything it may apply in host.yaml, and
\* no temporary file outlives the commands unless one was killed or its unlink failed.
THEOREM SuccessIsComplete == OneApplier /\ Spec => []SuccessMeansApplied
<1> SUFFICES ASSUME OneApplier PROVE Spec => []SuccessMeansApplied
  OBVIOUS
<1>1. ApplyInv /\ WaiverInv /\ [Next]_vars => (ApplyInv /\ WaiverInv)'
  BY ApplyStep, WaiverStep
<1>2. WaiverInv => SuccessMeansApplied
  BY DEF WaiverInv, Applied, TmpOwned, SuccessMeansApplied, Applying
<1> QED BY <1>1, <1>2, ApplyInit, WaiverInit, PTL DEF Spec
==============================================================================
