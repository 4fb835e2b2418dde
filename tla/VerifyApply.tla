----------------------------- MODULE VerifyApply -----------------------------
(***************************************************************************)
(* `ks-gen verify --host H --config host.yaml --apply': the failures of a  *)
(* report become exceptions, and the command rewrites host.yaml itself.    *)
(*                                                                         *)
(* Several commands may run against one host.yaml; each may be killed at   *)
(* any step, each file operation may fail, and the operator may edit the   *)
(* file while they run.  A step of a command is what happens between two   *)
(* effects on the file system.                                             *)
(*                                                                         *)
(*   verify/suggest.py, cli.py (verify_cmd, single host), and the use of   *)
(*   exceptions_report.py in both                                          *)
(***************************************************************************)
EXTENDS Reconcile, SequencesExt

CONSTANTS
    Cmd,         \* the commands
    Allow,       \* Allow[c]: command c has --allow-regression
    Enforced,    \* rules that ks-gen enforces itself (stig_rules_affected)
    Current,     \* the scans that oscap may report
    Install,     \* the install-time scans they may be compared with
    Forms,       \* forms that host.yaml may have at first
    Faults,      \* file operations that may fail
    OneApplier,  \* TRUE: nobody else writes host.yaml while a command does
    MaxEdits,    \* bound on the operator's edits
    MaxKills     \* bound on killed commands

(***************************************************************************)
(* File contents.  An exception is an id, auto-<category>-<rule> or the    *)
(* operator's own, and the rule it waives; the rest of host.yaml only      *)
(* matters in so far as it                                                 *)
(*   plain    loads, and validation leaves it as it is,                    *)
(*   implied  loads, and keeps a data disk (wipe: false) without naming a  *)
(*            partition: validation writes `partition: 1' into the dict,   *)
(*   bare     loads, and has a `disk:' block with neither preset nor       *)
(*            layout: validation puts an enum into it,                     *)
(*   refused  is a YAML mapping that HostConfig refuses,                   *)
(*   odd      is refused as well, and the ids of its exceptions cannot be  *)
(*            collected (`exceptions: 5', an id that is a list),           *)
(*   broken   is not YAML, or no mapping,                                  *)
(*   binary   is not UTF-8.                                                *)
(* A file that was opened for writing is empty, then torn or whole.        *)
(***************************************************************************)
Decl      == [origin : FailingCategory \cup {"hand"}, rule : Rule]
WholeForm == {"plain", "implied", "bare", "refused", "odd", "broken", "binary"}
Whole     == [ids : Seq(Decl), form : WholeForm]
NoFile    == [ids |-> <<>>, form |-> "absent"]
Empty     == [ids |-> <<>>, form |-> "empty"]
Torn      == [ids |-> <<>>, form |-> "torn"]
Content   == Whole \cup {NoFile, Empty, Torn}

Fault     == {"html", "read", "backup", "open", "write", "replace", "unlink"}

ASSUME ApplyAssumption ==
    /\ IsFiniteSet(Rule)
    /\ Allow \in [Cmd -> BOOLEAN]
    /\ Enforced \subseteq Rule
    /\ Current \subseteq [Rule -> ResultState]
    /\ Install \subseteq [Rule -> ResultState] \cup {NoScan}
    /\ Forms \subseteq WholeForm
    /\ Faults \subseteq Fault
    /\ OneApplier \in BOOLEAN
    /\ MaxEdits \in Nat /\ MaxKills \in Nat

VARIABLES
    pc,        \* the step of each command
    err,       \* why it failed, "none" so far
    cfg,       \* the exceptions of the config it loaded
    sugg,      \* its suggestions, as a set
    added,     \* what it is about to append, in order
    cand,      \* the candidate it will write
    src,       \* host.yaml as it was opened for the backup
    fd,        \* the file it has open for writing
    file,      \* host.yaml, host.yaml.bak and host.yaml.tmp
    edits,     \* edits so far
    kills,     \* kills so far
    touched    \* observation: the command has changed host.yaml

cmdVars == <<pc, err, cfg, sugg, added, cand, src, fd>>
vars    == <<cmdVars, file, edits, kills, touched>>

\* the steps of apply_to_host_yaml
Applying == {"read", "backup", "copy", "tmp", "write", "replace", "unlink"}
PC       == {"idle", "verify", "emit", "record", "done", "killed"} \cup Applying

\* Exceptions that leave apply_to_host_yaml without being a SuggestApplyError
Uncaught == {"dump", "oserror", "typeerror", "decodeerror"}
Failure  == {"config", "verify", "html", "apply"} \cup Uncaught

Init ==
    /\ pc = [c \in Cmd |-> "idle"]
    /\ err = [c \in Cmd |-> "none"]
    /\ cfg = [c \in Cmd |-> <<>>]
    /\ sugg = [c \in Cmd |-> {}]
    /\ added = [c \in Cmd |-> <<>>]
    /\ cand = [c \in Cmd |-> NoFile]
    /\ src = [c \in Cmd |-> NoFile]
    /\ fd = [c \in Cmd |-> "none"]
    /\ \E f \in Forms :
          file = [yaml |-> [ids |-> <<>>, form |-> f], bak |-> NoFile, tmp |-> NoFile]
    /\ edits = 0
    /\ kills = 0
    /\ touched = [c \in Cmd |-> FALSE]

-----------------------------------------------------------------------------
Goto(c, step)  == /\ pc' = [pc EXCEPT ![c] = step]
                  /\ UNCHANGED err
Fail(c, e)     == /\ pc' = [pc EXCEPT ![c] = "done"]
                  /\ err' = [err EXCEPT ![c] = e]
SwallowFailure(c, e)  == /\ pc' = [pc EXCEPT ![c] = "unlink"]
                         /\ UNCHANGED err

\* an exception inside step 8's try: the finally clause comes next
FailLater(c, e) == /\ pc' = [pc EXCEPT ![c] = "unlink"]
                   /\ err' = [err EXCEPT ![c] = e]

\* load_host_config accepts it
Loads(content)  == content.form \in {"plain", "implied", "bare"}
\* its exceptions can be read; an empty file counts as an empty mapping
Parses(content) == Loads(content) \/ content.form \in {"refused", "empty"}
WaivedBy(ids)   == {d.rule : d \in ToSet(ids)}

\* exceptions_report.managed_rule_ids
Managed(ids) == Enforced \ WaivedBy(ids)

SuggestionsForEveryRow(rows, managed) ==
    {[origin |-> rows[r].category, rule |-> r] : r \in DOMAIN rows \ managed}

\* suggest.build_suggestions, with _withheld
Suggestions(rows, managed) ==
    {[origin |-> rows[r].category, rule |-> r] :
        r \in {x \in DOMAIN rows : rows[x].category \in FailingCategory
                                   /\ x \notin managed}}

-----------------------------------------------------------------------------
(***************************************************************************)
(* verify_cmd up to the apply                                              *)
(***************************************************************************)
\* A file that does not load ends the command, with a ConfigError or, where it is
\* not UTF-8, with a traceback.
LoadConfig(c) ==
    /\ pc[c] = "idle"
    /\ \/ /\ Loads(file.yaml)
          /\ cfg' = [cfg EXCEPT ![c] = file.yaml.ids]
          /\ Goto(c, "verify")
       \/ /\ ~Loads(file.yaml) \/ "read" \in Faults
          /\ Fail(c, "config")
          /\ UNCHANGED cfg
    /\ UNCHANGED <<sugg, added, cand, src, fd, file, edits, kills, touched>>

\* run_verify (VerifyRun) and _suggest
Verify(c) ==
    /\ pc[c] = "verify"
    /\ \/ /\ \E cur \in Current, ins \in Install :
                LET rows == BuildReport(cur, ins, WaivedBy(cfg[c]))
                IN  sugg' = [sugg EXCEPT ![c] = Suggestions(rows, Managed(cfg[c]))]
          /\ Goto(c, "emit")
       \/ /\ Fail(c, "verify")
          /\ UNCHANGED sugg
    /\ UNCHANGED <<cfg, added, cand, src, fd, file, edits, kills, touched>>

\* _emit_single_host_report: a --html-out that cannot be written ends the
\* command before it applies or records anything.
Emit(c) ==
    /\ pc[c] = "emit"
    /\ \/ Goto(c, "read")
       \/ "html" \in Faults /\ Fail(c, "html")
    /\ UNCHANGED <<cfg, sugg, added, cand, src, fd, file, edits, kills, touched>>

-----------------------------------------------------------------------------
(***************************************************************************)
(* apply_to_host_yaml                                                      *)
(***************************************************************************)
Considered(c) == {d \in sugg[c] : d.origin = "regression" => Allow[c]}
ToApplyAgain(c) == Considered(c)
ToApply(c)    == Considered(c) \ ToSet(file.yaml.ids)

\* HostConfig.model_validate fills defaults into the dicts it is given, and so
\* into the candidate that is dumped afterwards.
Validated(form) == IF form = "implied" THEN "plain" ELSE form

OnlyAppended(old, new) == [ids |-> new, form |-> Validated(old.form)]
WithAppended(old, new) == [ids |-> old.ids \o new, form |-> Validated(old.form)]

Free(c) == OneApplier => \A o \in Cmd \ {c} : pc[o] \notin Applying \ {"read"}

\* steps 1-6: gate, read, parse, skip what is there, build and validate
ReadYaml(c) ==
    /\ pc[c] = "read"
    /\ Free(c)
    /\ \/ /\ \/ /\ file.yaml.form \in {"broken", "absent", "torn"} \/ "read" \in Faults
                /\ Fail(c, "apply")
             \/ file.yaml.form \in {"binary", "torn"} /\ Fail(c, "decodeerror")
             \/ file.yaml.form = "odd" /\ Fail(c, "typeerror")
             \/ Parses(file.yaml) /\ ToApply(c) = {} /\ Goto(c, "record")
             \/ Parses(file.yaml) /\ ~Loads(file.yaml) /\ ToApply(c) # {} /\ Fail(c, "apply")
          /\ UNCHANGED <<added, cand>>
       \/ /\ Loads(file.yaml)
          /\ ToApply(c) # {}
          /\ LET new == SetToSeq(ToApply(c)) IN
                /\ added' = [added EXCEPT ![c] = new]
                /\ cand' = [cand EXCEPT ![c] = WithAppended(file.yaml, new)]
          /\ Goto(c, "backup")
    /\ UNCHANGED <<cfg, sugg, src, fd, file, edits, kills, touched>>

\* Opening a file for writing empties it, and writing to a file that somebody
\* else has meanwhile written to may mix the two.
Truncate(c, name) == /\ file' = [file EXCEPT ![name] = Empty]
                     /\ fd' = [fd EXCEPT ![c] = name]

Put(c, content) ==
    /\ fd' = [fd EXCEPT ![c] = "none"]
    /\ IF fd[c] = "gone" THEN UNCHANGED <<file, touched>>
       ELSE /\ \E x \in {content} \cup (IF file[fd[c]] = Empty THEN {} ELSE {Torn}) :
                  file' = [file EXCEPT ![fd[c]] = x]
            /\ touched' = [touched EXCEPT ![c] = @ \/ fd[c] = "yaml"]

\* a write that fails half-way
PutFails(c) ==
    /\ fd' = [fd EXCEPT ![c] = "none"]
    /\ IF fd[c] = "gone" THEN UNCHANGED <<file, touched>>
       ELSE /\ file' = [file EXCEPT ![fd[c]] = Torn]
            /\ touched' = [touched EXCEPT ![c] = @ \/ fd[c] = "yaml"]

\* step 7: shutil.copy2
OpenBackup(c) ==
    /\ pc[c] = "backup"
    /\ \/ /\ Truncate(c, "bak")
          /\ src' = [src EXCEPT ![c] = file.yaml]
          /\ Goto(c, "copy")
       \/ /\ "backup" \in Faults
          /\ Fail(c, "apply")
          /\ UNCHANGED <<src, fd, file>>
    /\ UNCHANGED <<cfg, sugg, added, cand, edits, kills, touched>>

CopyBackupBestEffort(c) ==
    /\ pc[c] = "copy"
    /\ Goto(c, "tmp")
    /\ \/ Put(c, src[c])
       \/ "backup" \in Faults /\ PutFails(c)
    /\ UNCHANGED <<cfg, sugg, added, cand, src, edits, kills>>

CopyBackup(c) ==
    /\ pc[c] = "copy"
    /\ \/ Put(c, src[c]) /\ Goto(c, "tmp")
       \/ "backup" \in Faults /\ PutFails(c) /\ Fail(c, "apply")
    /\ UNCHANGED <<cfg, sugg, added, cand, src, edits, kills>>

InPlace == "yaml"
TmpName == "tmp"

\* step 8: dump, open the temporary file, write it, replace, and in any case
\* unlink
OpenTmp(c) ==
    /\ pc[c] = "tmp"
    /\ \/ /\ cand[c].form = "bare"
          /\ FailLater(c, "dump")
          /\ UNCHANGED <<fd, file>>
       \/ /\ cand[c].form # "bare"
          /\ Truncate(c, TmpName)
          /\ Goto(c, "write")
       \/ /\ cand[c].form # "bare"
          /\ "open" \in Faults
          /\ FailLater(c, "apply")
          /\ UNCHANGED <<fd, file>>
    /\ UNCHANGED <<cfg, sugg, added, cand, src, edits, kills, touched>>

WriteTmp(c) ==
    /\ pc[c] = "write"
    /\ \/ Put(c, cand[c]) /\ Goto(c, "replace")
       \/ "write" \in Faults /\ PutFails(c) /\ FailLater(c, "apply")
    /\ UNCHANGED <<cfg, sugg, added, cand, src, edits, kills>>

\* rename(2): a command that has the temporary file open now has host.yaml open
Moved(name) == IF name = "tmp" THEN "yaml" ELSE IF name = "yaml" THEN "gone" ELSE name

ReplaceYaml(c) ==
    /\ pc[c] = "replace"
    /\ \/ /\ file.tmp # NoFile
          /\ file' = [file EXCEPT !.yaml = file.tmp, !.tmp = NoFile]
          /\ fd' = [o \in Cmd |-> Moved(fd[o])]
          /\ touched' = [touched EXCEPT ![c] = TRUE]
          /\ Goto(c, "unlink")
       \/ /\ file.tmp = NoFile \/ "replace" \in Faults
          /\ FailLater(c, "apply")
          /\ UNCHANGED <<fd, file, touched>>
    /\ UNCHANGED <<cfg, sugg, added, cand, src, edits, kills>>

UnlinkTmpMustExist(c) ==
    /\ pc[c] = "unlink"
    /\ file' = [file EXCEPT !.tmp = NoFile]
    /\ IF file.tmp = NoFile THEN Fail(c, "apply") ELSE Goto(c, "done")
    /\ UNCHANGED <<cfg, sugg, added, cand, src, fd, edits, kills, touched>>

UnlinkTmp(c) ==
    /\ pc[c] = "unlink"
    /\ \/ /\ file' = [file EXCEPT !.tmp = NoFile]
          /\ fd' = [o \in Cmd |-> IF fd[o] = "tmp" THEN "gone" ELSE fd[o]]
          /\ Goto(c, IF err[c] = "none" THEN "record" ELSE "done")
       \/ /\ file.tmp # NoFile
          /\ "unlink" \in Faults
          /\ Fail(c, "oserror")
          /\ UNCHANGED <<fd, file>>
    /\ UNCHANGED <<cfg, sugg, added, cand, src, edits, kills, touched>>

\* _record_run (its write failures only warn) and the exit
Record(c) ==
    /\ pc[c] = "record"
    /\ Goto(c, "done")
    /\ UNCHANGED <<cfg, sugg, added, cand, src, fd, file, edits, kills, touched>>

-----------------------------------------------------------------------------
(***************************************************************************)
(* The surroundings                                                        *)
(***************************************************************************)
Kill(c) ==
    /\ pc[c] \notin {"idle", "done", "killed"}
    /\ kills < MaxKills
    /\ kills' = kills + 1
    /\ fd' = [fd EXCEPT ![c] = "none"]
    /\ Goto(c, "killed")
    /\ UNCHANGED <<cfg, sugg, added, cand, src, file, edits, touched>>

\* The operator waives a rule by hand, or breaks the file, or mends it.
Edit ==
    /\ edits < MaxEdits
    /\ OneApplier => \A c \in Cmd : pc[c] \notin Applying \ {"read"}
    /\ edits' = edits + 1
    /\ file.yaml.form \in WholeForm
    /\ \/ \E r \in Rule :
             file' = [file EXCEPT !.yaml.ids = Append(@, [origin |-> "hand", rule |-> r])]
       \/ \E f \in WholeForm \ {file.yaml.form} : file' = [file EXCEPT !.yaml.form = f]
    /\ fd' = [o \in Cmd |-> IF fd[o] = "yaml" THEN "gone" ELSE fd[o]]
    /\ UNCHANGED <<pc, err, cfg, sugg, added, cand, src, kills, touched>>

Apply(c) == ReadYaml(c) \/ OpenBackup(c) \/ CopyBackup(c) \/ OpenTmp(c)
            \/ WriteTmp(c) \/ ReplaceYaml(c) \/ UnlinkTmp(c)

Next ==
    \/ \E c \in Cmd : \/ LoadConfig(c) \/ Verify(c) \/ Emit(c)
                      \/ Apply(c) \/ Record(c) \/ Kill(c)
    \/ Edit

Spec == Init /\ [][Next]_vars

-----------------------------------------------------------------------------
(***************************************************************************)
(* Properties                                                              *)
(***************************************************************************)
\* Every variable stays in its type; a command fails only in the ways listed.
TypeOK ==
    /\ pc \in [Cmd -> PC]
    /\ err \in [Cmd -> Failure \cup {"none"}]
    /\ cfg \in [Cmd -> Seq(Decl)]
    /\ sugg \in [Cmd -> SUBSET Decl]
    /\ added \in [Cmd -> Seq(Decl)]
    /\ cand \in [Cmd -> Content]
    /\ src \in [Cmd -> Content]
    /\ fd \in [Cmd -> {"none", "bak", "tmp", "yaml", "gone"}]
    /\ file \in [{"yaml", "bak", "tmp"} -> Content]
    /\ edits \in 0 .. MaxEdits
    /\ kills \in 0 .. MaxKills
    /\ touched \in [Cmd -> BOOLEAN]

\* host.yaml is a whole file at every moment, whatever fails and whoever is
\* killed (apply_to_host_yaml, "atomic write").
YamlIsWhole == file.yaml.form \in WholeForm

\* What apply, and nobody but apply and the operator, changes in host.yaml: it
\* appends to the exceptions ("append-only write"), to a file that loads, and the
\* rest stays, but for the default partition of a data disk that is kept, which
\* validation has written into the candidate.  The file loads afterwards.
AppendOnly ==
    [][edits' = edits /\ file'.yaml # file.yaml =>
        /\ IsStrictPrefix(file.yaml.ids, file'.yaml.ids)
        /\ \/ file'.yaml.form = file.yaml.form
           \/ file.yaml.form = "implied" /\ file'.yaml.form = "plain"
        /\ Loads(file.yaml) /\ Loads(file'.yaml)]_vars

\* The backup is the recovery path: whenever apply changes host.yaml, the .bak
\* next to it is exactly what it replaces, also when an older .bak or .tmp was left
\* by a killed command.
BackupIsPredecessor ==
    [][edits' = edits /\ file'.yaml # file.yaml => file'.bak = file.yaml]_vars

\* "Raises SuggestApplyError on read/parse/validate/IO failure with host.yaml
\* byte-identical to its pre-call state."
FailureLeavesYaml == \A c \in Cmd : err[c] = "apply" => ~touched[c]

\* What apply writes is written once and may be waived: every command decides what
\* to suggest from a config it loaded before the scan, and yet no id is there twice
\* ("idempotent"); "rules ks-gen enforces are never suggested, under any flag", and
\* a regression is written only by a command with --allow-regression.
OnlyPermittedWaivers ==
    \A i \in 1 .. Len(file.yaml.ids) :
        LET d == file.yaml.ids[i] IN
        /\ d.origin # "hand" =>
             /\ d.rule \notin Enforced
             /\ \A j \in 1 .. Len(file.yaml.ids) : i # j => file.yaml.ids[j] # d
        /\ d.origin = "regression" => \E c \in Cmd : Allow[c] /\ touched[c]

\* A command that ends without an error has every permitted suggestion of its
\* report in host.yaml ("applied N suggestion(s)", "skipped N already-present"); and
\* "we must not leave an orphan .tmp next to host.yaml": when nobody is applying,
\* nobody was killed and no unlink failed, there is none.
SuccessMeansApplied ==
    /\ \A c \in Cmd :
         pc[c] = "done" /\ err[c] = "none" => Considered(c) \subseteq ToSet(file.yaml.ids)
    /\ (\A c \in Cmd : pc[c] \notin Applying \cup {"killed"} /\ err[c] # "oserror")
         => file.tmp = NoFile

\* Every way apply can fail is reported as "apply failed", exit code 2.
FailuresAreReported == \A c \in Cmd : err[c] \notin Uncaught
==============================================================================
