-------------------------------- MODULE Fleet --------------------------------
(***************************************************************************)
(* `ks-gen verify --hosts': the hosts file is checked as a whole, one      *)
(* verify_one task per host is submitted to a thread pool of max(1, jobs)  *)
(* workers, the outcomes are collected in hosts-file order, rendered,      *)
(* recorded and summed up in one exit code.  What happens inside           *)
(* run_verify is VerifyRun's subject; here it answers with a report or an  *)
(* exception.                                                              *)
(*                                                                         *)
(*   verify/fleet.py, cli.py (_run_fleet_cmd, _record_run)                 *)
(***************************************************************************)
EXTENDS ExitCodes, Integers, Sequences

CONSTANTS
    N,          \* entries of the hosts file
    Jobs,       \* --jobs; nothing keeps it positive
    MaxEdits,   \* bound on edits of host.yaml files while the command runs
    Record,     \* --record was given
    HtmlOut     \* --html-out was given

ASSUME FleetAssumption ==
    /\ N \in Nat
    /\ Jobs \in Int
    /\ MaxEdits \in Nat
    /\ Record \in BOOLEAN
    /\ HtmlOut \in BOOLEAN

NoCode  == -1

Spec1N  == 1 .. N
Worker  == 1 .. (IF Jobs > 1 THEN Jobs ELSE 1)

VARIABLES
    main,       \* the step of the command's main thread
    lineOk,     \* hosts-file entries that parse
    cfgOk,      \* host.yaml files that load
    edits,      \* edits so far
    submitted,  \* tasks 1..submitted are submitted
    taken,      \* of which 1..taken were picked up: the pool's queue is FIFO
    worker,     \* the task each worker is on, 0 when idle
    loaded,     \* that task has loaded its host.yaml
    results,    \* run_fleet's results dict
    next,       \* position of the record loop
    records,    \* history lines written, as host numbers
    code        \* exit code

vars == <<main, lineOk, cfgOk, edits, submitted, taken, worker, loaded, results,
          next, records, code>>

(***************************************************************************)
(* HostOutcome: a report, or an error with the exit code of its class.     *)
(***************************************************************************)
ReportOutcome == [kind : {"report"}, clean : BOOLEAN, drift : BOOLEAN, exit : {OK}]
ErrorOutcome  == [kind : {"error"}, clean : {FALSE}, drift : {FALSE},
                  exit : {USAGE, CONFIG_INVALID, RULE_CONFLICT, TOOL_MISSING,
                          VERIFY_FAIL, TRANSPORT_FAIL}]
Outcome       == ReportOutcome \cup ErrorOutcome
NoOutcome     == [kind |-> "none", clean |-> FALSE, drift |-> FALSE, exit |-> OK]

ErrorWith(e)  == [kind |-> "error", clean |-> FALSE, drift |-> FALSE, exit |-> e]

\* HostOutcome.status
Status(o) == CASE o.kind = "error" /\ o.exit = VERIFY_FAIL -> "verify_fail"
               [] o.kind = "error" /\ o.exit # VERIFY_FAIL -> "transport"
               [] o.kind = "report" /\ ~o.clean            -> "verify_fail"
               [] o.kind = "report" /\ o.clean /\ o.drift  -> "drift"
               [] o.kind = "report" /\ o.clean /\ ~o.drift -> "clean"
               [] OTHER                                    -> "pending"

AggregateTransportFirst ==
    LET statuses == {Status(results[i]) : i \in Spec1N} IN
    IF "transport" \in statuses THEN TRANSPORT_FAIL
    ELSE IF "verify_fail" \in statuses THEN VERIFY_FAIL
    ELSE IF "drift" \in statuses THEN TAILORING_DRIFT
    ELSE OK

\* FleetReport.aggregate_exit_code
AggregateExitCode ==
    LET statuses == {Status(results[i]) : i \in Spec1N} IN
    IF "verify_fail" \in statuses THEN VERIFY_FAIL
    ELSE IF "transport" \in statuses THEN TRANSPORT_FAIL
    ELSE IF "drift" \in statuses THEN TAILORING_DRIFT
    ELSE OK

Init ==
    /\ main = "parse"
    /\ lineOk \in [Spec1N -> BOOLEAN]
    /\ cfgOk \in [Spec1N -> BOOLEAN]
    /\ edits = 0
    /\ submitted = 0
    /\ taken = 0
    /\ worker = [w \in Worker |-> 0]
    /\ loaded = [w \in Worker |-> FALSE]
    /\ results = [i \in Spec1N |-> NoOutcome]
    /\ next = 1
    /\ records = <<>>
    /\ code = NoCode

Exit(c) == /\ main' = "exit"
           /\ code' = c

-----------------------------------------------------------------------------
(***************************************************************************)
(* Before the pool.  parse_hosts_file reports every bad entry at once, and *)
(* refuses a file without entries; then ssh must exist and --ask-sudo-pass *)
(* must yield a password.                                                  *)
(***************************************************************************)
HostsFileOk == N > 0 /\ \A i \in Spec1N : lineOk[i] /\ cfgOk[i]

ParseHostsFile ==
    /\ main = "parse"
    /\ \/ HostsFileOk /\ main' = "tools" /\ UNCHANGED code
       \/ ~HostsFileOk /\ Exit(USAGE)
    /\ UNCHANGED <<lineOk, cfgOk, edits, submitted, taken, worker, loaded,
                   results, next, records>>

CheckTools ==
    /\ main = "tools"
    /\ \/ main' = "auth" /\ UNCHANGED code
       \/ Exit(TOOL_MISSING)
    /\ UNCHANGED <<lineOk, cfgOk, edits, submitted, taken, worker, loaded,
                   results, next, records>>

ResolveSudoAuth ==
    /\ main = "auth"
    /\ \/ main' = "submit" /\ UNCHANGED code
       \/ Exit(USAGE)
    /\ UNCHANGED <<lineOk, cfgOk, edits, submitted, taken, worker, loaded,
                   results, next, records>>

-----------------------------------------------------------------------------
(***************************************************************************)
(* run_fleet and its workers                                               *)
(***************************************************************************)
SubmitOneTooMany ==
    /\ main = "submit"
    /\ submitted' = submitted + 1
    /\ main' = IF submitted' > N THEN "join" ELSE "submit"
    /\ UNCHANGED <<lineOk, cfgOk, edits, taken, worker, loaded, results, next,
                   records, code>>

Submit ==
    /\ main = "submit"
    /\ submitted' = submitted + 1
    /\ main' = IF submitted' = N THEN "join" ELSE "submit"
    /\ UNCHANGED <<lineOk, cfgOk, edits, taken, worker, loaded, results, next,
                   records, code>>

\* A mutant of Take: leaving the `with' block cancels what is still queued
TakeUntilJoin(w) ==
    /\ main = "submit"
    /\ worker[w] = 0
    /\ taken < submitted
    /\ taken' = taken + 1
    /\ worker' = [worker EXCEPT ![w] = taken + 1]
    /\ UNCHANGED <<main, lineOk, cfgOk, edits, submitted, loaded, results, next,
                   records, code>>

Take(w) ==
    /\ worker[w] = 0
    /\ taken < submitted
    /\ taken' = taken + 1
    /\ worker' = [worker EXCEPT ![w] = taken + 1]
    /\ UNCHANGED <<main, lineOk, cfgOk, edits, submitted, loaded, results, next,
                   records, code>>

\* A worker stores the outcome of its task and is free again.
Store(w, o) ==
    /\ results' = [results EXCEPT ![worker[w]] = o]
    /\ worker' = [worker EXCEPT ![w] = 0]
    /\ loaded' = [loaded EXCEPT ![w] = FALSE]

\* verify_one loads the host.yaml again: it may have been edited since it was
\* checked.
LoadConfig(w) ==
    /\ worker[w] # 0
    /\ ~loaded[w]
    /\ \/ /\ cfgOk[worker[w]]
          /\ loaded' = [loaded EXCEPT ![w] = TRUE]
          /\ UNCHANGED <<worker, results>>
       \/ /\ ~cfgOk[worker[w]]
          /\ \E e \in {USAGE, CONFIG_INVALID, RULE_CONFLICT} : Store(w, ErrorWith(e))
    /\ UNCHANGED <<main, lineOk, cfgOk, edits, submitted, taken, next, records, code>>

\* run_verify returned, or raised a VerifyError or ConfigError
Verify(w) ==
    /\ worker[w] # 0
    /\ loaded[w]
    /\ \E o \in Outcome : o.exit \notin {CONFIG_INVALID, RULE_CONFLICT} /\ Store(w, o)
    /\ UNCHANGED <<main, lineOk, cfgOk, edits, submitted, taken, next, records, code>>

GuardedLosesHost(w) ==
    /\ worker[w] # 0
    /\ worker' = [worker EXCEPT ![w] = 0]
    /\ loaded' = [loaded EXCEPT ![w] = FALSE]
    /\ UNCHANGED <<main, lineOk, cfgOk, edits, submitted, taken, results, next,
                   records, code>>

\* anything else verify_one raises is caught by _guarded
Guarded(w) ==
    /\ worker[w] # 0
    /\ Store(w, ErrorWith(TRANSPORT_FAIL))
    /\ UNCHANGED <<main, lineOk, cfgOk, edits, submitted, taken, next, records, code>>

\* leaving the `with' block waits for the pool; an index without an outcome would
\* be a KeyError (exit 1)
Join ==
    /\ main = "join"
    /\ taken = N
    /\ \A w \in Worker : worker[w] = 0
    /\ IF \A i \in Spec1N : results[i] # NoOutcome
       THEN main' = "emit" /\ UNCHANGED code
       ELSE Exit(1)
    /\ UNCHANGED <<lineOk, cfgOk, edits, submitted, taken, worker, loaded,
                   results, next, records>>

-----------------------------------------------------------------------------
(***************************************************************************)
(* Rendering, recording, exit                                              *)
(***************************************************************************)
Emit ==
    /\ main = "emit"
    /\ \/ main' = "record" /\ UNCHANGED code
       \/ HtmlOut /\ Exit(USAGE)
    /\ UNCHANGED <<lineOk, cfgOk, edits, submitted, taken, worker, loaded,
                   results, next, records>>

RecordEveryHost ==
    /\ main = "record"
    /\ Record
    /\ next <= N
    /\ next' = next + 1
    /\ records' = Append(records, next)
    /\ UNCHANGED <<main, lineOk, cfgOk, edits, submitted, taken, worker, loaded,
                   results, code>>

\* One history line per host that has a report; a write that fails only warns.
RecordRun ==
    /\ main = "record"
    /\ Record
    /\ next <= N
    /\ next' = next + 1
    /\ \/ results[next].kind = "report" /\ records' = Append(records, next)
       \/ UNCHANGED records
    /\ UNCHANGED <<main, lineOk, cfgOk, edits, submitted, taken, worker, loaded,
                   results, code>>

Finish ==
    /\ main = "record"
    /\ Record => next > N
    /\ Exit(AggregateExitCode)
    /\ UNCHANGED <<lineOk, cfgOk, edits, submitted, taken, worker, loaded,
                   results, next, records>>

\* somebody edits a host.yaml
EditConfig(i) ==
    /\ edits < MaxEdits
    /\ edits' = edits + 1
    /\ cfgOk' = [cfgOk EXCEPT ![i] = ~cfgOk[i]]
    /\ UNCHANGED <<main, lineOk, submitted, taken, worker, loaded, results, next,
                   records, code>>

-----------------------------------------------------------------------------
MainStep == ParseHostsFile \/ CheckTools \/ ResolveSudoAuth \/ Submit \/ Join
            \/ Emit \/ RecordRun \/ Finish

WorkerStep(w) == Take(w) \/ LoadConfig(w) \/ Verify(w) \/ Guarded(w)

Next == \/ MainStep
        \/ \E w \in Worker : WorkerStep(w)
        \/ \E i \in Spec1N : EditConfig(i)

\* The main thread runs, and so does every worker thread; run_verify returns.
Fairness == WF_vars(MainStep) /\ \A w \in Worker : WF_vars(WorkerStep(w))

Safety == Init /\ [][Next]_vars
Spec   == Safety /\ Fairness

-----------------------------------------------------------------------------
(***************************************************************************)
(* Properties                                                              *)
(***************************************************************************)
\* Every variable stays in its type: the counters within the hosts file, each
\* worker on one of its entries, each result a HostOutcome.
TypeOK ==
    /\ main \in {"parse", "tools", "auth", "submit", "join", "emit", "record", "exit"}
    /\ lineOk \in [Spec1N -> BOOLEAN]
    /\ cfgOk \in [Spec1N -> BOOLEAN]
    /\ edits \in 0 .. MaxEdits
    /\ submitted \in 0 .. N
    /\ taken \in 0 .. submitted
    /\ worker \in [Worker -> 0 .. N]
    /\ loaded \in [Worker -> BOOLEAN]
    /\ results \in [Spec1N -> Outcome \cup {NoOutcome}]
    /\ next \in 1 .. N + 1
    /\ records \in Seq(Spec1N)
    /\ code \in {NoCode, OK, USAGE, TOOL_MISSING, VERIFY_FAIL, TRANSPORT_FAIL,
                 TAILORING_DRIFT}

\* run_fleet loses no host and verifies none twice: a submitted task is waiting,
\* on exactly one worker, or has an outcome ("one dead host never aborts the
\* fleet"), so results[i] exists for every i when the pool has been joined.
NoHostLost ==
    /\ \A i \in 1 .. taken :
           (results[i] = NoOutcome) <=> \E w \in Worker : worker[w] = i
    /\ \A i \in taken + 1 .. N : results[i] = NoOutcome
    /\ \A v, w \in Worker : v # w /\ worker[v] # 0 => worker[v] # worker[w]
    /\ main \in {"emit", "record"} => \A i \in Spec1N : results[i] # NoOutcome

\* The history lines of one fleet run: in hosts-file order, at most one per entry,
\* only for hosts with a report.
RecordsInOrder ==
    /\ \A k \in 1 .. Len(records) :
           /\ results[records[k]].kind = "report"
           /\ records[k] < next
    /\ \A j, k \in 1 .. Len(records) : j < k => records[j] < records[k]

\* The command implements FleetSpec.
Abstract == INSTANCE FleetSpec WITH
                status <- [i \in Spec1N |-> Status(results[i])], code <- code

\* Judged once, independently and finally; exit code of all hosts (run_fleet,
\* aggregate_exit_code, _run_fleet_cmd).
ImplementsFleetSpec == Abstract!Spec

\* A fleet run comes to an end, however many of its hosts raise.
FleetEnds == <>(main = "exit")
==============================================================================
