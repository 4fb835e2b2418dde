------------------------------ MODULE VerifyRun ------------------------------
(***************************************************************************)
(* `ks-gen verify' of one host: run_verify, the two remote collectors and  *)
(* the transports under them, for any number of runs over any hosts.       *)
(*                                                                         *)
(* Each run is a thread of the workstation (or, with --local, of the host  *)
(* itself) that issues one blocking remote call after the other; oscap is  *)
(* a process on the host that outlives a cut ssh connection.  All runs on  *)
(* a host share one scratch file, REMOTE_CURRENT_ARF.                      *)
(*                                                                         *)
(*   verify/__init__.py, verify/remote.py, verify/ssh.py,                  *)
(*   verify/transport.py, verify/baseline.py, verify/errors.py             *)
(***************************************************************************)
EXTENDS Reconcile

CONSTANTS
    Run,           \* verify runs
    Host,          \* hosts
    HostOf,        \* HostOf[r]: the host run r verifies
    Options,       \* the command lines a run may be given
    Expected,      \* expected_failure_rule_ids(cfg)
    Results,       \* the XCCDF results that oscap may find for a rule
    InstallScan,   \* contents of REMOTE_INSTALL_ARF, where present
    BaselineScan,  \* contents of the --baseline file, where good
    ScanEnd,       \* how an oscap process that is left alone may end
    Stallable,     \* steps whose remote call may never answer
    MaxChanges,    \* bound on the changes of the hosts' configuration
    NoArf          \* no file

Mode     == {"ssh", "local"}
Option   == [mode : Mode, noDrift : BOOLEAN, check : BOOLEAN,
             baseline : {"no", "good", "missing", "empty", "malformed", "undecodable"},
             capture : {"no", "ok", "nodir"}]

\* What oscap finds: a result for each rule of the datastream.
Scan     == [Rule -> Results]
\* "malformed" may be an ARF cut short, in the middle of a character even.
FileKind == {"good", "empty", "malformed"}
Arf      == [by : Run, kind : FileKind, scan : Scan]

ASSUME RunAssumption ==
    /\ HostOf \in [Run -> Host]
    /\ Options \subseteq Option
    /\ ScanEnd \subseteq FileKind \cup {"absent", "failed"}
    /\ MaxChanges \in Nat
    /\ Rule # {}
    /\ Results \subseteq ResultState
    /\ NoArf \notin Arf

VARIABLES
    pc,        \* the step of each run
    opt,       \* its command line
    err,       \* the exception it raised, "none" so far
    drift,     \* tailoring drift: "unchecked", "match" or "drift"
    got,       \* current.arf.xml in the run's workdir
    inst,      \* install.arf.xml in the run's workdir: its kind, or "none"
    captured,  \* the --capture-baseline file
    stalled,   \* the run's pending remote call will never answer
    oscap,     \* the run's scan on the host; "late": wrote after it was given up
    snap,      \* what that scan found, once it has evaluated the rules
    arf,       \* REMOTE_CURRENT_ARF on each host
    hostRules, \* the true state of each host
    changes,   \* how often a host has changed
    \* observations
    seen,      \* the states the host has been in since the run started
    met,       \* the runs whose thread or scan was active on the host meanwhile
    rmFailed   \* the run's `rm -f' of the scratch file failed

runVars  == <<pc, opt, err, drift, got, inst, captured, stalled>>
hostVars == <<oscap, snap, arf, hostRules, changes>>
obsVars  == <<seen, met, rmFailed>>
vars     == <<runVars, hostVars, obsVars>>

(***************************************************************************)
(* collect_deployed_tailoring: tpreflight, ttest, tread.  collect_arfs:    *)
(* preflight, test, ssg, then the try block, then its finally (cleanup).   *)
(***************************************************************************)
InTry == {"launch", "scan", "fetch", "itest", "iread"}
Step  == {"idle", "tpreflight", "ttest", "tread", "preflight", "test", "ssg",
          "cleanup", "build", "done"} \cup InTry

Errors == {"usage", "sudo", "oscap", "arfmissing", "arfparse", "sshconnect",
           "toolmissing", "tailoringparse", "oserror", "decodeerror"}

\* exit_code of each exception class; an OSError or a UnicodeDecodeError is
\* caught by nobody, and Python's own exit code is 1
ErrorExit(e) == CASE e = "usage"          -> USAGE
                  [] e \in {"oserror", "decodeerror"} -> 1
                  [] e = "toolmissing"    -> TOOL_MISSING
                  [] e = "tailoringparse" -> VERIFY_FAIL
                  [] OTHER                -> TRANSPORT_FAIL

Active(r) == pc[r] \notin {"idle", "done"}
Alive(r)  == oscap[r] \in {"running", "orphan"}
Awake(r)  == ~stalled[r]

Init ==
    /\ pc = [r \in Run |-> "idle"]
    /\ opt \in [Run -> Options]
    /\ err = [r \in Run |-> "none"]
    /\ drift = [r \in Run |-> "unchecked"]
    /\ got = [r \in Run |-> NoArf]
    /\ inst = [r \in Run |-> "none"]
    /\ captured = [r \in Run |-> NoArf]
    /\ stalled = [r \in Run |-> FALSE]
    /\ oscap = [r \in Run |-> "idle"]
    /\ snap = [r \in Run |-> NoScan]
    /\ arf = [h \in Host |-> NoArf]
    /\ hostRules \in [Host -> Scan]
    /\ changes = 0
    /\ seen = [r \in Run |-> {}]
    /\ met = [r \in Run |-> {}]
    /\ rmFailed = [r \in Run |-> FALSE]

-----------------------------------------------------------------------------
(***************************************************************************)
(* Control flow of a run                                                   *)
(***************************************************************************)
Goto(r, step) == /\ pc' = [pc EXCEPT ![r] = step]
                 /\ UNCHANGED err

RaiseWithoutFinally(r, e) == /\ err' = [err EXCEPT ![r] = e]
                             /\ pc' = [pc EXCEPT ![r] = "done"]

\* An exception inside collect_arfs' try block first runs the finally clause.
Raise(r, e) == /\ err' = [err EXCEPT ![r] = e]
               /\ pc' = [pc EXCEPT ![r] =
                            IF pc[r] \in InTry THEN "cleanup" ELSE "done"]

\* ssh_exec / LocalTransport.run: the call fails before the command has run.  Of
\* the OSErrors of starting a process only FileNotFoundError is translated.
CallErrors(r) == IF opt[r].mode = "ssh" THEN {"sshconnect", "toolmissing", "oserror"}
                                        ELSE {"toolmissing", "oserror"}

\* The same, or its output, captured as text, is not in the locale's encoding.
TextErrors(r) == CallErrors(r) \cup {"decodeerror"}

\* the first call of run_verify: probe_sudo, or the root and oscap checks
PreflightErrors(r) == IF opt[r].mode = "ssh" THEN TextErrors(r) \cup {"sudo"}
                                             ELSE {"usage", "toolmissing"}

\* read_root_file of a file that is not there
AbsentError(r) == IF opt[r].mode = "ssh" THEN "sshconnect" ELSE "arfmissing"

\* read_root_file, `sudo cat' or a local open, and then write_bytes of what it
\* returned into the workdir
PullErrors(r) == IF opt[r].mode = "ssh" THEN CallErrors(r) ELSE {"arfmissing", "oserror"}

UsesBaseline(r) == opt[r].baseline = "good"

\* The checks run_verify makes before it touches the host, in its order.
StartError(o) ==
    CASE o.baseline # "no" /\ o.capture # "no" -> "usage"
      [] o.capture = "nodir"                   -> "usage"
      [] o.baseline = "missing"                -> "usage"
      [] o.baseline = "empty"                  -> "arfmissing"
      [] o.baseline = "malformed"              -> "arfparse"
      [] o.baseline = "undecodable"            -> "decodeerror"
      [] OTHER                                 -> "none"

\* The other runs on the host that are at work, or whose scan still is
Company(r) == {q \in Run \ {r} : HostOf[q] = HostOf[r] /\ (Active(q) \/ Alive(q))}

Start(r) ==
    /\ pc[r] = "idle"
    /\ seen' = [seen EXCEPT ![r] = {hostRules[HostOf[r]]}]
    /\ met' = [q \in Run |-> IF q = r THEN Company(r)
                             ELSE IF q \in Company(r) /\ Active(q) THEN met[q] \cup {r}
                             ELSE met[q]]
    /\ \/ /\ StartError(opt[r]) # "none"
          /\ Raise(r, StartError(opt[r]))
       \/ /\ StartError(opt[r]) = "none"
          /\ Goto(r, IF opt[r].check THEN "tpreflight" ELSE "preflight")
    /\ UNCHANGED <<opt, drift, got, inst, captured, stalled, hostVars, rmFailed>>

(***************************************************************************)
(* transport.preflight() and `test -r REMOTE_TAILORING', which both        *)
(* collectors begin with.                                                  *)
(***************************************************************************)
Preflight(r) ==
    /\ pc[r] \in {"tpreflight", "preflight"}
    /\ Awake(r)
    /\ \/ Goto(r, IF pc[r] = "tpreflight" THEN "ttest" ELSE "test")
       \/ \E e \in PreflightErrors(r) : Raise(r, e)
    /\ UNCHANGED <<opt, drift, got, inst, captured, stalled, hostVars, obsVars>>

TestTailoring(r) ==
    /\ pc[r] \in {"ttest", "test"}
    /\ Awake(r)
    /\ \/ Goto(r, IF pc[r] = "ttest" THEN "tread" ELSE "ssg")
       \/ \E e \in TextErrors(r) \cup {"oscap"} : Raise(r, e)
    /\ UNCHANGED <<opt, drift, got, inst, captured, stalled, hostVars, obsVars>>

\* read, decode, parse and compare the deployed tailoring
ReadTailoring(r) ==
    /\ pc[r] = "tread"
    /\ Awake(r)
    /\ \/ /\ \E d \in {"match", "drift"} : drift' = [drift EXCEPT ![r] = d]
          /\ Goto(r, "preflight")
       \/ /\ \E e \in PullErrors(r) \cup {"arfmissing", "decodeerror", "tailoringparse"} :
                Raise(r, e)
          /\ UNCHANGED drift
    /\ UNCHANGED <<opt, got, inst, captured, stalled, hostVars, obsVars>>

\* collect_ssg_version swallows every VerifyError and OSError of its query, but
\* not an answer that cannot be decoded.
SsgVersion(r) ==
    /\ pc[r] = "ssg"
    /\ Awake(r)
    /\ Goto(r, "launch") \/ Raise(r, "decodeerror")
    /\ UNCHANGED <<opt, drift, got, inst, captured, stalled, hostVars, obsVars>>

Launch(r) ==
    /\ pc[r] = "launch"
    /\ \/ /\ Goto(r, "scan")
          /\ oscap' = [oscap EXCEPT ![r] = "running"]
       \/ /\ \E e \in CallErrors(r) : Raise(r, e)
          /\ UNCHANGED oscap
    /\ UNCHANGED <<opt, drift, got, inst, captured, stalled, snap, arf,
                   hostRules, changes, obsVars>>

-----------------------------------------------------------------------------
(***************************************************************************)
(* oscap on the host (external)                                            *)
(***************************************************************************)
ScanArf(r, kind) == [by |-> r, kind |-> kind, scan |-> snap[r]]

Evaluate(r) ==
    /\ Alive(r)
    /\ snap[r] = NoScan
    /\ snap' = [snap EXCEPT ![r] = hostRules[HostOf[r]]]
    /\ UNCHANGED <<runVars, oscap, arf, hostRules, changes, obsVars>>

\* Exit codes 0 and 2 are a finished scan; "failed" is any other.
ScanOk(k) == k # "failed"

\* oscap exits while its run still waits for it; "absent" is a success that left
\* no file.  What oscap printed may be undecodable.
OscapExit(r) ==
    /\ pc[r] = "scan"
    /\ Awake(r)
    /\ oscap[r] = "running"
    /\ snap[r] # NoScan
    /\ oscap' = [oscap EXCEPT ![r] = "exited"]
    /\ \E k \in ScanEnd :
          /\ arf' = IF k \in FileKind
                    THEN [arf EXCEPT ![HostOf[r]] = ScanArf(r, k)] ELSE arf
          /\ \/ ScanOk(k) /\ Goto(r, "fetch")
             \/ ~ScanOk(k) /\ Raise(r, "oscap")
             \/ Raise(r, "decodeerror")
    /\ UNCHANGED <<opt, drift, got, inst, captured, stalled, snap, hostRules,
                   changes, obsVars>>

\* A scan whose run has given up on it writes its results, or is killed.
OrphanWrites(r) ==
    /\ oscap[r] = "orphan"
    /\ snap[r] # NoScan
    /\ arf' = [arf EXCEPT ![HostOf[r]] = ScanArf(r, "good")]
    /\ oscap' = [oscap EXCEPT ![r] = "late"]
    /\ UNCHANGED <<runVars, snap, hostRules, changes, obsVars>>

OrphanDies(r) ==
    /\ oscap[r] = "orphan"
    /\ oscap' = [oscap EXCEPT ![r] = "exited"]
    /\ UNCHANGED <<runVars, snap, arf, hostRules, changes, obsVars>>

\* the host drifts, or is repaired
HostChanges(h) ==
    /\ changes < MaxChanges
    /\ changes' = changes + 1
    /\ \E s \in Scan \ {hostRules[h]} :
          /\ hostRules' = [hostRules EXCEPT ![h] = s]
          /\ seen' = [r \in Run |-> IF HostOf[r] = h /\ Active(r)
                                    THEN seen[r] \cup {s} ELSE seen[r]]
    /\ UNCHANGED <<runVars, oscap, snap, arf, met, rmFailed>>

-----------------------------------------------------------------------------
(***************************************************************************)
(* Calls that stall, and the two that have a timeout                       *)
(***************************************************************************)
\* The steps in which the run waits for another process; with --local the
\* preflight and the reads need none.
Waiting(r) ==
    \/ pc[r] \in {"ttest", "test", "ssg", "scan", "itest", "cleanup"}
    \/ pc[r] \in {"tpreflight", "tread", "preflight", "fetch", "iread"} /\ opt[r].mode = "ssh"

\* collect_arfs hands its timeout to oscap and to the query of the SSG version.
Capped(r) == pc[r] \in {"ssg", "scan"}

Stall(r) ==
    /\ pc[r] \in Stallable
    /\ Waiting(r)
    /\ Awake(r)
    /\ stalled' = [stalled EXCEPT ![r] = TRUE]
    /\ UNCHANGED <<pc, opt, err, drift, got, inst, captured, hostVars, obsVars>>

NoSsgTimeout(r) == FALSE

\* collect_ssg_version swallows its timeout
SsgTimeout(r) ==
    /\ pc[r] = "ssg"
    /\ stalled[r]
    /\ Goto(r, "launch")
    /\ stalled' = [stalled EXCEPT ![r] = FALSE]
    /\ UNCHANGED <<opt, drift, got, inst, captured, hostVars, obsVars>>

\* The oscap call times out, or ssh loses the connection (exit 255).  Over ssh
\* the scan is left running on the host; a local child is killed.
ScanCut(r) ==
    /\ pc[r] = "scan"
    /\ Raise(r, IF opt[r].mode = "ssh" THEN "sshconnect" ELSE "oscap")
    /\ oscap' = [oscap EXCEPT ![r] = IF opt[r].mode = "ssh" THEN "orphan" ELSE "exited"]
    /\ stalled' = [stalled EXCEPT ![r] = FALSE]
    /\ UNCHANGED <<opt, drift, got, inst, captured, snap, arf, hostRules,
                   changes, obsVars>>

-----------------------------------------------------------------------------
(***************************************************************************)
(* After the scan                                                          *)
(***************************************************************************)
WantsInstall(r) == ~opt[r].noDrift /\ ~UsesBaseline(r)

\* pull the scratch file into the workdir and decode it
Fetch(r) ==
    /\ pc[r] = "fetch"
    /\ Awake(r)
    /\ LET file == arf[HostOf[r]] IN
       \/ /\ file # NoArf
          /\ file.kind # "empty"
          /\ got' = [got EXCEPT ![r] = file]
          /\ Goto(r, IF WantsInstall(r) THEN "itest" ELSE "cleanup")
       \/ /\ file # NoArf
          /\ \/ file.kind = "empty" /\ Raise(r, "arfmissing")
             \/ file.kind = "malformed" /\ Raise(r, "decodeerror")
          /\ UNCHANGED got
       \/ /\ file = NoArf
          /\ Raise(r, AbsentError(r))
          /\ UNCHANGED got
       \/ /\ \E e \in PullErrors(r) \ {"arfmissing"} : Raise(r, e)
          /\ UNCHANGED got
    /\ UNCHANGED <<opt, drift, inst, captured, stalled, hostVars, obsVars>>

TestInstall(r) ==
    /\ pc[r] = "itest"
    /\ Awake(r)
    /\ \/ Goto(r, "iread")
       \/ Goto(r, "cleanup")
       \/ \E e \in TextErrors(r) : Raise(r, e)
    /\ UNCHANGED <<opt, drift, got, inst, captured, stalled, hostVars, obsVars>>

\* an empty install-time ARF counts as none
InstallKindUnchecked == {"none", "good", "malformed", "empty"}
InstallKind          == {"none", "good", "malformed"}

ReadInstall(r) ==
    /\ pc[r] = "iread"
    /\ Awake(r)
    /\ \/ /\ \E k \in InstallKind : inst' = [inst EXCEPT ![r] = k]
          /\ Goto(r, "cleanup")
       \/ /\ \E e \in PullErrors(r) \cup {"decodeerror"} : Raise(r, e)
          /\ UNCHANGED inst
    /\ UNCHANGED <<opt, drift, got, captured, stalled, hostVars, obsVars>>

\* finally: `rm -f', every exception swallowed; then the pending exception goes
\* on, or collect_arfs returns.
AfterCleanup(r) == IF err[r] = "none" THEN "build" ELSE "done"

CleanupAfterSuccess(r) ==
    /\ pc[r] = "cleanup"
    /\ Awake(r)
    /\ arf' = IF err[r] = "none" THEN [arf EXCEPT ![HostOf[r]] = NoArf] ELSE arf
    /\ Goto(r, AfterCleanup(r))
    /\ UNCHANGED <<opt, drift, got, inst, captured, stalled, oscap, snap,
                   hostRules, changes, obsVars>>

Cleanup(r) ==
    /\ pc[r] = "cleanup"
    /\ Awake(r)
    /\ \/ /\ arf' = [arf EXCEPT ![HostOf[r]] = NoArf]
          /\ UNCHANGED rmFailed
       \/ /\ rmFailed' = [rmFailed EXCEPT ![r] = TRUE]
          /\ UNCHANGED arf
    /\ Goto(r, AfterCleanup(r))
    /\ UNCHANGED <<opt, drift, got, inst, captured, stalled, oscap, snap,
                   hostRules, changes, seen, met>>

\* parse the ARFs, build the report, write the capture
Build(r) ==
    /\ pc[r] = "build"
    /\ \/ /\ got[r].kind = "malformed" \/ inst[r] = "malformed"
          /\ Raise(r, "arfparse")
          /\ UNCHANGED captured
       \/ /\ got[r].kind # "malformed" /\ inst[r] # "malformed"
          /\ opt[r].capture = "no"
          /\ Goto(r, "done")
          /\ UNCHANGED captured
       \/ /\ got[r].kind # "malformed" /\ inst[r] # "malformed"
          /\ opt[r].capture = "ok"
          /\ \/ Goto(r, "done") /\ captured' = [captured EXCEPT ![r] = got[r]]
             \/ Raise(r, "oserror") /\ UNCHANGED captured
    /\ UNCHANGED <<opt, drift, got, inst, stalled, hostVars, obsVars>>

-----------------------------------------------------------------------------
(***************************************************************************)
(* What the caller of run_verify sees                                      *)
(***************************************************************************)
Reported(r) == pc[r] = "done" /\ err[r] = "none"

InstallSlot(r) == CASE UsesBaseline(r)   -> BaselineScan
                    [] inst[r] = "good"  -> InstallScan
                    [] OTHER             -> NoScan

Rows(r) == BuildReport(got[r].scan, InstallSlot(r), Expected)

ExitOf(r) == IF err[r] # "none" THEN ErrorExit(err[r])
             ELSE ReportExit(IsClean(Rows(r)), drift[r] = "drift")

-----------------------------------------------------------------------------
\* Everything the run's own thread does when its call answers or times out
RunStep(r) ==
    \/ Start(r) \/ Preflight(r) \/ TestTailoring(r) \/ ReadTailoring(r)
    \/ SsgVersion(r) \/ Launch(r) \/ OscapExit(r) \/ SsgTimeout(r) \/ ScanCut(r)
    \/ Fetch(r) \/ TestInstall(r) \/ ReadInstall(r) \/ Cleanup(r) \/ Build(r)

ScanStep(r) == Evaluate(r) \/ OrphanWrites(r) \/ OrphanDies(r)

Next ==
    \/ \E r \in Run : RunStep(r) \/ ScanStep(r) \/ Stall(r)
    \/ \E h \in Host : HostChanges(h)

\* A thread is scheduled, a call that does not stall answers, a timeout fires
\* and an orphaned scan ends.  A stall, and a change of the host, need not happen.
Fairness == \A r \in Run : WF_vars(RunStep(r)) /\ WF_vars(ScanStep(r))

Safety == Init /\ [][Next]_vars
Spec   == Safety /\ Fairness

-----------------------------------------------------------------------------
(***************************************************************************)
(* Properties                                                              *)
(***************************************************************************)
\* Every variable stays in its type; in particular run_verify and its collectors
\* only ever end with an exception of verify/errors.py, a ConfigError, or one of
\* the two that nobody catches, OSError and UnicodeDecodeError.
TypeOK ==
    /\ pc \in [Run -> Step]
    /\ opt \in [Run -> Options]
    /\ err \in [Run -> Errors \cup {"none"}]
    /\ drift \in [Run -> {"unchecked", "match", "drift"}]
    /\ got \in [Run -> Arf \cup {NoArf}]
    /\ inst \in [Run -> {"none", "good", "malformed"}]
    /\ captured \in [Run -> Arf \cup {NoArf}]
    /\ stalled \in [Run -> BOOLEAN]
    /\ oscap \in [Run -> {"idle", "running", "orphan", "exited", "late"}]
    /\ snap \in [Run -> Scan \cup {NoScan}]
    /\ arf \in [Host -> Arf \cup {NoArf}]
    /\ hostRules \in [Host -> Scan]
    /\ changes \in 0 .. MaxChanges
    /\ seen \in [Run -> SUBSET Scan]
    /\ met \in [Run -> SUBSET Run]
    /\ rmFailed \in [Run -> BOOLEAN]

\* Where an ARF that run r has pulled may come from.  Its own: then it shows the
\* host as it was at some moment of this run.  Another run's: then that run was at
\* work on the host, or its scan was, in r's time, or the removal of its file had
\* failed, or its scan outlived it and wrote late.
Origin(r, file) ==
    LET q == file.by IN
    IF q = r THEN file.scan \in seen[r]
             ELSE /\ HostOf[q] = HostOf[r]
                  /\ q \in met[r] \/ rmFailed[q] \/ oscap[q] = "late"

\* "pulls [...] the fresh ARF" (run_verify), from a path that every run shares
\* (remote.py): the scan a report is built from, and the one --capture-baseline
\* keeps, is fresh, unless another run of the host overlapped with this one or
\* lost control of its own file.  Nothing else can make a report stale, a scan
\* that left no file or a verify that failed half-way before it included.
ReportIsFresh ==
    \A r \in Run :
        /\ Reported(r) => got[r] # NoArf /\ Origin(r, got[r])
        /\ captured[r] # NoArf => Origin(r, captured[r])

\* What exit code 0 of a run vouches for: no rule that host.yaml does not waive
\* was found failing by the scan it read, which, if the scan is its own, describes
\* the host at some moment of the run; and a tailoring check that was asked for
\* was made and found no drift.  It does not say that the rules passed: one whose
\* check ended in error, was not made or is unknown exits 0 as well (is_clean).
ExitZeroMeansCompliant ==
    \A r \in Run :
        pc[r] = "done" /\ ExitOf(r) = OK
        => /\ drift[r] = IF opt[r].check THEN "match" ELSE "unchecked"
           /\ \A x \in Rule : got[r].scan[x] = "fail" => x \in Expected
           /\ got[r].by = r => got[r].scan \in seen[r]

\* collect_arfs' finally clause: a verify that ends, on whichever path, leaves
\* nothing of its scan in the scratch file, unless the `rm -f' itself failed or
\* the run had given up on a scan that was still going.
NoResidue ==
    \A r \in Run :
        /\ pc[r] = "done"
        /\ oscap[r] = "exited"
        /\ ~rmFailed[r]
        => arf[HostOf[r]] = NoArf \/ arf[HostOf[r]].by # r

\* A verify that got as far as starting oscap never ends without having tried to
\* remove the scratch file, and then leaves nothing in it; and a cleanup that fails
\* "never mask[s] the primary error" (collect_arfs): the exception and the exit
\* code stay what they were.
CleanupKeepsOutcome ==
    [][/\ NoResidue'
       /\ \A r \in Run :
            /\ pc[r] \in InTry => pc'[r] # "done"
            /\ err[r] # "none" => err'[r] = err[r]
            /\ pc[r] = "cleanup" => err'[r] = err[r]]_vars

\* A run comes to an end, whatever its calls do, unless one of them stalls that
\* has no timeout: "The ssh transport calls themselves are uncapped" (run_verify).
\* A query or a scan that stalls never holds it up for ever.
OnlyUncappedHangs ==
    \A r \in Run : <>(pc[r] = "done" \/ (stalled[r] /\ ~Capped(r)))
==============================================================================
