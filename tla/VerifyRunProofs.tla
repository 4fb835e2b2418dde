--------------------------- MODULE VerifyRunProofs ---------------------------
(***************************************************************************)
(* Theorems about VerifyRun, for any set of runs, hosts, rules and command *)
(* lines, however the runs overlap: where the scan of a report comes from, *)
(* what exit code 0 vouches for, and what the finally clause leaves behind.*)
(***************************************************************************)
EXTENDS VerifyRun, TLAPS

(***************************************************************************)
(* The inductive invariant, in parts.                                      *)
(***************************************************************************)
BeforeScan == {"idle", "tpreflight", "ttest", "tread", "preflight", "test",
               "ssg", "launch"}

\* A run that has not launched its scan has none, and has pulled nothing.
NotScannedYet ==
    \A r \in Run :
        /\ pc[r] \in BeforeScan => oscap[r] = "idle" /\ snap[r] = NoScan
        /\ pc[r] = "idle" => got[r] = NoArf /\ captured[r] = NoArf

\* A run that is active knows of every other one that is at work on its host.
MetAll == \A r \in Run : Active(r) => Company(r) \subseteq met[r]

\* What the host is now, and what the run's own scan found, was seen by the run.
SnapSeen ==
    \A r \in Run :
        /\ Active(r) => hostRules[HostOf[r]] \in seen[r]
        /\ pc[r] \in {"scan", "fetch"} /\ snap[r] # NoScan => snap[r] \in seen[r]

\* The scratch file holds what its writer's scan found, and its writer is still on
\* its way to the cleanup, unless its `rm -f' failed or its scan was late.
FileOrigin ==
    \A h \in Host :
        arf[h] # NoArf =>
            LET q == arf[h].by IN
            /\ HostOf[q] = h
            /\ arf[h].scan = snap[q]
            /\ snap[q] # NoScan
            /\ \/ rmFailed[q]
               \/ oscap[q] = "late"
               \/ oscap[q] = "exited" /\ pc[q] \in {"fetch", "itest", "iread", "cleanup"}

GotOrigin ==
    \A r \in Run :
        /\ got[r] # NoArf => Origin(r, got[r])
        /\ captured[r] # NoArf => Origin(r, captured[r])

\* A run that has not raised an exception after the scan holds its ARF.
HasArf ==
    \A r \in Run :
        /\ pc[r] \in {"itest", "iread", "build"} => got[r] # NoArf
        /\ pc[r] \in {"cleanup", "done"} /\ err[r] = "none" => got[r] # NoArf

\* A scan runs while its run waits for it; it is given up only by a run that will
\* not read the scratch file again.
ScanPhase ==
    \A r \in Run :
        /\ oscap[r] = "running" <=> pc[r] = "scan"
        /\ oscap[r] \in {"orphan", "late"} => pc[r] \in {"cleanup", "build", "done"}

FreshInv == TypeOK /\ NotScannedYet /\ MetAll /\ SnapSeen /\ FileOrigin /\ GotOrigin
            /\ HasArf /\ ScanPhase

-----------------------------------------------------------------------------
USE DEF obsVars

\* The exceptions each call can raise are the ones a run can end with.
LEMMA StringFacts ==
    /\ "none" \notin Errors
    /\ \A r \in Run : CallErrors(r) \subseteq Errors
    /\ \A r \in Run : PreflightErrors(r) \subseteq Errors
    /\ \A r \in Run : TextErrors(r) \subseteq Errors
    /\ \A r \in Run : PullErrors(r) \subseteq Errors
    /\ \A r \in Run : AbsentError(r) \in Errors
    /\ \A o \in Option : StartError(o) \in Errors \cup {"none"}
BY DEF Errors, CallErrors, TextErrors, PreflightErrors, PullErrors, AbsentError, StartError

\* Raise and Goto, the two ways a run moves on, keep pc and err in their types.
LEMMA RaiseMoves ==
    ASSUME TypeOK, NEW r \in Run, NEW e \in Errors, Raise(r, e)
    PROVE  /\ pc' \in [Run -> Step]
           /\ err' \in [Run -> Errors \cup {"none"}]
           /\ pc'[r] \in {"cleanup", "done"}
           /\ err'[r] # "none"
           /\ \A q \in Run \ {r} : pc'[q] = pc[q] /\ err'[q] = err[q]
BY StringFacts DEF TypeOK, Raise, Step

\* Goto keeps pc in its type and leaves err alone.
LEMMA GotoMoves ==
    ASSUME TypeOK, NEW r \in Run, NEW s \in Step, Goto(r, s)
    PROVE  /\ pc' \in [Run -> Step]
           /\ err' \in [Run -> Errors \cup {"none"}]
           /\ pc'[r] = s
           /\ err' = err
           /\ \A q \in Run \ {r} : pc'[q] = pc[q]
BY DEF TypeOK, Goto

-----------------------------------------------------------------------------
\* run_verify raises only the exceptions it documents and keeps every file it
\* reads or writes in one of the states the code tells apart.
THEOREM TypeCorrect == Safety => []TypeOK
<1>1. Init => TypeOK
  BY RunAssumption DEF Init, TypeOK, Step
<1>2. TypeOK /\ [Next]_vars => TypeOK'
  <2> SUFFICES ASSUME TypeOK, [Next]_vars PROVE TypeOK'
    OBVIOUS
  <2> USE RunAssumption, StringFacts
  <2>1. ASSUME NEW r \in Run, Start(r) PROVE TypeOK'
    <3>1. opt[r] \in Option /\ StartError(opt[r]) \in Errors \cup {"none"}
      BY DEF TypeOK
    <3>2. pc' \in [Run -> Step] /\ err' \in [Run -> Errors \cup {"none"}]
      BY <2>1, <3>1, RaiseMoves, GotoMoves DEF Start, Step
    <3>3. seen' \in [Run -> SUBSET Scan]
      BY <2>1 DEF Start, TypeOK
    <3>4. met' \in [Run -> SUBSET Run]
      <4>1. Company(r) \subseteq Run
        BY DEF Company
      <4>2. \A q \in Run : met'[q] = IF q = r THEN Company(r)
                                     ELSE IF q \in Company(r) /\ Active(q)
                                          THEN met[q] \cup {r} ELSE met[q]
        BY <2>1 DEF Start
      <4>3. met' = [q \in Run |-> met'[q]]
        BY <2>1 DEF Start
      <4>4. \A q \in Run : met'[q] \subseteq Run
        <5>1. \A q \in Run : met[q] \subseteq Run
          BY DEF TypeOK
        <5> QED BY ONLY <4>1, <4>2, <5>1, r \in Run
      <4> QED BY <4>3, <4>4
    <3> QED BY <2>1, <3>2, <3>3, <3>4 DEF Start, TypeOK, hostVars
  <2>2. ASSUME NEW r \in Run, Preflight(r) PROVE TypeOK'
    <3>1. pc' \in [Run -> Step] /\ err' \in [Run -> Errors \cup {"none"}]
      BY <2>2, RaiseMoves, GotoMoves DEF Preflight, Step
    <3> QED BY <2>2, <3>1 DEF Preflight, TypeOK, hostVars
  <2>3. ASSUME NEW r \in Run, TestTailoring(r) PROVE TypeOK'
    <3>1. TextErrors(r) \cup {"oscap"} \subseteq Errors
      BY DEF Errors
    <3>2. pc' \in [Run -> Step] /\ err' \in [Run -> Errors \cup {"none"}]
      BY <2>3, <3>1, RaiseMoves, GotoMoves DEF TestTailoring, Step
    <3> QED BY <2>3, <3>2 DEF TestTailoring, TypeOK, hostVars
  <2>4. ASSUME NEW r \in Run, ReadTailoring(r) PROVE TypeOK'
    <3>1. PullErrors(r) \cup {"arfmissing", "decodeerror", "tailoringparse"} \subseteq Errors
      BY DEF Errors
    <3>2. pc' \in [Run -> Step] /\ err' \in [Run -> Errors \cup {"none"}]
      BY <2>4, <3>1, RaiseMoves, GotoMoves DEF ReadTailoring, Step
    <3> QED BY <2>4, <3>2 DEF ReadTailoring, TypeOK, hostVars
  <2>5. ASSUME NEW r \in Run, SsgVersion(r) PROVE TypeOK'
    <3>1. pc' \in [Run -> Step] /\ err' \in [Run -> Errors \cup {"none"}]
      BY <2>5, RaiseMoves, GotoMoves DEF SsgVersion, Step, InTry, Errors
    <3> QED BY <2>5, <3>1 DEF SsgVersion, TypeOK, hostVars
  <2>6. ASSUME NEW r \in Run, Launch(r) PROVE TypeOK'
    <3>1. pc' \in [Run -> Step] /\ err' \in [Run -> Errors \cup {"none"}]
      BY <2>6, RaiseMoves, GotoMoves DEF Launch, Step, InTry
    <3> QED BY <2>6, <3>1 DEF Launch, TypeOK
  <2>7. ASSUME NEW r \in Run, OscapExit(r) PROVE TypeOK'
    <3>1. pc' \in [Run -> Step] /\ err' \in [Run -> Errors \cup {"none"}]
      BY <2>7, RaiseMoves, GotoMoves DEF OscapExit, Step, InTry, Errors
    <3>2. arf' \in [Host -> Arf \cup {NoArf}]
      BY <2>7 DEF OscapExit, TypeOK, ScanArf, Arf
    <3> QED BY <2>7, <3>1, <3>2 DEF OscapExit, TypeOK
  <2>8. ASSUME NEW r \in Run, SsgTimeout(r) PROVE TypeOK'
    BY <2>8, GotoMoves DEF SsgTimeout, TypeOK, hostVars, Step, InTry
  <2>9. ASSUME NEW r \in Run, ScanCut(r) PROVE TypeOK'
    <3>1. pc' \in [Run -> Step] /\ err' \in [Run -> Errors \cup {"none"}]
      BY <2>9, RaiseMoves DEF ScanCut, Errors
    <3> QED BY <2>9, <3>1 DEF ScanCut, TypeOK
  <2>10. ASSUME NEW r \in Run, Fetch(r) PROVE TypeOK'
    <3>1. pc' \in [Run -> Step] /\ err' \in [Run -> Errors \cup {"none"}]
      BY <2>10, RaiseMoves, GotoMoves DEF Fetch, Step, InTry, Errors
    <3>2. got' \in [Run -> Arf \cup {NoArf}]
      BY <2>10 DEF Fetch, TypeOK
    <3> QED BY <2>10, <3>1, <3>2 DEF Fetch, TypeOK, hostVars
  <2>11. ASSUME NEW r \in Run, TestInstall(r) PROVE TypeOK'
    <3>1. pc' \in [Run -> Step] /\ err' \in [Run -> Errors \cup {"none"}]
      BY <2>11, RaiseMoves, GotoMoves DEF TestInstall, Step, InTry
    <3> QED BY <2>11, <3>1 DEF TestInstall, TypeOK, hostVars
  <2>12. ASSUME NEW r \in Run, ReadInstall(r) PROVE TypeOK'
    <3>1. pc' \in [Run -> Step] /\ err' \in [Run -> Errors \cup {"none"}]
      BY <2>12, RaiseMoves, GotoMoves DEF ReadInstall, Step, InTry, Errors
    <3> QED BY <2>12, <3>1 DEF ReadInstall, InstallKind, TypeOK, hostVars
  <2>13. ASSUME NEW r \in Run, Cleanup(r) PROVE TypeOK'
    <3>1. pc' \in [Run -> Step] /\ err' \in [Run -> Errors \cup {"none"}]
      BY <2>13, GotoMoves DEF Cleanup, AfterCleanup, Step
    <3>2. /\ arf' \in {arf, [arf EXCEPT ![HostOf[r]] = NoArf]}
          /\ rmFailed' \in {rmFailed, [rmFailed EXCEPT ![r] = TRUE]}
      BY <2>13 DEF Cleanup
    <3>3. arf \in [Host -> Arf \cup {NoArf}] /\ rmFailed \in [Run -> BOOLEAN]
      BY DEF TypeOK
    <3>4. arf' \in [Host -> Arf \cup {NoArf}]
      BY ONLY <3>2, <3>3
    <3>5. rmFailed' \in [Run -> BOOLEAN]
      BY ONLY <3>2, <3>3
    <3> QED BY <2>13, <3>1, <3>4, <3>5 DEF Cleanup, TypeOK
  <2>14. ASSUME NEW r \in Run, Build(r) PROVE TypeOK'
    <3>1. pc' \in [Run -> Step] /\ err' \in [Run -> Errors \cup {"none"}]
      BY <2>14, RaiseMoves, GotoMoves DEF Build, Step, Errors
    <3> QED BY <2>14, <3>1 DEF Build, TypeOK, hostVars
  <2>15. ASSUME NEW r \in Run, ScanStep(r) PROVE TypeOK'
    <3>1. CASE Evaluate(r)
      BY <3>1 DEF Evaluate, TypeOK, runVars
    <3>2. CASE OrphanWrites(r)
      BY <3>2 DEF OrphanWrites, TypeOK, runVars, ScanArf, Arf, FileKind
    <3>3. CASE OrphanDies(r)
      BY <3>3 DEF OrphanDies, TypeOK, runVars
    <3> QED BY <2>15, <3>1, <3>2, <3>3 DEF ScanStep
  <2>16. ASSUME NEW r \in Run, Stall(r) PROVE TypeOK'
    BY <2>16 DEF Stall, TypeOK, hostVars
  <2>17. ASSUME NEW h \in Host, HostChanges(h) PROVE TypeOK'
    BY <2>17 DEF HostChanges, TypeOK, runVars
  <2>18. CASE UNCHANGED vars
    BY <2>18 DEF vars, runVars, hostVars, TypeOK
  <2> QED BY <2>1, <2>2, <2>3, <2>4, <2>5, <2>6, <2>7, <2>8, <2>9, <2>10, <2>11,
             <2>12, <2>13, <2>14, <2>15, <2>16, <2>17, <2>18 DEF Next, RunStep
<1> QED BY <1>1, <1>2, PTL DEF Safety

-----------------------------------------------------------------------------
\* The invariant is established, and every step preserves it.
LEMMA FreshInit == Init => FreshInv
<1> SUFFICES ASSUME Init PROVE FreshInv
  OBVIOUS
<1>1. TypeOK
  BY RunAssumption DEF Init, TypeOK, Step
<1> QED BY <1>1 DEF Init, FreshInv, NotScannedYet, MetAll, SnapSeen, FileOrigin,
                    GotOrigin, HasArf, ScanPhase, Active

\* Where an ARF came from does not change while the run that holds it goes on.
LEMMA OriginStays ==
    ASSUME NEW r \in Run, NEW file, file.by \in Run, Origin(r, file),
           seen[r] \subseteq seen'[r], met[r] \subseteq met'[r],
           \A q \in Run : /\ rmFailed[q] => rmFailed'[q]
                          /\ oscap[q] = "late" => oscap'[q] = "late"
    PROVE  Origin(r, file)'
BY DEF Origin

\* What the runs have pulled keeps its origin while nobody pulls anything.
LEMMA GotStays ==
    ASSUME TypeOK, GotOrigin, got' = got, captured' = captured,
           \A r \in Run : seen[r] \subseteq seen'[r] /\ met[r] \subseteq met'[r],
           \A q \in Run : /\ rmFailed[q] => rmFailed'[q]
                          /\ oscap[q] = "late" => oscap'[q] = "late"
    PROVE  GotOrigin'
<1>1. \A r \in Run : /\ got[r] # NoArf => got[r].by \in Run
                     /\ captured[r] # NoArf => captured[r].by \in Run
  BY DEF TypeOK, Arf
<1> QED BY <1>1, OriginStays DEF GotOrigin

\* Nobody new turns up on a host except by starting.
LEMMA MetStays ==
    ASSUME MetAll, met' = met,
           \A q \in Run : /\ Active(q)' => Active(q)
                          /\ Alive(q)' => Active(q) \/ Alive(q)
    PROVE  MetAll'
BY DEF MetAll, Company

\* A step of a run on its way to oscap, or out with an exception, that does not
\* touch the host.
LEMMA EarlyStep ==
    ASSUME FreshInv, TypeOK', NEW r \in Run,
           pc[r] \in BeforeScan \ {"idle"},
           pc' = [pc EXCEPT ![r] = pc'[r]],
           err' = [err EXCEPT ![r] = err'[r]],
           \/ pc'[r] \in BeforeScan \ {"idle"}
           \/ pc'[r] \in {"cleanup", "done"} /\ err'[r] # "none",
           UNCHANGED <<got, captured, oscap, snap, arf, hostRules, obsVars>>
    PROVE  FreshInv'
<1> USE DEF FreshInv, TypeOK, obsVars
<1>1. NotScannedYet'
  BY DEF NotScannedYet, BeforeScan
<1>2. MetAll'
  BY MetStays DEF Active, Alive, BeforeScan
<1>3. SnapSeen'
  BY DEF SnapSeen, Active, BeforeScan
<1>4. FileOrigin'
  BY RunAssumption DEF FileOrigin, NotScannedYet, BeforeScan, Arf
<1>5. GotOrigin'
  BY GotStays
<1>6. HasArf'
  BY DEF HasArf, BeforeScan
<1>7. ScanPhase'
  BY DEF ScanPhase, NotScannedYet, BeforeScan
<1> QED BY <1>1, <1>2, <1>3, <1>4, <1>5, <1>6, <1>7

\* A step of a run that is past its scan and has not cleaned up yet, and that
\* leaves the host and what the run has pulled alone.
LEMMA LateStep ==
    ASSUME FreshInv, TypeOK', NEW r \in Run,
           pc[r] \in {"fetch", "itest", "iread"},
           pc' = [pc EXCEPT ![r] = pc'[r]],
           err' = [err EXCEPT ![r] = err'[r]],
           \/ pc[r] # "fetch" /\ pc'[r] \in {"iread", "cleanup"} /\ err' = err
           \/ pc'[r] = "cleanup" /\ err'[r] # "none",
           UNCHANGED <<got, captured, oscap, snap, arf, hostRules, obsVars>>
    PROVE  FreshInv'
<1> USE DEF FreshInv, TypeOK, obsVars
<1>1. NotScannedYet'
  BY DEF NotScannedYet, BeforeScan
<1>2. MetAll'
  BY MetStays DEF Active, Alive
<1>3. SnapSeen'
  BY DEF SnapSeen, Active
<1>4. FileOrigin'
  BY RunAssumption DEF FileOrigin, Arf
<1>5. GotOrigin'
  BY GotStays
<1>6. HasArf'
  BY DEF HasArf
<1>7. ScanPhase'
  BY DEF ScanPhase
<1> QED BY <1>1, <1>2, <1>3, <1>4, <1>5, <1>6, <1>7

\* The step of a run whose scan is over, as far as the invariant sees it.
LEMMA ScanOver ==
    ASSUME FreshInv, TypeOK', NEW r \in Run,
           pc[r] = "scan", oscap[r] = "running",
           pc' = [pc EXCEPT ![r] = pc'[r]],
           err' = [err EXCEPT ![r] = err'[r]],
           \/ pc'[r] = "fetch" /\ oscap'[r] = "exited"
           \/ pc'[r] = "cleanup" /\ err'[r] # "none" /\ oscap'[r] \in {"exited", "orphan"},
           oscap' = [oscap EXCEPT ![r] = oscap'[r]],
           \/ arf' = arf
           \/ /\ \E k : arf' = [arf EXCEPT ![HostOf[r]] = ScanArf(r, k)]
              /\ snap[r] # NoScan /\ oscap'[r] = "exited",
           UNCHANGED <<got, captured, snap, hostRules, obsVars>>
    PROVE  FreshInv'
<1> USE DEF FreshInv, TypeOK, obsVars
<1>1. NotScannedYet'
  BY DEF NotScannedYet, BeforeScan
<1>2. MetAll'
  BY MetStays DEF Active, Alive
<1>3. SnapSeen'
  BY DEF SnapSeen, Active
<1>4. FileOrigin'
  <2> SUFFICES ASSUME NEW h \in Host, arf'[h] # NoArf
               PROVE  LET q == arf'[h].by IN
                      /\ HostOf[q] = h
                      /\ arf'[h].scan = snap[q]
                      /\ snap[q] # NoScan
                      /\ \/ rmFailed[q]
                         \/ oscap'[q] = "late"
                         \/ oscap'[q] = "exited" /\ pc'[q] \in {"fetch", "itest", "iread", "cleanup"}
    BY DEF FileOrigin
  <2>1. CASE arf'[h] = arf[h]
    <3>1. arf[h].by \in Run
      BY <2>1 DEF Arf
    <3> QED BY <2>1, <3>1 DEF FileOrigin
  <2>2. CASE arf'[h] # arf[h]
    <3>1. /\ h = HostOf[r] /\ snap[r] # NoScan /\ oscap'[r] = "exited"
          /\ \E k : arf'[h] = ScanArf(r, k)
      BY <2>2, RunAssumption
    <3>2. arf'[h].by = r /\ arf'[h].scan = snap[r]
      BY <3>1 DEF ScanArf
    <3> QED BY <3>1, <3>2
  <2> QED BY <2>1, <2>2
<1>5. GotOrigin'
  BY GotStays
<1>6. HasArf'
  BY DEF HasArf
<1>7. ScanPhase'
  BY DEF ScanPhase
<1> QED BY <1>1, <1>2, <1>3, <1>4, <1>5, <1>6, <1>7

\* Starting: the run has seen nothing but the host as it is, and has met whoever
\* is there; they have met the run.
LEMMA StartStep ==
    ASSUME FreshInv, TypeOK', NEW r \in Run, Start(r) PROVE FreshInv'
<1> USE RunAssumption, StringFacts DEF FreshInv
<1>1. /\ pc[r] = "idle"
      /\ pc' = [pc EXCEPT ![r] = pc'[r]]
      /\ pc'[r] \in {"tpreflight", "preflight", "done"}
      /\ err' = [err EXCEPT ![r] = err'[r]]
      /\ pc'[r] = "done" => err'[r] # "none"
  BY DEF Start, Raise, Goto, TypeOK, InTry
<1>2. /\ UNCHANGED <<got, captured, oscap, snap, arf, hostRules, rmFailed>>
      /\ seen' = [seen EXCEPT ![r] = {hostRules[HostOf[r]]}]
      /\ met' = [q \in Run |-> IF q = r THEN Company(r)
                               ELSE IF q \in Company(r) /\ Active(q) THEN met[q] \cup {r}
                               ELSE met[q]]
  BY DEF Start, hostVars
<1>3. got[r] = NoArf /\ captured[r] = NoArf /\ oscap[r] = "idle" /\ snap[r] = NoScan
  BY <1>1 DEF NotScannedYet, BeforeScan
<1>4. NotScannedYet'
  BY <1>1, <1>2, <1>3 DEF NotScannedYet, TypeOK, BeforeScan
<1>5. MetAll'
  <2> SUFFICES ASSUME NEW q \in Run, Active(q)', NEW p \in Company(q)'
               PROVE  p \in met'[q]
    BY DEF MetAll
  <2>1. p \in Run \ {q} /\ HostOf[p] = HostOf[q] /\ (Active(p)' \/ Alive(p))
    BY <1>2 DEF Company, Alive
  <2>2. CASE q = r
    <3>1. Active(p) \/ Alive(p)
      BY <1>1, <2>1, <2>2 DEF Active, TypeOK
    <3>2. p \in Company(r)
      BY <2>1, <2>2, <3>1 DEF Company
    <3>3. met'[r] = Company(r)
      BY <1>2
    <3> QED BY <2>2, <3>2, <3>3
  <2>3. CASE q # r /\ p = r
    <3>1. Active(q)
      BY <1>1, <2>3 DEF Active, TypeOK
    <3>2. q \in Company(r)
      BY <2>1, <2>3, <3>1 DEF Company
    <3> QED BY <1>2, <2>3, <3>1, <3>2
  <2>4. CASE q # r /\ p # r
    <3>1. Active(q) /\ (Active(p) \/ Alive(p))
      BY <1>1, <2>1, <2>4 DEF Active, TypeOK
    <3>2. p \in met[q]
      BY <2>1, <3>1 DEF MetAll, Company
    <3> QED BY <1>2, <2>4, <3>2
  <2> QED BY <2>2, <2>3, <2>4
<1>6. SnapSeen'
  BY <1>1, <1>2, <1>3 DEF SnapSeen, Active, TypeOK
<1>7. FileOrigin'
  <2>1. \A h \in Host : arf[h] # NoArf => arf[h].by # r /\ arf[h].by \in Run
    BY <1>3 DEF FileOrigin, TypeOK, Arf
  <2> QED BY <1>1, <1>2, <2>1 DEF FileOrigin, TypeOK
<1>8. GotOrigin'
  <2> SUFFICES ASSUME NEW q \in Run, q # r
               PROVE  /\ got[q] # NoArf => Origin(q, got[q])'
                      /\ captured[q] # NoArf => Origin(q, captured[q])'
    BY <1>2, <1>3 DEF GotOrigin
  <2>1. seen[q] = seen'[q] /\ met[q] \subseteq met'[q]
    BY <1>2 DEF TypeOK
  <2>2. /\ got[q] # NoArf => got[q].by \in Run
        /\ captured[q] # NoArf => captured[q].by \in Run
    BY DEF TypeOK, Arf
  <2>3. ASSUME NEW file, file.by \in Run, Origin(q, file) PROVE Origin(q, file)'
    BY <1>2, <2>1, <2>3 DEF Origin
  <2> QED BY <1>2, <2>2, <2>3 DEF GotOrigin
<1>9. HasArf' /\ ScanPhase'
  BY <1>1, <1>2, <1>3 DEF HasArf, ScanPhase, TypeOK
<1> QED BY <1>4, <1>5, <1>6, <1>7, <1>8, <1>9

\* Pulling the scratch file: the writer of the file is the run itself, or a run
\* that it has met, or one that has lost control of its file.
LEMMA FetchStep ==
    ASSUME FreshInv, TypeOK', NEW r \in Run, Fetch(r) PROVE FreshInv'
<1> USE RunAssumption, StringFacts
<1>1. pc[r] = "fetch" /\ HostOf[r] \in Host
  BY DEF Fetch
<1>2. ASSUME NEW s \in {"itest", "cleanup"}, arf[HostOf[r]] # NoArf, Goto(r, s),
             got' = [got EXCEPT ![r] = arf[HostOf[r]]]
      PROVE  FreshInv'
  <2>1. /\ pc' = [pc EXCEPT ![r] = s]
        /\ UNCHANGED <<err, captured, oscap, snap, arf, hostRules, seen, met, rmFailed>>
    BY <1>2 DEF Fetch, Goto, hostVars, obsVars
  <2>2. Origin(r, arf[HostOf[r]])
    <3> DEFINE q == arf[HostOf[r]].by
    <3>1. q \in Run
      BY <1>1, <1>2 DEF FreshInv, TypeOK, Arf
    <3>2. /\ HostOf[q] = HostOf[r] /\ arf[HostOf[r]].scan = snap[q] /\ snap[q] # NoScan
          /\ \/ rmFailed[q]
             \/ oscap[q] = "late"
             \/ oscap[q] = "exited" /\ pc[q] \in {"fetch", "itest", "iread", "cleanup"}
      BY <1>1, <1>2 DEF FreshInv, FileOrigin
    <3>3. CASE q = r
      BY <1>1, <3>2, <3>3 DEF FreshInv, SnapSeen, Origin
    <3>4. CASE q # r
      <4>1. Active(r)
        BY <1>1 DEF Active
      <4>2. pc[q] \in {"fetch", "itest", "iread", "cleanup"} => q \in Company(r)
        BY <3>1, <3>2, <3>4 DEF Company, Active
      <4>3. q \in met[r] \/ rmFailed[q] \/ oscap[q] = "late"
        BY <3>2, <4>1, <4>2 DEF FreshInv, MetAll
      <4> QED BY <3>2, <3>4, <4>3 DEF Origin
    <3> QED BY <3>3, <3>4
  <2>3. got'[r] = arf[HostOf[r]] /\ \A q \in Run \ {r} : got'[q] = got[q]
    BY <1>2 DEF FreshInv, TypeOK
  <2>4. GotOrigin'
    <3>1. ASSUME NEW q \in Run, NEW file, Origin(q, file)
          PROVE  LET p == file.by IN
                 IF p = q THEN file.scan \in seen'[q]
                          ELSE /\ HostOf[p] = HostOf[q]
                               /\ p \in met'[q] \/ rmFailed'[p] \/ oscap'[p] = "late"
      BY <2>1, <3>1 DEF Origin
    <3> QED BY <2>1, <2>2, <2>3, <3>1 DEF FreshInv, GotOrigin, Origin
  <2>5. NotScannedYet' /\ HasArf' /\ ScanPhase'
    BY <1>1, <1>2, <2>1, <2>3 DEF FreshInv, TypeOK, NotScannedYet, BeforeScan, HasArf, ScanPhase
  <2>6. MetAll'
    BY <1>1, <1>2, <2>1, MetStays DEF FreshInv, TypeOK, Active, Alive
  <2>7. SnapSeen'
    BY <1>1, <1>2, <2>1 DEF FreshInv, TypeOK, SnapSeen, Active
  <2>8. FileOrigin'
    BY <1>1, <1>2, <2>1 DEF FreshInv, TypeOK, FileOrigin, Arf
  <2> QED BY <2>4, <2>5, <2>6, <2>7, <2>8 DEF FreshInv
<1>3. ASSUME NEW e \in Errors, Raise(r, e), UNCHANGED got PROVE FreshInv'
  <2>1. /\ pc' = [pc EXCEPT ![r] = pc'[r]] /\ err' = [err EXCEPT ![r] = err'[r]]
        /\ pc'[r] = "cleanup" /\ err'[r] # "none"
    BY <1>1, <1>3 DEF FreshInv, TypeOK, Raise, InTry
  <2> QED BY <1>1, <1>3, <2>1, LateStep DEF Fetch, hostVars
<1>4. {"arfmissing", "decodeerror"} \subseteq Errors
  BY DEF Errors
<1> QED BY <1>2, <1>3, <1>4 DEF Fetch

\* The finally clause removes the file, or fails to.
LEMMA CleanupStep ==
    ASSUME FreshInv, TypeOK', NEW r \in Run, Cleanup(r) PROVE FreshInv'
<1> USE RunAssumption
<1>1. /\ pc[r] = "cleanup" /\ pc' = [pc EXCEPT ![r] = AfterCleanup(r)]
      /\ UNCHANGED <<err, got, captured, oscap, snap, hostRules, seen, met>>
  BY DEF Cleanup, Goto
<1>2. AfterCleanup(r) \in {"build", "done"}
  BY DEF AfterCleanup
<1>3. \/ arf' = [arf EXCEPT ![HostOf[r]] = NoArf] /\ rmFailed' = rmFailed
      \/ arf' = arf /\ rmFailed' = [rmFailed EXCEPT ![r] = TRUE]
  BY DEF Cleanup
<1>4. NotScannedYet' /\ ScanPhase'
  BY <1>1, <1>2 DEF FreshInv, TypeOK, NotScannedYet, BeforeScan, ScanPhase
<1>5. HasArf'
  BY <1>1, <1>2 DEF FreshInv, TypeOK, HasArf, AfterCleanup
<1>6. MetAll'
  BY <1>1, <1>2, MetStays DEF FreshInv, TypeOK, Active, Alive
<1>7. SnapSeen'
  BY <1>1, <1>2 DEF FreshInv, TypeOK, SnapSeen, Active
<1>8. FileOrigin'
  <2> SUFFICES ASSUME NEW h \in Host, arf'[h] # NoArf
               PROVE  LET q == arf[h].by IN
                      /\ arf'[h] = arf[h]
                      /\ \/ rmFailed'[q]
                         \/ oscap[q] = "late"
                         \/ oscap[q] = "exited" /\ pc'[q] \in {"fetch", "itest", "iread", "cleanup"}
    BY <1>1 DEF FreshInv, FileOrigin
  <2>1. arf'[h] = arf[h] /\ (h = HostOf[r] => rmFailed'[r])
    BY <1>3 DEF FreshInv, TypeOK
  <2>2. arf[h].by \in Run /\ HostOf[arf[h].by] = h
    BY <2>1 DEF FreshInv, FileOrigin, TypeOK, Arf
  <2>3. CASE arf[h].by = r
    <3>1. rmFailed'[arf[h].by]
      BY <2>1, <2>2, <2>3
    <3> QED BY <2>1, <2>2, <2>3, <3>1 DEF TypeOK
  <2>4. CASE arf[h].by # r
    <3>1. pc'[arf[h].by] = pc[arf[h].by] /\ rmFailed'[arf[h].by] = rmFailed[arf[h].by]
      BY <1>1, <1>3, <2>2, <2>4 DEF FreshInv, TypeOK
    <3>2. arf[h] # NoArf
      BY <2>1
    <3>3. \/ rmFailed[arf[h].by]
          \/ oscap[arf[h].by] = "late"
          \/ /\ oscap[arf[h].by] = "exited"
             /\ pc[arf[h].by] \in {"fetch", "itest", "iread", "cleanup"}
      BY <3>2 DEF FreshInv, FileOrigin
    <3> QED BY <2>1, <3>1, <3>3
  <2> QED BY <2>3, <2>4
<1>9. GotOrigin'
  <2>1. \A q \in Run : rmFailed[q] => rmFailed'[q]
    BY <1>3 DEF FreshInv, TypeOK
  <2> QED BY <1>1, <2>1, GotStays DEF FreshInv
<1> QED BY <1>4, <1>5, <1>6, <1>7, <1>8, <1>9 DEF FreshInv

\* Building the report, and keeping a capture of the ARF it is built from.
LEMMA BuildStep ==
    ASSUME FreshInv, TypeOK', NEW r \in Run, Build(r) PROVE FreshInv'
<1>1. /\ pc[r] = "build" /\ got[r] # NoArf /\ got' = got
      /\ pc' = [pc EXCEPT ![r] = "done"] /\ err' = [err EXCEPT ![r] = err'[r]]
      /\ captured' \in {captured, [captured EXCEPT ![r] = got[r]]}
      /\ UNCHANGED <<seen, met, rmFailed, oscap, snap, arf, hostRules>>
  BY DEF Build, Raise, Goto, FreshInv, TypeOK, HasArf, InTry, hostVars, obsVars
<1> USE DEF FreshInv, TypeOK
<1>2. NotScannedYet' /\ HasArf' /\ ScanPhase'
  BY <1>1 DEF NotScannedYet, BeforeScan, HasArf, ScanPhase
<1>3. MetAll'
  BY <1>1, MetStays DEF Active, Alive
<1>4. SnapSeen'
  BY <1>1 DEF SnapSeen, Active
<1>5. FileOrigin'
  BY <1>1 DEF FileOrigin, Arf
<1>6. GotOrigin'
  BY <1>1 DEF GotOrigin, Origin
<1> QED BY <1>2, <1>3, <1>4, <1>5, <1>6

\* oscap on the host goes on without its run.
LEMMA HostStep ==
    ASSUME FreshInv, TypeOK', NEW r \in Run, ScanStep(r) PROVE FreshInv'
<1> USE RunAssumption DEF FreshInv, TypeOK, runVars, obsVars
<1>1. CASE Evaluate(r)
  <2>1. /\ UNCHANGED <<pc, err, got, captured, oscap, arf, hostRules, seen, met, rmFailed>>
        /\ Alive(r) /\ snap[r] = NoScan
        /\ snap' = [snap EXCEPT ![r] = hostRules[HostOf[r]]]
    BY <1>1 DEF Evaluate
  <2>2. NotScannedYet' /\ HasArf' /\ ScanPhase'
    BY <2>1 DEF NotScannedYet, BeforeScan, HasArf, ScanPhase, Alive
  <2>3. MetAll'
    BY <2>1, MetStays DEF Active, Alive
  <2>4. SnapSeen'
    BY <2>1 DEF SnapSeen, Active
  <2>5. FileOrigin'
    BY <2>1 DEF FileOrigin, Arf
  <2>6. GotOrigin'
    BY <2>1, GotStays
  <2> QED BY <2>2, <2>3, <2>4, <2>5, <2>6
<1>2. CASE OrphanWrites(r) \/ OrphanDies(r)
  <2>1. /\ UNCHANGED <<pc, err, got, captured, snap, hostRules, seen, met, rmFailed>>
        /\ oscap[r] = "orphan" /\ oscap' = [oscap EXCEPT ![r] = oscap'[r]]
        /\ \/ arf' = arf /\ oscap'[r] = "exited"
           \/ /\ arf' = [arf EXCEPT ![HostOf[r]] = ScanArf(r, "good")]
              /\ snap[r] # NoScan /\ oscap'[r] = "late"
    BY <1>2 DEF OrphanWrites, OrphanDies
  <2>2. NotScannedYet' /\ HasArf' /\ ScanPhase'
    BY <2>1 DEF NotScannedYet, BeforeScan, HasArf, ScanPhase
  <2>3. MetAll'
    BY <2>1, MetStays DEF Active, Alive
  <2>4. SnapSeen'
    BY <2>1 DEF SnapSeen, Active
  <2>5. FileOrigin'
    <3> SUFFICES ASSUME NEW h \in Host, arf'[h] # NoArf
                 PROVE  LET q == arf'[h].by IN
                        /\ HostOf[q] = h /\ arf'[h].scan = snap[q] /\ snap[q] # NoScan
                        /\ \/ rmFailed[q]
                           \/ oscap'[q] = "late"
                           \/ oscap'[q] = "exited" /\ pc[q] \in {"fetch", "itest", "iread", "cleanup"}
      BY <2>1 DEF FileOrigin
    <3>1. CASE arf'[h] = arf[h]
      <4>1. arf[h].by \in Run
        BY <3>1 DEF Arf
      <4> QED BY <2>1, <3>1, <4>1 DEF FileOrigin
    <3>2. CASE arf'[h] # arf[h]
      <4>1. h = HostOf[r] /\ arf'[h] = ScanArf(r, "good") /\ snap[r] # NoScan /\ oscap'[r] = "late"
        BY <2>1, <3>2
      <4> QED BY <4>1 DEF ScanArf
    <3> QED BY <3>1, <3>2
  <2>6. GotOrigin'
    BY <2>1, GotStays
  <2> QED BY <2>2, <2>3, <2>4, <2>5, <2>6
<1> QED BY <1>1, <1>2 DEF ScanStep

\* Every step of the system preserves the invariant.
LEMMA FreshStep ==
    ASSUME FreshInv, TypeOK', [Next]_vars PROVE FreshInv'
<1> USE RunAssumption, StringFacts
<1>1. ASSUME NEW r \in Run, Preflight(r) \/ TestTailoring(r) \/ ReadTailoring(r)
                            \/ SsgVersion(r) \/ SsgTimeout(r)
      PROVE  FreshInv'
  <2>1. /\ pc[r] \in {"tpreflight", "preflight", "ttest", "test", "tread", "ssg"}
        /\ UNCHANGED <<got, captured, oscap, snap, arf, hostRules, obsVars>>
        /\ \/ \E s \in {"ttest", "test", "tread", "ssg", "preflight", "launch"} : Goto(r, s)
           \/ \E e \in Errors : Raise(r, e)
    BY <1>1 DEF Preflight, TestTailoring, ReadTailoring, SsgVersion, SsgTimeout, hostVars, Errors
  <2>2. /\ pc' = [pc EXCEPT ![r] = pc'[r]]
        /\ err' = [err EXCEPT ![r] = err'[r]]
        /\ \/ pc'[r] \in {"ttest", "test", "tread", "ssg", "preflight", "launch"}
           \/ pc'[r] = "done" /\ err'[r] # "none"
    BY <2>1 DEF Goto, Raise, InTry, FreshInv, TypeOK
  <2> QED BY <2>1, <2>2, EarlyStep DEF BeforeScan
<1>2. ASSUME NEW r \in Run, Launch(r) PROVE FreshInv'
  <2>1. /\ pc[r] = "launch" /\ UNCHANGED <<got, captured, snap, arf, hostRules, obsVars>>
    BY <1>2 DEF Launch, obsVars
  <2>2. CASE Goto(r, "scan") /\ oscap' = [oscap EXCEPT ![r] = "running"]
    <3> USE DEF FreshInv, TypeOK, obsVars
    <3>1. pc' = [pc EXCEPT ![r] = "scan"] /\ err' = err
      BY <2>2 DEF Goto
    <3>2. oscap[r] = "idle" /\ snap[r] = NoScan
      BY <2>1 DEF NotScannedYet, BeforeScan
    <3>3. NotScannedYet' /\ HasArf' /\ ScanPhase'
      BY <2>1, <2>2, <3>1, <3>2 DEF NotScannedYet, BeforeScan, HasArf, ScanPhase
    <3>4. MetAll'
      BY <2>1, <2>2, <3>1, MetStays DEF Active, Alive
    <3>5. SnapSeen'
      BY <2>1, <3>1, <3>2 DEF SnapSeen, Active
    <3>6. FileOrigin'
      BY <2>1, <2>2, <3>1, <3>2 DEF FileOrigin, Arf
    <3>7. GotOrigin'
      BY <2>1, <2>2, <3>2, GotStays
    <3> QED BY <3>3, <3>4, <3>5, <3>6, <3>7
  <2>3. ASSUME NEW e \in Errors, Raise(r, e), UNCHANGED oscap PROVE FreshInv'
    <3>1. /\ pc' = [pc EXCEPT ![r] = pc'[r]] /\ err' = [err EXCEPT ![r] = err'[r]]
          /\ pc'[r] = "cleanup" /\ err'[r] # "none"
      BY <2>1, <2>3 DEF Raise, InTry, FreshInv, TypeOK
    <3> QED BY <2>1, <2>3, <3>1, EarlyStep DEF BeforeScan
  <2> QED BY <1>2, <2>2, <2>3 DEF Launch
<1>3. ASSUME NEW r \in Run, OscapExit(r) PROVE FreshInv'
  <2>1. PICK k \in ScanEnd :
          /\ arf' = IF k \in FileKind
                    THEN [arf EXCEPT ![HostOf[r]] = ScanArf(r, k)] ELSE arf
          /\ \/ Goto(r, "fetch")
             \/ \E e \in {"oscap", "decodeerror"} : Raise(r, e)
    BY <1>3 DEF OscapExit
  <2>2. /\ pc[r] = "scan" /\ oscap[r] = "running" /\ snap[r] # NoScan
        /\ oscap' = [oscap EXCEPT ![r] = "exited"] /\ oscap'[r] = "exited"
        /\ UNCHANGED <<got, captured, snap, hostRules, obsVars>>
    BY <1>3 DEF OscapExit, obsVars, FreshInv, TypeOK
  <2>3. /\ pc' = [pc EXCEPT ![r] = pc'[r]] /\ err' = [err EXCEPT ![r] = err'[r]]
        /\ \/ pc'[r] = "fetch"
           \/ pc'[r] = "cleanup" /\ err'[r] # "none"
    <3>1. CASE Goto(r, "fetch")
      BY <3>1 DEF Goto, FreshInv, TypeOK
    <3>2. ASSUME NEW e \in {"oscap", "decodeerror"}, Raise(r, e)
          PROVE  /\ pc' = [pc EXCEPT ![r] = "cleanup"] /\ err' = [err EXCEPT ![r] = e]
                 /\ e # "none"
      BY <2>2, <3>2 DEF Raise, InTry
    <3> QED BY <2>1, <3>1, <3>2 DEF FreshInv, TypeOK
  <2>4. arf' = arf \/ \E kk : arf' = [arf EXCEPT ![HostOf[r]] = ScanArf(r, kk)]
    BY <2>1
  <2> QED BY <2>2, <2>3, <2>4, ScanOver
<1>4. ASSUME NEW r \in Run, ScanCut(r) PROVE FreshInv'
  <2>1. pc[r] = "scan" /\ oscap[r] = "running"
    BY <1>4 DEF ScanCut, FreshInv, ScanPhase
  <2>2. /\ oscap' = [oscap EXCEPT ![r] = oscap'[r]] /\ oscap'[r] \in {"orphan", "exited"}
        /\ UNCHANGED <<got, captured, snap, arf, hostRules, obsVars>>
    BY <1>4 DEF ScanCut, FreshInv, TypeOK
  <2>3. \E e \in Errors : Raise(r, e)
    BY <1>4 DEF ScanCut, Errors
  <2>4. /\ pc' = [pc EXCEPT ![r] = pc'[r]] /\ err' = [err EXCEPT ![r] = err'[r]]
        /\ pc'[r] = "cleanup" /\ err'[r] # "none"
    BY <2>1, <2>3 DEF Raise, InTry, FreshInv, TypeOK
  <2> QED BY <2>1, <2>2, <2>4, ScanOver
<1>5. ASSUME NEW r \in Run, TestInstall(r) \/ ReadInstall(r) PROVE FreshInv'
  <2>1. /\ pc[r] \in {"itest", "iread"}
        /\ UNCHANGED <<got, captured, oscap, snap, arf, hostRules, obsVars>>
        /\ (\E s \in {"iread", "cleanup"} : Goto(r, s)) \/ (\E e \in Errors : Raise(r, e))
    BY <1>5 DEF TestInstall, ReadInstall, hostVars, Errors
  <2>2. /\ pc' = [pc EXCEPT ![r] = pc'[r]] /\ err' = [err EXCEPT ![r] = err'[r]]
        /\ \/ pc'[r] \in {"iread", "cleanup"} /\ err' = err
           \/ pc'[r] = "cleanup" /\ err'[r] # "none"
    BY <2>1 DEF Goto, Raise, InTry, FreshInv, TypeOK
  <2> QED BY <2>1, <2>2, LateStep
<1>6. ASSUME NEW r \in Run, Stall(r) PROVE FreshInv'
  BY <1>6 DEF Stall, hostVars, obsVars, FreshInv, NotScannedYet, MetAll, Company,
     SnapSeen, FileOrigin, GotOrigin, Origin, HasArf, ScanPhase, Active, Alive
<1>7. ASSUME NEW h \in Host, HostChanges(h) PROVE FreshInv'
  <2> USE DEF FreshInv, TypeOK, runVars
  <2>1. /\ UNCHANGED <<pc, err, got, captured, oscap, snap, arf, met, rmFailed>>
        /\ \A r \in Run : seen[r] \subseteq seen'[r]
    BY <1>7 DEF HostChanges
  <2>2. NotScannedYet' /\ HasArf' /\ ScanPhase'
    BY <2>1 DEF NotScannedYet, HasArf, ScanPhase
  <2>3. MetAll'
    BY <2>1, MetStays DEF Active, Alive
  <2>4. SnapSeen'
    BY <1>7, <2>1 DEF HostChanges, SnapSeen, Active
  <2>5. FileOrigin'
    BY <2>1 DEF FileOrigin
  <2>6. GotOrigin'
    BY <2>1, GotStays
  <2> QED BY <2>2, <2>3, <2>4, <2>5, <2>6
<1>8. CASE UNCHANGED vars
  BY <1>8 DEF vars, runVars, hostVars, obsVars, FreshInv, NotScannedYet, MetAll, Company,
     SnapSeen, FileOrigin, GotOrigin, Origin, HasArf, ScanPhase, Active, Alive
<1> QED BY <1>1, <1>2, <1>3, <1>4, <1>5, <1>6, <1>7, <1>8, StartStep, FetchStep,
           CleanupStep, BuildStep, HostStep DEF Next, RunStep

(***************************************************************************)
(* However many runs there are, on whatever hosts, and however they        *)
(* overlap: every report and every captured baseline shows the host as it  *)
(* was during the run, or is of a run that overlapped with it or had lost  *)
(* control of its file.                                                    *)
(***************************************************************************)
THEOREM Fresh == Safety => []ReportIsFresh
<1>1. FreshInv /\ TypeOK' /\ [Next]_vars => FreshInv'
  BY FreshStep
<1>2. FreshInv => ReportIsFresh
  BY DEF FreshInv, HasArf, GotOrigin, ReportIsFresh, Reported
<1> QED BY <1>1, <1>2, FreshInit, TypeCorrect, PTL DEF Safety

\* categorize and is_clean: a clean report of a full scan has no failing rule
\* that host.yaml does not waive.
LEMMA CleanRows ==
    ASSUME NEW scan \in Scan, NEW install, IsClean(BuildReport(scan, install, Expected)),
           NEW x \in Rule, scan[x] = "fail"
    PROVE  x \in Expected
<1>1. BuildReport(scan, install, Expected)[x].category
        = Categorize("fail", InstallState(install, x), x \in Expected)
  BY DEF BuildReport, Scan
<1>2. BuildReport(scan, install, Expected)[x].category \notin FailingCategory
  BY DEF IsClean, BuildReport, Scan
<1>3. ASSUME x \notin Expected
      PROVE  Categorize("fail", InstallState(install, x), x \in Expected)
                \in FailingCategory
  BY <1>3 DEF Categorize, CleanCurrentStates, IncompleteStates, FailingCategory
<1> QED BY <1>1, <1>2, <1>3

\* A tailoring check that was asked for has a result once the run goes on to the
\* scan, and a run that was not asked for one has none.
Checking == {"tpreflight", "ttest", "tread"}

DriftChecked ==
    \A r \in Run :
        /\ pc[r] \in Checking => opt[r].check
        /\ opt[r].check /\ err[r] = "none" /\ pc[r] \notin Checking \cup {"idle"}
             => drift[r] # "unchecked"
        /\ ~opt[r].check => drift[r] = "unchecked"

LEMMA DriftStep ==
    ASSUME TypeOK, DriftChecked, [Next]_vars PROVE DriftChecked'
<1> USE DEF TypeOK, DriftChecked, Checking, hostVars, runVars
<1>1. ASSUME NEW r \in Run, Start(r) PROVE DriftChecked'
  BY <1>1, StringFacts DEF Start, Goto, Raise, InTry
<1>2. ASSUME NEW r \in Run, ReadTailoring(r) PROVE DriftChecked'
  <2>1. CASE Goto(r, "preflight") /\ \E d \in {"match", "drift"} : drift' = [drift EXCEPT ![r] = d]
    BY <1>2, <2>1 DEF ReadTailoring, Goto
  <2>2. ASSUME NEW e \in Errors, Raise(r, e), UNCHANGED drift PROVE DriftChecked'
    BY <1>2, <2>2, StringFacts DEF ReadTailoring, Raise, InTry
  <2>3. PullErrors(r) \cup {"arfmissing", "decodeerror", "tailoringparse"} \subseteq Errors
    BY StringFacts DEF Errors
  <2> QED BY <1>2, <2>1, <2>2, <2>3 DEF ReadTailoring
<1>3. ASSUME NEW r \in Run, RunStep(r), ~Start(r), ~ReadTailoring(r) PROVE DriftChecked'
  <2>1. UNCHANGED <<opt, drift>> /\ pc[r] # "idle"
    BY <1>3 DEF RunStep, Preflight, TestTailoring, SsgVersion, Launch, OscapExit,
       SsgTimeout, ScanCut, Fetch, TestInstall, ReadInstall, Cleanup, Build
  <2>2. \/ \E s \in Step : Goto(r, s) /\ (s \in Checking <=> pc[r] \in Checking)
        \/ \E e \in Errors : Raise(r, e)
    <3>1. CASE Preflight(r)
      <4>1. ASSUME NEW e \in PreflightErrors(r) PROVE e \in Errors
        BY <4>1 DEF PreflightErrors, TextErrors, CallErrors, Errors
      <4>2. CASE \E e \in PreflightErrors(r) : Raise(r, e)
        BY <4>1, <4>2
      <4>3. CASE pc[r] = "tpreflight" /\ Goto(r, "ttest")
        BY <4>3 DEF Step
      <4>4. CASE pc[r] = "preflight" /\ Goto(r, "test")
        BY <4>4 DEF Step
      <4> QED BY <3>1, <4>2, <4>3, <4>4 DEF Preflight
    <3>2. CASE TestTailoring(r)
      <4>1. ASSUME NEW e \in TextErrors(r) \cup {"oscap"} PROVE e \in Errors
        BY <4>1 DEF TextErrors, CallErrors, Errors
      <4>2. CASE \E e \in TextErrors(r) \cup {"oscap"} : Raise(r, e)
        BY <4>1, <4>2
      <4>3. CASE pc[r] = "ttest" /\ Goto(r, "tread")
        BY <4>3 DEF Step
      <4>4. CASE pc[r] = "test" /\ Goto(r, "ssg")
        BY <4>4 DEF Step
      <4> QED BY <3>2, <4>2, <4>3, <4>4 DEF TestTailoring
    <3>3. CASE SsgVersion(r) \/ SsgTimeout(r)
      BY <3>3 DEF SsgVersion, SsgTimeout, Step, InTry, Errors
    <3>4. CASE Launch(r)
      BY <3>4, StringFacts DEF Launch, Step, InTry
    <3>5. CASE OscapExit(r)
      BY <3>5 DEF OscapExit, Step, InTry, Errors
    <3>6. CASE ScanCut(r)
      BY <3>6 DEF ScanCut, Errors
    <3>7. CASE Fetch(r)
      <4>1. PullErrors(r) \subseteq Errors /\ AbsentError(r) \in Errors
        BY DEF PullErrors, CallErrors, AbsentError, Errors
      <4>2. ASSUME pc[r] = "fetch", NEW s \in {"itest", "cleanup"}, Goto(r, s)
            PROVE  s \in Step /\ Goto(r, s) /\ (s \in Checking <=> pc[r] \in Checking)
        BY <4>2 DEF Step, InTry
      <4>3. CASE Raise(r, "arfmissing") \/ Raise(r, "decodeerror")
        BY <4>3 DEF Errors
      <4>4. CASE Raise(r, AbsentError(r)) \/ \E e \in PullErrors(r) : Raise(r, e)
        BY <4>1, <4>4
      <4>5. \/ pc[r] = "fetch" /\ \E s \in {"itest", "cleanup"} : Goto(r, s)
            \/ (Raise(r, "arfmissing") \/ Raise(r, "decodeerror"))
            \/ (Raise(r, AbsentError(r)) \/ \E e \in PullErrors(r) : Raise(r, e))
        BY <3>7 DEF Fetch
      <4>6. CASE pc[r] = "fetch" /\ \E s \in {"itest", "cleanup"} : Goto(r, s)
        BY <4>2, <4>6
      <4> QED BY <4>3, <4>4, <4>5, <4>6
    <3>8. CASE TestInstall(r) \/ ReadInstall(r)
      <4>1. PullErrors(r) \cup {"decodeerror"} \subseteq Errors /\ TextErrors(r) \subseteq Errors
        BY DEF PullErrors, TextErrors, CallErrors, Errors
      <4>2. ASSUME pc[r] \in {"itest", "iread"}, NEW s \in {"iread", "cleanup"}, Goto(r, s)
            PROVE  s \in Step /\ Goto(r, s) /\ (s \in Checking <=> pc[r] \in Checking)
        BY <4>2 DEF Step, InTry
      <4>3. CASE pc[r] \in {"itest", "iread"} /\ \E s \in {"iread", "cleanup"} : Goto(r, s)
        BY <4>2, <4>3
      <4>4. CASE \E e \in PullErrors(r) \cup {"decodeerror"} : Raise(r, e)
        BY <4>1, <4>4
      <4>5. CASE \E e \in TextErrors(r) : Raise(r, e)
        BY <4>1, <4>5
      <4> QED BY <3>8, <4>3, <4>4, <4>5 DEF TestInstall, ReadInstall
    <3>9. CASE Cleanup(r)
      BY <3>9 DEF Cleanup, AfterCleanup, Step
    <3>10. CASE Build(r)
      BY <3>10 DEF Build, Step, Errors
    <3> QED BY <1>3, <3>1, <3>2, <3>3, <3>4, <3>5, <3>6, <3>7, <3>8, <3>9, <3>10 DEF RunStep
  <2>3. CASE \E e \in Errors : Raise(r, e)
    BY <2>1, <2>3, StringFacts DEF Raise, InTry
  <2>4. ASSUME NEW s \in Step, Goto(r, s), s \in Checking <=> pc[r] \in Checking
        PROVE  DriftChecked'
    <3>1. pc' = [pc EXCEPT ![r] = s] /\ err' = err
      BY <2>4 DEF Goto
    <3>2. pc'[r] = s /\ \A q \in Run \ {r} : pc'[q] = pc[q]
      BY <3>1
    <3> SUFFICES ASSUME NEW q \in Run
                 PROVE  /\ pc'[q] \in Checking => opt[q].check
                        /\ opt[q].check /\ err[q] = "none" /\ pc'[q] \notin Checking \cup {"idle"}
                             => drift[q] # "unchecked"
                        /\ ~opt[q].check => drift[q] = "unchecked"
      BY <2>1, <3>1
    <3>3. CASE q = r
      BY <2>1, <2>4, <3>2, <3>3
    <3>4. CASE q # r
      BY <3>2, <3>4
    <3> QED BY <3>3, <3>4
  <2> QED BY <2>2, <2>3, <2>4
<1>4. ASSUME NEW r \in Run, ScanStep(r) \/ Stall(r) PROVE DriftChecked'
  BY <1>4 DEF ScanStep, Evaluate, OrphanWrites, OrphanDies, Stall
<1>5. ASSUME NEW h \in Host, HostChanges(h) PROVE DriftChecked'
  BY <1>5 DEF HostChanges
<1>6. CASE UNCHANGED vars
  BY <1>6 DEF vars
<1> QED BY <1>1, <1>2, <1>3, <1>4, <1>5, <1>6 DEF Next

(***************************************************************************)
(* Exit code 0 vouches for the host, for any runs, hosts and rules, however*)
(* the runs overlap: nothing unwaived failed in the scan the run read, the *)
(* drift check was made if asked for, and a scan of its own is fresh.      *)
(***************************************************************************)
THEOREM ExitZero == Safety => []ExitZeroMeansCompliant
<1>1. TypeOK /\ ReportIsFresh /\ DriftChecked => ExitZeroMeansCompliant
  <2> SUFFICES ASSUME TypeOK, ReportIsFresh, DriftChecked,
                      NEW r \in Run, pc[r] = "done", ExitOf(r) = OK
               PROVE  /\ drift[r] = IF opt[r].check THEN "match" ELSE "unchecked"
                      /\ \A x \in Rule : got[r].scan[x] = "fail" => x \in Expected
                      /\ got[r].by = r => got[r].scan \in seen[r]
    BY DEF ExitZeroMeansCompliant
  <2>1. err[r] = "none"
    BY DEF ExitOf, ErrorExit, OK, USAGE, TOOL_MISSING, VERIFY_FAIL, TRANSPORT_FAIL
  <2>2. IsClean(Rows(r)) /\ drift[r] # "drift"
    BY <2>1 DEF ExitOf, ReportExit, OK, VERIFY_FAIL, TAILORING_DRIFT
  <2>3. drift[r] = IF opt[r].check THEN "match" ELSE "unchecked"
    BY <2>1, <2>2 DEF DriftChecked, Checking, TypeOK
  <2>4. got[r] # NoArf /\ Origin(r, got[r])
    BY <2>1 DEF ReportIsFresh, Reported
  <2>5. got[r].scan \in Scan
    BY <2>4 DEF TypeOK, Arf
  <2>6. \A x \in Rule : got[r].scan[x] = "fail" => x \in Expected
    BY <2>2, <2>5, CleanRows DEF Rows
  <2> QED BY <2>3, <2>4, <2>6 DEF Origin
<1>2. Init => DriftChecked
  BY DEF Init, DriftChecked, Checking
<1>3. TypeOK /\ DriftChecked /\ [Next]_vars => DriftChecked'
  BY DriftStep
<1> QED BY <1>1, <1>2, <1>3, Fresh, TypeCorrect, PTL DEF Safety

-----------------------------------------------------------------------------
(***************************************************************************)
(* The finally clause.  Who wrote the scratch file has a scan that is over,*)
(* and a run that is past its cleanup is not among them unless its `rm -f' *)
(* failed or the scan was given up.  No discipline is needed for it: other *)
(* runs on the host only ever replace or remove the file.                  *)
(***************************************************************************)
Phase ==
    \A r \in Run :
        /\ pc[r] \in BeforeScan => oscap[r] = "idle"
        /\ pc[r] = "scan" => oscap[r] = "running"
        /\ err[r] # "none" => pc[r] \in {"cleanup", "done"}

Left(r) == arf[HostOf[r]] # NoArf /\ arf[HostOf[r]].by = r

WriterIsDone == \A r \in Run : Left(r) => oscap[r] \in {"exited", "late"}

Removed ==
    \A r \in Run :
        oscap[r] = "exited" /\ ~rmFailed[r] /\ pc[r] \in {"build", "done"} => ~Left(r)

CleanInv == Phase /\ WriterIsDone /\ Removed

\* A run that was not started has written nothing.
LEMMA CleanInit == Init => CleanInv
BY RunAssumption DEF Init, CleanInv, Phase, Left, WriterIsDone, Removed

\* The other runs stay where they are, and their scans.
Others(r) == \A q \in Run \ {r} : pc'[q] = pc[q] /\ err'[q] = err[q]
OtherScans(r) == \A q \in Run \ {r} : oscap'[q] = oscap[q]

\* A run moves on without touching the file; it comes past the cleanup from
\* there, or from before the scan.
LEMMA QuietStep ==
    ASSUME TypeOK, CleanInv, NEW r \in Run, TypeOK',
           Others(r),
           err'[r] # "none" => pc'[r] \in {"cleanup", "done"},
           \/ pc[r] \in BeforeScan /\ pc'[r] \in BeforeScan \cup {"cleanup", "done"}
           \/ pc[r] \in {"fetch", "itest", "iread"} /\ pc'[r] \in {"itest", "iread", "cleanup"}
           \/ pc[r] = "build" /\ pc'[r] = "done",
           UNCHANGED <<oscap, arf, rmFailed>>
    PROVE  CleanInv'
<1>1. Phase'
  BY DEF CleanInv, Phase, BeforeScan, Others
<1>2. WriterIsDone'
  BY DEF CleanInv, WriterIsDone, Left
<1>3. Removed'
  <2> SUFFICES ASSUME NEW q \in Run, oscap[q] = "exited", ~rmFailed[q],
                      pc'[q] \in {"build", "done"}
               PROVE  ~Left(q)
    BY DEF Removed, Left
  <2>1. CASE q # r
    BY <2>1 DEF CleanInv, Removed, Others
  <2>2. CASE q = r
    <3>1. pc[r] \notin BeforeScan
      BY <2>2 DEF CleanInv, Phase
    <3>2. pc[r] = "build"
      BY <2>2, <3>1
    <3> QED BY <2>2, <3>2 DEF CleanInv, Removed
  <2> QED BY <2>1, <2>2
<1> QED BY <1>1, <1>2, <1>3 DEF CleanInv

\* The phase of a run is its own.
LEMMA PhaseStep ==
    ASSUME TypeOK, CleanInv, NEW r \in Run,
           Others(r), OtherScans(r),
           pc'[r] \in BeforeScan => oscap'[r] = "idle",
           pc'[r] = "scan" => oscap'[r] = "running",
           err'[r] # "none" => pc'[r] \in {"cleanup", "done"}
    PROVE  Phase'
<1> SUFFICES ASSUME NEW q \in Run
             PROVE  /\ pc'[q] \in BeforeScan => oscap'[q] = "idle"
                    /\ pc'[q] = "scan" => oscap'[q] = "running"
                    /\ err'[q] # "none" => pc'[q] \in {"cleanup", "done"}
  BY DEF Phase
<1>1. CASE q = r
  BY <1>1
<1>2. CASE q # r
  <2>1. pc'[q] = pc[q] /\ err'[q] = err[q] /\ oscap'[q] = oscap[q]
    BY <1>2 DEF Others, OtherScans
  <2> QED BY <2>1 DEF CleanInv, Phase
<1> QED BY <1>1, <1>2

\* Every step of any run, of its scan and of the host keeps the invariant.
LEMMA CleanStep ==
    ASSUME TypeOK, TypeOK', CleanInv, [Next]_vars PROVE CleanInv'
<1>1. ASSUME NEW r \in Run, Start(r) PROVE CleanInv'
  <2>1. /\ pc[r] = "idle" /\ err[r] = "none"
        /\ Others(r) /\ pc'[r] \in {"tpreflight", "preflight", "done"}
        /\ err'[r] # "none" => pc'[r] = "done"
    BY <1>1, StringFacts DEF Start, Raise, Goto, TypeOK, InTry, CleanInv, Phase, Others
  <2>2. pc[r] \in BeforeScan /\ pc'[r] \in BeforeScan \cup {"cleanup", "done"}
    BY <2>1 DEF BeforeScan
  <2>3. UNCHANGED <<oscap, arf, rmFailed>>
    BY <1>1 DEF Start, hostVars
  <2>4. err'[r] # "none" => pc'[r] \in {"cleanup", "done"}
    BY <2>1
  <2> QED BY <2>1, <2>2, <2>3, <2>4, QuietStep
<1>2. ASSUME NEW r \in Run, Preflight(r) PROVE CleanInv'
  <2>1. /\ pc[r] \in {"tpreflight", "preflight"} /\ err[r] = "none"
        /\ Others(r) /\ pc'[r] \in {"ttest", "test", "done"}
        /\ err'[r] # "none" => pc'[r] = "done"
    BY <1>2, StringFacts DEF Preflight, Raise, Goto, TypeOK, InTry, CleanInv, Phase, Others
  <2>2. pc[r] \in BeforeScan /\ pc'[r] \in BeforeScan \cup {"cleanup", "done"}
    BY <2>1 DEF BeforeScan
  <2>3. UNCHANGED <<oscap, arf, rmFailed>>
    BY <1>2 DEF Preflight, hostVars
  <2>4. err'[r] # "none" => pc'[r] \in {"cleanup", "done"}
    BY <2>1
  <2> QED BY <2>1, <2>2, <2>3, <2>4, QuietStep
<1>3. ASSUME NEW r \in Run, TestTailoring(r) PROVE CleanInv'
  <2>1. /\ pc[r] \in {"ttest", "test"} /\ err[r] = "none"
        /\ Others(r) /\ pc'[r] \in {"tread", "ssg", "done"}
        /\ err'[r] # "none" => pc'[r] = "done"
    BY <1>3, StringFacts DEF TestTailoring, Raise, Goto, TypeOK, InTry, CleanInv, Phase, Others
  <2>2. pc[r] \in BeforeScan /\ pc'[r] \in BeforeScan \cup {"cleanup", "done"}
    BY <2>1 DEF BeforeScan
  <2>3. UNCHANGED <<oscap, arf, rmFailed>>
    BY <1>3 DEF TestTailoring, hostVars
  <2>4. err'[r] # "none" => pc'[r] \in {"cleanup", "done"}
    BY <2>1
  <2> QED BY <2>1, <2>2, <2>3, <2>4, QuietStep
<1>4. ASSUME NEW r \in Run, ReadTailoring(r) PROVE CleanInv'
  <2>1. /\ pc[r] = "tread" /\ err[r] = "none"
        /\ Others(r) /\ pc'[r] \in {"preflight", "done"}
        /\ err'[r] # "none" => pc'[r] = "done"
    BY <1>4, StringFacts DEF ReadTailoring, Raise, Goto, TypeOK, InTry, CleanInv, Phase, Others
  <2>2. pc[r] \in BeforeScan /\ pc'[r] \in BeforeScan \cup {"cleanup", "done"}
    BY <2>1 DEF BeforeScan
  <2>3. UNCHANGED <<oscap, arf, rmFailed>>
    BY <1>4 DEF ReadTailoring, hostVars
  <2>4. err'[r] # "none" => pc'[r] \in {"cleanup", "done"}
    BY <2>1
  <2> QED BY <2>1, <2>2, <2>3, <2>4, QuietStep
<1>5. ASSUME NEW r \in Run, SsgVersion(r) \/ SsgTimeout(r) PROVE CleanInv'
  <2>1. /\ pc[r] = "ssg" /\ err[r] = "none"
        /\ Others(r) /\ pc'[r] \in {"launch", "done"}
        /\ err'[r] # "none" => pc'[r] = "done"
        /\ UNCHANGED <<oscap, arf, rmFailed>>
    BY <1>5 DEF SsgVersion, SsgTimeout, Goto, Raise, InTry, TypeOK, CleanInv, Phase, hostVars, Others
  <2>2. pc[r] \in BeforeScan /\ pc'[r] \in BeforeScan \cup {"cleanup", "done"}
    BY <2>1 DEF BeforeScan
  <2>3. err'[r] # "none" => pc'[r] \in {"cleanup", "done"}
    BY <2>1
  <2> QED BY <2>1, <2>2, <2>3, QuietStep
<1>6. ASSUME NEW r \in Run, Launch(r) PROVE CleanInv'
  <2>1. pc[r] = "launch" /\ err[r] = "none" /\ oscap[r] = "idle"
    BY <1>6 DEF Launch, CleanInv, Phase, BeforeScan
  <2>2. CASE Goto(r, "scan") /\ oscap' = [oscap EXCEPT ![r] = "running"]
    <3>1. /\ pc' = [pc EXCEPT ![r] = "scan"] /\ err' = err
          /\ UNCHANGED <<arf, rmFailed>>
      BY <1>6, <2>2 DEF Launch, Goto
    <3>2. Phase'
      <4>1. /\ pc'[r] = "scan" /\ err'[r] = "none" /\ oscap'[r] = "running"
            /\ Others(r)
            /\ OtherScans(r)
        BY <2>1, <2>2, <3>1 DEF TypeOK, Others, OtherScans
      <4> QED BY <4>1, PhaseStep DEF BeforeScan
    <3>3. WriterIsDone'
      BY <2>1, <2>2, <3>1 DEF CleanInv, WriterIsDone, Left, TypeOK
    <3>4. Removed'
      BY <2>2, <3>1 DEF CleanInv, Removed, Left, TypeOK
    <3> QED BY <3>2, <3>3, <3>4 DEF CleanInv
  <2>3. ASSUME NEW e \in Errors, Raise(r, e), UNCHANGED oscap PROVE CleanInv'
    <3>1. /\ Others(r) /\ pc'[r] = "cleanup"
          /\ pc[r] \in BeforeScan
      BY <2>1, <2>3 DEF Raise, TypeOK, InTry, Others, BeforeScan
    <3>2. UNCHANGED <<oscap, arf, rmFailed>>
      BY <1>6, <2>3 DEF Launch
    <3> QED BY <3>1, <3>2, QuietStep
  <2> QED BY <1>6, <2>2, <2>3, StringFacts DEF Launch
<1>7. ASSUME NEW r \in Run, OscapExit(r) PROVE CleanInv'
  <2>1. /\ pc[r] = "scan" /\ err[r] = "none" /\ oscap[r] = "running"
        /\ oscap' = [oscap EXCEPT ![r] = "exited"] /\ rmFailed' = rmFailed
        /\ Others(r) /\ pc'[r] \in {"fetch", "cleanup"}
        /\ err'[r] # "none" => pc'[r] = "cleanup"
    BY <1>7 DEF OscapExit, Raise, Goto, TypeOK, InTry, CleanInv, Phase, Others
  <2>2. arf' = arf \/ \E k : arf' = [arf EXCEPT ![HostOf[r]] = ScanArf(r, k)]
    BY <1>7 DEF OscapExit
  <2>3. ASSUME NEW q \in Run, q # r, Left(q)' PROVE Left(q)
    <3>1. HostOf[q] \in Host /\ \A k : ScanArf(r, k).by = r
      BY RunAssumption DEF ScanArf
    <3>2. arf'[HostOf[q]] = arf[HostOf[q]] \/ \E k : arf'[HostOf[q]] = ScanArf(r, k)
      BY <2>2, <3>1 DEF TypeOK
    <3> QED BY <2>3, <3>1, <3>2 DEF Left
  <2>4. Phase'
    <3>1. OtherScans(r) /\ pc'[r] \notin BeforeScan \cup {"scan"}
      BY <2>1 DEF BeforeScan, TypeOK, OtherScans
    <3> QED BY <2>1, <3>1, PhaseStep
  <2>5. WriterIsDone'
    <3>1. ASSUME NEW q \in Run, Left(q)' PROVE oscap'[q] \in {"exited", "late"}
      BY <2>1, <2>3, <3>1 DEF CleanInv, WriterIsDone, TypeOK
    <3> QED BY <3>1 DEF WriterIsDone
  <2>6. Removed'
    <3>1. ASSUME NEW q \in Run, oscap'[q] = "exited", ~rmFailed'[q],
                 pc'[q] \in {"build", "done"}
          PROVE  ~Left(q)'
      <4>1. q # r
        BY <2>1, <3>1
      <4>2. oscap[q] = "exited" /\ ~rmFailed[q] /\ pc[q] \in {"build", "done"}
        BY <2>1, <3>1, <4>1 DEF Others, TypeOK
      <4> QED BY <2>3, <4>1, <4>2 DEF CleanInv, Removed
    <3> QED BY <3>1 DEF Removed
  <2> QED BY <2>4, <2>5, <2>6 DEF CleanInv
<1>8. ASSUME NEW r \in Run, ScanCut(r) PROVE CleanInv'
  <2>1. /\ pc[r] = "scan" /\ oscap[r] = "running"
        /\ pc'[r] = "cleanup" /\ Others(r) /\ UNCHANGED <<arf, rmFailed>>
        /\ OtherScans(r) /\ oscap'[r] \in {"orphan", "exited"}
    BY <1>8 DEF ScanCut, Raise, TypeOK, InTry, CleanInv, Phase, Others, OtherScans
  <2>2. Phase'
    <3>1. pc'[r] \notin BeforeScan
      BY <2>1 DEF BeforeScan
    <3> QED BY <2>1, <3>1, PhaseStep
  <2>3. WriterIsDone'
    BY <2>1 DEF CleanInv, WriterIsDone, Left, OtherScans
  <2>4. Removed'
    BY <2>1 DEF CleanInv, Removed, Left, Others, OtherScans
  <2> QED BY <2>2, <2>3, <2>4 DEF CleanInv
<1>9. ASSUME NEW r \in Run, Fetch(r) \/ TestInstall(r) \/ ReadInstall(r) PROVE CleanInv'
  <2>1. pc[r] \in {"fetch", "itest", "iread"} /\ err[r] = "none"
    BY <1>9 DEF Fetch, TestInstall, ReadInstall, CleanInv, Phase
  <2>2. (\E s \in {"itest", "iread", "cleanup"} : Goto(r, s)) \/ \E e : Raise(r, e)
    BY <1>9 DEF Fetch, TestInstall, ReadInstall
  <2>3. /\ Others(r) /\ pc'[r] \in {"itest", "iread", "cleanup"}
        /\ err'[r] # "none" => pc'[r] = "cleanup"
    BY <2>1, <2>2 DEF Goto, Raise, InTry, TypeOK, Others
  <2>4. UNCHANGED <<oscap, arf, rmFailed>>
    BY <1>9 DEF Fetch, TestInstall, ReadInstall, hostVars
  <2> QED BY <2>1, <2>3, <2>4, QuietStep
<1>10. ASSUME NEW r \in Run, Cleanup(r) PROVE CleanInv'
  <2>1. /\ pc[r] = "cleanup" /\ pc' = [pc EXCEPT ![r] = AfterCleanup(r)]
        /\ UNCHANGED <<err, oscap>>
    BY <1>10 DEF Cleanup, Goto
  <2>2. AfterCleanup(r) \in {"build", "done"} /\ (err[r] # "none" => AfterCleanup(r) = "done")
    BY DEF AfterCleanup
  <2>3. Phase'
    <3>1. /\ pc'[r] = AfterCleanup(r) /\ err'[r] = err[r]
          /\ Others(r) /\ OtherScans(r)
      BY <2>1 DEF TypeOK, Others, OtherScans
    <3>2. pc'[r] \notin BeforeScan \cup {"scan"}
      BY <2>2, <3>1 DEF BeforeScan
    <3> QED BY <2>2, <3>1, <3>2, PhaseStep
  <2>4. CASE arf' = [arf EXCEPT ![HostOf[r]] = NoArf] /\ rmFailed' = rmFailed
    <3>1. ASSUME NEW q \in Run, Left(q)' PROVE Left(q) /\ q # r
      BY <2>4, <3>1, RunAssumption DEF Left, TypeOK
    <3>2. WriterIsDone'
      BY <2>1, <3>1 DEF CleanInv, WriterIsDone
    <3>3. Removed'
      BY <2>1, <2>4, <3>1 DEF CleanInv, Removed, TypeOK
    <3> QED BY <2>3, <3>2, <3>3 DEF CleanInv
  <2>5. CASE rmFailed' = [rmFailed EXCEPT ![r] = TRUE] /\ arf' = arf
    <3>1. WriterIsDone'
      BY <2>1, <2>5 DEF CleanInv, WriterIsDone, Left
    <3>2. ASSUME NEW q \in Run PROVE q = r \/ (rmFailed'[q] <=> rmFailed[q])
      BY <2>5 DEF TypeOK
    <3>3. rmFailed'[r]
      BY <2>5 DEF TypeOK
    <3>4. Removed'
      BY <2>1, <2>5, <3>2, <3>3 DEF CleanInv, Removed, Left, TypeOK
    <3> QED BY <2>3, <3>1, <3>4 DEF CleanInv
  <2> QED BY <1>10, <2>4, <2>5 DEF Cleanup
<1>11. ASSUME NEW r \in Run, Build(r) PROVE CleanInv'
  <2>1. /\ pc[r] = "build" /\ err[r] = "none"
        /\ Others(r) /\ pc'[r] = "done"
    BY <1>11 DEF Others, Build, Raise, Goto, TypeOK, InTry, CleanInv, Phase
  <2>2. UNCHANGED <<oscap, arf, rmFailed>>
    BY <1>11 DEF Build, hostVars
  <2> QED BY <2>1, <2>2, QuietStep
<1>12. ASSUME NEW r \in Run, Evaluate(r) \/ Stall(r) PROVE CleanInv'
  BY <1>12 DEF Evaluate, Stall, runVars, hostVars, CleanInv, Phase, WriterIsDone, Removed, Left
<1>13. ASSUME NEW r \in Run, OrphanWrites(r) \/ OrphanDies(r) PROVE CleanInv'
  <2>1. /\ oscap[r] = "orphan" /\ oscap' = [oscap EXCEPT ![r] = oscap'[r]]
        /\ UNCHANGED <<pc, err, rmFailed>>
        /\ \/ arf' = arf /\ oscap'[r] = "exited"
           \/ arf' = [arf EXCEPT ![HostOf[r]] = ScanArf(r, "good")] /\ oscap'[r] = "late"
    BY <1>13 DEF OrphanWrites, OrphanDies, runVars, TypeOK
  <2>2. ASSUME NEW q \in Run, q # r, Left(q)' PROVE Left(q)
    <3>1. HostOf[q] \in Host /\ \A k : ScanArf(r, k).by = r
      BY RunAssumption DEF ScanArf
    <3>2. arf'[HostOf[q]] = arf[HostOf[q]] \/ \E k : arf'[HostOf[q]] = ScanArf(r, k)
      BY <2>1, <3>1 DEF TypeOK
    <3> QED BY <2>2, <3>1, <3>2 DEF Left
  <2>3. Phase'
    <3>1. Others(r) /\ OtherScans(r)
      BY <2>1 DEF Others, OtherScans, TypeOK
    <3>2. /\ pc[r] \notin BeforeScan \cup {"scan"}
          /\ err[r] # "none" => pc[r] \in {"cleanup", "done"}
      BY <2>1 DEF CleanInv, Phase
    <3> QED BY <2>1, <3>1, <3>2, PhaseStep
  <2>4. WriterIsDone'
    <3>1. ASSUME NEW q \in Run, Left(q)' PROVE oscap'[q] \in {"exited", "late"}
      BY <2>1, <2>2, <3>1 DEF CleanInv, WriterIsDone, TypeOK
    <3> QED BY <3>1 DEF WriterIsDone
  <2>5. Removed'
    <3>1. ASSUME NEW q \in Run, oscap'[q] = "exited", ~rmFailed'[q],
                 pc'[q] \in {"build", "done"}
          PROVE  ~Left(q)'
      <4>1. CASE q = r
        <5>1. arf' = arf
          BY <2>1, <3>1, <4>1
        <5> QED BY <2>1, <4>1, <5>1 DEF CleanInv, WriterIsDone, Left
      <4>2. CASE q # r
        BY <2>1, <2>2, <3>1, <4>2 DEF CleanInv, Removed, TypeOK
      <4> QED BY <4>1, <4>2
    <3> QED BY <3>1 DEF Removed
  <2> QED BY <2>3, <2>4, <2>5 DEF CleanInv
<1>14. ASSUME NEW h \in Host, HostChanges(h) PROVE CleanInv'
  BY <1>14 DEF HostChanges, runVars, CleanInv, Phase, WriterIsDone, Removed, Left
<1>15. CASE UNCHANGED vars
  BY <1>15 DEF vars, runVars, hostVars, CleanInv, Phase, WriterIsDone, Removed, Left
<1> QED BY <1>1, <1>2, <1>3, <1>4, <1>5, <1>6, <1>7, <1>8, <1>9, <1>10, <1>11,
           <1>12, <1>13, <1>14, <1>15 DEF Next, RunStep, ScanStep

\* A step out of the try block leads to the finally clause, and an exception
\* stays the one it was.
KeepsOutcome(r) ==
    /\ pc[r] \in InTry => pc'[r] # "done"
    /\ err[r] # "none" => err'[r] = err[r]
    /\ pc[r] = "cleanup" => err'[r] = err[r]

\* So does every step: only the cleanup leads from the try block to the end.
LEMMA OutcomeStep ==
    ASSUME TypeOK, CleanInv, [Next]_vars, NEW r \in Run PROVE KeepsOutcome(r)
<1>1. CASE pc'[r] = pc[r] /\ err'[r] = err[r]
  BY <1>1 DEF KeepsOutcome, InTry
<1>2. CASE RunStep(r)
  <2>1. CASE Cleanup(r)
    BY <2>1 DEF Cleanup, Goto, KeepsOutcome, InTry
  <2>2. CASE ~Cleanup(r)
    <3>1. pc[r] \notin {"cleanup", "done"}
      BY <1>2, <2>2 DEF RunStep, Start, Preflight, TestTailoring, ReadTailoring,
         SsgVersion, Launch, OscapExit, SsgTimeout, ScanCut, Fetch, TestInstall,
         ReadInstall, Build
    <3>2. err[r] = "none"
      BY <3>1 DEF CleanInv, Phase
    <3>3. ASSUME pc[r] \in InTry PROVE pc'[r] # "done"
      <4>1. \/ \E s \in {"scan", "fetch", "itest", "iread", "cleanup"} : Goto(r, s)
            \/ \E e : Raise(r, e)
        <5>1. \/ Launch(r) \/ OscapExit(r) \/ ScanCut(r)
              \/ Fetch(r) \/ TestInstall(r) \/ ReadInstall(r)
          BY <1>2, <3>3 DEF RunStep, Start, Preflight, TestTailoring, ReadTailoring,
             SsgVersion, SsgTimeout, Cleanup, Build, InTry
        <5> QED BY <5>1 DEF Launch, OscapExit, ScanCut, Fetch, TestInstall, ReadInstall
      <4> QED BY <3>3, <4>1 DEF Goto, Raise, TypeOK
    <3> QED BY <3>1, <3>2, <3>3 DEF KeepsOutcome
  <2> QED BY <2>1, <2>2
<1>3. ASSUME NEW q \in Run, q # r, RunStep(q) PROVE pc'[r] = pc[r] /\ err'[r] = err[r]
  <2>1. (\E s : Goto(q, s)) \/ (\E e : Raise(q, e))
    BY <1>3 DEF RunStep, Start, Preflight, TestTailoring, ReadTailoring,
       SsgVersion, Launch, OscapExit, SsgTimeout, ScanCut, Fetch, TestInstall,
       ReadInstall, Cleanup, Build
  <2> QED BY <1>3, <2>1 DEF Goto, Raise, TypeOK
<1>4. ASSUME NEW q \in Run, ScanStep(q) \/ Stall(q) PROVE pc' = pc /\ err' = err
  BY <1>4 DEF ScanStep, Evaluate, OrphanWrites, OrphanDies, Stall, runVars
<1>5. ASSUME NEW h \in Host, HostChanges(h) PROVE pc' = pc /\ err' = err
  BY <1>5 DEF HostChanges, runVars
<1>6. CASE UNCHANGED vars
  BY <1>1, <1>6 DEF vars, runVars
<1> QED BY <1>1, <1>2, <1>3, <1>4, <1>5, <1>6 DEF Next

(***************************************************************************)
(* However many runs there are on a host, in whatever order their calls    *)
(* are answered, cut or stalled: a run that may have started oscap ends    *)
(* only through its finally clause, which leaves nothing of a scan that is *)
(* over unless the `rm -f' failed, and never changes the exception.        *)
(***************************************************************************)
THEOREM CleanupIsFinal == Safety => CleanupKeepsOutcome
<1>1. CleanInv => NoResidue
  BY DEF CleanInv, Removed, Left, NoResidue
<1>2. TypeOK /\ TypeOK' /\ CleanInv /\ [Next]_vars => CleanInv'
  BY CleanStep
<1>3. TypeOK /\ CleanInv /\ CleanInv' /\ [Next]_vars =>
        [/\ NoResidue'
         /\ \A r \in Run :
              /\ pc[r] \in InTry => pc'[r] # "done"
              /\ err[r] # "none" => err'[r] = err[r]
              /\ pc[r] = "cleanup" => err'[r] = err[r]]_vars
  <2> SUFFICES ASSUME TypeOK, CleanInv, CleanInv', [Next]_vars
               PROVE  /\ NoResidue'
                      /\ \A r \in Run :
                           /\ pc[r] \in InTry => pc'[r] # "done"
                           /\ err[r] # "none" => err'[r] = err[r]
                           /\ pc[r] = "cleanup" => err'[r] = err[r]
    OBVIOUS
  <2>1. NoResidue'
    BY DEF CleanInv, Removed, Left, NoResidue
  <2> QED BY <2>1, OutcomeStep DEF KeepsOutcome
<1> QED BY <1>2, <1>3, CleanInit, TypeCorrect, PTL DEF Safety, CleanupKeepsOutcome
==============================================================================
