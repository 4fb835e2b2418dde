------------------------------ MODULE FleetSpec ------------------------------
(***************************************************************************)
(* What `ks-gen verify --hosts' promises: every host of the hosts file is  *)
(* judged once, on its own, in any order; the exit code sums up all of     *)
(* them.  A command that cannot start judges no host, and one that cannot  *)
(* write its artifact says so only after it has judged them all.           *)
(***************************************************************************)
EXTENDS ExitCodes, Integers

CONSTANT N                    \* hosts 1..N, in hosts-file order

VARIABLES status,             \* the verdict on each host
          code                \* the exit code, NoCode while running

NoCode  == -1
Verdict == {"clean", "verify_fail", "drift", "transport"}
Pending == "pending"

AllPending == \A i \in 1 .. N : status[i] = Pending
AllJudged  == \A i \in 1 .. N : status[i] # Pending
Some(v)    == \E i \in 1 .. N : status[i] = v

Init == /\ status = [i \in 1 .. N |-> Pending]
        /\ code = NoCode

Judge(i) == /\ code = NoCode
            /\ status[i] = Pending
            /\ \E v \in Verdict : status' = [status EXCEPT ![i] = v]
            /\ UNCHANGED code

\* The exit code is a real failure if there is one, else a host that could not
\* be judged, else drift; OK vouches for every host.
Finish == /\ code = NoCode
          /\ N > 0
          /\ AllJudged
          /\ code' \in {OK, VERIFY_FAIL, TRANSPORT_FAIL, TAILORING_DRIFT}
          /\ code' = OK <=> \A i \in 1 .. N : status[i] = "clean"
          /\ code' = VERIFY_FAIL <=> Some("verify_fail")
          /\ code' = TAILORING_DRIFT =>
                 Some("drift") /\ ~Some("transport")
          /\ UNCHANGED status

Refuse == /\ code = NoCode
          /\ AllPending
          /\ code' \in {USAGE, TOOL_MISSING}
          /\ UNCHANGED status

ArtifactLost == /\ code = NoCode
                /\ AllJudged
                /\ code' = USAGE
                /\ UNCHANGED status

Next == (\E i \in 1 .. N : Judge(i)) \/ Finish \/ Refuse \/ ArtifactLost

Spec == Init /\ [][Next]_<<status, code>>
==============================================================================
