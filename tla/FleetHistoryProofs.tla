-------------------------- MODULE FleetHistoryProofs --------------------------
(***************************************************************************)
(* Theorems about Fleet, for a hosts file and a pool of any size: no host  *)
(* is lost, the history lines are in order, and the command implements     *)
(* FleetSpec.                                                              *)
(*                                                                         *)
(* Then theorems about History, whose files those lines are in, for any    *)
(* number of hosts, runs, writes and faults: a history that can be read is *)
(* the true one, what is told of it fits the runs, and no overlap mixes    *)
(* the hosts up or makes a run count twice.                                *)
(***************************************************************************)
EXTENDS Fleet, History, FiniteSetTheorems, WellFoundedInduction, TLAPS

(***************************************************************************)
(* The inductive invariant: NoHostLost, and what each step of the main     *)
(* thread says about the pool.                                             *)
(***************************************************************************)
Phase ==
    /\ main = "exit" <=> code # NoCode
    /\ main \in {"parse", "tools", "auth"} => submitted = 0
    /\ main # "parse" => N > 0 \/ main = "exit"
    /\ main = "submit" => submitted < N
    /\ main \in {"join", "emit", "record"} => submitted = N
    /\ main \in {"emit", "record"} => taken = N
    /\ main = "exit" => taken = submitted
    /\ \A w \in Worker : worker[w] # 0 =>
           main \in {"submit", "join"} /\ worker[w] \in 1 .. taken

PoolInv == TypeOK /\ NoHostLost /\ Phase

-----------------------------------------------------------------------------
\* The facts about HostOutcome that the proofs use.
LEMMA OutcomeFacts ==
    /\ NoOutcome \notin Outcome
    /\ Status(NoOutcome) = "pending"
    /\ \A o \in Outcome : Status(o) \in {"clean", "verify_fail", "drift", "transport"}
    /\ \A e \in {USAGE, CONFIG_INVALID, RULE_CONFLICT, TOOL_MISSING, VERIFY_FAIL,
               TRANSPORT_FAIL} :
           ErrorWith(e) \in Outcome
BY DEF NoOutcome, Outcome, ReportOutcome, ErrorOutcome, Status, ErrorWith

\* There is always a worker: max(1, jobs).
LEMMA WorkerFacts == Worker # {} /\ 0 \notin Spec1N /\ Spec1N \subseteq 0 .. N
BY FleetAssumption DEF Worker, Spec1N

\* A task that ends keeps the invariant: its worker is the only one on it.
LEMMA StoreKeeps ==
    ASSUME PoolInv, NEW w \in Worker, NEW o \in Outcome,
           worker[w] # 0, Store(w, o),
           UNCHANGED <<main, lineOk, cfgOk, edits, submitted, taken, next, records, code>>
    PROVE  PoolInv'
<1> USE FleetAssumption, OutcomeFacts DEF PoolInv
<1>1. worker[w] \in Spec1N /\ worker[w] \in 1 .. taken
  BY DEF TypeOK, Phase, Spec1N
<1>2. TypeOK'
  BY <1>1 DEF TypeOK, Store, Spec1N
<1>3. NoHostLost'
  <2>1. \A i \in 1 .. taken' :
            (results'[i] = NoOutcome) <=> \E v \in Worker : worker'[v] = i
    BY <1>1 DEF NoHostLost, TypeOK, Store, Spec1N
  <2>2. \A i \in taken' + 1 .. N : results'[i] = NoOutcome
    BY <1>1 DEF NoHostLost, TypeOK, Store, Spec1N
  <2>3. \A u, v \in Worker : u # v /\ worker'[u] # 0 => worker'[u] # worker'[v]
    BY DEF NoHostLost, TypeOK, Store
  <2>4. main' \in {"emit", "record"} => \A i \in Spec1N : results'[i] # NoOutcome
    BY <1>1 DEF Phase
  <2> QED BY <2>1, <2>2, <2>3, <2>4 DEF NoHostLost
<1>4. Phase'
  BY <1>1 DEF Phase, TypeOK, Store
<1> QED BY <1>2, <1>3, <1>4

\* What a worker does with a task is to load its configuration or to store its
\* outcome.
LEMMA WorkerStores ==
    ASSUME NEW w \in Worker, LoadConfig(w) \/ Verify(w) \/ Guarded(w)
    PROVE  /\ worker[w] # 0
           /\ UNCHANGED <<main, lineOk, cfgOk, edits, submitted, taken, next, records, code>>
           /\ \/ \E o \in Outcome : Store(w, o)
              \/ loaded' = [loaded EXCEPT ![w] = TRUE] /\ UNCHANGED <<worker, results>>
<1>1. CASE LoadConfig(w)
  BY <1>1, OutcomeFacts DEF LoadConfig
<1>2. CASE Verify(w)
  BY <1>2 DEF Verify
<1>3. CASE Guarded(w)
  BY <1>3, OutcomeFacts DEF Guarded
<1> QED BY <1>1, <1>2, <1>3

-----------------------------------------------------------------------------
\* The invariant is established, and every step preserves it.
LEMMA PoolInit == Init => PoolInv
BY FleetAssumption, OutcomeFacts, WorkerFacts
   DEF Init, PoolInv, TypeOK, NoHostLost, Phase, NoCode, Spec1N

\* One step of the command, of a worker or of an editor.
LEMMA PoolStep == PoolInv /\ [Next]_vars => PoolInv'
<1> SUFFICES ASSUME PoolInv, [Next]_vars PROVE PoolInv'
  OBVIOUS
<1> USE FleetAssumption, OutcomeFacts, WorkerFacts DEF PoolInv
<1>1. CASE ParseHostsFile \/ CheckTools \/ ResolveSudoAuth
  <2>1. taken = 0 /\ submitted = 0
    BY <1>1 DEF ParseHostsFile, CheckTools, ResolveSudoAuth, Phase, TypeOK
  <2> QED BY <1>1, <2>1
          DEF ParseHostsFile, CheckTools, ResolveSudoAuth, Exit, HostsFileOk,
              TypeOK, NoHostLost, Phase, NoCode, USAGE, TOOL_MISSING
<1>2. CASE Submit
  BY <1>2 DEF Submit, TypeOK, NoHostLost, Phase
<1>3. ASSUME NEW w \in Worker, Take(w) PROVE PoolInv'
  <2>1. taken' = taken + 1 /\ taken' \in 1 .. submitted /\ taken' \in 1 .. N
    BY <1>3 DEF Take, TypeOK
  <2>2. TypeOK'
    BY <1>3, <2>1 DEF Take, TypeOK
  <2>3. main \in {"submit", "join"}
    BY <1>3, <2>1 DEF Take, TypeOK, Phase
  <2>4. Phase'
    BY <1>3, <2>1, <2>3 DEF Take, TypeOK, Phase
  <2>5. \A v \in Worker : worker[v] \in 0 .. taken
    BY DEF Phase, TypeOK
  <2>6. \A i \in 1 .. taken' :
            (results'[i] = NoOutcome) <=> \E v \in Worker : worker'[v] = i
    BY <1>3, <2>1, <2>5 DEF Take, TypeOK, NoHostLost
  <2>7. \A u, v \in Worker : u # v /\ worker'[u] # 0 => worker'[u] # worker'[v]
    BY <1>3, <2>1, <2>5 DEF Take, TypeOK, NoHostLost
  <2>8. NoHostLost'
    BY <1>3, <2>1, <2>3, <2>6, <2>7 DEF Take, TypeOK, NoHostLost
  <2> QED BY <2>2, <2>4, <2>8
<1>4. ASSUME NEW w \in Worker, LoadConfig(w) \/ Verify(w) \/ Guarded(w) PROVE PoolInv'
  <2>1. CASE \E o \in Outcome : Store(w, o)
    BY <1>4, <2>1, WorkerStores, StoreKeeps
  <2>2. CASE loaded' = [loaded EXCEPT ![w] = TRUE] /\ UNCHANGED <<worker, results>>
    BY <1>4, <2>2, WorkerStores DEF TypeOK, NoHostLost, Phase
  <2> QED BY <1>4, <2>1, <2>2, WorkerStores
<1>5. CASE Join
  <2>1. \A i \in Spec1N : results[i] # NoOutcome
    BY <1>5 DEF Join, TypeOK, NoHostLost, Spec1N
  <2> QED BY <1>5, <2>1 DEF Join, TypeOK, NoHostLost, Phase
<1>6. CASE Emit
  BY <1>6 DEF Emit, Exit, TypeOK, NoHostLost, Phase, NoCode, USAGE
<1>7. CASE RecordRun
  <2>1. next \in Spec1N /\ next' \in 1 .. N + 1
    BY <1>7 DEF RecordRun, TypeOK, Spec1N
  <2>2. records' \in Seq(Spec1N)
    <3>1. records \in Seq(Spec1N)
      BY DEF TypeOK
    <3>2. Append(records, next) \in Seq(Spec1N)
      BY <2>1, <3>1
    <3> QED BY <1>7, <3>1, <3>2 DEF RecordRun
  <2>3. TypeOK'
    BY <1>7, <2>1, <2>2 DEF RecordRun, TypeOK
  <2>4. NoHostLost' /\ Phase'
    BY <1>7 DEF RecordRun, NoHostLost, Phase
  <2> QED BY <2>3, <2>4
<1>8. CASE Finish
  <2>1. AggregateExitCode \in {VERIFY_FAIL, TRANSPORT_FAIL, TAILORING_DRIFT, OK}
    BY DEF AggregateExitCode
  <2> QED BY <1>8, <2>1
          DEF Finish, Exit, TypeOK, NoHostLost, Phase, NoCode, VERIFY_FAIL,
              TRANSPORT_FAIL, TAILORING_DRIFT, OK
<1>9. ASSUME NEW i \in Spec1N, EditConfig(i) PROVE PoolInv'
  BY <1>9 DEF EditConfig, TypeOK, NoHostLost, Phase
<1>10. CASE UNCHANGED vars
  BY <1>10 DEF vars, TypeOK, NoHostLost, Phase
<1> QED BY <1>1, <1>2, <1>3, <1>4, <1>5, <1>6, <1>7, <1>8, <1>9, <1>10
        DEF Next, MainStep, WorkerStep

\* The types, for a fleet and a pool of any size.
THEOREM TypeCorrect == Safety => []TypeOK
<1>1. PoolInv => TypeOK
  BY DEF PoolInv
<1> QED BY <1>1, PoolInit, PoolStep, PTL DEF Safety

\* run_fleet loses no host and verifies none twice, whichever workers raise.
THEOREM PoolLosesNoHost == Safety => []NoHostLost
<1>1. PoolInv => NoHostLost
  BY DEF PoolInv
<1> QED BY <1>1, PoolInit, PoolStep, PTL DEF Safety

-----------------------------------------------------------------------------
\* The history lines are in hosts-file order and belong to hosts with a report.
THEOREM RecordsOrdered == Safety => []RecordsInOrder
<1>1. Init => RecordsInOrder
  BY DEF Init, RecordsInOrder
<1>2. PoolInv /\ RecordsInOrder /\ [Next]_vars => RecordsInOrder'
  <2> SUFFICES ASSUME PoolInv, RecordsInOrder, [Next]_vars PROVE RecordsInOrder'
    OBVIOUS
  <2> USE FleetAssumption, OutcomeFacts DEF PoolInv
  <2>1. CASE RecordRun
    <3>1. next \in Spec1N
      BY <2>1 DEF RecordRun, TypeOK, Spec1N
    <3>2. CASE UNCHANGED records
      BY <2>1, <3>2 DEF RecordRun, RecordsInOrder, TypeOK, Spec1N
    <3>3. CASE results[next].kind = "report" /\ records' = Append(records, next)
      BY <2>1, <3>1, <3>3 DEF RecordRun, RecordsInOrder, TypeOK, Spec1N
    <3> QED BY <2>1, <3>2, <3>3 DEF RecordRun
  <2>2. ASSUME NEW w \in Worker, WorkerStep(w) PROVE RecordsInOrder'
    <3>1. CASE Take(w)
      BY <2>2, <3>1 DEF Take, RecordsInOrder
    <3>2. ASSUME NEW o \in Outcome, Store(w, o), worker[w] # 0, UNCHANGED <<next, records>>
          PROVE  RecordsInOrder'
      <4>1. results[worker[w]] = NoOutcome
        BY <3>2 DEF TypeOK, Phase, NoHostLost
      <4>2. \A k \in 1 .. Len(records) : records[k] \in Spec1N /\ records[k] # worker[w]
        BY <4>1 DEF RecordsInOrder, NoOutcome, TypeOK
      <4> QED BY <3>2, <4>2 DEF Store, RecordsInOrder, TypeOK
    <3> QED BY <2>2, <3>1, <3>2, WorkerStores DEF WorkerStep, RecordsInOrder
  <2>3. CASE (MainStep /\ ~RecordRun) \/ (\E i \in Spec1N : EditConfig(i)) \/ UNCHANGED vars
    BY <2>3 DEF MainStep, ParseHostsFile, CheckTools, ResolveSudoAuth, Submit, Join,
                Emit, Finish, EditConfig, vars, RecordsInOrder
  <2> QED BY <2>1, <2>2, <2>3 DEF Next, MainStep
<1> QED BY <1>1, <1>2, PoolInit, PoolStep, PTL DEF Safety

-----------------------------------------------------------------------------
(***************************************************************************)
(* The refinement                                                          *)
(***************************************************************************)
Verdicts == [i \in Spec1N |-> Status(results[i])]

\* aggregate_exit_code, restated host by host.
LEMMA AggregateMeans ==
    ASSUME PoolInv, \A i \in Spec1N : results[i] # NoOutcome
    PROVE  /\ AggregateExitCode \in {OK, VERIFY_FAIL, TRANSPORT_FAIL, TAILORING_DRIFT}
           /\ AggregateExitCode = OK <=> \A i \in Spec1N : Status(results[i]) = "clean"
           /\ AggregateExitCode = VERIFY_FAIL <=>
                  \E i \in Spec1N : Status(results[i]) = "verify_fail"
           /\ AggregateExitCode = TAILORING_DRIFT =>
                  /\ \E i \in Spec1N : Status(results[i]) = "drift"
                  /\ \A i \in Spec1N : Status(results[i]) # "transport"
<1>1. \A i \in Spec1N : Status(results[i]) \in {"clean", "verify_fail", "drift", "transport"}
  BY OutcomeFacts DEF PoolInv, TypeOK
<1> QED BY <1>1 DEF AggregateExitCode, OK, VERIFY_FAIL, TRANSPORT_FAIL, TAILORING_DRIFT

\* A finished task is one host judged.
LEMMA StoreJudges ==
    ASSUME PoolInv, NEW w \in Worker, NEW o \in Outcome, worker[w] # 0, Store(w, o),
           UNCHANGED code
    PROVE  Abstract!Judge(worker[w]) /\ worker[w] \in 1 .. N
<1>1. worker[w] \in Spec1N /\ worker[w] \in 1 .. N /\ code = NoCode
  BY FleetAssumption DEF PoolInv, TypeOK, Phase, Spec1N
<1>2. Verdicts[worker[w]] = "pending"
  <2>1. results[worker[w]] = NoOutcome
    BY DEF PoolInv, TypeOK, Phase, NoHostLost
  <2> QED BY <1>1, <2>1, OutcomeFacts DEF Verdicts
<1>3. Verdicts' = [Verdicts EXCEPT ![worker[w]] = Status(o)]
  BY <1>1 DEF Verdicts, Store, PoolInv, TypeOK
<1>4. Status(o) \in Abstract!Verdict
  BY OutcomeFacts DEF Abstract!Verdict
<1> QED BY <1>1, <1>2, <1>3, <1>4
        DEF Abstract!Judge, Abstract!NoCode, NoCode, Abstract!Pending, Verdicts

\* `ks-gen verify --hosts' keeps the promises of FleetSpec, whatever the size of
\* the fleet and of the pool and in whatever order the hosts answer.
THEOREM Implements == Safety => ImplementsFleetSpec
<1>1. Init => Abstract!Init
  BY OutcomeFacts DEF Init, Abstract!Init, Abstract!NoCode, NoCode, Abstract!Pending, Spec1N
<1>2. PoolInv /\ [Next]_vars => [Abstract!Next]_<<Verdicts, code>>
  <2> SUFFICES ASSUME PoolInv, [Next]_vars, ~UNCHANGED <<Verdicts, code>>
               PROVE  Abstract!Next
    OBVIOUS
  <2> USE DEF Abstract!NoCode, NoCode
  <2>1. CASE ParseHostsFile \/ CheckTools \/ ResolveSudoAuth
    <3>1. \A i \in Spec1N : results[i] = NoOutcome
      BY <2>1, FleetAssumption
         DEF PoolInv, TypeOK, Phase, NoHostLost, ParseHostsFile, CheckTools,
             ResolveSudoAuth, Spec1N
    <3>2. code = NoCode /\ code' \in {USAGE, TOOL_MISSING} /\ UNCHANGED Verdicts
      BY <2>1 DEF PoolInv, Phase, ParseHostsFile, CheckTools, ResolveSudoAuth, Exit,
                  Verdicts
    <3> QED BY <3>1, <3>2, OutcomeFacts
            DEF Abstract!Next, Abstract!Refuse, Abstract!AllPending, Abstract!Pending,
                Abstract!USAGE, Abstract!TOOL_MISSING, USAGE, TOOL_MISSING, Spec1N,
                Verdicts
  <2>2. ASSUME NEW w \in Worker, WorkerStep(w) PROVE Abstract!Next
    <3>1. PICK o \in Outcome : Store(w, o) /\ worker[w] # 0 /\ UNCHANGED code
      BY <2>2, WorkerStores DEF WorkerStep, Take, Verdicts
    <3> QED BY <3>1, StoreJudges DEF Abstract!Next
  <2>3. CASE Join
    <3>1. \A i \in Spec1N : results[i] # NoOutcome
      BY <2>3, FleetAssumption DEF Join, PoolInv, TypeOK, NoHostLost, Spec1N
    <3> QED BY <2>3, <3>1 DEF Join, Verdicts
  <2>4. CASE Emit \/ Finish
    <3>1. \A i \in Spec1N : results[i] # NoOutcome
      BY <2>4 DEF Emit, Finish, PoolInv, NoHostLost
    <3>2. Abstract!AllJudged
      BY <3>1, OutcomeFacts DEF Abstract!AllJudged, Abstract!Pending, Spec1N, PoolInv,
                                TypeOK
    <3>3. code = NoCode /\ UNCHANGED results /\ N > 0
      BY <2>4 DEF Emit, Finish, PoolInv, Phase
    <3>4. CASE Emit
      BY <3>2, <3>3, <3>4 DEF Emit, Exit, Abstract!Next, Abstract!ArtifactLost,
                              Abstract!USAGE, USAGE, Verdicts
    <3>5. CASE Finish
      BY <3>1, <3>2, <3>3, <3>5, AggregateMeans
         DEF Finish, Exit, Abstract!Next, Abstract!Finish, Abstract!Some, Abstract!OK,
             Abstract!VERIFY_FAIL, Abstract!TRANSPORT_FAIL, Abstract!TAILORING_DRIFT,
             OK, VERIFY_FAIL, TRANSPORT_FAIL, TAILORING_DRIFT, Spec1N, Verdicts
    <3> QED BY <2>4, <3>4, <3>5
  <2>5. CASE Submit \/ RecordRun \/ (\E i \in Spec1N : EditConfig(i)) \/ UNCHANGED vars
    BY <2>5 DEF Submit, RecordRun, EditConfig, vars, Verdicts
  <2> QED BY <2>1, <2>2, <2>3, <2>4, <2>5 DEF Next, MainStep
<1> QED BY <1>1, <1>2, PoolInit, PoolStep, PTL
        DEF Safety, ImplementsFleetSpec, Abstract!Spec, Verdicts

-----------------------------------------------------------------------------
(***************************************************************************)
(* History.  First the lists that Sorted returns: a finite set has exactly *)
(* one in a total order.                                                   *)
(***************************************************************************)
\* The least of some naturals.
LEMMA Least ==
    ASSUME NEW S \in SUBSET Nat, S # {}
    PROVE  \E m \in S : \A y \in S : m <= y
<1>1. PICK m \in S : \A y \in S : <<y, m>> \notin OpToRel(<, Nat)
  BY WFMin, NatLessThanWellFounded, Zenon
<1>2. \A y \in S : ~(y < m)
  BY <1>1 DEF OpToRel
<1> QED BY <1>2

Asymmetric(order) == \A x, y : <<x, y>> \in order => <<y, x>> \notin order

\* s lists the members of S, each once and in order.
Lists(s, S, order) ==
    /\ \E n \in Nat : s \in [1 .. n -> S]
    /\ \A x \in S : \E i \in DOMAIN s : s[i] = x
    /\ \A i, j \in DOMAIN s : i < j => <<s[i], s[j]>> \in order

\* There is one such list.
LEMMA OneList ==
    ASSUME NEW S, NEW order, Asymmetric(order),
           NEW s, Lists(s, S, order), NEW t, Lists(t, S, order), DOMAIN s = DOMAIN t
    PROVE  s = t
<1>1. PICK n \in Nat : s \in [1 .. n -> S] /\ t \in [1 .. n -> S]
  BY DEF Lists
<1> DEFINE D == {i \in 1 .. n : s[i] # t[i]}
<1>2. SUFFICES ASSUME D # {} PROVE FALSE
  BY <1>1
<1>3. PICK i \in D : \A j \in D : i <= j
  <2>1. D \in SUBSET Nat
    OBVIOUS
  <2> HIDE DEF D
  <2> QED BY <1>2, <2>1, Least
<1>4. PICK j \in 1 .. n : s[j] = t[i]
  BY <1>1, <1>3 DEF Lists
<1>5. PICK k \in 1 .. n : t[k] = s[i]
  BY <1>1, <1>3 DEF Lists
<1>6. \A l \in 1 .. n : l < i => s[l] = t[l]
  BY <1>3
<1>7. ~(j < i) /\ ~(k < i)
  <2>1. i \in 1 .. n /\ s[i] # t[i]
    BY <1>3
  <2>2. j < i => <<t[j], t[i]>> \in order
    BY <1>1, <2>1 DEF Lists
  <2>3. k < i => <<s[k], s[i]>> \in order
    BY <1>1, <2>1 DEF Lists
  <2> QED BY <1>4, <1>5, <1>6, <2>2, <2>3 DEF Asymmetric
<1>8. i < j /\ i < k
  BY <1>3, <1>4, <1>5, <1>7
<1>9. <<s[i], t[i]>> \in order /\ <<t[i], s[i]>> \in order
  BY <1>1, <1>3, <1>4, <1>5, <1>8 DEF Lists
<1> QED BY <1>9 DEF Asymmetric

\* A list is as long as the set is large.
LEMMA ListLength ==
    ASSUME NEW S, NEW order, Asymmetric(order), NEW s, Lists(s, S, order)
    PROVE  /\ IsFiniteSet(S) /\ Cardinality(S) \in Nat
           /\ s \in [1 .. Cardinality(S) -> S]
<1>1. PICK n \in Nat : s \in [1 .. n -> S]
  BY DEF Lists
<1>2. s \in Injection(1 .. n, S)
  <2>1. \A i, j \in 1 .. n : i < j => s[i] # s[j]
    BY <1>1 DEF Lists, Asymmetric
  <2>2. \A i, j \in 1 .. n : s[i] = s[j] => i = j
    BY <2>1
  <2> QED BY <1>1, <2>2 DEF Injection, IsInjective
<1>3. s \in Bijection(1 .. n, S)
  BY <1>1, <1>2 DEF Bijection, Surjection, Lists
<1>4. IsFiniteSet(1 .. n) /\ Cardinality(1 .. n) = n
  BY FS_Interval
<1>5. IsFiniteSet(S) /\ Cardinality(S) = n
  BY <1>3, <1>4, FS_Bijection DEF ExistsBijection
<1> QED BY <1>1, <1>5

\* Sorted is the list, if there is one.
LEMMA SortedLists ==
    ASSUME NEW S, NEW order, Asymmetric(order), NEW s, Lists(s, S, order)
    PROVE  Sorted(S, order) = s
<1> DEFINE n == Cardinality(S)
           t == Sorted(S, order)
<1>1. IsFiniteSet(S) /\ n \in Nat /\ s \in [1 .. n -> S]
  BY ListLength
<1>2. \A i, j \in DOMAIN s : i < j => <<s[i], s[j]>> \in order
  BY DEF Lists
<1>3. t \in [1 .. n -> S] /\ \A i, j \in DOMAIN t : i < j => <<t[i], t[j]>> \in order
  BY <1>1, <1>2 DEF Sorted
<1> HIDE DEF t
<1>4. t \in Injection(1 .. n, S)
  <2>1. \A i, j \in 1 .. n : i < j => t[i] # t[j]
    BY <1>3 DEF Asymmetric
  <2>2. \A i, j \in 1 .. n : t[i] = t[j] => i = j
    BY <1>1, <2>1
  <2> QED BY <1>3, <2>2 DEF Injection, IsInjective
<1>5. t \in Surjection(1 .. n, S)
  BY <1>1, <1>4, FS_Interval, FS_Injection
<1>6. Lists(t, S, order)
  BY <1>1, <1>3, <1>5 DEF Surjection, Lists
<1>7. s = t
  BY <1>1, <1>3, <1>6, OneList
<1> QED BY <1>7 DEF t

Transitive(order) == \A x, y, z : <<x, y>> \in order /\ <<y, z>> \in order => <<x, z>> \in order
Total(S, order)   == \A x, y \in S : x # y => <<x, y>> \in order \/ <<y, x>> \in order

\* One more member goes before the first that it precedes.
LEMMA Insertion ==
    ASSUME NEW S, NEW order, Transitive(order), Total(S, order), NEW x \in S,
           NEW s, Lists(s, S \ {x}, order)
    PROVE  \E t : Lists(t, S, order)
<1>1. PICK m \in Nat : s \in [1 .. m -> S \ {x}]
  BY DEF Lists
<1> DEFINE K == {k \in 1 .. m + 1 : k = m + 1 \/ <<x, s[k]>> \in order}
<1>2. PICK k \in K : \A l \in K : k <= l
  <2>1. K \in SUBSET Nat /\ m + 1 \in K
    BY <1>1
  <2> HIDE DEF K
  <2> QED BY <2>1, Least
<1>3. k \in 1 .. m + 1
  BY <1>2
<1>4. \A i \in 1 .. m : i < k => <<s[i], x>> \in order
  <2> SUFFICES ASSUME NEW i \in 1 .. m, i < k PROVE <<s[i], x>> \in order
    OBVIOUS
  <2>1. i \notin K
    <3> HIDE DEF K
    <3> QED BY <1>2, <1>3
  <2> QED BY <1>1, <2>1 DEF Total
<1>5. \A i \in 1 .. m : k <= i => <<x, s[i]>> \in order
  <2> SUFFICES ASSUME NEW i \in 1 .. m, k <= i PROVE <<x, s[i]>> \in order
    OBVIOUS
  <2>1. k \in 1 .. m /\ <<x, s[k]>> \in order
    BY <1>1, <1>2
  <2>2. k = i \/ <<s[k], s[i]>> \in order
    BY <1>1, <2>1 DEF Lists
  <2> QED BY <2>1, <2>2 DEF Transitive
<1> HIDE DEF K
<1> DEFINE t == [i \in 1 .. m + 1 |-> IF i < k THEN s[i] ELSE IF i = k THEN x ELSE s[i - 1]]
<1>6. t \in [1 .. m + 1 -> S]
  BY <1>1, <1>3
<1>7. \A y \in S : \E i \in 1 .. m + 1 : t[i] = y
  <2> SUFFICES ASSUME NEW y \in S PROVE \E i \in 1 .. m + 1 : t[i] = y
    OBVIOUS
  <2>1. CASE y = x
    BY <1>3, <2>1
  <2>2. CASE y # x
    <3>1. PICK i \in 1 .. m : s[i] = y
      BY <1>1, <2>2 DEF Lists
    <3>2. CASE i < k
      BY <1>1, <3>1, <3>2
    <3>3. CASE ~(i < k)
      <4>1. i + 1 \in 1 .. m + 1 /\ t[i + 1] = y
        BY <1>1, <1>3, <3>1, <3>3
      <4> QED BY <4>1
    <3> QED BY <3>2, <3>3
  <2> QED BY <2>1, <2>2
<1>8. \A i, j \in 1 .. m + 1 : i < j => <<t[i], t[j]>> \in order
  <2> SUFFICES ASSUME NEW i \in 1 .. m + 1, NEW j \in 1 .. m + 1, i < j
               PROVE  <<t[i], t[j]>> \in order
    OBVIOUS
  <2>1. \A a, b \in 1 .. m : a < b => <<s[a], s[b]>> \in order
    BY <1>1 DEF Lists
  <2>2. CASE j < k
    BY <1>1, <1>3, <2>1, <2>2
  <2>3. CASE j = k
    BY <1>1, <1>3, <1>4, <2>3
  <2>4. CASE j > k /\ i < k
    <3>1. i \in 1 .. m /\ j - 1 \in 1 .. m /\ i < j - 1 /\ t[i] = s[i] /\ t[j] = s[j - 1]
      BY <1>1, <1>3, <2>4
    <3> HIDE DEF t
    <3> QED BY <2>1, <3>1
  <2>5. CASE j > k /\ i = k
    <3>1. j - 1 \in 1 .. m /\ k <= j - 1 /\ t[i] = x /\ t[j] = s[j - 1]
      BY <1>1, <1>3, <2>5
    <3> HIDE DEF t
    <3> QED BY <1>5, <3>1
  <2>6. CASE i > k
    <3>1. /\ i - 1 \in 1 .. m /\ j - 1 \in 1 .. m /\ i - 1 < j - 1
          /\ t[i] = s[i - 1] /\ t[j] = s[j - 1]
      BY <1>1, <1>3, <2>6
    <3> HIDE DEF t
    <3> QED BY <2>1, <3>1
  <2> QED BY <1>3, <2>2, <2>3, <2>4, <2>5, <2>6
<1>9. Lists(t, S, order)
  <2>1. m + 1 \in Nat /\ DOMAIN t = 1 .. m + 1
    BY <1>1
  <2> HIDE DEF t
  <2> QED BY <1>6, <1>7, <1>8, <2>1 DEF Lists
<1> QED BY <1>9

\* Every finite set can be sorted: a smallest set that cannot is empty, or lacks one
\* member of a set that can.
LEMMA ListExists ==
    ASSUME NEW S, IsFiniteSet(S), NEW order, Transitive(order), Total(S, order)
    PROVE  \E s : Lists(s, S, order)
<1> DEFINE Bad == {T \in SUBSET S : ~ \E s : Lists(s, T, order)}
           Sizes == {Cardinality(T) : T \in Bad}
<1>1. SUFFICES ASSUME Bad # {} PROVE FALSE
  OBVIOUS
<1>2. \A T \in SUBSET S : IsFiniteSet(T) /\ Cardinality(T) \in Nat
  BY FS_Subset, FS_CardinalityType
<1>3. PICK T \in Bad : \A U \in Bad : Cardinality(T) <= Cardinality(U)
  <2>1. Sizes \in SUBSET Nat /\ Sizes # {}
    BY <1>1, <1>2
  <2>2. PICK n \in Sizes : \A m \in Sizes : n <= m
    <3> HIDE DEF Sizes
    <3> QED BY <2>1, Least
  <2> QED BY <2>2
<1>4. T \in SUBSET S /\ ~ \E s : Lists(s, T, order)
  BY <1>3
<1>5. T # {}
  <2>1. Lists(<<>>, {}, order)
    BY DEF Lists
  <2> QED BY <1>4, <2>1
<1>6. PICK x \in T : TRUE
  BY <1>5
<1>7. Cardinality(T \ {x}) < Cardinality(T)
  BY <1>2, <1>4, FS_RemoveElement
<1>8. PICK s : Lists(s, T \ {x}, order)
  <2>1. T \ {x} \in SUBSET S /\ T \ {x} \notin Bad
    <3> HIDE DEF Bad
    <3> QED BY <1>2, <1>3, <1>4, <1>7
  <2> QED BY <2>1
<1>9. Total(T, order)
  BY <1>4 DEF Total
<1> QED BY <1>4, <1>6, <1>8, <1>9, Insertion

\* What a sort returns.
LEMMA SortedIsList ==
    ASSUME NEW S, IsFiniteSet(S), NEW order,
           Asymmetric(order), Transitive(order), Total(S, order)
    PROVE  Lists(Sorted(S, order), S, order)
BY ListExists, SortedLists

-----------------------------------------------------------------------------
\* The three parts of a line.
LEMMA LineParts ==
    /\ Len(Line) = 3 /\ Line \in Seq(Part)
    /\ Line[1] = "first" /\ Line[2] = "second" /\ Line[3] = "newline"
BY DEF Line, Part

\* What a run appends is the rest of its line, up to some part.
LEMMA WrittenParts ==
    ASSUME NEW r \in Run, left[r] \in 0 .. Len(Line), NEW n \in 1 .. left[r]
    PROVE  /\ Written(r, n) \in Seq(Chunk) /\ Len(Written(r, n)) = n
           /\ \A i \in 1 .. n :
                  /\ Written(r, n)[i] = [run |-> r, part |-> Line[Len(Line) - left[r] + i]]
                  /\ Len(Line) - left[r] + i \in 1 .. 3
<1>1. left[r] \in 0 .. 3 /\ n \in Nat
  BY LineParts
<1>2. \A i \in 1 .. n : 3 - left[r] + i \in 1 .. 3
  BY <1>1
<1>3. \A k \in 1 .. 3 : Line[k] \in Part
  BY LineParts DEF Part
<1>4. \A i \in 1 .. n : [run |-> r, part |-> Line[3 - left[r] + i]] \in Chunk
  BY <1>2, <1>3 DEF Chunk
<1> QED BY <1>1, <1>2, <1>4, LineParts DEF Written

\* The types of the start.
LEMMA TypeInit == HistoryInit => HistoryTypeOK
BY HistoryAssumption, LineParts DEF HistoryInit, HistoryTypeOK

\* Every step keeps the types.
LEMMA TypeStep == HistoryTypeOK /\ [HistoryNext]_HistoryVars => HistoryTypeOK'
<1> SUFFICES ASSUME HistoryTypeOK, [HistoryNext]_HistoryVars PROVE HistoryTypeOK'
  OBVIOUS
<1> USE HistoryAssumption
<1>1. ASSUME NEW r \in Run, Report(r) PROVE HistoryTypeOK'
  <2>1. time' = [time EXCEPT ![r] = clock] /\ pc' = [pc EXCEPT ![r] = "report"]
    BY <1>1 DEF Report, Answer, Goto
  <2>2. report' \in [Run -> [Rule -> Reported]] /\ drift' \in [Run -> BOOLEAN]
    BY <1>1 DEF Report, Answer, HistoryTypeOK
  <2> QED BY <1>1, <2>1, <2>2 DEF Report, Answer, HistoryTypeOK
<1>2. ASSUME NEW r \in Run, Leave(r) \/ Fault(r) PROVE HistoryTypeOK'
  <2>1. /\ UNCHANGED <<report, drift, time, left, file, clock>>
        /\ pc' = [pc EXCEPT ![r] = "done"]
        /\ faults' = faults \/ (faults < MaxFaults /\ faults' = faults + 1)
    BY <1>2 DEF Leave, Fault, Goto
  <2>2. pc' \in [Run -> {"idle", "report", "write", "done"}]
    BY <2>1 DEF HistoryTypeOK
  <2>3. faults' \in 0 .. MaxFaults
    BY <2>1 DEF HistoryTypeOK
  <2> QED BY <2>1, <2>2, <2>3 DEF HistoryTypeOK
<1>3. ASSUME NEW r \in Run, Write(r) PROVE HistoryTypeOK'
  <2>1. left[r] \in 0 .. 3 /\ HostOf[r] \in Host
    BY LineParts DEF HistoryTypeOK
  <2>2. PICK n \in 1 .. left[r] :
            /\ file' = [file EXCEPT ![HostOf[r]] = @ \o Written(r, n)]
            /\ left' = [left EXCEPT ![r] = @ - n]
            /\ pc' = [pc EXCEPT ![r] = IF left[r] = n THEN "done" ELSE "write"]
    BY <1>3 DEF Write, Goto
  <2>3. Written(r, n) \in Seq(Chunk)
    BY <2>1, LineParts, WrittenParts
  <2>4. file' \in [Host -> Seq(Chunk)]
    BY <2>1, <2>2, <2>3 DEF HistoryTypeOK
  <2>5. left' \in [Run -> 0 .. Len(Line)]
    BY <2>1, <2>2, LineParts DEF HistoryTypeOK
  <2> QED BY <1>3, <2>2, <2>4, <2>5 DEF Write, HistoryTypeOK
<1>4. CASE Tick
  BY <1>4 DEF Tick, HistoryTypeOK
<1>5. CASE UNCHANGED HistoryVars
  BY <1>5 DEF HistoryVars, HistoryTypeOK
<1> QED BY <1>1, <1>2, <1>3, <1>4, <1>5 DEF HistoryNext

\* The variables stay in their types: no run writes past the end of its line.
THEOREM HistoryTyped == HistorySpec => []HistoryTypeOK
BY TypeInit, TypeStep, PTL DEF HistorySpec

-----------------------------------------------------------------------------
\* The order of a history.
Chronological(f) == {p \in Records(f) \X Records(f) : Before(f, p[1], p[2])}

\* A file has finitely many records, each of two chunks and of some run.
LEMMA RecordsOfFile ==
    ASSUME NEW f \in Seq(Chunk)
    PROVE  /\ IsFiniteSet(Records(f))
           /\ \A l \in Records(f) : /\ l = <<l[1], l[1] + 1>> /\ l[1] \in DOMAIN f
                                    /\ l[1] \in Nat /\ RunAt(f, l) \in Run
<1>1. IsFiniteSet(1 .. Len(f))
  BY FS_Interval
<1>2. IsFiniteSet((1 .. Len(f)) \X (1 .. Len(f)))
  BY <1>1, FS_Product
<1>3. Records(f) \in SUBSET ((1 .. Len(f)) \X (1 .. Len(f)))
  BY DEF Records, LinesOf
<1>4. IsFiniteSet(Records(f))
  BY <1>2, <1>3, FS_Subset
<1>5. ASSUME NEW l \in Records(f)
      PROVE  /\ l = <<l[1], l[1] + 1>> /\ l[1] \in DOMAIN f
             /\ l[1] \in Nat /\ RunAt(f, l) \in Run
  <2>1. l = <<l[1], l[2]>> /\ l[1] \in 1 .. Len(f) /\ l[2] = l[1] + 1
    BY <1>3 DEF Records, IsRecord
  <2>2. f[l[1]] \in Chunk
    BY <2>1
  <2> QED BY <2>1, <2>2 DEF RunAt, Chunk
<1> QED BY <1>4, <1>5

\* It orders any two records, those of the same second as they are in the file.
LEMMA ChronologicalOrder ==
    ASSUME HistoryTypeOK, NEW f \in Seq(Chunk)
    PROVE  /\ Asymmetric(Chronological(f)) /\ Transitive(Chronological(f))
           /\ Total(Records(f), Chronological(f))
<1> DEFINE T(l) == time[RunAt(f, l)]
<1>1. \A l \in Records(f) : T(l) \in Nat /\ l[1] \in Nat /\ l = <<l[1], l[1] + 1>>
  BY RecordsOfFile, HistoryAssumption DEF HistoryTypeOK
<1>2. \A l, m : <<l, m>> \in Chronological(f) <=>
          l \in Records(f) /\ m \in Records(f) /\ (T(l) < T(m) \/ (T(l) = T(m) /\ l[1] < m[1]))
  BY DEF Chronological, Before
<1> HIDE DEF T
<1>3. Asymmetric(Chronological(f))
  BY <1>1, <1>2 DEF Asymmetric
<1>4. Transitive(Chronological(f))
  <2> SUFFICES ASSUME NEW x, NEW y, NEW z,
                      <<x, y>> \in Chronological(f), <<y, z>> \in Chronological(f)
               PROVE  <<x, z>> \in Chronological(f)
    BY DEF Transitive
  <2>1. /\ x \in Records(f) /\ y \in Records(f) /\ z \in Records(f)
        /\ T(x) < T(y) \/ (T(x) = T(y) /\ x[1] < y[1])
        /\ T(y) < T(z) \/ (T(y) = T(z) /\ y[1] < z[1])
    BY <1>2
  <2>2. T(x) < T(z) \/ (T(x) = T(z) /\ x[1] < z[1])
    BY <1>1, <2>1
  <2> QED BY <1>2, <2>1, <2>2
<1>5. Total(Records(f), Chronological(f))
  <2> SUFFICES ASSUME NEW x \in Records(f), NEW y \in Records(f), x # y
               PROVE  <<x, y>> \in Chronological(f) \/ <<y, x>> \in Chronological(f)
    BY DEF Total
  <2>1. x[1] # y[1]
    BY <1>1
  <2> QED BY <1>1, <1>2, <2>1
<1> QED BY <1>3, <1>4, <1>5

\* A history is a list of runs, whatever the file holds.
LEMMA HistoryOfRuns ==
    ASSUME HistoryTypeOK, NEW f \in Seq(Chunk)
    PROVE  ReadHostHistory(f) \in Seq(Run)
<1> DEFINE s == Sorted(Records(f), Chronological(f))
<1>1. Lists(s, Records(f), Chronological(f))
  BY RecordsOfFile, ChronologicalOrder, SortedIsList
<1>2. PICK n \in Nat : s \in [1 .. n -> Records(f)]
  BY <1>1 DEF Lists
<1>3. ReadHostHistory(f) = [k \in DOMAIN s |-> RunAt(f, s[k])]
  BY DEF ReadHostHistory, Chronological
<1> HIDE DEF s
<1>4. \A k \in 1 .. n : RunAt(f, s[k]) \in Run
  BY <1>2, RecordsOfFile
<1> QED BY <1>2, <1>3, <1>4

-----------------------------------------------------------------------------
\* Of a report, history keeps the failing rules with their categories.
Fails(r, x) == x \in Rule /\ report[r][x] \in FailingCategory

\* What failing_rows, failing_rule_ids and the verdict say of it
LEMMA RowsOfReport ==
    ASSUME NEW r
    PROVE  /\ \A row : row \in FailingRows(r) <=>
                  \E x : Fails(r, x) /\ row = <<x, report[r][x]>>
           /\ \A x : x \in FailingIds(r) <=> Fails(r, x)
           /\ RecordClean(r) <=> FailingRows(r) = {}
<1>1. FailingCategories = FailingCategory /\ "clean" \notin FailingCategory
  BY DEF FailingCategories, FailingCategory
<1>2. \A row : row \in FailingRows(r) <=> \E x : Fails(r, x) /\ row = <<x, report[r][x]>>
  BY <1>1 DEF FailingRows, Rows, Fails
<1>3. \A x : x \in FailingIds(r) <=> Fails(r, x)
  <2>1. ASSUME NEW x, x \in FailingIds(r) PROVE Fails(r, x)
    <3>1. PICK row \in FailingRows(r) : x = row[1]
      BY <2>1 DEF FailingIds
    <3>2. PICK y : Fails(r, y) /\ row = <<y, report[r][y]>>
      BY <1>2, <3>1
    <3> QED BY <3>1, <3>2
  <2>2. ASSUME NEW x, Fails(r, x) PROVE x \in FailingIds(r)
    <3>1. <<x, report[r][x]>> \in FailingRows(r)
      BY <1>2, <2>2
    <3>2. \E row \in FailingRows(r) : x = row[1]
      BY <3>1
    <3> QED BY <3>2 DEF FailingIds
  <2> QED BY <2>1, <2>2
<1>4. RecordClean(r) <=> FailingRows(r) = {}
  BY <1>2 DEF RecordClean, Fails
<1> QED BY <1>2, <1>3, <1>4

\* The last run in which a rule did not fail.
LEMMA LastMissIsLast ==
    ASSUME NEW runs \in Seq(Run), NEW x
    PROVE  /\ LastMiss(runs, x) \in 0 .. Len(runs)
           /\ LastMiss(runs, x) > 0 => x \notin FailingIds(runs[LastMiss(runs, x)])
           /\ \A i \in 1 .. Len(runs) : i > LastMiss(runs, x) => x \in FailingIds(runs[i])
<1> DEFINE M == Misses(runs, x)
           Gaps == {Len(runs) - i : i \in M}
<1>1. M \subseteq 0 .. Len(runs) /\ 0 \in M
  BY DEF Misses
<1>2. PICK g \in Gaps : \A j \in Gaps : g <= j
  <2>1. Gaps \in SUBSET Nat /\ Gaps # {}
    BY <1>1
  <2> HIDE DEF Gaps
  <2> QED BY <2>1, Least
<1>3. PICK k \in M : g = Len(runs) - k
  BY <1>2
<1>4. \A j \in M : j <= k
  <2> SUFFICES ASSUME NEW j \in M PROVE j <= k
    OBVIOUS
  <2>1. Len(runs) - j \in Gaps
    OBVIOUS
  <2>2. Len(runs) - k <= Len(runs) - j
    BY <1>2, <1>3, <2>1
  <2>3. j \in Nat /\ k \in Nat
    BY <1>1
  <2> QED BY <2>2, <2>3
<1>5. LastMiss(runs, x) \in M /\ \A j \in M : j <= LastMiss(runs, x)
  BY <1>4 DEF LastMiss
<1> DEFINE m == LastMiss(runs, x)
<1> HIDE DEF m
<1>6. m \in M /\ \A j \in M : j <= m
  BY <1>5 DEF m
<1>7. m \in 0 .. Len(runs)
  BY <1>1, <1>6
<1>8. m > 0 => x \notin FailingIds(runs[m])
  BY <1>6, <1>7 DEF Misses
<1>9. \A i \in 1 .. Len(runs) : i > m => x \in FailingIds(runs[i])
  BY <1>6, <1>7 DEF Misses
<1> QED BY <1>7, <1>8, <1>9 DEF m

\* The trends of any list of runs.
LEMMA TrendsOfRuns ==
    ASSUME NEW runs \in Seq(Run), runs # <<>>, drift \in [Run -> BOOLEAN]
    PROVE  LatestFitsExit(runs) /\ TrendsFit(runs)
<1> DEFINE n == Len(runs)
           r == Latest(runs)
<1>1. n \in Nat /\ n > 0 /\ r = runs[n] /\ r \in Run
  BY DEF Latest
<1>2. ASSUME NEW s, s \in Streaks(runs)
      PROVE  /\ Fails(r, s.rule) /\ s.category = report[r][s.rule]
             /\ s.length = n - LastMiss(runs, s.rule)
  <2>1. PICK row \in FailingRows(r) :
            s = [rule |-> row[1], category |-> row[2], length |-> Length(runs, row[1])]
    BY <1>2 DEF Streaks
  <2>2. PICK x : Fails(r, x) /\ row = <<x, report[r][x]>>
    BY <2>1, RowsOfReport
  <2> QED BY <2>1, <2>2 DEF Length
<1>3. LatestFitsExit(runs)
  <2>1. (Streaks(runs) = {}) <=> RecordClean(r)
    <3>1. (Streaks(runs) = {}) <=> (FailingRows(r) = {})
      BY DEF Streaks
    <3> QED BY <3>1, RowsOfReport
  <2>2. (Verdict(r) = "CLEAN") <=> (ReportExit(RecordClean(r), drift[r]) = OK)
    BY <1>1 DEF Verdict, ReportExit, OK, VERIFY_FAIL, TAILORING_DRIFT
  <2> QED BY <2>1, <2>2 DEF LatestFitsExit
<1>4. ASSUME NEW s, s \in Streaks(runs)
      PROVE  /\ \A i \in 1 .. n : i > n - s.length => s.rule \in FailingIds(runs[i])
             /\ s.length < n => s.rule \notin FailingIds(runs[n - s.length])
             /\ n > 1 => (s.length = 1 <=> <<s.rule, s.category>> \in Delta(runs).added)
  <2> DEFINE m == LastMiss(runs, s.rule)
  <2>1. /\ m \in 0 .. n
        /\ m > 0 => s.rule \notin FailingIds(runs[m])
        /\ \A i \in 1 .. n : i > m => s.rule \in FailingIds(runs[i])
    BY LastMissIsLast
  <2> HIDE DEF m
  <2>2. s.length = n - m /\ n - s.length = m
    BY <1>2, <1>4, <2>1 DEF m
  <2>3. n > 1 => (s.length = 1 <=> <<s.rule, s.category>> \in Delta(runs).added)
    <3> SUFFICES ASSUME n > 1
                 PROVE  s.length = 1 <=> <<s.rule, s.category>> \in Delta(runs).added
      OBVIOUS
    <3>1. <<s.rule, s.category>> \in FailingRows(r)
      BY <1>2, <1>4, RowsOfReport
    <3>2. <<s.rule, s.category>> \in Delta(runs).added <=> s.rule \notin FailingIds(runs[n - 1])
      BY <3>1 DEF Delta, Newly
    <3>3. s.rule \in FailingIds(runs[n])
      BY <1>1, <1>2, <1>4, RowsOfReport
    <3>4. s.rule \notin FailingIds(runs[n - 1]) <=> m = n - 1
      BY <1>1, <2>1, <3>3
    <3> QED BY <1>1, <2>1, <2>2, <3>2, <3>4
  <2> QED BY <1>1, <2>1, <2>2, <2>3
<1>5. ASSUME NEW row \in Delta(runs).recovered, NEW s \in Streaks(runs) PROVE s.rule # row[1]
  <2>1. row[1] \notin FailingIds(r)
    BY <1>5 DEF Delta, Newly
  <2>2. s.rule \in FailingIds(r)
    BY <1>2, RowsOfReport
  <2> QED BY <2>1, <2>2
<1> QED BY <1>3, <1>4, <1>5 DEF TrendsFit

\* Whatever overlaps, is cut or fails, what verify-history says of the runs that it
\* reads fits their exit codes, and verdict, streaks and delta fit each other.
THEOREM TrendsAreTrue == HistorySpec => []TrendsAgree
<1>1. HistoryTypeOK => TrendsAgree
  BY HistoryOfRuns, TrendsOfRuns DEF HistoryTypeOK, TrendsAgree
<1> QED BY <1>1, HistoryTyped, PTL

-----------------------------------------------------------------------------
(***************************************************************************)
(* The inductive invariant.  A file is whole, the lines of the runs that   *)
(* wrote to it, in their order and the last one perhaps unfinished; or it  *)
(* is torn: a run has begun its line behind one that was broken off.       *)
(***************************************************************************)
\* The runs that have begun their line
Wrote(h) == {r \in Run : HostOf[r] = h /\ left[r] < Len(Line)}

\* How many parts the last line lacks
Missing(s) == IF s = <<>> THEN 0 ELSE left[s[Len(s)]]

\* The file of h is made of the lines of the runs s.
Whole(h, s) ==
    /\ \A r \in Wrote(h) : \E k \in DOMAIN s : s[k] = r
    /\ \A k \in DOMAIN s : s[k] \in Wrote(h)
    /\ \A j, k \in DOMAIN s : j < k => s[j] < s[k]
    /\ \A k \in DOMAIN s : k < Len(s) => left[s[k]] = 0
    /\ Len(file[h]) = 3 * Len(s) - Missing(s)
    /\ \A k \in DOMAIN s : \A m \in 1 .. 3 :
           3 * (k - 1) + m <= Len(file[h]) =>
               file[h][3 * (k - 1) + m] = [run |-> s[k], part |-> Line[m]]

\* A line that begins in the middle of another
BrokenAt(f, k) == f[k].part # "newline" /\ f[k + 1].part = "first"

Torn(h) ==
    /\ \E k \in 1 .. Len(file[h]) - 1 : BrokenAt(file[h], k)
    /\ \E r \in Run : HostOf[r] = h /\ pc[r] = "done" /\ left[r] \in 1 .. 2

Stored == \A h \in Host : (\E s \in Seq(Run) : Whole(h, s)) \/ Torn(h)

\* Runs of a host come one after the other.
Turns ==
    \A q, r \in Run : HostOf[q] = HostOf[r] /\ q < r /\ pc[r] # "idle" =>
        pc[q] = "done" /\ time[q] <= time[r]

\* What the step that a run is at says of its line; and no time is in the future.
Steps ==
    \A r \in Run :
        /\ pc[r] \in {"idle", "report"} => left[r] = Len(Line)
        /\ pc[r] = "write" => left[r] \in 1 .. 2
        /\ time[r] <= clock

StoreInv == HistoryTypeOK /\ Turns /\ Steps /\ Stored

\* A broken line is malformed, however the file goes on.
LEMMA BrokenIsMalformed ==
    ASSUME NEW f \in Seq(Chunk), NEW k \in 1 .. Len(f) - 1, BrokenAt(f, k)
    PROVE  Malformed(f)
<1> DEFINE A == {a \in 1 .. k : \A c \in a .. k : c \notin Newlines(f)}
           B == {b \in k + 1 .. Len(f) : b = Len(f) \/ b + 1 \in Newlines(f)}
<1>0. Len(f) \in Nat /\ k \in Nat /\ k >= 1 /\ k < Len(f)
  OBVIOUS
<1>1. k \notin Newlines(f) /\ k + 1 \notin Newlines(f)
  BY DEF BrokenAt, Newlines
<1>2. PICK a \in A : \A c \in A : a <= c
  <2>1. A \in SUBSET Nat /\ k \in A
    BY <1>0, <1>1
  <2> HIDE DEF A
  <2> QED BY <2>1, Least
<1>3. PICK b \in B : \A c \in B : b <= c
  <2>1. B \in SUBSET Nat /\ Len(f) \in B
    BY <1>0
  <2> HIDE DEF B
  <2> QED BY <2>1, Least
<1>4. a \in 1 .. k /\ \A c \in a .. k : c \notin Newlines(f)
  BY <1>2
<1>5. a - 1 \in Newlines(f) \cup {0}
  <2> SUFFICES ASSUME a # 1, a - 1 \notin Newlines(f) PROVE FALSE
    BY <1>4
  <2>1. a - 1 \in 1 .. k /\ \A c \in a - 1 .. k : c = a - 1 \/ c \in a .. k
    BY <1>0, <1>4
  <2>2. a - 1 \in A
    BY <1>4, <2>1
  <2> HIDE DEF A
  <2> QED BY <1>2, <1>4, <2>2
<1>6. b \in k + 1 .. Len(f) /\ b + 1 \in Newlines(f) \cup {Len(f) + 1}
  BY <1>3
<1>7. \A c \in k + 1 .. b : c \notin Newlines(f)
  <2> SUFFICES ASSUME NEW c \in k + 1 .. b, c # k + 1, c \in Newlines(f) PROVE FALSE
    BY <1>1
  <2>1. c - 1 \in k + 1 .. Len(f) /\ (c - 1) + 1 = c
    BY <1>0, <1>6
  <2>2. c - 1 \in B
    BY <2>1
  <2>3. c - 1 < b
    BY <1>0, <1>6
  <2> HIDE DEF B
  <2> QED BY <1>3, <1>6, <1>0, <2>1, <2>2, <2>3
<1> HIDE DEF A, B
<1>8. \A c \in a .. b : c \notin Newlines(f)
  <2>1. \A c \in a .. b : c \in a .. k \/ c \in k + 1 .. b
    BY <1>0, <1>4, <1>6
  <2> QED BY <1>4, <1>7, <2>1
<1>9. <<a, b>> \in LinesOf(f)
  BY <1>0, <1>4, <1>5, <1>6, <1>8 DEF LinesOf
<1>10. ~ IsRecord(f, <<a, b>>)
  <2> SUFFICES ASSUME b = a + 1, f[b].part = "second" PROVE FALSE
    BY DEF IsRecord
  <2>1. b = k + 1
    BY <1>0, <1>4, <1>6
  <2> QED BY <2>1 DEF BrokenAt
<1> QED BY <1>9, <1>10 DEF Malformed

\* Where the lines of a whole file are.
LEMMA NewlinesOfWhole ==
    ASSUME HistoryTypeOK, NEW h \in Host, NEW s \in Seq(Run), Whole(h, s)
    PROVE  /\ Missing(s) \in 0 .. 2 /\ (s = <<>> => Missing(s) = 0)
           /\ \A p \in 1 .. Len(file[h]) : \E k \in DOMAIN s : \E m \in 1 .. 3 :
                  p = 3 * (k - 1) + m
           /\ Newlines(file[h]) = {p \in 1 .. Len(file[h]) : \E k \in DOMAIN s : p = 3 * k}
<1> DEFINE f == file[h]
           n == Len(s)
<1>1. n \in Nat /\ DOMAIN s = 1 .. n /\ f \in Seq(Chunk) /\ Len(f) \in Nat
  BY DEF HistoryTypeOK
<1>2. Missing(s) \in 0 .. 2 /\ (s = <<>> => Missing(s) = 0)
  <2>1. CASE s = <<>>
    BY <2>1 DEF Missing
  <2>2. CASE s # <<>>
    <3>1. n \in DOMAIN s
      BY <1>1, <2>2
    <3>2. s[n] \in Run /\ left[s[n]] < 3
      BY <3>1, LineParts DEF Whole, Wrote
    <3>3. left[s[n]] \in 0 .. 3
      BY <3>2, LineParts DEF HistoryTypeOK
    <3> QED BY <2>2, <3>2, <3>3 DEF Missing
  <2> QED BY <2>1, <2>2
<1>3. Len(f) = 3 * n - Missing(s)
  BY DEF Whole
<1>4. \A p \in 1 .. Len(f) : \E k \in DOMAIN s : \E m \in 1 .. 3 : p = 3 * (k - 1) + m
  <2> SUFFICES ASSUME NEW p \in 1 .. Len(f)
               PROVE  \E k \in DOMAIN s : \E m \in 1 .. 3 : p = 3 * (k - 1) + m
    OBVIOUS
  <2> DEFINE k == (p + 2) \div 3
             m == p - 3 * (k - 1)
  <2>1. p \in Nat /\ p >= 1 /\ p <= 3 * n
    BY <1>1, <1>2, <1>3
  <2>2. k \in 1 .. n /\ m \in 1 .. 3
    BY <1>1, <2>1
  <2>3. p = 3 * (k - 1) + m
    BY <2>1, <2>2
  <2> HIDE DEF k, m
  <2> QED BY <1>1, <2>2, <2>3
<1>5. \A p \in 1 .. Len(f) : p \in Newlines(f) <=> \E k \in DOMAIN s : p = 3 * k
  <2> SUFFICES ASSUME NEW p \in 1 .. Len(f)
               PROVE  f[p].part = "newline" <=> \E k \in DOMAIN s : p = 3 * k
    BY <1>1 DEF Newlines
  <2>1. PICK k \in DOMAIN s, m \in 1 .. 3 : p = 3 * (k - 1) + m
    BY <1>4
  <2>2. f[p].part = Line[m]
    <3>1. 3 * (k - 1) + m <= Len(f)
      BY <1>1, <2>1
    <3>2. f[3 * (k - 1) + m] = [run |-> s[k], part |-> Line[m]]
      BY <3>1 DEF Whole
    <3> QED BY <2>1, <3>2
  <2>3. Line[m] = "newline" <=> m = 3
    BY LineParts
  <2>4. m = 3 <=> \E j \in DOMAIN s : p = 3 * j
    BY <1>1, <2>1
  <2> QED BY <2>2, <2>3, <2>4
<1>6. Newlines(f) \subseteq 1 .. Len(f)
  BY <1>1 DEF Newlines
<1> QED BY <1>2, <1>4, <1>5, <1>6


\* A whole file is read as the runs that wrote it; it is malformed only while the
\* last one has no more than half of its record there.
LEMMA WholeIsRead ==
    ASSUME HistoryTypeOK, Turns, Steps, NEW h \in Host, NEW s \in Seq(Run), Whole(h, s)
    PROVE  IF Missing(s) = 2 THEN s # <<>>
           ELSE /\ ~ Malformed(file[h])
                /\ ReadHostHistory(file[h]) = s
                /\ Recorded(h) = s
<1> DEFINE f == file[h]
           n == Len(s)
           L == Missing(s)
<1>1. n \in Nat /\ DOMAIN s = 1 .. n /\ f \in Seq(Chunk) /\ Len(f) \in Nat
  BY DEF HistoryTypeOK
<1>2. L \in 0 .. 2 /\ (s = <<>> => L = 0) /\ Len(f) = 3 * n - L
  BY NewlinesOfWhole DEF Whole
<1>a. \A k \in 1 .. n : /\ s[k] \in Run /\ HostOf[s[k]] = h
                         /\ left[s[k]] \in 0 .. 2 /\ (k < n => left[s[k]] = 0)
  <2> SUFFICES ASSUME NEW k \in 1 .. n
               PROVE  /\ s[k] \in Run /\ HostOf[s[k]] = h
                      /\ left[s[k]] \in 0 .. 2 /\ (k < n => left[s[k]] = 0)
    OBVIOUS
  <2>1. s[k] \in Wrote(h) /\ (k < n => left[s[k]] = 0)
    BY <1>1 DEF Whole
  <2>2. s[k] \in Run /\ HostOf[s[k]] = h /\ left[s[k]] < 3
    BY <2>1, LineParts DEF Wrote
  <2>3. left[s[k]] \in 0 .. 3
    BY <2>2, LineParts DEF HistoryTypeOK
  <2> QED BY <2>1, <2>2, <2>3
<1>b. /\ \A r \in Wrote(h) : \E k \in 1 .. n : s[k] = r
      /\ \A j, k \in 1 .. n : j < k => s[j] < s[k]
  BY <1>1 DEF Whole
<1>c. \A k \in 1 .. n : \A m \in 1 .. 3 :
          3 * (k - 1) + m <= Len(f) => f[3 * (k - 1) + m] = [run |-> s[k], part |-> Line[m]]
  BY <1>1 DEF Whole
<1>d. n > 0 => L = left[s[n]]
  BY <1>1 DEF Missing
<1>e. \A p : p \in Newlines(f) <=> p \in 1 .. Len(f) /\ \E k \in 1 .. n : p = 3 * k
  <2>1. Newlines(f) = {p \in 1 .. Len(f) : \E k \in DOMAIN s : p = 3 * k}
    BY NewlinesOfWhole
  <2> QED BY <1>1, <2>1
<1>f. n > 0 => s # <<>>
  OBVIOUS
<1> HIDE DEF f, n, L
<1>3. CASE L = 2
  BY <1>2, <1>3 DEF L
<1>4. CASE L \in 0 .. 1
  <2>1. ASSUME NEW k \in 1 .. n
        PROVE  /\ 3 * k - 2 \in 1 .. Len(f) /\ 3 * k - 1 \in 1 .. Len(f)
               /\ f[3 * k - 2] = [run |-> s[k], part |-> "first"]
               /\ f[3 * k - 1] = [run |-> s[k], part |-> "second"]
    <3>1. /\ 3 * k - 2 \in 1 .. Len(f) /\ 3 * k - 1 \in 1 .. Len(f)
          /\ 3 * (k - 1) + 1 = 3 * k - 2 /\ 3 * (k - 1) + 2 = 3 * k - 1
          /\ 3 * (k - 1) + 1 <= Len(f) /\ 3 * (k - 1) + 2 <= Len(f)
      BY <1>1, <1>2, <1>4
    <3>2. /\ f[3 * (k - 1) + 1] = [run |-> s[k], part |-> Line[1]]
          /\ f[3 * (k - 1) + 2] = [run |-> s[k], part |-> Line[2]]
      <4>1. \A m \in 1 .. 3 : 3 * (k - 1) + m <= Len(f) =>
                f[3 * (k - 1) + m] = [run |-> s[k], part |-> Line[m]]
        BY <1>c
      <4>2. 1 \in 1 .. 3 /\ 2 \in 1 .. 3
        OBVIOUS
      <4>3. f[3 * (k - 1) + 1] = [run |-> s[k], part |-> Line[1]]
        BY <3>1, <4>1, <4>2
      <4>4. f[3 * (k - 1) + 2] = [run |-> s[k], part |-> Line[2]]
        BY <3>1, <4>1, <4>2
      <4> QED BY <4>3, <4>4
    <3> QED BY <3>1, <3>2, LineParts
  <2>2. \A p : p \in Newlines(f) <=> p \in 1 .. Len(f) /\ \E k \in 1 .. n : p = 3 * k
    BY <1>e
  <2> DEFINE lines == [k \in 1 .. n |-> <<3 * k - 2, 3 * k - 1>>]
  <2>3. \A k \in 1 .. n : lines[k] \in LinesOf(f)
    <3> SUFFICES ASSUME NEW k \in 1 .. n PROVE <<3 * k - 2, 3 * k - 1>> \in LinesOf(f)
      OBVIOUS
    <3>1. (3 * k - 2) - 1 \in Newlines(f) \cup {0}
      <4>1. CASE k = 1
        BY <4>1
      <4>2. CASE k # 1
        <5>1. k - 1 \in 1 .. n /\ (3 * k - 2) - 1 = 3 * (k - 1) /\ 3 * (k - 1) \in 1 .. Len(f)
          BY <1>1, <1>2, <1>4, <4>2
        <5> QED BY <2>2, <5>1
      <4> QED BY <4>1, <4>2
    <3>2. (3 * k - 1) + 1 \in Newlines(f) \cup {Len(f) + 1}
      <4>1. CASE 3 * k <= Len(f)
        BY <1>1, <2>2, <4>1
      <4>2. CASE ~(3 * k <= Len(f))
        BY <1>1, <1>2, <1>4, <4>2
      <4> QED BY <4>1, <4>2
    <3>3. \A c \in 3 * k - 2 .. 3 * k - 1 : c \notin Newlines(f)
      <4> SUFFICES ASSUME NEW c \in 3 * k - 2 .. 3 * k - 1, NEW j \in 1 .. n, c = 3 * j PROVE FALSE
        BY <1>1, <2>2
      <4> QED BY <1>1
    <3>4. 3 * k - 2 <= 3 * k - 1
      BY <1>1
    <3>5. 3 * k - 2 \in 1 .. Len(f) /\ 3 * k - 1 \in 1 .. Len(f)
      BY <2>1
    <3> QED BY <3>1, <3>2, <3>3, <3>4, <3>5 DEF LinesOf
  <2>4. \A l \in LinesOf(f) : \E k \in 1 .. n : l = lines[k]
    <3> SUFFICES ASSUME NEW l \in LinesOf(f) PROVE \E k \in 1 .. n : l = <<3 * k - 2, 3 * k - 1>>
      OBVIOUS
    <3>l. l = <<l[1], l[2]>>
      BY DEF LinesOf
    <3>1. /\ l[1] \in 1 .. Len(f) /\ l[2] \in 1 .. Len(f)
          /\ l[1] <= l[2] /\ l[1] - 1 \in Newlines(f) \cup {0}
          /\ l[2] + 1 \in Newlines(f) \cup {Len(f) + 1}
          /\ \A c \in l[1] .. l[2] : c \notin Newlines(f)
      BY DEF LinesOf
    <3>2. PICK k \in 1 .. n : l[1] = 3 * k - 2
      <4>1. CASE l[1] - 1 = 0
        <5>1. n >= 1
          BY <1>1, <1>2, <3>1
        <5> QED BY <1>1, <4>1, <5>1
      <4>2. CASE l[1] - 1 \in Newlines(f)
        <5>1. PICK j \in 1 .. n : l[1] - 1 = 3 * j
          BY <2>2, <3>1, <4>2
        <5>2. l[1] \in 1 .. Len(f)
          BY <3>1
        <5>3. j + 1 \in 1 .. n /\ l[1] = 3 * (j + 1) - 2
          BY <1>1, <1>2, <5>1, <5>2
        <5> QED BY <5>3
      <4> QED BY <3>1, <4>1, <4>2
    <3>3. l[2] < 3 * k
      <4>1. 3 * k <= Len(f) => 3 * k \in Newlines(f)
        <5>1. 3 * k <= Len(f) => 3 * k \in 1 .. Len(f)
          BY <1>1
        <5> QED BY <2>2, <5>1
      <4>2. l[2] < 3 * k \/ 3 * k \in l[1] .. l[2]
        <5>1. l[1] \in Nat /\ l[2] \in Nat /\ 3 * k \in Nat /\ l[1] <= 3 * k
          BY <1>1, <3>1, <3>2
        <5> QED BY <5>1
      <4>3. l[2] <= Len(f)
        BY <3>1, <1>1
      <4>4. 3 * k \in l[1] .. l[2] => 3 * k <= Len(f)
        BY <1>1, <3>1, <4>3
      <4> QED BY <3>1, <4>1, <4>2, <4>4
    <3>4. l[2] # 3 * k - 2
      <4>1. 3 * k - 1 \notin Newlines(f)
        <5> SUFFICES ASSUME NEW j \in 1 .. n, 3 * k - 1 = 3 * j PROVE FALSE
          BY <1>1, <2>2
        <5> QED BY <1>1
      <4>2. Len(f) + 1 # 3 * k - 1
        BY <1>1, <1>2, <1>4
      <4> QED BY <1>1, <3>1, <4>1, <4>2
    <3>5. l[2] = 3 * k - 1
      <4>1. l[2] \in Int /\ 3 * k \in Int /\ l[2] >= 3 * k - 2
        BY <1>1, <3>1, <3>2
      <4> QED BY <3>3, <3>4, <4>1
    <3> QED BY <3>l, <3>2, <3>5
  <2>5. \A k \in 1 .. n : IsRecord(f, lines[k]) /\ RunAt(f, lines[k]) = s[k]
    <3> SUFFICES ASSUME NEW k \in 1 .. n
                 PROVE  LET l == <<3 * k - 2, 3 * k - 1>>
                        IN  IsRecord(f, l) /\ RunAt(f, l) = s[k]
      OBVIOUS
    <3>1. 3 * k - 1 = (3 * k - 2) + 1
      BY <1>1
    <3>2. /\ f[3 * k - 2] = [run |-> s[k], part |-> "first"]
          /\ f[3 * k - 1] = [run |-> s[k], part |-> "second"]
      BY <2>1
    <3> QED BY <3>1, <3>2 DEF IsRecord, RunAt
  <2>6. ~ Malformed(f)
    BY <2>4, <2>5 DEF Malformed
  <2>7. \A k \in 1 .. n : lines[k] \in Records(f)
    BY <2>3, <2>5 DEF Records
  <2>8. \A l \in Records(f) : \E k \in 1 .. n : lines[k] = l
    BY <2>4 DEF Records
  <2>9. \A j, k \in 1 .. n : j < k => Before(f, lines[j], lines[k])
    <3> SUFFICES ASSUME NEW j \in 1 .. n, NEW k \in 1 .. n, j < k
                 PROVE  Before(f, lines[j], lines[k])
      OBVIOUS
    <3>1. /\ s[j] \in Run /\ s[k] \in Run /\ HostOf[s[j]] = HostOf[s[k]] /\ s[j] < s[k]
          /\ left[s[k]] # Len(Line)
      <4>1. left[s[k]] \in 0 .. 2
        BY <1>a
      <4>2. left[s[k]] # 3
        BY <4>1
      <4> QED BY <1>a, <1>b, <4>2, LineParts
    <3>2. pc[s[k]] # "idle"
      BY <3>1 DEF Steps
    <3>3. time[s[j]] <= time[s[k]]
      BY <3>1, <3>2 DEF Turns
    <3>4. time[s[j]] \in Nat /\ time[s[k]] \in Nat
      <4>1. time[s[j]] \in 0 .. MaxTime /\ time[s[k]] \in 0 .. MaxTime
        BY <3>1 DEF HistoryTypeOK
      <4> QED BY <4>1, HistoryAssumption
    <3>5. lines[j][1] < lines[k][1]
      BY <1>1
    <3>6. RunAt(f, lines[j]) = s[j] /\ RunAt(f, lines[k]) = s[k]
      BY <2>5
    <3>7. time[s[j]] < time[s[k]] \/ time[s[j]] = time[s[k]]
      BY <3>3, <3>4
    <3> HIDE DEF lines
    <3> QED BY <3>5, <3>6, <3>7 DEF Before
  <2>10. Lists(lines, Records(f), Chronological(f))
    <3>1. DOMAIN lines = 1 .. n /\ lines \in [1 .. n -> Records(f)]
      BY <2>7
    <3> HIDE DEF lines
    <3>2. \A j, k \in 1 .. n : j < k => <<lines[j], lines[k]>> \in Chronological(f)
      BY <2>7, <2>9 DEF Chronological
    <3> QED BY <1>1, <2>8, <3>1, <3>2 DEF Lists
  <2>11. Sorted(Records(f), Chronological(f)) = lines
    <3> HIDE DEF lines
    <3>1. Asymmetric(Chronological(f))
      BY <1>1, ChronologicalOrder
    <3> QED BY <2>10, <3>1, SortedLists
  <2>12. ReadHostHistory(f) = s
    <3>1. ReadHostHistory(f) = [k \in DOMAIN lines |-> RunAt(f, lines[k])]
      BY <2>11 DEF ReadHostHistory, Chronological
    <3>2. DOMAIN lines = 1 .. n
      OBVIOUS
    <3> HIDE DEF lines
    <3>3. ReadHostHistory(f) = [k \in 1 .. n |-> s[k]]
      BY <2>5, <3>1, <3>2
    <3> QED BY <1>1, <3>3
  <2>13. Recorded(h) = s
    <3> DEFINE R == {r \in Run : HostOf[r] = h /\ left[r] <= 1}
               order == {p \in Run \X Run : p[1] < p[2]}
    <3>1. \A k \in 1 .. n : s[k] \in R
      <4> SUFFICES ASSUME NEW k \in 1 .. n PROVE s[k] \in Run /\ HostOf[s[k]] = h /\ left[s[k]] <= 1
        OBVIOUS
      <4>1. left[s[k]] <= 1
        <5>1. CASE k < n
          BY <1>a, <5>1
        <5>2. CASE k = n
          BY <1>1, <1>4, <1>d, <5>2
        <5> QED BY <1>1, <5>1, <5>2
      <4> QED BY <1>a, <4>1
    <3>2. \A r \in R : \E k \in 1 .. n : s[k] = r
      <4>1. ASSUME NEW r \in R PROVE r \in Wrote(h)
        <5>1. left[r] \in 0 .. 3 /\ left[r] <= 1
          BY LineParts DEF HistoryTypeOK
        <5>2. left[r] < 3
          BY <5>1
        <5> QED BY <5>2, LineParts DEF Wrote
      <4> QED BY <1>b, <4>1
    <3>3. \A j, k \in 1 .. n : j < k => <<s[j], s[k]>> \in order
      BY <1>a, <1>b
    <3>4. Asymmetric(order)
      BY HistoryAssumption DEF Asymmetric
    <3>5. Recorded(h) = Sorted(R, order)
      BY DEF Recorded
    <3> HIDE DEF R, order
    <3>6. Lists(s, R, order)
      <4>1. s \in [1 .. n -> R]
        BY <1>1, <3>1
      <4> QED BY <1>1, <3>2, <3>3, <4>1 DEF Lists
    <3> QED BY <3>4, <3>5, <3>6, SortedLists
  <2>14. L # 2
    BY <1>4
  <2> QED BY <2>6, <2>12, <2>13, <2>14 DEF f, L
<1> QED BY <1>2, <1>3, <1>4

-----------------------------------------------------------------------------
\* A step that writes nothing leaves the files, and ends no run's being done.
LEMMA QuietStep ==
    ASSUME HistoryTypeOK, [HistoryNext]_HistoryVars, ~ \E r \in Run : Write(r)
    PROVE  /\ left' = left /\ file' = file
           /\ \A r \in Run : pc[r] = "done" => pc'[r] = "done"
<1>1. ASSUME NEW r \in Run, Report(r) \/ Leave(r) \/ Fault(r)
      PROVE  /\ left' = left /\ file' = file
             /\ \A q \in Run : pc[q] = "done" => pc'[q] = "done"
  <2>1. left' = left /\ file' = file /\ pc[r] # "done"
    BY <1>1 DEF Report, Answer, Leave, Fault, Active
  <2>2. \E s \in {"report", "done"} : pc' = [pc EXCEPT ![r] = s]
    BY <1>1 DEF Report, Answer, Leave, Fault, Goto
  <2> QED BY <2>1, <2>2 DEF HistoryTypeOK
<1>2. CASE Tick \/ UNCHANGED HistoryVars
  BY <1>2 DEF Tick, HistoryVars
<1> QED BY <1>1, <1>2 DEF HistoryNext

\* What a write does to the run and to the files.
LEMMA WriteStep ==
    ASSUME HistoryTypeOK, Steps, NEW x \in Run, Write(x)
    PROVE  /\ pc[x] \in {"report", "write"} /\ left[x] \in 1 .. 3
           /\ pc[x] = "report" => left[x] = 3
           /\ pc[x] = "write" => left[x] < 3
           /\ UNCHANGED <<time, clock>>
           /\ \A q \in Run : q # x => left'[q] = left[q] /\ pc'[q] = pc[q]
           /\ \A h \in Host : h # HostOf[x] => file'[h] = file[h]
           /\ \E n \in 1 .. left[x] :
                 /\ left'[x] = left[x] - n
                 /\ pc'[x] = IF left[x] = n THEN "done" ELSE "write"
                 /\ Len(file'[HostOf[x]]) = Len(file[HostOf[x]]) + n
                 /\ \A p \in 1 .. Len(file[HostOf[x]]) :
                        file'[HostOf[x]][p] = file[HostOf[x]][p]
                 /\ \A i \in 1 .. n :
                        file'[HostOf[x]][Len(file[HostOf[x]]) + i] =
                            [run |-> x, part |-> Line[3 - left[x] + i]]
<1> DEFINE h == HostOf[x]
           f == file[h]
<1>1. h \in Host /\ f \in Seq(Chunk) /\ Len(f) \in Nat /\ left[x] \in 0 .. 3
  BY HistoryAssumption, LineParts DEF HistoryTypeOK
<1>2. /\ pc[x] \in {"report", "write"}
      /\ pc[x] = "report" => left[x] = 3
      /\ pc[x] = "write" => left[x] \in 1 .. 2
  BY LineParts DEF Write, Active, Steps
<1>3. left[x] \in 1 .. 3 /\ (pc[x] = "write" => left[x] < 3)
  BY <1>2
<1>4. PICK n \in 1 .. left[x] :
          /\ file' = [file EXCEPT ![h] = @ \o Written(x, n)]
          /\ left' = [left EXCEPT ![x] = @ - n]
          /\ pc' = [pc EXCEPT ![x] = IF left[x] = n THEN "done" ELSE "write"]
  BY DEF Write, Goto
<1>5. /\ \A q \in Run : q # x => left'[q] = left[q] /\ pc'[q] = pc[q]
      /\ \A g \in Host : g # h => file'[g] = file[g]
      /\ left'[x] = left[x] - n
      /\ pc'[x] = IF left[x] = n THEN "done" ELSE "write"
      /\ file'[h] = f \o Written(x, n)
  BY <1>1, <1>4 DEF HistoryTypeOK
<1>6. /\ Written(x, n) \in Seq(Chunk) /\ Len(Written(x, n)) = n
      /\ \A i \in 1 .. n : Written(x, n)[i] = [run |-> x, part |-> Line[3 - left[x] + i]]
  BY <1>1, LineParts, WrittenParts
<1>7. n \in Nat
  BY <1>3
<1> HIDE DEF f, h
<1>8. /\ Len(f \o Written(x, n)) = Len(f) + n
      /\ \A p \in 1 .. Len(f) : (f \o Written(x, n))[p] = f[p]
      /\ \A i \in 1 .. n : (f \o Written(x, n))[Len(f) + i] = Written(x, n)[i]
  BY <1>1, <1>6, <1>7
<1>9. UNCHANGED <<time, clock>>
  BY DEF Write
<1>10. /\ left'[x] = left[x] - n
       /\ pc'[x] = IF left[x] = n THEN "done" ELSE "write"
       /\ Len(file'[h]) = Len(file[h]) + n
       /\ \A p \in 1 .. Len(file[h]) : file'[h][p] = file[h][p]
       /\ \A i \in 1 .. n :
              file'[h][Len(file[h]) + i] = [run |-> x, part |-> Line[3 - left[x] + i]]
  BY <1>5, <1>6, <1>8 DEF f
<1> QED BY <1>2, <1>3, <1>5, <1>9, <1>10 DEF h

\* A step keeps what the steps of a run say of its line and its time.
LEMMA StepsStep ==
    ASSUME HistoryTypeOK, Steps, [HistoryNext]_HistoryVars
    PROVE  Steps'
<1> USE HistoryAssumption
<1>1. ASSUME NEW x \in Run, Report(x) PROVE Steps'
  <2>1. /\ pc' = [pc EXCEPT ![x] = "report"] /\ time' = [time EXCEPT ![x] = clock]
        /\ left' = left /\ clock' = clock /\ pc[x] = "idle"
    BY <1>1 DEF Report, Answer, Goto
  <2>2. clock \in Nat
    BY DEF HistoryTypeOK
  <2> QED BY <2>1, <2>2 DEF Steps, HistoryTypeOK
<1>2. ASSUME NEW x \in Run, Leave(x) \/ Fault(x) PROVE Steps'
  <2>1. pc' = [pc EXCEPT ![x] = "done"] /\ UNCHANGED <<time, left, clock>>
    BY <1>2 DEF Leave, Fault, Goto
  <2> QED BY <2>1 DEF Steps, HistoryTypeOK
<1>3. ASSUME NEW x \in Run, Write(x) PROVE Steps'
  <2>1. PICK n \in 1 .. left[x] :
            left'[x] = left[x] - n /\ pc'[x] = IF left[x] = n THEN "done" ELSE "write"
    BY <1>3, WriteStep
  <2>2. left[x] \in 1 .. 3
    BY <1>3, WriteStep
  <2>3. pc'[x] \notin {"idle", "report"} /\ (pc'[x] = "write" => left'[x] \in 1 .. 2)
    BY <2>1, <2>2
  <2>4. \A q \in Run : q # x => left'[q] = left[q] /\ pc'[q] = pc[q]
    BY <1>3, WriteStep
  <2>5. UNCHANGED <<time, clock>>
    BY <1>3, WriteStep
  <2>6. ASSUME NEW q \in Run
        PROVE  /\ pc'[q] \in {"idle", "report"} => left'[q] = Len(Line)
               /\ pc'[q] = "write" => left'[q] \in 1 .. 2
               /\ time'[q] <= clock'
    <3>1. CASE q = x
      BY <2>3, <2>5, <3>1 DEF Steps
    <3>2. CASE q # x
      BY <2>4, <2>5, <3>2 DEF Steps
    <3> QED BY <3>1, <3>2
  <2> QED BY <2>6 DEF Steps
<1>4. CASE Tick
  <2>1. pc' = pc /\ left' = left /\ time' = time /\ clock' = clock + 1 /\ clock \in Nat
    BY <1>4 DEF Tick, HistoryTypeOK
  <2>2. \A r \in Run : time[r] \in Nat
    BY DEF HistoryTypeOK
  <2> QED BY <2>1, <2>2 DEF Steps
<1>5. CASE UNCHANGED HistoryVars
  BY <1>5 DEF HistoryVars, Steps
<1> QED BY <1>1, <1>2, <1>3, <1>4, <1>5 DEF HistoryNext

\* A step keeps the runs of a host one after the other: none reports while another
\* is active.
LEMMA TurnsStep ==
    ASSUME Exclusive, HistoryTypeOK, Turns, Steps, [HistoryNext]_HistoryVars
    PROVE  Turns'
<1> USE HistoryAssumption
<1>1. ASSUME NEW x \in Run, Report(x) PROVE Turns'
  <2>1. /\ pc' = [pc EXCEPT ![x] = "report"] /\ time' = [time EXCEPT ![x] = clock]
        /\ pc[x] = "idle"
        /\ \A q \in Run : HostOf[q] = HostOf[x] =>
               (q < x => pc[q] # "idle") /\ pc[q] \notin {"report", "write"}
    BY <1>1 DEF Report, Answer, Goto, Active
  <2>2. ASSUME NEW q \in Run, NEW r \in Run,
               HostOf[q] = HostOf[r], q < r, pc'[r] # "idle"
        PROVE  pc'[q] = "done" /\ time'[q] <= time'[r]
    <3>1. CASE r = x
      <4>1. q # x /\ q < x /\ HostOf[q] = HostOf[x]
        BY <2>2, <3>1
      <4>2. pc[q] = "done"
        BY <2>1, <4>1 DEF HistoryTypeOK
      <4>3. pc'[q] = pc[q] /\ time'[q] = time[q] /\ time'[r] = clock
        BY <2>1, <3>1, <4>1 DEF HistoryTypeOK
      <4> QED BY <4>2, <4>3 DEF Steps
    <3>2. CASE r # x
      <4>1. pc[r] # "idle" /\ time'[r] = time[r]
        BY <2>1, <2>2, <3>2 DEF HistoryTypeOK
      <4>2. pc[q] = "done" /\ time[q] <= time[r]
        BY <2>2, <4>1 DEF Turns
      <4>3. q # x
        BY <2>1, <4>2
      <4> QED BY <2>1, <4>1, <4>2, <4>3 DEF HistoryTypeOK
    <3> QED BY <3>1, <3>2
  <2> QED BY <2>2 DEF Turns
<1>2. ASSUME NEW x \in Run, Leave(x) \/ Fault(x) \/ Write(x) PROVE Turns'
  <2>1. pc[x] \in {"report", "write"} /\ time' = time
    BY <1>2 DEF Leave, Fault, Write, Active
  <2>2. \A q \in Run : q # x => pc'[q] = pc[q]
    BY <1>2 DEF Leave, Fault, Write, Goto, HistoryTypeOK
  <2>3. ASSUME NEW q \in Run, NEW r \in Run,
               HostOf[q] = HostOf[r], q < r, pc'[r] # "idle"
        PROVE  pc'[q] = "done" /\ time'[q] <= time'[r]
    <3>1. pc[r] # "idle"
      BY <2>1, <2>2, <2>3
    <3>2. pc[q] = "done" /\ time[q] <= time[r]
      BY <2>3, <3>1 DEF Turns
    <3> QED BY <2>1, <2>2, <3>2
  <2> QED BY <2>3 DEF Turns
<1>3. CASE Tick \/ UNCHANGED HistoryVars
  <2>1. pc' = pc /\ time' = time
    BY <1>3 DEF Tick, HistoryVars
  <2> QED BY <2>1 DEF Turns
<1> QED BY <1>1, <1>2, <1>3 DEF HistoryNext

-----------------------------------------------------------------------------
\* What a whole file says of each of its runs.
LEMMA RunsOfWhole ==
    ASSUME HistoryTypeOK, NEW h \in Host, NEW s \in Seq(Run), Whole(h, s)
    PROVE  /\ \A k \in 1 .. Len(s) : /\ s[k] \in Run /\ HostOf[s[k]] = h
                                     /\ left[s[k]] \in 0 .. 2
                                     /\ k < Len(s) => left[s[k]] = 0
           /\ Len(s) > 0 => Missing(s) = left[s[Len(s)]]
           /\ Missing(s) \in 0 .. 2 /\ (Len(s) = 0 => Missing(s) = 0)
<1>1. DOMAIN s = 1 .. Len(s)
  OBVIOUS
<1>2. ASSUME NEW k \in 1 .. Len(s)
      PROVE  /\ s[k] \in Run /\ HostOf[s[k]] = h /\ left[s[k]] \in 0 .. 2
             /\ k < Len(s) => left[s[k]] = 0
  <2>1. s[k] \in Wrote(h) /\ (k < Len(s) => left[s[k]] = 0)
    BY <1>1 DEF Whole
  <2>2. s[k] \in Run /\ HostOf[s[k]] = h /\ left[s[k]] < 3
    BY <2>1, LineParts DEF Wrote
  <2>3. left[s[k]] \in 0 .. 3
    BY <2>2, LineParts DEF HistoryTypeOK
  <2> QED BY <2>1, <2>2, <2>3
<1>3. Len(s) > 0 => Missing(s) = left[s[Len(s)]]
  BY DEF Missing
<1>4. Missing(s) \in 0 .. 2 /\ (s = <<>> => Missing(s) = 0)
  BY NewlinesOfWhole
<1>5. Len(s) = 0 => s = <<>>
  OBVIOUS
<1> QED BY <1>2, <1>3, <1>4, <1>5

\* Writing to one host leaves the others.
LEMMA OtherHosts ==
    ASSUME HistoryTypeOK, Steps, NEW x \in Run, Write(x), NEW h \in Host, h # HostOf[x],
           (\E s \in Seq(Run) : Whole(h, s)) \/ Torn(h)
    PROVE  (\E s \in Seq(Run) : Whole(h, s)') \/ Torn(h)'
<1>1. /\ file'[h] = file[h]
      /\ \A q \in Run : HostOf[q] = h => left'[q] = left[q] /\ pc'[q] = pc[q]
  BY WriteStep
<1>2. CASE Torn(h)
  BY <1>1, <1>2 DEF Torn
<1>3. ASSUME NEW s \in Seq(Run), Whole(h, s) PROVE Whole(h, s)'
  <2>1. Wrote(h)' = Wrote(h)
    BY <1>1 DEF Wrote
  <2>2. \A k \in DOMAIN s : left'[s[k]] = left[s[k]]
    BY <1>1, <1>3, RunsOfWhole
  <2>3. Missing(s)' = Missing(s)
    <3>1. s # <<>> => Len(s) \in DOMAIN s
      OBVIOUS
    <3> QED BY <2>2, <3>1 DEF Missing
  <2> QED BY <1>1, <1>3, <2>1, <2>2, <2>3 DEF Whole
<1> QED BY <1>2, <1>3

\* A torn file stays torn.
LEMMA TornStays ==
    ASSUME HistoryTypeOK, Steps, NEW x \in Run, Write(x), Torn(HostOf[x])
    PROVE  Torn(HostOf[x])'
<1> DEFINE h == HostOf[x]
<1>1. PICK n \in 1 .. left[x] :
          /\ Len(file'[h]) = Len(file[h]) + n
          /\ \A p \in 1 .. Len(file[h]) : file'[h][p] = file[h][p]
  BY WriteStep
<1>2. n \in Nat /\ Len(file[h]) \in Nat
  BY WriteStep, HistoryAssumption DEF HistoryTypeOK
<1>3. PICK k \in 1 .. Len(file[h]) - 1 : BrokenAt(file[h], k)
  BY DEF Torn
<1>4. PICK r \in Run : HostOf[r] = h /\ pc[r] = "done" /\ left[r] \in 1 .. 2
  BY DEF Torn
<1>5. r # x
  BY <1>4, WriteStep
<1>6. pc'[r] = "done" /\ left'[r] = left[r]
  BY <1>4, <1>5, WriteStep
<1> HIDE DEF h
<1>7. k \in 1 .. Len(file'[h]) - 1 /\ k \in 1 .. Len(file[h]) /\ k + 1 \in 1 .. Len(file[h])
  BY <1>1, <1>2
<1>8. BrokenAt(file'[h], k)
  BY <1>1, <1>3, <1>7 DEF BrokenAt
<1>9. (\E j \in 1 .. Len(file[h]) - 1 : BrokenAt(file[h], j))'
  BY <1>7, <1>8
<1>10. (\E q \in Run : HostOf[q] = h /\ pc[q] = "done" /\ left[q] \in 1 .. 2)'
  BY <1>4, <1>6
<1> QED BY <1>9, <1>10 DEF Torn, h

\* A run that goes on with its line is the last of a whole file.
LEMMA LineGoesOn ==
    ASSUME HistoryTypeOK, Steps, NEW x \in Run, Write(x), left[x] < 3,
           NEW s \in Seq(Run), Whole(HostOf[x], s)
    PROVE  Whole(HostOf[x], s)'
<1> DEFINE h == HostOf[x]
           f == file[h]
           g == file'[h]
           len == Len(s)
<1>1. h \in Host /\ len \in Nat /\ DOMAIN s = 1 .. len /\ Len(f) \in Nat
  BY HistoryAssumption DEF HistoryTypeOK
<1>2. PICK n \in 1 .. left[x] :
          /\ left'[x] = left[x] - n /\ Len(g) = Len(f) + n
          /\ \A p \in 1 .. Len(f) : g[p] = f[p]
          /\ \A i \in 1 .. n : g[Len(f) + i] = [run |-> x, part |-> Line[3 - left[x] + i]]
  BY WriteStep
<1>3. left[x] \in 1 .. 2 /\ n \in Nat
  BY WriteStep
<1>4. \A q \in Run : q # x => left'[q] = left[q]
  BY WriteStep
<1>5. /\ \A r \in Wrote(h) : \E k \in 1 .. len : s[k] = r
      /\ \A k \in 1 .. len : s[k] \in Wrote(h)
      /\ \A j, k \in 1 .. len : j < k => s[j] < s[k]
      /\ Len(f) = 3 * len - Missing(s)
      /\ \A k \in 1 .. len : \A m \in 1 .. 3 :
             3 * (k - 1) + m <= Len(f) => f[3 * (k - 1) + m] = [run |-> s[k], part |-> Line[m]]
  BY <1>1 DEF Whole
<1>6. /\ \A k \in 1 .. len : s[k] \in Run /\ (k < len => left[s[k]] = 0)
      /\ len > 0 => Missing(s) = left[s[len]]
  BY <1>1, RunsOfWhole
<1> HIDE DEF f, g, len
<1>7. len > 0 /\ s[len] = x
  <2>1. x \in Wrote(h)
    BY LineParts DEF Wrote
  <2>2. PICK k \in 1 .. len : s[k] = x
    BY <1>5, <2>1
  <2>3. ~(k < len)
    BY <1>3, <1>6, <2>2
  <2> QED BY <1>1, <2>2, <2>3
<1>8. Len(f) = 3 * len - left[x]
  BY <1>5, <1>6, <1>7
<1>9. Wrote(h)' = Wrote(h)
  <2>1. left'[x] < 3
    BY <1>2, <1>3
  <2> QED BY <1>4, <2>1, LineParts DEF Wrote
<1>10. Missing(s)' = left[x] - n
  BY <1>1, <1>2, <1>7 DEF Missing, len
<1>11. Len(g) = 3 * len - Missing(s)'
  BY <1>1, <1>2, <1>3, <1>8, <1>10
<1>12. \A k \in 1 .. len : k < len => left'[s[k]] = 0
  <2> SUFFICES ASSUME NEW k \in 1 .. len, k < len PROVE left'[s[k]] = 0
    OBVIOUS
  <2>1. s[k] \in Run /\ left[s[k]] = 0 /\ s[k] # x
    BY <1>3, <1>6
  <2> QED BY <1>4, <2>1
<1>13. ASSUME NEW k \in 1 .. len, NEW m \in 1 .. 3, 3 * (k - 1) + m <= Len(g)
       PROVE  g[3 * (k - 1) + m] = [run |-> s[k], part |-> Line[m]]
  <2>1. CASE 3 * (k - 1) + m <= Len(f)
    <3>1. 3 * (k - 1) + m \in 1 .. Len(f)
      BY <1>1, <2>1
    <3> QED BY <1>2, <1>5, <2>1, <3>1
  <2>2. CASE ~(3 * (k - 1) + m <= Len(f))
    <3> DEFINE i == m - 3 + left[x]
    <3>1. k = len
      BY <1>1, <1>3, <1>8, <2>2
    <3>2. i \in 1 .. n /\ 3 * (k - 1) + m = Len(f) + i /\ 3 - left[x] + i = m
      <4>1. Len(g) = Len(f) + n /\ n \in Nat /\ left[x] \in 1 .. 2
        BY <1>2, <1>3
      <4>2. 3 * (len - 1) + m <= Len(f) + n /\ ~(3 * (len - 1) + m <= Len(f))
        BY <1>13, <2>2, <3>1, <4>1
      <4>3. 3 * (k - 1) + m = 3 * len - 3 + m /\ len \in Nat /\ m \in 1 .. 3
        BY <1>1, <3>1
      <4>4. 3 * (k - 1) + m = Len(f) + i
        <5>1. Len(f) \in Int /\ left[x] \in Int /\ 3 * len \in Int /\ m \in Int
          BY <1>1, <4>1, <4>3
        <5>2. 3 * len - 3 + m = Len(f) + i
          BY <1>8, <5>1
        <5> QED BY <4>3, <5>2
      <4>5. i >= 1 /\ i \in Int
        BY <1>1, <1>8, <4>1, <4>2, <4>3
      <4>6. i <= n
        BY <1>1, <1>8, <4>1, <4>2, <4>3
      <4>7. 3 - left[x] + i = m
        BY <4>1, <4>3
      <4> QED BY <4>1, <4>4, <4>5, <4>6, <4>7
    <3>3. g[Len(f) + i] = [run |-> x, part |-> Line[3 - left[x] + i]]
      BY <1>2, <3>2
    <3> HIDE DEF i
    <3> QED BY <1>7, <3>1, <3>2, <3>3
  <2> QED BY <2>1, <2>2
<1>14. /\ \A r \in Wrote(h)' : \E k \in DOMAIN s : s[k] = r
       /\ \A k \in DOMAIN s : s[k] \in Wrote(h)'
       /\ \A j, k \in DOMAIN s : j < k => s[j] < s[k]
       /\ \A k \in DOMAIN s : k < Len(s) => left'[s[k]] = 0
       /\ Len(file'[h]) = 3 * Len(s) - Missing(s)'
  BY <1>1, <1>5, <1>9, <1>11, <1>12 DEF len, g
<1>15. \A k \in DOMAIN s : \A m \in 1 .. 3 :
           3 * (k - 1) + m <= Len(file'[h]) =>
               file'[h][3 * (k - 1) + m] = [run |-> s[k], part |-> Line[m]]
  BY <1>1, <1>13 DEF g
<1> HIDE DEF h
<1> QED BY <1>14, <1>15 DEF Whole, h

\* A run that begins its line comes after those in the file, which are done.
LEMMA LaterThanTheFile ==
    ASSUME HistoryTypeOK, Steps, Turns, NEW x \in Run, Write(x), left[x] = 3,
           NEW s \in Seq(Run), Whole(HostOf[x], s), NEW k \in 1 .. Len(s)
    PROVE  s[k] \in Run /\ s[k] < x /\ pc[s[k]] = "done"
<1>1. s[k] \in Run /\ HostOf[s[k]] = HostOf[x] /\ left[s[k]] \in 0 .. 2
  <2>1. HostOf[x] \in Host
    BY HistoryAssumption
  <2> QED BY <2>1, RunsOfWhole
<1>2. left[s[k]] # 3
  BY <1>1
<1>3. s[k] # x /\ pc[s[k]] # "idle"
  BY <1>1, <1>2, LineParts DEF Steps
<1>4. pc[x] \in {"report", "write"}
  BY WriteStep
<1>5. ~(x < s[k])
  BY <1>1, <1>3, <1>4 DEF Turns
<1>6. s[k] < x
  <2>1. s[k] \in Nat /\ x \in Nat
    BY <1>1, HistoryAssumption
  <2> QED BY <1>3, <1>5, <2>1
<1> QED BY <1>1, <1>4, <1>6 DEF Turns

\* It adds itself to a whole file that ends with a newline.
LEMMA LineBegins ==
    ASSUME HistoryTypeOK, Steps, Turns, NEW x \in Run, Write(x), left[x] = 3,
           NEW s \in Seq(Run), Whole(HostOf[x], s), Missing(s) = 0
    PROVE  Append(s, x) \in Seq(Run) /\ Whole(HostOf[x], Append(s, x))'
<1> DEFINE h == HostOf[x]
           f == file[h]
           g == file'[h]
           len == Len(s)
           t == Append(s, x)
<1>1. /\ h \in Host /\ len \in Nat /\ DOMAIN s = 1 .. len /\ Len(f) \in Nat
      /\ t \in Seq(Run) /\ Len(t) = len + 1 /\ DOMAIN t = 1 .. len + 1
      /\ \A k \in 1 .. len : t[k] = s[k]
      /\ t[len + 1] = x /\ t # <<>>
  <2>1. h \in Host /\ Len(f) \in Nat
    BY HistoryAssumption DEF HistoryTypeOK
  <2>2. len \in Nat /\ DOMAIN s = 1 .. len
    OBVIOUS
  <2> HIDE DEF f, h
  <2>3. t \in Seq(Run) /\ Len(t) = len + 1 /\ DOMAIN t = 1 .. len + 1
    OBVIOUS
  <2>4. (\A k \in 1 .. len : t[k] = s[k]) /\ t[len + 1] = x
    OBVIOUS
  <2>5. t # <<>>
    <3> HIDE DEF t, len
    <3> QED BY <2>2, <2>3
  <2> QED BY <2>1, <2>2, <2>3, <2>4, <2>5
<1>2. PICK n \in 1 .. left[x] :
          /\ left'[x] = left[x] - n /\ Len(g) = Len(f) + n
          /\ \A p \in 1 .. Len(f) : g[p] = f[p]
          /\ \A i \in 1 .. n : g[Len(f) + i] = [run |-> x, part |-> Line[3 - left[x] + i]]
  BY WriteStep
<1>3. n \in 1 .. 3 /\ left'[x] = 3 - n
  BY <1>2
<1>4. \A q \in Run : q # x => left'[q] = left[q]
  BY WriteStep
<1>5. /\ \A r \in Wrote(h) : \E k \in 1 .. len : s[k] = r
      /\ \A k \in 1 .. len : s[k] \in Wrote(h)
      /\ \A j, k \in 1 .. len : j < k => s[j] < s[k]
      /\ Len(f) = 3 * len
      /\ \A k \in 1 .. len : \A m \in 1 .. 3 :
             3 * (k - 1) + m <= Len(f) => f[3 * (k - 1) + m] = [run |-> s[k], part |-> Line[m]]
  <2>1. DOMAIN s = 1 .. len /\ len \in Nat
    BY <1>1
  <2>2. Len(f) = 3 * len - Missing(s)
    BY DEF Whole
  <2>3. Len(f) = 3 * len
    BY <2>1, <2>2
  <2> QED BY <2>1, <2>3 DEF Whole
<1>6. \A k \in 1 .. len : s[k] \in Run /\ left[s[k]] = 0 /\ s[k] < x /\ s[k] # x
  <2> SUFFICES ASSUME NEW k \in 1 .. len
               PROVE  s[k] \in Run /\ left[s[k]] = 0 /\ s[k] < x /\ s[k] # x
    OBVIOUS
  <2>1. s[k] \in Run /\ (k < len => left[s[k]] = 0) /\ (len > 0 => Missing(s) = left[s[len]])
    BY <1>1, RunsOfWhole
  <2>2. left[s[k]] = 0
    BY <1>1, <2>1
  <2>3. s[k] < x
    BY LaterThanTheFile
  <2> QED BY <2>1, <2>2, <2>3
<1> HIDE DEF f, g, len, t
<1>7. Wrote(h)' = Wrote(h) \cup {x}
  <2>1. left'[x] < 3
    BY <1>3
  <2> QED BY <1>4, <2>1, LineParts DEF Wrote
<1>8. Missing(t)' = 3 - n
  BY <1>1, <1>3 DEF Missing
<1>9. Len(g) = 3 * (len + 1) - Missing(t)'
  BY <1>1, <1>2, <1>3, <1>5, <1>8
<1>10. \A k \in 1 .. len + 1 : k < len + 1 => left'[t[k]] = 0
  <2> SUFFICES ASSUME NEW k \in 1 .. len + 1, k < len + 1 PROVE left'[t[k]] = 0
    OBVIOUS
  <2>1. k \in 1 .. len
    BY <1>1
  <2> QED BY <1>1, <1>4, <1>6, <2>1
<1>11. ASSUME NEW k \in 1 .. len + 1, NEW m \in 1 .. 3, 3 * (k - 1) + m <= Len(g)
       PROVE  g[3 * (k - 1) + m] = [run |-> t[k], part |-> Line[m]]
  <2>1. CASE k \in 1 .. len
    <3>1. 3 * (k - 1) + m \in 1 .. Len(f) /\ 3 * (k - 1) + m <= Len(f)
      BY <1>1, <1>5, <2>1
    <3>2. f[3 * (k - 1) + m] = [run |-> s[k], part |-> Line[m]]
      BY <1>5, <2>1, <3>1
    <3>3. g[3 * (k - 1) + m] = f[3 * (k - 1) + m]
      BY <1>2, <3>1
    <3> QED BY <1>1, <2>1, <3>2, <3>3
  <2>2. CASE k = len + 1
    <3>1. 3 * (k - 1) + m = Len(f) + m
      BY <1>1, <1>5, <2>2
    <3>2. m \in 1 .. n
      BY <1>1, <1>2, <1>3, <1>11, <3>1
    <3>3. g[Len(f) + m] = [run |-> x, part |-> Line[3 - left[x] + m]]
      BY <1>2, <3>2
    <3>4. 3 - left[x] + m = m
      OBVIOUS
    <3> QED BY <1>1, <2>2, <3>1, <3>3, <3>4
  <2> QED BY <1>1, <2>1, <2>2
<1>12. \A r \in Wrote(h)' : \E k \in 1 .. len + 1 : t[k] = r
  <2> SUFFICES ASSUME NEW r \in Wrote(h) \cup {x} PROVE \E k \in 1 .. len + 1 : t[k] = r
    BY <1>7
  <2>1. CASE r = x
    BY <1>1, <2>1
  <2>2. CASE r \in Wrote(h)
    <3>1. PICK k \in 1 .. len : s[k] = r
      BY <1>5, <2>2
    <3>2. k \in 1 .. len + 1 /\ t[k] = r
      BY <1>1, <3>1
    <3> QED BY <3>2
  <2> QED BY <2>1, <2>2
<1>13. ASSUME NEW k \in 1 .. len + 1 PROVE t[k] \in Wrote(h)'
  <2>1. CASE k \in 1 .. len
    BY <1>1, <1>5, <1>7, <2>1
  <2>2. CASE k = len + 1
    BY <1>1, <1>7, <2>2
  <2> QED BY <1>1, <2>1, <2>2
<1>14. ASSUME NEW j \in 1 .. len + 1, NEW k \in 1 .. len + 1, j < k PROVE t[j] < t[k]
  <2>1. j \in 1 .. len
    BY <1>1, <1>14
  <2>2. CASE k \in 1 .. len
    BY <1>1, <1>5, <1>14, <2>1, <2>2
  <2>3. CASE k = len + 1
    BY <1>1, <1>6, <2>1, <2>3
  <2> QED BY <1>1, <2>2, <2>3
<1>15. /\ \A r \in Wrote(h)' : \E k \in DOMAIN t : t[k] = r
       /\ \A k \in DOMAIN t : t[k] \in Wrote(h)'
       /\ \A j, k \in DOMAIN t : j < k => t[j] < t[k]
       /\ \A k \in DOMAIN t : k < Len(t) => left'[t[k]] = 0
       /\ Len(file'[h]) = 3 * Len(t) - Missing(t)'
  BY <1>1, <1>9, <1>10, <1>12, <1>13, <1>14 DEF g
<1>16. \A k \in DOMAIN t : \A m \in 1 .. 3 :
           3 * (k - 1) + m <= Len(file'[h]) =>
               file'[h][3 * (k - 1) + m] = [run |-> t[k], part |-> Line[m]]
  BY <1>1, <1>11 DEF g
<1> HIDE DEF h
<1>17. Whole(h, t)'
  BY <1>15, <1>16 DEF Whole
<1> QED BY <1>1, <1>17 DEF h, t

\* It breaks a whole file whose last line is not finished.
LEMMA LineIsBroken ==
    ASSUME HistoryTypeOK, Steps, Turns, NEW x \in Run, Write(x), left[x] = 3,
           NEW s \in Seq(Run), Whole(HostOf[x], s), Missing(s) # 0
    PROVE  Torn(HostOf[x])'
<1> DEFINE h == HostOf[x]
           f == file[h]
           g == file'[h]
           len == Len(s)
           M == Missing(s)
<1>1. /\ h \in Host /\ len \in Nat /\ DOMAIN s = 1 .. len /\ Len(f) \in Nat
  BY HistoryAssumption DEF HistoryTypeOK
<1>2. /\ M \in 1 .. 2 /\ len > 0 /\ s[len] \in Run /\ HostOf[s[len]] = h /\ M = left[s[len]]
  <2>1. M \in 0 .. 2 /\ (len = 0 => M = 0) /\ (len > 0 => M = left[s[len]])
    BY <1>1, RunsOfWhole
  <2>2. M \in 1 .. 2 /\ len > 0
    BY <1>1, <2>1
  <2> HIDE DEF M
  <2>3. s[len] \in Run /\ HostOf[s[len]] = h
    BY <1>1, <2>2, RunsOfWhole
  <2> QED BY <2>1, <2>2, <2>3
<1>3. s[len] # x /\ pc[s[len]] = "done"
  <2>1. len \in 1 .. Len(s)
    BY <1>1, <1>2
  <2>2. s[len] < x /\ pc[s[len]] = "done" /\ s[len] \in Nat
    BY <2>1, LaterThanTheFile, HistoryAssumption
  <2> QED BY <2>2
<1>4. pc'[s[len]] = "done" /\ left'[s[len]] \in 1 .. 2
  BY <1>2, <1>3, WriteStep
<1>5. PICK n \in 1 .. left[x] :
          /\ Len(g) = Len(f) + n
          /\ \A p \in 1 .. Len(f) : g[p] = f[p]
          /\ \A i \in 1 .. n : g[Len(f) + i] = [run |-> x, part |-> Line[3 - left[x] + i]]
  BY WriteStep
<1>6. /\ Len(f) = 3 * len - M
      /\ \A m \in 1 .. 3 :
             3 * (len - 1) + m <= Len(f) => f[3 * (len - 1) + m] = [run |-> s[len], part |-> Line[m]]
  <2>1. len \in DOMAIN s
    BY <1>1, <1>2
  <2> QED BY <2>1 DEF Whole
<1> HIDE DEF f, g, len, M
<1>7. Len(f) \in 1 .. Len(g) - 1 /\ Len(f) \in 1 .. Len(f) /\ 1 \in 1 .. n
  BY <1>1, <1>2, <1>5, <1>6
<1>8. g[Len(f)].part # "newline"
  <2> DEFINE m == 3 - M
  <2>1. m \in 1 .. 2 /\ 3 * (len - 1) + m = Len(f)
    BY <1>1, <1>2, <1>6
  <2> HIDE DEF m
  <2>2. m \in 1 .. 3 /\ 3 * (len - 1) + m <= Len(f)
    BY <1>1, <2>1
  <2>3. f[Len(f)] = [run |-> s[len], part |-> Line[m]]
    BY <1>6, <2>1, <2>2
  <2>4. Line[m] # "newline"
    BY <2>1, LineParts
  <2> QED BY <1>5, <1>7, <2>3, <2>4
<1>9. g[Len(f) + 1].part = "first"
  <2>1. g[Len(f) + 1] = [run |-> x, part |-> Line[3 - left[x] + 1]]
    BY <1>5, <1>7
  <2>2. 3 - left[x] + 1 = 1
    OBVIOUS
  <2> QED BY <2>1, <2>2, LineParts
<1>10. (\E k \in 1 .. Len(file[h]) - 1 : BrokenAt(file[h], k))'
  <2>1. \E k \in 1 .. Len(g) - 1 : BrokenAt(g, k)
    BY <1>7, <1>8, <1>9 DEF BrokenAt
  <2> QED BY <2>1 DEF g
<1>11. (\E r \in Run : HostOf[r] = h /\ pc[r] = "done" /\ left[r] \in 1 .. 2)'
  BY <1>2, <1>4
<1> HIDE DEF h
<1> QED BY <1>10, <1>11 DEF Torn, h

-----------------------------------------------------------------------------
\* The invariant holds of the empty files.
LEMMA StoreInit == HistoryInit => StoreInv
<1> SUFFICES ASSUME HistoryInit PROVE StoreInv
  OBVIOUS
<1>1. HistoryTypeOK
  BY TypeInit
<1>2. Turns
  BY DEF HistoryInit, Turns
<1>3. Steps
  BY DEF HistoryInit, Steps
<1>4. ASSUME NEW h \in Host PROVE Whole(h, <<>>)
  <2>1. Wrote(h) = {}
    BY DEF HistoryInit, Wrote
  <2>2. Len(file[h]) = 0 /\ Missing(<<>>) = 0
    BY DEF HistoryInit, Missing
  <2> QED BY <2>1, <2>2 DEF Whole
<1>5. Stored
  <2>1. <<>> \in Seq(Run)
    OBVIOUS
  <2> QED BY <1>4, <2>1 DEF Stored
<1> QED BY <1>1, <1>2, <1>3, <1>5 DEF StoreInv

\* Every step keeps it, if no two runs of a host overlap.
LEMMA StoreStep == Exclusive /\ StoreInv /\ [HistoryNext]_HistoryVars => StoreInv'
<1> SUFFICES ASSUME Exclusive, StoreInv, [HistoryNext]_HistoryVars PROVE StoreInv'
  OBVIOUS
<1>1. HistoryTypeOK /\ Turns /\ Steps /\ Stored
  BY DEF StoreInv
<1>2. HistoryTypeOK' /\ Turns' /\ Steps'
  BY <1>1, TypeStep, TurnsStep, StepsStep
<1>3. ASSUME NEW h \in Host PROVE (\E s \in Seq(Run) : Whole(h, s)') \/ Torn(h)'
  <2>1. (\E s \in Seq(Run) : Whole(h, s)) \/ Torn(h)
    BY <1>1 DEF Stored
  <2>2. ASSUME NEW x \in Run, Write(x)
        PROVE  (\E s \in Seq(Run) : Whole(h, s)') \/ Torn(h)'
    <3>1. CASE h # HostOf[x]
      BY <1>1, <2>1, <2>2, <3>1, OtherHosts
    <3>2. CASE h = HostOf[x] /\ Torn(h)
      BY <1>1, <2>2, <3>2, TornStays
    <3>3. ASSUME h = HostOf[x], NEW s \in Seq(Run), Whole(h, s)
          PROVE  (\E t \in Seq(Run) : Whole(h, t)') \/ Torn(h)'
      <4>1. CASE left[x] < 3
        BY <1>1, <2>2, <3>3, <4>1, LineGoesOn
      <4>2. CASE left[x] = 3 /\ Missing(s) = 0
        BY <1>1, <2>2, <3>3, <4>2, LineBegins
      <4>3. CASE left[x] = 3 /\ Missing(s) # 0
        BY <1>1, <2>2, <3>3, <4>3, LineIsBroken
      <4>4. left[x] \in 1 .. 3
        BY <1>1, <2>2, WriteStep
      <4> QED BY <4>1, <4>2, <4>3, <4>4
    <3> QED BY <2>1, <3>1, <3>2, <3>3
  <2>3. CASE ~ \E x \in Run : Write(x)
    <3>1. /\ left' = left /\ file' = file
          /\ \A r \in Run : pc[r] = "done" => pc'[r] = "done"
      BY <1>1, <2>3, QuietStep
    <3>2. Torn(h) => Torn(h)'
      BY <3>1 DEF Torn
    <3>3. \A s : Whole(h, s) => Whole(h, s)'
      BY <3>1 DEF Whole, Wrote, Missing
    <3> QED BY <2>1, <3>2, <3>3
  <2> QED BY <2>2, <2>3
<1>4. Stored'
  BY <1>3 DEF Stored
<1> QED BY <1>2, <1>4 DEF StoreInv

\* Half a record at the end of a file is malformed.
LEMMA HalfIsMalformed ==
    ASSUME HistoryTypeOK, NEW h \in Host, NEW s \in Seq(Run), Whole(h, s), Missing(s) = 2
    PROVE  Malformed(file[h])
<1> DEFINE f == file[h]
           p == Len(f)
           len == Len(s)
<1>1. len \in Nat /\ DOMAIN s = 1 .. len /\ p \in Nat
  BY DEF HistoryTypeOK
<1>2. len > 0 /\ p = 3 * len - 2
  <2>1. len # 0
    BY <1>1, RunsOfWhole
  <2>2. p = 3 * len - 2
    BY DEF Whole
  <2> QED BY <1>1, <2>1, <2>2
<1>3. \A q : q \in Newlines(f) <=> q \in 1 .. p /\ \E k \in 1 .. len : q = 3 * k
  <2>1. Newlines(f) = {q \in 1 .. p : \E k \in DOMAIN s : q = 3 * k}
    BY NewlinesOfWhole
  <2> QED BY <1>1, <2>1
<1> HIDE DEF f, p, len
<1>4. p \notin Newlines(f)
  <2> SUFFICES ASSUME NEW k \in 1 .. len, p = 3 * k PROVE FALSE
    BY <1>3
  <2> QED BY <1>1, <1>2
<1>5. p - 1 \in Newlines(f) \cup {0}
  <2>1. CASE len = 1
    BY <1>2, <2>1
  <2>2. CASE len # 1
    <3>1. len - 1 \in 1 .. len /\ p - 1 = 3 * (len - 1) /\ p - 1 \in 1 .. p
      BY <1>1, <1>2, <2>2
    <3> QED BY <1>3, <3>1
  <2> QED BY <2>1, <2>2
<1>6. p \in 1 .. p /\ \A k \in p .. p : k = p
  BY <1>1, <1>2
<1>7. <<p, p>> \in LinesOf(f)
  <2>1. p = Len(f)
    BY DEF p
  <2> QED BY <1>1, <1>4, <1>5, <1>6, <2>1 DEF LinesOf
<1>8. ~ IsRecord(f, <<p, p>>)
  <2>1. p # p + 1
    BY <1>1
  <2> QED BY <2>1 DEF IsRecord
<1>9. Malformed(f)
  BY <1>7, <1>8 DEF Malformed
<1> QED BY <1>9 DEF f

\* It implies that a history that can be read is the true one.
LEMMA StoreIsTrue == StoreInv => TimelineTrue
<1> SUFFICES ASSUME StoreInv, NEW h \in Host
             PROVE  IF Malformed(file[h])
                    THEN \E r \in Run : HostOf[r] = h /\ left[r] \in 1 .. 2
                    ELSE ReadHostHistory(file[h]) = Recorded(h)
  BY LineParts DEF TimelineTrue
<1>1. HistoryTypeOK /\ Turns /\ Steps /\ Stored
  BY DEF StoreInv
<1>2. CASE Torn(h)
  <2>1. file[h] \in Seq(Chunk)
    BY <1>1 DEF HistoryTypeOK
  <2>2. Malformed(file[h])
    BY <1>2, <2>1, BrokenIsMalformed DEF Torn
  <2>3. \E r \in Run : HostOf[r] = h /\ left[r] \in 1 .. 2
    BY <1>2 DEF Torn
  <2> QED BY <2>2, <2>3
<1>3. ASSUME NEW s \in Seq(Run), Whole(h, s)
      PROVE  IF Malformed(file[h])
             THEN \E r \in Run : HostOf[r] = h /\ left[r] \in 1 .. 2
             ELSE ReadHostHistory(file[h]) = Recorded(h)
  <2>1. CASE Missing(s) # 2
    BY <1>1, <1>3, <2>1, WholeIsRead
  <2>2. CASE Missing(s) = 2
    <3>1. Malformed(file[h])
      BY <1>1, <1>3, <2>2, HalfIsMalformed
    <3>2. Len(s) > 0
      <4>1. s # <<>>
        BY <1>1, <1>3, <2>2, WholeIsRead
      <4> QED BY <4>1
    <3>3. Len(s) \in 1 .. Len(s)
      BY <3>2
    <3>4. s[Len(s)] \in Run /\ HostOf[s[Len(s)]] = h /\ left[s[Len(s)]] = 2
      BY <1>1, <1>3, <2>2, <3>2, <3>3, RunsOfWhole
    <3> QED BY <3>1, <3>4
  <2> QED BY <2>1, <2>2
<1> QED BY <1>1, <1>2, <1>3 DEF Stored

\* If no two runs of a host overlap, a history that can be read is the true one, for
\* any number of hosts, runs, faults and writes per line; and only a run that broke
\* off in its line makes one unreadable (write_record, read_host_history).
THEOREM HistoryIsTrue == Exclusive => (HistorySpec => []TimelineTrue)
<1>1. Exclusive => (StoreInv /\ [HistoryNext]_HistoryVars => StoreInv')
  BY StoreStep
<1> SUFFICES ASSUME Exclusive PROVE HistorySpec => []TimelineTrue
  OBVIOUS
<1> QED BY <1>1, StoreInit, StoreIsTrue, PTL DEF HistorySpec

-----------------------------------------------------------------------------
(***************************************************************************)
(* What overlapping runs cannot spoil.                                     *)
(***************************************************************************)
\* A host's records are of its own runs, each read once and in the order of time.
HistorySound ==
    \A h \in Host : LET runs == ReadHostHistory(file[h]) IN
        /\ \A i \in DOMAIN runs : /\ HostOf[runs[i]] = h /\ pc[runs[i]] \in {"write", "done"}
                                  /\ left[runs[i]] <= 1
        /\ \A i, j \in DOMAIN runs :
               i < j => runs[i] # runs[j] /\ time[runs[i]] <= time[runs[j]]

\* The place of a part in a line
Number(part) == CHOOSE m \in 1 .. 3 : Line[m] = part

\* A run writes the parts of its line in order, each once, and to its host's file.
PartsInOrder ==
    \A h \in Host : \A p \in 1 .. Len(file[h]) :
        /\ HostOf[file[h][p].run] = h
        /\ Number(file[h][p].part) <= 3 - left[file[h][p].run]
        /\ \A q \in 1 .. p - 1 : file[h][q].run = file[h][p].run =>
               Number(file[h][q].part) < Number(file[h][p].part)

\* The parts are numbered as they are in a line.
LEMMA Numbers ==
    /\ \A m \in 1 .. 3 : Number(Line[m]) = m
    /\ Number("first") = 1 /\ Number("second") = 2
    /\ \A part \in Part : Number(part) \in 1 .. 3
<1>1. \A m \in 1 .. 3 : m = 1 \/ m = 2 \/ m = 3
  OBVIOUS
<1>2. \A j, m \in 1 .. 3 : Line[j] = Line[m] => j = m
  BY <1>1, LineParts
<1>3. \A m \in 1 .. 3 : Number(Line[m]) = m
  BY <1>2 DEF Number
<1>4. \A part \in Part : \E m \in 1 .. 3 : Line[m] = part
  BY LineParts DEF Part
<1> QED BY <1>3, <1>4, LineParts DEF Number

\* Every step keeps the parts in order.
LEMMA PartsStep ==
    ASSUME HistoryTypeOK, Steps, PartsInOrder, [HistoryNext]_HistoryVars
    PROVE  PartsInOrder'
<1>1. CASE ~ \E x \in Run : Write(x)
  <2>1. left' = left /\ file' = file
    BY <1>1, QuietStep
  <2> QED BY <2>1 DEF PartsInOrder
<1>2. ASSUME NEW x \in Run, Write(x), NEW h \in Host, NEW p \in 1 .. Len(file'[h])
      PROVE  /\ HostOf[file'[h][p].run] = h
             /\ Number(file'[h][p].part) <= 3 - left'[file'[h][p].run]
             /\ \A q \in 1 .. p - 1 : file'[h][q].run = file'[h][p].run =>
                    Number(file'[h][q].part) < Number(file'[h][p].part)
  <2> DEFINE f == file[h]
             g == file'[h]
  <2>1. PICK n \in 1 .. left[x] :
            /\ left'[x] = left[x] - n
            /\ Len(file'[HostOf[x]]) = Len(file[HostOf[x]]) + n
            /\ \A i \in 1 .. Len(file[HostOf[x]]) : file'[HostOf[x]][i] = file[HostOf[x]][i]
            /\ \A i \in 1 .. n : file'[HostOf[x]][Len(file[HostOf[x]]) + i] =
                                     [run |-> x, part |-> Line[3 - left[x] + i]]
    BY <1>2, WriteStep
  <2>2. left[x] \in 1 .. 3 /\ n \in Nat
    BY <1>2, WriteStep
  <2>3. f \in Seq(Chunk) /\ Len(f) \in Nat /\ \A r \in Run : left[r] \in 0 .. 3
    BY LineParts DEF HistoryTypeOK
  <2>4. /\ \A r \in Run : r # x => left'[r] = left[r]
        /\ \A d \in Host : d # HostOf[x] => file'[d] = file[d]
    BY <1>2, WriteStep
  <2>5. \A i \in 1 .. Len(f) : /\ f[i].run \in Run /\ Number(f[i].part) \in 1 .. 3
                               /\ left'[f[i].run] \in Int
                               /\ left'[f[i].run] <= left[f[i].run]
    <3> SUFFICES ASSUME NEW i \in 1 .. Len(f)
                 PROVE  /\ f[i].run \in Run /\ Number(f[i].part) \in 1 .. 3
                        /\ left'[f[i].run] \in Int
                        /\ left'[f[i].run] <= left[f[i].run]
      OBVIOUS
    <3>1. f[i] \in Chunk
      BY <2>3
    <3>2. f[i].run \in Run /\ f[i].part \in Part
      BY <3>1 DEF Chunk
    <3>3. left'[f[i].run] \in Int /\ left'[f[i].run] <= left[f[i].run]
      <4>1. left[f[i].run] \in 0 .. 3
        BY <2>3, <3>2
      <4>2. CASE f[i].run = x
        <5>1. left'[f[i].run] = left[f[i].run] - n
          BY <2>1, <4>2
        <5> QED BY <2>2, <4>1, <5>1
      <4>3. CASE f[i].run # x
        BY <2>4, <3>2, <4>1, <4>3
      <4> QED BY <4>2, <4>3
    <3> QED BY <3>2, <3>3, Numbers
  <2>6. \A i \in 1 .. Len(f) :
            /\ HostOf[f[i].run] = h
            /\ Number(f[i].part) <= 3 - left[f[i].run]
            /\ \A q \in 1 .. i - 1 : f[q].run = f[i].run => Number(f[q].part) < Number(f[i].part)
    BY DEF PartsInOrder
  <2>7. CASE p \in 1 .. Len(f)
    <3>1. \A i \in 1 .. Len(f) : g[i] = f[i]
      BY <2>1, <2>4
    <3>2. \A q \in 1 .. p - 1 : q \in 1 .. Len(f)
      BY <2>3, <2>7
    <3>3. left[f[p].run] \in Int
      BY <2>3, <2>5, <2>7
    <3> HIDE DEF f, g
    <3>4. Number(g[p].part) <= 3 - left'[g[p].run]
      BY <2>5, <2>6, <2>7, <3>1, <3>3
    <3>5. HostOf[g[p].run] = h
      BY <2>6, <2>7, <3>1
    <3>6. \A q \in 1 .. p - 1 : g[q].run = g[p].run => Number(g[q].part) < Number(g[p].part)
      BY <2>6, <2>7, <3>1, <3>2
    <3> QED BY <3>4, <3>5, <3>6 DEF g
  <2>8. CASE p \notin 1 .. Len(f)
    <3>1. h = HostOf[x]
      BY <1>2, <2>4, <2>8
    <3> DEFINE i == p - Len(f)
    <3>2. i \in 1 .. n /\ p = Len(f) + i
      <4>1. Len(g) = Len(f) + n
        BY <2>1, <3>1
      <4>2. p \in Nat /\ p > Len(f) /\ p <= Len(f) + n
        BY <1>2, <2>3, <2>8, <4>1
      <4> QED BY <2>2, <2>3, <4>2
    <3>3. /\ \A k \in 1 .. n : g[Len(f) + k] = [run |-> x, part |-> Line[3 - left[x] + k]]
          /\ \A k \in 1 .. Len(f) : g[k] = f[k]
      BY <2>1, <3>1
    <3>4. \A k \in 1 .. n : 3 - left[x] + k \in 1 .. 3
      BY <2>1, <2>2
    <3> HIDE DEF f, g, i
    <3>5. \A k \in 1 .. n : g[Len(f) + k].run = x /\ Number(g[Len(f) + k].part) = 3 - left[x] + k
      <4> SUFFICES ASSUME NEW k \in 1 .. n
                   PROVE  /\ g[Len(f) + k].run = x
                          /\ Number(g[Len(f) + k].part) = 3 - left[x] + k
        OBVIOUS
      <4>1. g[Len(f) + k] = [run |-> x, part |-> Line[3 - left[x] + k]]
        BY <3>3
      <4>2. g[Len(f) + k].run = x /\ g[Len(f) + k].part = Line[3 - left[x] + k]
        BY <4>1
      <4>3. 3 - left[x] + k \in 1 .. 3
        BY <3>4
      <4>4. Number(Line[3 - left[x] + k]) = 3 - left[x] + k
        BY <4>3, Numbers
      <4> QED BY <4>2, <4>4
    <3>6. g[p].run = x /\ Number(g[p].part) = 3 - left[x] + i
      BY <3>2, <3>5
    <3>7. Number(g[p].part) <= 3 - left'[x]
      BY <2>1, <2>2, <3>2, <3>6
    <3>8. ASSUME NEW q \in 1 .. p - 1, g[q].run = x PROVE Number(g[q].part) < Number(g[p].part)
      <4>1. CASE q \in 1 .. Len(f)
        <5>1. f[q].run = x /\ g[q].part = f[q].part
          BY <3>3, <3>8, <4>1
        <5>2. Number(f[q].part) <= 3 - left[x] /\ Number(f[q].part) \in 1 .. 3
          BY <2>5, <2>6, <4>1, <5>1
        <5> QED BY <2>2, <3>2, <3>6, <5>1, <5>2
      <4>2. CASE q \notin 1 .. Len(f)
        <5> DEFINE k == q - Len(f)
        <5>1. k \in 1 .. n /\ q = Len(f) + k /\ k < i
          BY <2>2, <2>3, <3>2, <4>2
        <5>2. Number(g[q].part) = 3 - left[x] + k
          BY <3>5, <5>1
        <5> HIDE DEF k
        <5> QED BY <2>2, <3>2, <3>6, <5>1, <5>2
      <4> QED BY <4>1, <4>2
    <3> QED BY <3>1, <3>6, <3>7, <3>8 DEF g
  <2> QED BY <2>7, <2>8
<1>3. (\E x \in Run : Write(x)) => PartsInOrder'
  BY <1>2 DEF PartsInOrder
<1> QED BY <1>1, <1>3

\* The records of a file whose parts are in order are of different runs.
LEMMA PartsAreSound == HistoryTypeOK /\ Steps /\ PartsInOrder => HistorySound
<1> SUFFICES ASSUME HistoryTypeOK, Steps, PartsInOrder, NEW h \in Host
             PROVE  LET runs == ReadHostHistory(file[h]) IN
                    /\ \A i \in DOMAIN runs : /\ HostOf[runs[i]] = h
                                              /\ pc[runs[i]] \in {"write", "done"}
                                              /\ left[runs[i]] <= 1
                    /\ \A i, j \in DOMAIN runs :
                           i < j => runs[i] # runs[j] /\ time[runs[i]] <= time[runs[j]]
  BY DEF HistorySound
<1> DEFINE f == file[h]
           lines == Sorted(Records(f), Chronological(f))
           runs == ReadHostHistory(f)
<1>1. f \in Seq(Chunk) /\ DOMAIN f = 1 .. Len(f) /\ Len(f) \in Nat
  BY DEF HistoryTypeOK
<1>2. Lists(lines, Records(f), Chronological(f))
  BY <1>1, RecordsOfFile, ChronologicalOrder, SortedIsList
<1>3. PICK n \in Nat : lines \in [1 .. n -> Records(f)]
  BY <1>2 DEF Lists
<1>4. runs = [k \in DOMAIN lines |-> RunAt(f, lines[k])]
  BY DEF ReadHostHistory, Chronological
<1> HIDE DEF lines
<1>5. /\ DOMAIN runs = 1 .. n
      /\ \A k \in 1 .. n : runs[k] = RunAt(f, lines[k]) /\ lines[k] \in Records(f)
  BY <1>3, <1>4
<1> HIDE DEF runs, f
<1>6. ASSUME NEW l \in Records(f)
      PROVE  /\ l[1] \in 1 .. Len(f) /\ l = <<l[1], l[1] + 1>>
             /\ f[l[1]].part = "first" /\ RunAt(f, l) \in Run
             /\ HostOf[RunAt(f, l)] = h /\ left[RunAt(f, l)] <= 1
             /\ pc[RunAt(f, l)] \in {"write", "done"}
  <2>1. l[1] \in 1 .. Len(f) /\ l = <<l[1], l[1] + 1>> /\ RunAt(f, l) \in Run
    BY <1>1, RecordsOfFile
  <2>2. l[2] \in 1 .. Len(f)
    BY DEF Records, LinesOf
  <2>3. f[l[1]] = [run |-> f[l[2]].run, part |-> "first"] /\ f[l[2]].part = "second"
    BY DEF Records, IsRecord
  <2>4. RunAt(f, l) = f[l[2]].run /\ f[l[1]].part = "first"
    BY <2>3 DEF RunAt
  <2>5. HostOf[f[l[2]].run] = h /\ Number(f[l[2]].part) <= 3 - left[f[l[2]].run]
    BY <2>2 DEF PartsInOrder, f
  <2>6. left[RunAt(f, l)] \in 0 .. 3
    BY <2>1, LineParts DEF HistoryTypeOK
  <2>7. 2 <= 3 - left[RunAt(f, l)]
    BY <2>3, <2>4, <2>5, Numbers
  <2>8. left[RunAt(f, l)] <= 1 /\ left[RunAt(f, l)] # 3
    BY <2>6, <2>7
  <2>9. pc[RunAt(f, l)] \in {"write", "done"}
    BY <2>1, <2>8, LineParts DEF Steps, HistoryTypeOK
  <2> QED BY <2>1, <2>4, <2>5, <2>8, <2>9
<1>7. ASSUME NEW i \in 1 .. n, NEW j \in 1 .. n, i < j
      PROVE  runs[i] # runs[j] /\ time[runs[i]] <= time[runs[j]]
  <2> DEFINE l == lines[i]
             m == lines[j]
  <2>1. /\ l \in Records(f) /\ m \in Records(f)
        /\ runs[i] = RunAt(f, l) /\ runs[j] = RunAt(f, m)
    BY <1>5
  <2>2. <<l, m>> \in Chronological(f)
    BY <1>2, <1>3, <1>7 DEF Lists
  <2> HIDE DEF l, m
  <2>3. Before(f, l, m) /\ l # m
    BY <1>1, <2>2, ChronologicalOrder DEF Chronological, Asymmetric
  <2>4. time[runs[i]] \in Nat /\ time[runs[j]] \in Nat
    <3>1. runs[i] \in Run /\ runs[j] \in Run
      BY <1>6, <2>1
    <3>2. time[runs[i]] \in 0 .. MaxTime /\ time[runs[j]] \in 0 .. MaxTime
      BY <3>1 DEF HistoryTypeOK
    <3> QED BY <3>2, HistoryAssumption
  <2>5. time[runs[i]] <= time[runs[j]]
    BY <2>1, <2>3, <2>4 DEF Before
  <2>6. l[1] # m[1]
    BY <1>6, <2>1, <2>3
  <2>7. /\ l[1] \in 1 .. Len(f) /\ f[l[1]].part = "first"
        /\ m[1] \in 1 .. Len(f) /\ f[m[1]].part = "first"
    BY <1>6, <2>1
  <2>8. \A p \in 1 .. Len(f) : \A q \in 1 .. p - 1 : f[q].run = f[p].run =>
            Number(f[q].part) < Number(f[p].part)
    BY DEF PartsInOrder, f
  <2>9. ASSUME NEW p \in 1 .. Len(f), NEW q \in 1 .. Len(f), q < p,
               f[q].part = "first", f[p].part = "first"
        PROVE  f[q].run # f[p].run
    <3>1. q \in 1 .. p - 1
      BY <1>1, <2>9
    <3>2. ~(Number(f[q].part) < Number(f[p].part))
      BY <2>9, Numbers
    <3> QED BY <2>8, <3>1, <3>2
  <2>10. l[1] < m[1] \/ m[1] < l[1]
    BY <1>1, <2>6, <2>7
  <2>11. f[l[1]].run # f[m[1]].run
    BY <2>7, <2>9, <2>10
  <2> QED BY <2>1, <2>5, <2>11 DEF RunAt
<1>8. \A i \in 1 .. n : /\ HostOf[runs[i]] = h /\ pc[runs[i]] \in {"write", "done"}
                        /\ left[runs[i]] <= 1
  BY <1>5, <1>6
<1> QED BY <1>5, <1>7, <1>8 DEF runs, f

\* However runs overlap or break off, what is read of a host's file are records of
\* that host's runs, none of them twice, in the order of time (write_record,
\* read_host_history).
THEOREM HistoryIsSound == HistorySpec => []HistorySound
<1> DEFINE Inv == HistoryTypeOK /\ Steps /\ PartsInOrder
<1>1. HistoryInit => Inv
  <2>1. HistoryInit => Steps
    BY HistoryAssumption DEF HistoryInit, Steps
  <2>2. HistoryInit => PartsInOrder
    BY DEF HistoryInit, PartsInOrder
  <2> QED BY <2>1, <2>2, TypeInit
<1>2. Inv /\ [HistoryNext]_HistoryVars => Inv'
  BY TypeStep, StepsStep, PartsStep
<1>3. Inv => HistorySound
  BY PartsAreSound
<1> QED BY <1>1, <1>2, <1>3, PTL DEF HistorySpec
===============================================================================
