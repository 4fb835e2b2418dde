--------------------------- MODULE RuleOrderProofs ---------------------------
(***************************************************************************)
(* Theorems about RuleOrder, for catalogs of any size and any graph: the   *)
(* order respects the dependencies, and the verdict is about the catalog.  *)
(***************************************************************************)
EXTENDS RuleOrder, TLAPS

(***************************************************************************)
(* The inductive invariant: what by_id holds of the modules, what the      *)
(* marks say of stack and order, and how far each call has come.           *)
(***************************************************************************)
Loaded(i) == modules[i] # NoRule /\ modules[i].id \in Defined

Loading ==
    /\ status = "load" => /\ \A i \in DOMAIN modules : i < turn => Loaded(i)
                          /\ stack = <<>> /\ order = <<>>
                          /\ \A n \in Name : visited[n] = "no"
    /\ status \notin {"load", "norule"} => \A i \in DOMAIN modules : Loaded(i)

\* The calls in progress are those of the rules marked "in", each once.
Marks ==
    /\ \A n \in Name : visited[n] # "no" => n \in Defined
    /\ \A n \in Name : visited[n] = "in" <=> \E k \in DOMAIN stack : stack[k].id = n
    /\ \A k, l \in DOMAIN stack : stack[k].id = stack[l].id => k = l
    /\ \A n \in Name : visited[n] = "done" <=> \E i \in DOMAIN order : order[i] = n

\* A call has visited the dependencies below `next', and waits for the last
\* of them while another call is on top of it.
Settled(marks, n, m) ==
    \A i \in DOMAIN by_id[n] : i < m => marks[by_id[n][i]] = "done"

Progress ==
    /\ \A k \in DOMAIN stack : stack[k].next \in 1 .. Len(by_id[stack[k].id]) + 1
    /\ \A k \in DOMAIN stack : Settled(visited, stack[k].id, stack[k].next - 1)
    /\ \A k \in DOMAIN stack : k = Len(stack) => Settled(visited, stack[k].id, stack[k].next)
    /\ \A k \in DOMAIN stack : k < Len(stack) =>
          /\ stack[k].next >= 2
          /\ by_id[stack[k].id][stack[k].next - 1] = stack[k + 1].id

\* The outer loop: what it has passed was visited.
Passed ==
    status \in {"run", "done"} =>
        \A i \in DOMAIN modules : (i < turn \/ status = "done") =>
            visited[modules[i].id] # "no"

Verdict ==
    /\ status = "cycle" => \E S \in SUBSET Defined : Knot(S)
    /\ status = "unknown" => \E n \in Defined : ~ (Dependencies(n) \subseteq Defined)
    /\ status = "done" => stack = <<>>

Inv == TypeOK /\ Loading /\ Marks /\ Progress /\ Passed /\ Verdict /\ DependenciesFirst

-----------------------------------------------------------------------------
\* The modules that the sort reads are rules.
LEMMA ModuleType ==
    ASSUME TypeOK, NEW i \in DOMAIN modules, modules[i] # NoRule
    PROVE  /\ modules[i].id \in Name
           /\ modules[i].depends_on \in Seq(Name)
           /\ modules[i].depends_on # NoRule
<1>1. modules[i] \in RuleType
  BY CatalogAssumption DEF TypeOK
<1> QED BY <1>1, CatalogAssumption DEF RuleType

\* A frame is a call of a rule that is marked "in".
LEMMA FrameType ==
    ASSUME TypeOK, Marks, NEW k \in DOMAIN stack
    PROVE  /\ stack[k].id \in Name /\ stack[k].next \in Nat
           /\ stack[k].id \in Defined
           /\ visited[stack[k].id] = "in"
           /\ by_id[stack[k].id] \in Seq(Name)
<1> DEFINE F == [id : Name, next : Nat]
<1>1. stack[k] \in F
  <2>1. stack \in Seq(F)
    BY DEF TypeOK
  <2> HIDE DEF F
  <2> QED BY <2>1
<1>2. visited[stack[k].id] = "in"
  BY <1>1 DEF Marks
<1> QED BY <1>1, <1>2 DEF Marks, Defined, TypeOK

\* The initial state satisfies the invariant.
LEMMA InitInv == Init => Inv
<1> SUFFICES ASSUME Init PROVE Inv
  OBVIOUS
<1>1. TypeOK
  BY CatalogAssumption DEF Init, TypeOK
<1>2. modules \in Seq(RuleType \cup {NoRule})
  BY <1>1, CatalogAssumption DEF TypeOK
<1>3. DOMAIN stack = {} /\ DOMAIN order = {}
  BY DEF Init
<1>4. Loading
  BY <1>2 DEF Init, Loading
<1>5. Marks /\ Progress /\ DependenciesFirst
  BY <1>3 DEF Init, Marks, Progress, Settled, DependenciesFirst
<1>6. Passed /\ Verdict
  BY DEF Init, Passed, Verdict
<1> QED BY <1>1, <1>4, <1>5, <1>6 DEF Inv

\* Loading a module keeps the invariant.
LEMMA DiscoverInv == Inv /\ Discover => Inv'
<1> SUFFICES ASSUME Inv, Discover PROVE Inv'
  OBVIOUS
<1> USE DEF Inv
<1>1. turn \in DOMAIN modules
  BY CatalogAssumption DEF TypeOK, Discover
<1>2. modules[turn] # NoRule => /\ modules[turn].id \in Name
                                /\ modules[turn].depends_on \in Seq(Name)
                                /\ modules[turn].depends_on # NoRule
  BY <1>1, ModuleType
<1>3. TypeOK'
  BY <1>2 DEF TypeOK, Discover, Raised
<1>4. \A n \in Name : n \in Defined => n \in Defined'
  BY <1>2 DEF Defined, Discover, TypeOK
<1>5. Loading'
  <2>1. modules[turn] # NoRule => modules[turn].id \in Defined'
    BY <1>2 DEF Defined, Discover, TypeOK
  <2>2. \A i \in DOMAIN modules : i < turn' => Loaded(i)'
    BY <1>4, <2>1 DEF Loading, Loaded, Discover, TypeOK, Defined
  <2> QED BY <2>2 DEF Loading, Discover
<1>6. DOMAIN stack = {} /\ DOMAIN order = {}
  BY DEF Loading, Discover
<1>7. Marks' /\ Progress' /\ DependenciesFirst'
  BY <1>6 DEF Loading, Discover, Marks, Progress, Settled, DependenciesFirst
<1>8. Passed' /\ Verdict'
  BY DEF Discover, Passed, Verdict
<1> QED BY <1>3, <1>5, <1>7, <1>8

\* So does the start of the sort.
LEMMA SortInv == Inv /\ Sort => Inv'
<1> SUFFICES ASSUME Inv, Sort PROVE Inv'
  OBVIOUS
<1> USE DEF Inv
<1>1. TypeOK'
  BY DEF TypeOK, Sort
<1>2. Loading'
  <2>1. modules \in Seq(RuleType \cup {NoRule}) /\ turn > Len(modules)
    BY CatalogAssumption DEF TypeOK, Sort
  <2>2. \A i \in DOMAIN modules : Loaded(i)
    BY <2>1 DEF Loading, Sort, TypeOK
  <2> QED BY <2>2 DEF Loading, Loaded, Sort, Defined
<1>3. Marks'
  BY DEF Sort, Marks, Defined
<1>4. Progress'
  BY DEF Sort, Progress, Settled
<1>5. DependenciesFirst'
  BY DEF Sort, DependenciesFirst, Dependencies
<1>6. Passed'
  BY CatalogAssumption DEF Sort, Passed, TypeOK
<1>7. Verdict'
  BY DEF Sort, Verdict
<1> QED BY <1>1, <1>2, <1>3, <1>4, <1>5, <1>6, <1>7

\* A call that raises leaves all but the status as it is.
LEMMA RaiseInv ==
    ASSUME Inv, status = "run", status' \in {"cycle", "unknown"}, Verdict',
           turn' \in Nat \ {0}, UNCHANGED <<modules, by_id, visited, stack, order>>
    PROVE  Inv'
<1> USE DEF Inv
<1>1. TypeOK' /\ Loading'
  BY DEF TypeOK, Loading, Loaded, Defined, Raised
<1>2. Marks' /\ Progress' /\ DependenciesFirst'
  BY DEF Marks, Progress, Settled, DependenciesFirst, Defined, Dependencies
<1>3. Passed'
  BY DEF Passed
<1> QED BY <1>1, <1>2, <1>3

\* A new call: rule n, which was not visited, on top of the calls in base.
LEMMA PushInv ==
    ASSUME Inv, status = "run", NEW n \in Defined, visited[n] = "no",
           NEW base, base \in Seq([id : Name, next : Nat]), Len(base) = Len(stack),
           \A k \in DOMAIN stack :
               /\ base[k].id = stack[k].id
               /\ k < Len(stack) => base[k] = stack[k]
               /\ k = Len(stack) => /\ base[k].next = stack[k].next + 1
                                    /\ stack[k].next \in DOMAIN by_id[stack[k].id]
                                    /\ by_id[stack[k].id][stack[k].next] = n,
           visited' = [visited EXCEPT ![n] = "in"],
           stack' = Append(base, [id |-> n, next |-> 1]),
           UNCHANGED <<modules, by_id, order, status>>,
           turn' \in Nat \ {0}, Passed'
    PROVE  Inv'
<1> USE DEF Inv
<1> DEFINE F == [id : Name, next : Nat]
           top == [id |-> n, next |-> 1]
<1>0. n \in Name /\ n \notin {stack[k].id : k \in DOMAIN stack}
  BY DEF Defined, Marks
<1>1. stack \in Seq(F) /\ base \in Seq(F) /\ top \in F
  BY <1>0 DEF TypeOK
<1> DEFINE L == Len(stack)
<1>a. L \in Nat /\ L = Len(stack)
  BY <1>1
<1>2. /\ L \in Nat /\ L = Len(stack) /\ stack' \in Seq(F) /\ Len(stack') = L + 1
      /\ DOMAIN stack = 1 .. L /\ DOMAIN stack' = 1 .. L + 1
      /\ stack'[L + 1] = top
      /\ \A k \in 1 .. L : stack'[k] = base[k]
  <2> HIDE DEF F, top
  <2> QED BY <1>1 DEF top
<1> HIDE DEF L
<1>3. \A k \in 1 .. L : stack'[k].id = stack[k].id
  BY <1>2
<1>4. stack'[L + 1].id = n /\ stack'[L + 1].next = 1
  BY <1>2
<1>5. \A m \in Name : visited'[m] = IF m = n THEN "in" ELSE visited[m]
  BY DEF TypeOK
<1> HIDE DEF top, F
<1>6. TypeOK'
  BY <1>0, <1>2 DEF TypeOK, F
<1>7. Loading'
  BY DEF Loading, Loaded, Defined
<1>8. Marks'
  <2>1. \A m \in Name : visited'[m] # "no" => m \in Defined'
    BY <1>5 DEF Marks, Defined
  <2>2. \A m \in Name : visited'[m] = "in" <=> \E k \in DOMAIN stack' : stack'[k].id = m
    <3> TAKE m \in Name
    <3>1. CASE m = n
      BY <3>1, <1>2, <1>4, <1>5
    <3>2. CASE m # n
      <4>1. visited'[m] = visited[m]
        BY <3>2, <1>5
      <4>2. ASSUME NEW k \in 1 .. L + 1, stack'[k].id = m
            PROVE  \E l \in 1 .. L : stack[l].id = m
        <5>1. k \in 1 .. L
          BY ONLY <4>2, <3>2, <1>2, <1>4
        <5> QED BY <5>1, <4>2, <1>3
      <4>3. ASSUME NEW k \in 1 .. L, stack[k].id = m
            PROVE  \E l \in 1 .. L + 1 : stack'[l].id = m
        <5>1. k \in 1 .. L + 1 /\ stack'[k].id = m
          BY ONLY <4>3, <1>2, <1>3
        <5> QED BY ONLY <5>1
      <4>4. visited[m] = "in" <=> \E k \in 1 .. L : stack[k].id = m
        <5>1. visited[m] = "in" <=> \E k \in DOMAIN stack : stack[k].id = m
          BY DEF Marks
        <5> QED BY ONLY <5>1, <1>2
      <4> QED BY ONLY <4>1, <4>2, <4>3, <4>4, <1>2
    <3> QED BY <3>1, <3>2
  <2>3. \A k, l \in DOMAIN stack' : stack'[k].id = stack'[l].id => k = l
    BY <1>0, <1>2, <1>3, <1>4 DEF Marks
  <2>4. \A m \in Name : visited'[m] = "done" <=> \E i \in DOMAIN order' : order'[i] = m
    BY <1>5 DEF Marks
  <2> QED BY <2>1, <2>2, <2>3, <2>4 DEF Marks
<1>9. Progress'
  <2>1. \A m \in Name : visited[m] = "done" => visited'[m] = "done"
    BY <1>5
  <2>2. \A k \in 1 .. L : /\ stack[k].id \in Name /\ stack[k].next \in Nat \ {0}
                          /\ stack[k].next <= Len(by_id[stack[k].id]) + 1
                          /\ by_id[stack[k].id] \in Seq(Name)
    <3> TAKE k \in 1 .. L
    <3>1. /\ stack[k].id \in Name /\ stack[k].next \in Nat
          /\ by_id[stack[k].id] \in Seq(Name)
      BY <1>2, FrameType
    <3>2. stack[k].next \in 1 .. Len(by_id[stack[k].id]) + 1
      BY <1>2 DEF Progress
    <3> QED BY <3>1, <3>2
  <2>3. \A k \in 1 .. L : /\ k < L => stack'[k].next = stack[k].next
                          /\ k = L => stack'[k].next = stack[k].next + 1
    BY <1>2
  <2>4. \A k \in 1 .. L : k = L => /\ stack[k].next \in DOMAIN by_id[stack[k].id]
                                   /\ by_id[stack[k].id][stack[k].next] = n
    BY <1>2
  <2>5. \A k \in 1 .. L : k < L =>
            /\ stack[k].next >= 2
            /\ by_id[stack[k].id][stack[k].next - 1] = stack[k + 1].id
    BY <1>2 DEF Progress
  <2>6. \A k \in 1 .. L : stack'[k].next \in 1 .. Len(by_id[stack[k].id]) + 1
    <3> TAKE k \in 1 .. L
    <3>1. CASE k < L
      BY ONLY <3>1, <2>2, <2>3
    <3>2. CASE k = L
      BY ONLY <3>2, <2>2, <2>3, <2>4
    <3>3. k < L \/ k = L
      BY ONLY <1>a
    <3> QED BY ONLY <3>1, <3>2, <3>3
  <2>7. \A k \in 1 .. L : Settled(visited', stack[k].id, stack'[k].next - 1)
    <3> TAKE k \in 1 .. L
    <3>1. /\ Settled(visited, stack[k].id, stack[k].next - 1)
          /\ k = L => Settled(visited, stack[k].id, stack[k].next)
      BY <1>2 DEF Progress
    <3>2. Settled(visited, stack[k].id, stack'[k].next - 1)
      <4>1. CASE k < L
        BY <4>1, <3>1, <2>3
      <4>2. CASE k = L
        <5>1. stack'[k].next = stack[k].next + 1 /\ stack[k].next \in Nat
          BY ONLY <4>2, <2>2, <2>3
        <5>2. stack'[k].next - 1 = stack[k].next
          BY ONLY <5>1
        <5> QED BY ONLY <5>2, <4>2, <3>1
      <4>3. k < L \/ k = L
        BY ONLY <1>a
      <4> QED BY ONLY <4>1, <4>2, <4>3
    <3>3. \A i \in DOMAIN by_id[stack[k].id] : by_id[stack[k].id][i] \in Name
      <4>1. by_id[stack[k].id] \in Seq(Name)
        BY ONLY <2>2
      <4> QED BY ONLY <4>1
    <3> QED BY ONLY <3>2, <3>3, <2>1 DEF Settled
  <2>8. \A k \in 1 .. L : /\ stack'[k].next >= 2
                          /\ by_id[stack[k].id][stack'[k].next - 1] = stack'[k + 1].id
    <3> TAKE k \in 1 .. L
    <3>1. CASE k < L
      <4>1. k + 1 \in 1 .. L
        BY <3>1, <1>2
      <4> QED BY ONLY <3>1, <4>1, <2>3, <2>5, <1>3
    <3>2. CASE k = L
      <4>1. stack'[k].next - 1 = stack[k].next /\ stack'[k].next >= 2
        BY ONLY <3>2, <2>2, <2>3
      <4>2. by_id[stack[k].id][stack[k].next] = n
        BY <3>2, <2>4
      <4> QED BY <4>1, <4>2, <3>2, <1>4
    <3>3. k < L \/ k = L
      BY ONLY <1>a
    <3> QED BY ONLY <3>1, <3>2, <3>3
  <2>9. by_id[n] \in Seq(Name)
    BY <1>0 DEF Defined, TypeOK
  <2>10. stack'[L + 1].next \in 1 .. Len(by_id[n]) + 1
    BY ONLY <1>4, <2>9
  <2>11. Settled(visited', n, 1) /\ Settled(visited', n, 0)
    BY ONLY <2>9 DEF Settled
  <2>12. \A k \in 1 .. L + 1 :
            /\ stack'[k].next \in 1 .. Len(by_id[stack'[k].id]) + 1
            /\ Settled(visited', stack'[k].id, stack'[k].next - 1)
            /\ k = L + 1 => Settled(visited', stack'[k].id, stack'[k].next)
            /\ k < L + 1 => /\ stack'[k].next >= 2
                            /\ by_id[stack'[k].id][stack'[k].next - 1] = stack'[k + 1].id
    <3> TAKE k \in 1 .. L + 1
    <3>1. CASE k \in 1 .. L
      <4>1. k < L + 1 /\ k # L + 1
        BY ONLY <3>1, <1>a
      <4> QED BY ONLY <3>1, <4>1, <1>3, <2>6, <2>7, <2>8
    <3>2. CASE k = L + 1
      <4>1. ~ (k < L + 1)
        BY ONLY <3>2, <1>a
      <4> QED BY ONLY <3>2, <4>1, <1>4, <2>10, <2>11
    <3>3. k \in 1 .. L \/ k = L + 1
      BY ONLY <1>a
    <3> QED BY ONLY <3>1, <3>2, <3>3
  <2>13. \A m, j : Settled(visited', m, j) <=> Settled(visited, m, j)'
    BY DEF Settled
  <2>14. DOMAIN stack' = 1 .. L + 1 /\ Len(stack') = L + 1 /\ by_id' = by_id
    BY <1>2
  <2> QED BY ONLY <2>12, <2>13, <2>14 DEF Progress
<1>10. DependenciesFirst'
  BY DEF DependenciesFirst, Dependencies
<1>11. Verdict'
  BY DEF Verdict
<1> QED BY <1>6, <1>7, <1>8, <1>9, <1>10, <1>11

\* visit() of a dependency: what the dependency's mark says happens.
LEMMA VisitDependencyInv == Inv /\ VisitDependency => Inv'
<1> SUFFICES ASSUME Inv, VisitDependency PROVE Inv'
  OBVIOUS
<1> USE DEF Inv
<1> DEFINE F == [id : Name, next : Nat]
           L == Len(stack)
           n == by_id[Top.id][Top.next]
           frame == [id |-> Top.id, next |-> Top.next + 1]
           base == Append(Below, frame)
<1>1. L \in Nat \ {0} /\ DOMAIN stack = 1 .. L /\ Top = stack[L] /\ stack \in Seq(F)
  BY DEF TypeOK, VisitDependency, Top
<1>2. /\ Top.id \in Name /\ Top.next \in Nat \ {0} /\ Top.id \in Defined
      /\ by_id[Top.id] \in Seq(Name)
      /\ visited[Top.id] = "in"
      /\ Top.next \in DOMAIN by_id[Top.id]
  <2>1. L \in DOMAIN stack
    BY <1>1
  <2>2. /\ stack[L].id \in Name /\ stack[L].next \in Nat /\ stack[L].id \in Defined
        /\ by_id[stack[L].id] \in Seq(Name) /\ visited[stack[L].id] = "in"
    BY <2>1, FrameType
  <2>3. stack[L].next \in 1 .. Len(by_id[stack[L].id]) + 1
    BY <2>1 DEF Progress
  <2>4. Top.next <= Len(by_id[Top.id])
    BY DEF VisitDependency, Waiting
  <2> QED BY ONLY <2>2, <2>3, <2>4, <1>1
<1>3. n \in Name /\ n \in Dependencies(Top.id)
  BY <1>2 DEF Dependencies
<1>4. frame \in F
  BY <1>2
<1>5. /\ base \in Seq(F) /\ Len(base) = L
      /\ base[L] = frame
      /\ \A k \in 1 .. L : k < L => base[k] = stack[k]
  <2> HIDE DEF F, frame
  <2>1. Below \in Seq(F) /\ Len(Below) = L - 1 /\ \A k \in 1 .. L - 1 : Below[k] = stack[k]
    BY <1>1 DEF Below
  <2>2. base \in Seq(F) /\ Len(base) = Len(Below) + 1
    BY <1>4, <2>1
  <2>3. base[Len(Below) + 1] = frame
    BY <1>4, <2>1
  <2>4. \A k \in 1 .. Len(Below) : base[k] = Below[k]
    BY <1>4, <2>1
  <2> QED BY ONLY <1>1, <2>1, <2>2, <2>3, <2>4
<1>6. Visit(n, base) /\ turn' = turn /\ status = "run"
  BY DEF VisitDependency
<1>7. UNCHANGED <<modules, by_id, order>>
  BY <1>6 DEF Visit
<1>8. turn' \in Nat \ {0}
  BY <1>6 DEF TypeOK
<1> HIDE DEF n, base, frame, F
<1>9. CASE visited[n] = "in"
  <2>1. status' = "cycle" /\ UNCHANGED <<visited, stack>>
    BY <1>6, <1>9 DEF Visit
  <2> DEFINE S == {m \in Name : visited[m] = "in"}
  <2>2. S \in SUBSET Defined /\ S # {}
    BY <1>2 DEF Marks, Defined
  <2>3. \A m \in S : Dependencies(m) \cap S # {}
    <3> TAKE m \in S
    <3>1. PICK k \in DOMAIN stack : stack[k].id = m
      BY DEF Marks
    <3>2. CASE k = L
      <4>1. m = Top.id
        BY <3>1, <3>2, <1>1
      <4> QED BY <4>1, <1>3, <1>9
    <3>3. CASE k # L
      <4>1. k \in 1 .. L /\ k < L /\ k + 1 \in DOMAIN stack
        BY <3>3, <1>1
      <4>2. /\ stack[k + 1].id \in Name
            /\ visited[stack[k + 1].id] = "in"
        BY <4>1, FrameType
      <4>3. stack[k].next \in Nat /\ by_id[m] \in Seq(Name)
        BY <3>1, FrameType
      <4>4. /\ stack[k].next >= 2
            /\ stack[k].next \in 1 .. Len(by_id[m]) + 1
            /\ by_id[m][stack[k].next - 1] = stack[k + 1].id
        BY <3>1, <4>1 DEF Progress
      <4>5. stack[k].next - 1 \in DOMAIN by_id[m]
        BY <4>3, <4>4
      <4>6. stack[k + 1].id \in Dependencies(m)
        BY <4>4, <4>5 DEF Dependencies
      <4> QED BY <4>2, <4>6
    <3> QED BY <3>2, <3>3
  <2>4. Knot(S)
    BY <2>2, <2>3 DEF Knot
  <2>5. Verdict'
    <3>1. Knot(S)'
      BY <2>4, <2>1, <1>7 DEF Knot, Dependencies
    <3>2. S \in SUBSET Defined'
      BY <2>2, <1>7 DEF Defined
    <3> QED BY <3>1, <3>2, <2>1 DEF Verdict
  <2> QED BY <2>1, <2>5, <1>6, <1>7, <1>8, RaiseInv
<1>10. CASE visited[n] = "no" /\ n \notin Defined
  <2>1. status' = "unknown" /\ UNCHANGED <<visited, stack>>
    BY <1>6, <1>10 DEF Visit
  <2>2. Verdict'
    BY <2>1, <1>2, <1>3, <1>7, <1>10 DEF Verdict, Defined, Dependencies
  <2> QED BY <2>1, <2>2, <1>6, <1>7, <1>8, RaiseInv
<1>11. CASE visited[n] = "done"
  <2>1. stack' = base /\ UNCHANGED <<visited, status>>
    BY <1>6, <1>11 DEF Visit
  <2>2. TypeOK'
    BY <2>1, <1>5, <1>7, <1>8 DEF TypeOK, F
  <2>3. Loading' /\ Passed' /\ Verdict' /\ DependenciesFirst'
    BY <2>1, <1>6, <1>7
       DEF Loading, Loaded, Passed, Verdict, DependenciesFirst, Dependencies, Defined, Knot
  <2>4. /\ DOMAIN stack' = 1 .. L /\ Len(stack') = L
        /\ \A k \in 1 .. L : stack'[k].id = stack[k].id
    BY <2>1, <1>5, <1>1 DEF frame
  <2>5. Marks'
    BY <2>4, <2>1, <1>1, <1>7 DEF Marks, Defined
  <2>6. ASSUME NEW k \in 1 .. L
        PROVE  /\ stack'[k].next \in 1 .. Len(by_id[stack'[k].id]) + 1
               /\ Settled(visited, stack'[k].id, stack'[k].next - 1)
               /\ k = L => Settled(visited, stack'[k].id, stack'[k].next)
               /\ k < L => /\ stack'[k].next >= 2
                           /\ by_id[stack'[k].id][stack'[k].next - 1] = stack'[k + 1].id
    <3>1. CASE k < L
      <4>1. k \in DOMAIN stack /\ k + 1 \in 1 .. L /\ stack'[k] = stack[k]
        BY <3>1, <1>1, <1>5, <2>1
      <4> QED BY <3>1, <4>1, <2>4, <1>1 DEF Progress
    <3>2. CASE k = L
      <4>1. stack'[k].id = Top.id /\ stack'[k].next = Top.next + 1
        BY <3>2, <1>5, <2>1 DEF frame
      <4>2. Settled(visited, Top.id, Top.next)
        BY <1>1 DEF Progress
      <4>3. Settled(visited, Top.id, Top.next + 1)
        BY ONLY <4>2, <1>2, <1>11 DEF Settled, n
      <4> QED BY <4>1, <4>2, <4>3, <3>2, <1>2
    <3> QED BY <3>1, <3>2, <1>1
  <2>7. \A m, j : Settled(visited, m, j) <=> Settled(visited, m, j)'
    BY <2>1, <1>7 DEF Settled
  <2>8. Progress'
    BY <2>4, <2>6, <2>7, <2>1, <1>7 DEF Progress
  <2> QED BY <2>2, <2>3, <2>5, <2>8
<1>12. CASE visited[n] = "no" /\ n \in Defined
  <2>1. /\ visited' = [visited EXCEPT ![n] = "in"]
        /\ stack' = Append(base, [id |-> n, next |-> 1])
        /\ UNCHANGED status
    BY <1>6, <1>12 DEF Visit
  <2>2. Passed'
    BY <2>1, <1>3, <1>6, <1>7 DEF Passed, TypeOK
  <2>3. \A k \in DOMAIN stack :
            /\ base[k].id = stack[k].id
            /\ k < Len(stack) => base[k] = stack[k]
            /\ k = Len(stack) => /\ base[k].next = stack[k].next + 1
                                 /\ stack[k].next \in DOMAIN by_id[stack[k].id]
                                 /\ by_id[stack[k].id][stack[k].next] = n
    BY <1>1, <1>2, <1>5 DEF frame, n
  <2>4. base \in Seq([id : Name, next : Nat]) /\ Len(base) = Len(stack)
    BY <1>5 DEF F
  <2> QED BY <2>1, <2>2, <2>3, <2>4, <1>6, <1>7, <1>8, <1>12, PushInv
<1> QED BY <1>3, <1>9, <1>10, <1>11, <1>12 DEF TypeOK

\* The outer loop: its next rule, which exists, with no call in progress.
LEMMA VisitRuleInv == Inv /\ VisitRule => Inv'
<1> SUFFICES ASSUME Inv, VisitRule PROVE Inv'
  OBVIOUS
<1> USE DEF Inv
<1> DEFINE n == modules[turn].id
<1>1. turn \in DOMAIN modules /\ turn' = turn + 1 /\ turn' \in Nat \ {0}
  BY CatalogAssumption DEF TypeOK, VisitRule
<1>2. n \in Defined /\ n \in Name
  BY <1>1 DEF VisitRule, Loading, Loaded, Defined
<1>3. status = "run" /\ stack = <<>> /\ DOMAIN stack = {} /\ Visit(n, stack)
  BY DEF VisitRule
<1>4. visited[n] # "in"
  BY <1>2, <1>3 DEF Marks
<1>5. UNCHANGED <<modules, by_id, order>>
  BY <1>3 DEF Visit
<1> HIDE DEF n
<1>6. CASE visited[n] = "done"
  <2>1. UNCHANGED <<visited, status, stack>>
    BY <1>3, <1>6 DEF Visit
  <2>2. TypeOK' /\ Loading'
    BY <2>1, <1>1, <1>3, <1>5 DEF TypeOK, Loading, Loaded, Defined
  <2>3. Passed'
    <3>1. ASSUME NEW i \in DOMAIN modules, i < turn'
          PROVE  visited[modules[i].id] # "no"
      <4>1. i < turn \/ modules[i].id = n
        BY <3>1, <1>1, CatalogAssumption DEF n, TypeOK
      <4> QED BY <4>1, <1>3, <1>6 DEF Passed
    <3> QED BY <3>1, <2>1, <1>3, <1>5 DEF Passed
  <2>4. Marks'
    BY <2>1, <1>5 DEF Marks, Defined
  <2>5. Progress'
    BY <2>1, <1>3 DEF Progress
  <2>6. DependenciesFirst' /\ Verdict'
    BY <2>1, <1>3, <1>5 DEF DependenciesFirst, Dependencies, Verdict
  <2> QED BY <2>2, <2>3, <2>4, <2>5, <2>6
<1>7. CASE visited[n] = "no"
  <2>1. /\ visited' = [visited EXCEPT ![n] = "in"]
        /\ stack' = Append(stack, [id |-> n, next |-> 1])
        /\ UNCHANGED status
    BY <1>2, <1>3, <1>7 DEF Visit
  <2>2. \A m \in Name : visited'[m] = IF m = n THEN "in" ELSE visited[m]
    BY <2>1 DEF TypeOK
  <2>3. Passed'
    <3>1. ASSUME NEW i \in DOMAIN modules, i < turn'
          PROVE  visited'[modules[i].id] # "no"
      <4>1. modules[i].id \in Name
        BY <1>3 DEF Loading, Loaded, Defined
      <4>2. i < turn \/ modules[i].id = n
        BY <3>1, <1>1, CatalogAssumption DEF n, TypeOK
      <4> QED BY <4>1, <4>2, <2>2, <1>3 DEF Passed
    <3> QED BY <3>1, <2>1, <1>3, <1>5 DEF Passed
  <2>4. stack \in Seq([id : Name, next : Nat])
    BY DEF TypeOK
  <2> QED BY <2>1, <2>3, <2>4, <1>1, <1>2, <1>3, <1>5, <1>7, PushInv
<1> QED BY <1>2, <1>4, <1>6, <1>7 DEF TypeOK

\* A rule is emitted once its dependencies are; the call below goes on.
LEMMA EmitInv == Inv /\ Emit => Inv'
<1> SUFFICES ASSUME Inv, Emit PROVE Inv'
  OBVIOUS
<1> USE DEF Inv
<1> DEFINE F == [id : Name, next : Nat]
           L == Len(stack)
           n == Top.id
<1>1. L \in Nat \ {0} /\ DOMAIN stack = 1 .. L /\ Top = stack[L] /\ stack \in Seq(F)
  BY DEF TypeOK, Emit, Top
<1>2. /\ n \in Name /\ n \in Defined /\ visited[n] = "in"
      /\ by_id[n] \in Seq(Name) /\ Top.next \in Nat
  BY <1>1, FrameType
<1>3. \A d \in Dependencies(n) : d \in Name /\ visited[d] = "done"
  <2>1. Settled(visited, n, Top.next)
    BY <1>1 DEF Progress
  <2>2. Len(by_id[n]) < Top.next
    BY <1>2 DEF Emit, Waiting
  <2> QED BY ONLY <2>1, <2>2, <1>2 DEF Settled, Dependencies
<1>4. /\ stack' \in Seq(F) /\ Len(stack') = L - 1 /\ DOMAIN stack' = 1 .. L - 1
      /\ \A k \in 1 .. L - 1 : stack'[k] = stack[k]
  <2> HIDE DEF F
  <2> QED BY <1>1 DEF Emit, Below
<1> HIDE DEF F
<1>5. /\ UNCHANGED <<modules, by_id, turn, status>> /\ status = "run"
      /\ order' = Append(order, n) /\ visited' = [visited EXCEPT ![n] = "done"]
  BY DEF Emit
<1> HIDE DEF n
<1>6. \A m \in Name : visited'[m] = IF m = n THEN "done" ELSE visited[m]
  BY <1>5 DEF TypeOK
<1> DEFINE M == Len(order)
<1>7. /\ M \in Nat /\ DOMAIN order = 1 .. M /\ DOMAIN order' = 1 .. M + 1
      /\ order' \in Seq(Name) /\ order'[M + 1] = n
      /\ \A i \in 1 .. M : order'[i] = order[i] /\ order[i] \in Name
  BY <1>2, <1>5 DEF TypeOK
<1>8. TypeOK'
  BY <1>2, <1>4, <1>5, <1>7 DEF TypeOK, F
<1>9. Loading' /\ Verdict'
  BY <1>5 DEF Loading, Loaded, Defined, Verdict
<1>10. Passed'
  BY <1>5, <1>6 DEF Passed, Loading, Loaded, Defined
<1>11. \A k \in 1 .. L - 1 : stack[k].id # n
  BY <1>1 DEF Marks, n
<1>12. Marks'
  <2>1. \A m \in Name : visited'[m] # "no" => m \in Defined'
    BY <1>2, <1>5, <1>6 DEF Marks, Defined
  <2>2. ASSUME NEW m \in Name
        PROVE  visited'[m] = "in" <=> \E k \in DOMAIN stack' : stack'[k].id = m
    <3>1. CASE m = n
      BY <3>1, <1>4, <1>6, <1>11
    <3>2. CASE m # n
      <4>1. visited'[m] = visited[m] /\ stack[L].id # m
        BY <3>2, <1>1, <1>6 DEF n
      <4>2. visited[m] = "in" <=> \E k \in 1 .. L : stack[k].id = m
        BY <1>1 DEF Marks
      <4>3. \A k \in 1 .. L : stack[k].id = m => k \in 1 .. L - 1
        BY ONLY <4>1, <1>1
      <4>4. \A k \in 1 .. L - 1 : k \in 1 .. L
        BY ONLY <1>1
      <4> QED BY ONLY <4>1, <4>2, <4>3, <4>4, <1>4
    <3> QED BY <3>1, <3>2
  <2>3. \A k, l \in DOMAIN stack' : stack'[k].id = stack'[l].id => k = l
    BY <1>1, <1>4 DEF Marks
  <2>4. ASSUME NEW m \in Name
        PROVE  visited'[m] = "done" <=> \E i \in DOMAIN order' : order'[i] = m
    <3>1. CASE m = n
      <4>1. M + 1 \in DOMAIN order'
        BY ONLY <1>7
      <4> QED BY <4>1, <3>1, <1>6, <1>7
    <3>2. CASE m # n
      <4>1. visited[m] = "done" <=> \E i \in 1 .. M : order[i] = m
        BY <1>7 DEF Marks
      <4>2. \A i \in 1 .. M + 1 : order'[i] = m => i \in 1 .. M
        BY ONLY <3>2, <1>7
      <4>3. \A i \in 1 .. M : i \in 1 .. M + 1
        BY ONLY <1>7
      <4> QED BY ONLY <4>1, <4>2, <4>3, <3>2, <1>6, <1>7
    <3> QED BY <3>1, <3>2
  <2> QED BY <2>1, <2>2, <2>3, <2>4 DEF Marks
<1>13. Progress'
  <2>1. ASSUME NEW m \in Defined, NEW j \in Int, Settled(visited, m, j)
        PROVE  Settled(visited', m, j)
    <3>1. \A i \in DOMAIN by_id[m] : by_id[m][i] \in Name
      BY DEF Defined, TypeOK
    <3> QED BY ONLY <2>1, <3>1, <1>6 DEF Settled
  <2>2. ASSUME NEW k \in 1 .. L - 1
        PROVE  /\ stack'[k].next \in 1 .. Len(by_id[stack'[k].id]) + 1
               /\ Settled(visited', stack'[k].id, stack'[k].next - 1)
               /\ k = L - 1 => Settled(visited', stack'[k].id, stack'[k].next)
               /\ k < L - 1 => /\ stack'[k].next >= 2
                               /\ by_id[stack'[k].id][stack'[k].next - 1] = stack'[k + 1].id
    <3>1. /\ k \in DOMAIN stack /\ k < L /\ stack'[k] = stack[k]
          /\ k < L - 1 => k + 1 \in 1 .. L - 1
      BY <1>1, <1>4
    <3>2. /\ stack[k].id \in Defined /\ stack[k].next \in Nat
          /\ by_id[stack[k].id] \in Seq(Name)
      BY <3>1, FrameType
    <3>3. /\ stack[k].next \in 1 .. Len(by_id[stack[k].id]) + 1
          /\ Settled(visited, stack[k].id, stack[k].next - 1)
          /\ stack[k].next >= 2
          /\ by_id[stack[k].id][stack[k].next - 1] = stack[k + 1].id
      BY <3>1 DEF Progress
    <3>4. Settled(visited', stack[k].id, stack[k].next - 1)
      BY <2>1, <3>2, <3>3
    <3>5. k = L - 1 => Settled(visited', stack[k].id, stack[k].next)
      <4>1. SUFFICES ASSUME k = L - 1 PROVE Settled(visited', stack[k].id, stack[k].next)
        OBVIOUS
      <4>2. by_id[stack[k].id][stack[k].next - 1] = n
        BY <4>1, <3>3, <1>1 DEF n
      <4>3. ASSUME NEW i \in DOMAIN by_id[stack[k].id], i < stack[k].next
            PROVE  visited'[by_id[stack[k].id][i]] = "done"
        <5>1. i < stack[k].next - 1 \/ i = stack[k].next - 1
          BY ONLY <4>3, <3>2
        <5>2. CASE i < stack[k].next - 1
          BY <5>2, <3>4 DEF Settled
        <5>3. CASE i = stack[k].next - 1
          BY <5>3, <4>2, <1>2, <1>6
        <5> QED BY <5>1, <5>2, <5>3
      <4> QED BY <4>3 DEF Settled
    <3> QED BY <3>1, <3>3, <3>4, <3>5, <1>4
  <2>3. \A m, j : Settled(visited', m, j) <=> Settled(visited, m, j)'
    BY <1>5 DEF Settled
  <2> QED BY <2>2, <2>3, <1>4, <1>5 DEF Progress
<1>14. DependenciesFirst'
  <2>1. \A i \in 1 .. M : visited[order[i]] = "done"
    BY <1>7 DEF Marks
  <2>2. \A i, j \in 1 .. M + 1 : order'[i] = order'[j] => i = j
    <3>1. \A i \in 1 .. M : order[i] # n
      BY <2>1, <1>2
    <3>2. \A i, j \in 1 .. M : order[i] = order[j] => i = j
      BY <1>7 DEF DependenciesFirst
    <3> QED BY ONLY <3>1, <3>2, <1>7
  <2>3. ASSUME NEW i \in 1 .. M + 1, NEW d \in Dependencies(order'[i])
        PROVE  \E j \in 1 .. i - 1 : order'[j] = d
    <3>1. CASE i \in 1 .. M
      <4>1. PICK j \in 1 .. i - 1 : order[j] = d
        BY <3>1, <2>3, <1>7 DEF DependenciesFirst
      <4>2. j \in 1 .. M
        BY ONLY <3>1, <1>7
      <4> QED BY <4>1, <4>2, <1>7
    <3>2. CASE i = M + 1
      <4>1. d \in Name /\ visited[d] = "done"
        BY <3>2, <2>3, <1>3, <1>7 DEF n
      <4>2. PICK j \in 1 .. M : order[j] = d
        BY <4>1, <1>7 DEF Marks
      <4>3. j \in 1 .. i - 1
        BY ONLY <3>2, <1>7
      <4> QED BY <4>2, <4>3, <1>7
    <3> QED BY <3>1, <3>2, <1>7
  <2>4. \A m : Dependencies(m)' = Dependencies(m)
    BY <1>5 DEF Dependencies
  <2> QED BY <2>2, <2>3, <2>4, <1>7 DEF DependenciesFirst
<1> QED BY <1>8, <1>9, <1>10, <1>12, <1>13, <1>14

\* The result is returned when the outer loop has passed every rule.
LEMMA ReturnInv == Inv /\ Return => Inv'
<1> SUFFICES ASSUME Inv, Return PROVE Inv'
  OBVIOUS
<1> USE DEF Inv
<1>1. TypeOK' /\ Loading'
  BY DEF TypeOK, Return, Loading, Loaded, Defined
<1>2. Marks'
  BY DEF Return, Marks, Defined
<1>3. Progress'
  BY DEF Return, Progress
<1>4. DependenciesFirst' /\ Verdict'
  BY DEF Return, DependenciesFirst, Dependencies, Verdict
<1>5. Passed'
  BY CatalogAssumption DEF Return, Passed, TypeOK
<1> QED BY <1>1, <1>2, <1>3, <1>4, <1>5

\* The invariant says that the verdict is true.
LEMMA InvVerdict == Inv => VerdictTrue
<1> SUFFICES ASSUME Inv, status = "done", NEW i \in DOMAIN modules
    PROVE  \E j \in DOMAIN order : modules[i].id = order[j]
  BY DEF Inv, Verdict, VerdictTrue
<1> DEFINE n == modules[i].id
<1>1. n \in Name /\ visited[n] # "no" /\ stack = <<>>
  BY DEF Inv, Loading, Loaded, Defined, Passed, Verdict
<1>2. DOMAIN stack = {}
  BY <1>1
<1>3. visited[n] # "in"
  BY <1>1, <1>2 DEF Inv, Marks
<1>4. visited[n] = "done"
  BY <1>1, <1>3 DEF Inv, TypeOK
<1> QED BY <1>1, <1>4 DEF Inv, Marks

LEMMA Invariance == Safety => []Inv
<1>1. Inv /\ [Next]_vars => Inv'
  <2> SUFFICES ASSUME Inv, [Next]_vars PROVE Inv'
    OBVIOUS
  <2>1. CASE Next
    BY <2>1, DiscoverInv, SortInv, VisitRuleInv, VisitDependencyInv, EmitInv, ReturnInv DEF Next
  <2>2. CASE UNCHANGED vars
    <3>1. TypeOK' /\ Loading' /\ Passed'
      BY <2>2 DEF vars, Inv, TypeOK, Loading, Loaded, Passed, Defined
    <3>3. Verdict'
      <4>1. \A S : Knot(S) <=> Knot(S)'
        BY <2>2 DEF vars, Knot, Dependencies
      <4>2. Defined' = Defined /\ \A n : Dependencies(n)' = Dependencies(n)
        BY <2>2 DEF vars, Defined, Dependencies
      <4>3. status' = status /\ stack' = stack
        BY <2>2 DEF vars
      <4> QED BY <4>1, <4>2, <4>3 DEF Inv, Verdict
    <3>2. Marks' /\ Progress' /\ DependenciesFirst'
      BY <2>2 DEF vars, Inv, Marks, Progress, Settled, DependenciesFirst, Dependencies, Defined
    <3> QED BY <3>1, <3>2, <3>3 DEF Inv
  <2> QED BY <2>1, <2>2
<1> QED BY <1>1, InitInv, PTL DEF Safety

-----------------------------------------------------------------------------
\* Type correctness of discovery and sort, for every catalog.
THEOREM TypeCorrect == Spec => []TypeOK
<1>1. Inv => TypeOK
  BY DEF Inv
<1> QED BY <1>1, Invariance, PTL DEF Spec

\* For every catalog and graph, at every moment of topo_sort: each rule of
\* the order stands once, and after everything it depends on.
THEOREM OrderRespectsDependencies == Spec => []DependenciesFirst
<1>1. Inv => DependenciesFirst
  BY DEF Inv
<1> QED BY <1>1, Invariance, PTL DEF Spec

\* For every catalog and graph: topo_sort raises CycleError only if there is
\* a cycle, KeyError only if a dependency is unknown, and otherwise returns
\* every rule that was discovered.
THEOREM VerdictIsTrue == Spec => []VerdictTrue
<1> QED BY Invariance, InvVerdict, PTL DEF Spec
==============================================================================
