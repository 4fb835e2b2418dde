------------------------------ MODULE RuleOrder ------------------------------
(***************************************************************************)
(* The order of the rules: load_rules discovers a distro's rule modules    *)
(* in the order of their file names, topo_sort puts every rule after the   *)
(* rules it depends on by a depth-first search, or raises CycleError or    *)
(* KeyError.  Everything that is generated from the rules (%post blocks,   *)
(* tailoring operations, packages, the exceptions report) follows it.      *)
(*                                                                         *)
(* One step is one call or return of the nested function visit().          *)
(*                                                                         *)
(*   topo.py, registry.py, rules/_types.py, rules/_meta/*.py               *)
(***************************************************************************)
EXTENDS Integers, Sequences

CONSTANTS
    Name,       \* names of rules, those a module defines or only depends on
    Catalogs,   \* the rule modules of a distro, in the order of their names
    NoRule      \* a module without a RULE binding; an id that is not in by_id

\* What the sort reads of a rule.
RuleType == [id : Name, depends_on : Seq(Name)]

ASSUME CatalogAssumption ==
    /\ Catalogs \subseteq Seq(RuleType \cup {NoRule})
    /\ NoRule \notin RuleType \cup Seq(Name)

VARIABLES
    modules,   \* the distro's modules
    turn,      \* the position that the outer loop has come to
    by_id,     \* by_id[n]: what rule n depends on
    visited,   \* visited[n] is "no", "in" or "done"
    stack,     \* calls of visit() in progress: the rule, the next dependency
    order,     \* the result so far, as ids
    status     \* "load", "run", or the outcome: "done", or what was raised

vars == <<modules, turn, by_id, visited, stack, order, status>>

Raised == {"norule", "cycle", "unknown"}

Init == /\ modules \in Catalogs
        /\ turn = 1
        /\ by_id = [n \in Name |-> NoRule]
        /\ visited = [n \in Name |-> "no"]
        /\ stack = <<>>
        /\ order = <<>>
        /\ status = "load"

Defined == {n \in Name : by_id[n] # NoRule}

Dependencies(n) == {by_id[n][i] : i \in DOMAIN by_id[n]}

-----------------------------------------------------------------------------
(* load_rules and the dict by_id that topo_sort makes of its result: of    *)
(* two rules of the same id the last one counts.                           *)

Discover ==
    /\ status = "load" /\ turn <= Len(modules)
    /\ IF modules[turn] = NoRule
       THEN status' = "norule" /\ UNCHANGED <<turn, by_id>>
       ELSE /\ by_id' = [by_id EXCEPT ![modules[turn].id] = modules[turn].depends_on]
            /\ turn' = turn + 1
            /\ UNCHANGED status
    /\ UNCHANGED <<modules, visited, stack, order>>

Sort ==
    /\ status = "load" /\ turn > Len(modules)
    /\ status' = "run"
    /\ turn' = 1
    /\ UNCHANGED <<modules, by_id, visited, stack, order>>

-----------------------------------------------------------------------------

Top     == stack[Len(stack)]
Below   == SubSeq(stack, 1, Len(stack) - 1)

\* A mutant of Waiting: the last dependency is never visited.
WaitingButLast == Top.next < Len(by_id[Top.id])

Waiting == Top.next <= Len(by_id[Top.id])

\* A mutant of Visit: a rule that was seen before closes a cycle.
VisitSeen(n, base) ==
    /\ CASE visited[n] # "no" -> status' = "cycle" /\ UNCHANGED <<visited, stack>>
         [] n \notin Defined  -> status' = "unknown" /\ UNCHANGED <<visited, stack>>
         [] OTHER              -> /\ visited' = [visited EXCEPT ![n] = "in"]
                                  /\ stack' = Append(base, [id |-> n, next |-> 1])
                                  /\ UNCHANGED status
    /\ UNCHANGED <<modules, by_id, order>>

\* visit(n): the caller's frames are base; a finished rule returns at once,
\* one in progress closes a cycle, one nobody defines is unknown.
Visit(n, base) ==
    /\ CASE visited[n] = "done" -> stack' = base /\ UNCHANGED <<visited, status>>
         [] visited[n] = "in"   -> status' = "cycle" /\ UNCHANGED <<visited, stack>>
         [] visited[n] = "no" /\ n \notin Defined
                                -> status' = "unknown" /\ UNCHANGED <<visited, stack>>
         [] OTHER               -> /\ visited' = [visited EXCEPT ![n] = "in"]
                                   /\ stack' = Append(base, [id |-> n, next |-> 1])
                                   /\ UNCHANGED status
    /\ UNCHANGED <<modules, by_id, order>>

\* The loop over by_id, which holds an id once; here a second module of the
\* id finds it done.
VisitRule ==
    /\ status = "run" /\ stack = <<>> /\ turn <= Len(modules)
    /\ Visit(modules[turn].id, stack)
    /\ turn' = turn + 1

\* A mutant of VisitDependency: the call's iterator does not advance.
VisitDependencyAgain ==
    /\ status = "run" /\ stack # <<>> /\ Waiting
    /\ Visit(by_id[Top.id][Top.next], stack)
    /\ UNCHANGED turn

VisitDependency ==
    /\ status = "run" /\ stack # <<>> /\ Waiting
    /\ Visit(by_id[Top.id][Top.next],
             Append(Below, [id |-> Top.id, next |-> Top.next + 1]))
    /\ UNCHANGED turn

\* All dependencies of the top call were visited: the rule is next in order.
Emit ==
    /\ status = "run" /\ stack # <<>> /\ ~ Waiting
    /\ visited' = [visited EXCEPT ![Top.id] = "done"]
    /\ order' = Append(order, Top.id)
    /\ stack' = Below
    /\ UNCHANGED <<modules, by_id, turn, status>>

Return ==
    /\ status = "run" /\ stack = <<>> /\ turn > Len(modules)
    /\ status' = "done"
    /\ UNCHANGED <<modules, by_id, turn, visited, stack, order>>

Next == Discover \/ Sort \/ VisitRule \/ VisitDependency \/ Emit \/ Return

Safety == Init /\ [][Next]_vars

\* A single thread that never blocks keeps running until it returns.
Spec == Safety /\ WF_vars(Next)

-----------------------------------------------------------------------------

TypeOK == /\ modules \in Catalogs
          /\ turn \in Nat \ {0}
          /\ by_id \in [Name -> Seq(Name) \cup {NoRule}]
          /\ visited \in [Name -> {"no", "in", "done"}]
          /\ stack \in Seq([id : Name, next : Nat])
          /\ order \in Seq(Name)
          /\ status \in {"load", "run", "done"} \cup Raised

\* Whatever the graph and the file names, at every moment each rule of the
\* order stands once, after everything it depends on: a %post block never
\* runs before the block that prepares the ground for it (#72, #131).
DependenciesFirst ==
    /\ \A i, j \in DOMAIN order : order[i] = order[j] => i = j
    /\ \A i \in DOMAIN order : \A d \in Dependencies(order[i]) :
            \E j \in 1 .. i - 1 : order[j] = d

\* A set of rules each of which depends on one of the set: what a cycle is.
Knot(S) == S # {} /\ \A n \in S : Dependencies(n) \cap S # {}

\* The verdict is about the catalog, not about the order of the visit: a
\* CycleError means that there is a cycle, a KeyError that some rule names
\* one that does not exist, and a result holds the rules of all modules.
VerdictTrue ==
    /\ status = "cycle"   => \E S \in SUBSET Defined : Knot(S)
    /\ status = "unknown" => \E n \in Defined : ~ (Dependencies(n) \subseteq Defined)
    /\ status = "done"    => \A i \in DOMAIN modules : \E j \in DOMAIN order :
                                   modules[i].id = order[j]

\* The search ends, on a cyclic catalog too.
SortEnds == <>(status \in Raised \cup {"done"})
==============================================================================
