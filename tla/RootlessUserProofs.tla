------------------------- MODULE RootlessUserProofs -------------------------
(***************************************************************************)
(* Theorems about RootlessUser, for any number of runs, users and keys,    *)
(* any command lines, any block size, any host whose ranges are disjoint,  *)
(* and any failures and edits, as long as no two runs overlap: no          *)
(* subordinate id is handed out twice; and what the script may be trusted  *)
(* with when it is run again.                                              *)
(***************************************************************************)
EXTENDS RootlessUser, TLAPS

\* A run that has computed a block: everything in the file ends before it.
Beyond(p, f) == \A r \in host.subids[f] : r.start + r.len <= start[p]

\* At most one run is under way.
Alone == \A p, q \in Run : Active(p) /\ Active(q) => p = q

ComputedInv ==
    \A p \in Run : /\ pc[p] = "add_subuid" => Beyond(p, "subuid")
                   /\ pc[p] = "add_subgid" => Beyond(p, "subgid")

SubidInv == TypeOK /\ Alone /\ ComputedInv /\ DisjointSubids

Adding == {"add_subuid", "add_subgid"}

LEMMA InitInv == Init => SubidInv
<1> SUFFICES ASSUME Init PROVE SubidInv
  OBVIOUS
<1> USE UserAssumption DEF Init
<1>1. TypeOK
  BY DEF TypeOK, PC, Fault
<1>2. Alone /\ ComputedInv
  BY DEF Alone, ComputedInv, Active, Steps
<1>3. DisjointSubids
  BY DEF DisjointSubids
<1> QED BY <1>1, <1>2, <1>3 DEF SubidInv

\* A step of run p that leaves another host.
LEMMA DoType ==
    ASSUME TypeOK, NEW p \in Run, NEW from, NEW to \in PC, NEW h \in Host, Do(p, from, to, h)
    PROVE  TypeOK'
BY DEF TypeOK, Do

\* A run that moves within the script, or starts when none is under way, is
\* still alone.
LEMMA StaysAlone ==
    ASSUME TypeOK, Alone, NEW p \in Run, NEW to \in PC, pc' = [pc EXCEPT ![p] = to],
           Active(p) \/ \A q \in Run : ~Active(q)
    PROVE  Alone'
BY DEF TypeOK, Alone, Active

\* A step that touches neither file keeps the invariant.
LEMMA QuietStep ==
    ASSUME SubidInv, NEW p \in Run, NEW from, NEW to \in PC \ Adding, NEW h \in Host,
           h.subids = host.subids, Do(p, from, to, h),
           Active(p) \/ \A q \in Run : ~Active(q)
    PROVE  SubidInv'
<1> USE DEF SubidInv
<1>1. TypeOK'
  BY DoType
<1>2. Alone'
  BY StaysAlone DEF Do
<1>3. ComputedInv'
  BY DEF ComputedInv, Beyond, Do, TypeOK, Adding
<1>4. DisjointSubids'
  BY DEF DisjointSubids, Do
<1> QED BY <1>1, <1>2, <1>3, <1>4

\* The same for the moves that change nothing else.
LEMMA SameHost ==
    ASSUME SubidInv, NEW p \in Run, NEW from \in Steps, NEW to \in PC \ Adding,
           Do(p, from, to, host)
    PROVE  SubidInv'
<1>1. host \in Host /\ Active(p)
  BY DEF SubidInv, TypeOK, Active, Do
<1> QED BY <1>1, QuietStep

LEMMA UserOf == ASSUME TypeOK, NEW p \in Run
                PROVE  U(p) \in User /\ arg[p].key \in Key \cup {NoKey}
BY UserAssumption DEF TypeOK, U

LEMMA StartInv == ASSUME SubidInv, OneAtATime, NEW p \in Run, Start(p) PROVE SubidInv'
<1>1. host \in Host /\ "fcontext" \in PC \ Adding
  BY DEF SubidInv, TypeOK, PC, Steps, Adding
<1> QED BY <1>1, QuietStep DEF Start

LEMMA ContextInv ==
    ASSUME SubidInv, NEW p \in Run, NEW context \in {"tree", "appdata"},
           NEW from \in Steps, NEW to \in PC \ Adding, EnsureContext(p, context, from, to)
    PROVE  SubidInv'
<1>1. CASE Do(p, from, to, [host EXCEPT !.fcontext = @ \cup {context}])
  <2> DEFINE h == [host EXCEPT !.fcontext = @ \cup {context}]
  <2>1. h \in Host /\ h.subids = host.subids
    BY DEF SubidInv, TypeOK, Host
  <2>2. Do(p, from, to, h) /\ Active(p)
    BY <1>1 DEF Do, Active
  <2> HIDE DEF h
  <2> QED BY <2>1, <2>2, QuietStep
<1>2. CASE Misread(p, from, to)
  <2> USE DEF SubidInv
  <2>1. PICK end \in {"failed", to} : pc' = [pc EXCEPT ![p] = end]
    BY <1>2 DEF Misread
  <2>2. end \in PC /\ end \notin Adding /\ Active(p)
    BY <1>2 DEF Misread, PC, Steps, Adding, Active
  <2>3. TypeOK'
    BY <1>2, <2>1, <2>2 DEF Misread, TypeOK, Fault
  <2>4. Alone'
    BY <2>1, <2>2, StaysAlone
  <2>5. ComputedInv' /\ DisjointSubids'
    BY <1>2, <2>1, <2>2 DEF Misread, ComputedInv, Beyond, Adding, TypeOK, DisjointSubids
  <2> QED BY <2>3, <2>4, <2>5
<1> QED BY <1>1, <1>2 DEF EnsureContext

\* useradd takes blocks that overlap no line of the file.
LEMMA UseraddInv == ASSUME SubidInv, NEW p \in Run, Useradd(p) PROVE SubidInv'
<1> USE DEF SubidInv
<1>1. "useradd" \in Steps /\ "aging" \in PC \ Adding
  BY DEF Steps, PC, Adding
<1>2. CASE Do(p, "useradd", "aging", host)
  BY <1>1, <1>2, SameHost
<1>3. ASSUME NEW uids \in Block("subuid", U(p)), NEW gids \in Block("subgid", U(p)),
             Do(p, "useradd", "aging",
                [host EXCEPT !.account = @ \cup {U(p)}, !.aging = @ \cup {U(p)},
                             !.passwd[U(p)] = "locked",
                             !.subids = [f \in SubFile |->
                                IF f \in host.present
                                THEN @[f] \cup {[subuid |-> uids, subgid |-> gids][f]}
                                ELSE @[f]]])
      PROVE  SubidInv'
  <2> DEFINE new == [subuid |-> uids, subgid |-> gids]
             s   == [f \in SubFile |-> IF f \in host.present
                                       THEN host.subids[f] \cup {new[f]} ELSE host.subids[f]]
             w   == [host.passwd EXCEPT ![U(p)] = "locked"]
             h   == [host EXCEPT !.account = @ \cup {U(p)}, !.aging = @ \cup {U(p)},
                                 !.passwd = w, !.subids = s]
  <2>1. host \in Host /\ U(p) \in User
    BY UserOf DEF TypeOK
  <2>2. \A f \in SubFile : new[f] \in Range /\ \A r \in host.subids[f] : ~Overlap(new[f], r)
    BY <2>1, UserAssumption DEF Block, Range, SubFile
  <2>3. s \in [SubFile -> SUBSET Range]
    BY <2>1, <2>2 DEF Host
  <2>4. w \in [User -> {"locked", "hash", "empty", "remote"}]
    BY <2>1 DEF Host
  <2>5. Do(p, "useradd", "aging", h)
    BY <1>3
  <2>6. h \in Host /\ h.subids = s
    <3> HIDE DEF s, w
    <3> QED BY <2>1, <2>3, <2>4 DEF Host
  <2>7. host' = h /\ pc' = [pc EXCEPT ![p] = "aging"] /\ Active(p) /\ start' = start
    BY <2>5, <1>1 DEF Do, Active
  <2>8. TypeOK'
    BY <1>1, <2>5, <2>6, DoType
  <2>9. Alone'
    BY <1>1, <2>7, StaysAlone
  <2>10. ComputedInv'
    BY <1>1, <2>7 DEF ComputedInv, Alone, Active, Adding, Steps, TypeOK
  <2>11. DisjointSubids'
    <3> SUFFICES ASSUME NEW f \in SubFile, NEW q \in s[f], NEW r \in s[f], q # r
                 PROVE  ~Overlap(q, r)
      BY <2>6, <2>7 DEF DisjointSubids, Disjoint
    <3>1. q \in host.subids[f] \/ q = new[f]
      OBVIOUS
    <3>2. r \in host.subids[f] \/ r = new[f]
      OBVIOUS
    <3>3. q \in host.subids[f] /\ r \in host.subids[f] => ~Overlap(q, r)
      BY DEF DisjointSubids, Disjoint
    <3> HIDE DEF s, new
    <3> QED BY <3>1, <3>2, <3>3, <2>2 DEF Overlap
  <2> QED BY <2>8, <2>9, <2>10, <2>11
<1> QED BY <1>2, <1>3 DEF Useradd

LEMMA AgingInv == ASSUME SubidInv, NEW p \in Run, Aging(p) PROVE SubidInv'
<1> DEFINE h == IF host.passwd[U(p)] = "locked" THEN [host EXCEPT !.aging = @ \ {U(p)}] ELSE host
<1>1. h \in Host /\ h.subids = host.subids
  BY DEF SubidInv, TypeOK, Host
<1>2. Do(p, "aging", "init", h)
  BY DEF Aging
<1> HIDE DEF h
<1>3. Active(p) /\ "init" \in PC \ Adding
  BY <1>2 DEF Do, Active, Steps, PC, Adding
<1> QED BY <1>1, <1>2, <1>3, QuietStep

LEMMA InitFilesInv == ASSUME SubidInv, NEW p \in Run, InitFiles(p) PROVE SubidInv'
<1> DEFINE h == [host EXCEPT !.loose = @ \ {U(p)}]
<1>1. h \in Host /\ h.subids = host.subids /\ host \in Host
  BY DEF SubidInv, TypeOK, Host
<1>2. Do(p, "init", "subuid", h) \/ Do(p, "init", "subuid", host)
  BY DEF InitFiles
<1> HIDE DEF h
<1>3. Active(p) /\ "subuid" \in PC \ Adding
  BY <1>2 DEF Do, Active, Steps, PC, Adding
<1> QED BY <1>1, <1>2, <1>3, QuietStep

\* The block that is computed starts where the last one ends, or later.
LEMMA ReadSubidsInv ==
    ASSUME SubidInv, NEW p \in Run, NEW f \in SubFile, NEW add, NEW next \in PC \ Adding,
           <<f, add>> \in {<<"subuid", "add_subuid">>, <<"subgid", "add_subgid">>},
           ReadSubids(p, f, add, next)
    PROVE  SubidInv'
<1> USE DEF SubidInv
<1>1. f \in Steps /\ "failed" \in PC \ Adding /\ add \in PC
  BY DEF Steps, PC, Adding, SubFile
<1>2. CASE Do(p, f, next, host) \/ Do(p, f, "failed", host)
  BY <1>1, <1>2, SameHost
<1>3. CASE /\ \E s \in Ends(f) \cup {Floor} :
                NextBlock(f, s) /\ start' = [start EXCEPT ![p] = s]
           /\ pc[p] = f /\ pc' = [pc EXCEPT ![p] = add]
           /\ UNCHANGED <<arg, unit, host, hit, edits>>
  <2>1. PICK s \in Ends(f) \cup {Floor} :
            NextBlock(f, s) /\ start' = [start EXCEPT ![p] = s]
    BY <1>3
  <2>2. \A r \in host.subids[f] : r.start + r.len \in Nat /\ r.start + r.len <= s
    BY <2>1 DEF NextBlock, Ends, TypeOK, Host, Range
  <2>3. s \in Nat
    BY <2>1, UserAssumption DEF Ends, TypeOK, Host, Range
  <2>4. TypeOK'
    BY <1>1, <1>3, <2>1, <2>3 DEF TypeOK
  <2>5. Alone'
    BY <1>1, <1>3, StaysAlone DEF Active
  <2>6. ComputedInv'
    BY <1>1, <1>3, <2>1, <2>2 DEF ComputedInv, Beyond, TypeOK
  <2>7. DisjointSubids'
    BY <1>3 DEF DisjointSubids
  <2> QED BY <2>4, <2>5, <2>6, <2>7
<1> QED BY <1>2, <1>3 DEF ReadSubids

\* The block that is assigned overlaps nothing: no other run has written since.
LEMMA AddSubidsInv ==
    ASSUME SubidInv, NEW p \in Run, NEW f \in SubFile, NEW add, NEW next \in PC \ Adding,
           <<f, add>> \in {<<"subuid", "add_subuid">>, <<"subgid", "add_subgid">>},
           AddSubids(p, f, add, next)
    PROVE  SubidInv'
<1> USE DEF SubidInv
<1> DEFINE new == [user |-> U(p), start |-> start[p], len |-> Count]
           s   == [host.subids EXCEPT ![f] = @ \cup {new}]
           h   == [host EXCEPT !.subids = s]
<1>1. add \in Steps /\ add \in Adding
  BY DEF Steps, Adding
<1>2. new \in Range /\ new.start = start[p] /\ host \in Host
  BY UserOf, UserAssumption DEF Range, TypeOK
<1>3. s \in [SubFile -> SUBSET Range]
  <2> HIDE DEF new
  <2> QED BY <1>2 DEF Host
<1>4. h \in Host /\ h.subids = s
  <2> HIDE DEF s
  <2> QED BY <1>2, <1>3 DEF Host
<1>5. Do(p, add, next, h)
  BY DEF AddSubids
<1>6. host' = h /\ pc[p] = add /\ pc' = [pc EXCEPT ![p] = next] /\ Active(p)
  BY <1>1, <1>5 DEF Do, Active
<1>7. TypeOK'
  <2> HIDE DEF h
  <2> QED BY <1>4, <1>5, DoType
<1>8. Alone'
  BY <1>6, StaysAlone
<1>9. ComputedInv'
  <2>1. \A q \in Run : pc'[q] \notin Adding
    BY <1>1, <1>6 DEF Alone, Active, Adding, Steps, TypeOK
  <2> QED BY <2>1 DEF ComputedInv, Adding
<1>10. DisjointSubids'
  <2>1. Beyond(p, f)
    BY <1>6 DEF ComputedInv
  <2>2. \A r \in host.subids[f] : ~Overlap(r, new) /\ ~Overlap(new, r)
    BY <1>2, <2>1, UserAssumption DEF Beyond, Overlap, Host, Range, TypeOK
  <2> SUFFICES ASSUME NEW g \in SubFile, NEW q \in s[g], NEW r \in s[g], q # r
               PROVE  ~Overlap(q, r)
    BY <1>4, <1>6 DEF DisjointSubids, Disjoint
  <2>3. host.subids \in [SubFile -> SUBSET Range]
    BY <1>2 DEF Host
  <2> HIDE DEF new
  <2>6. s[g] = IF g = f THEN host.subids[f] \cup {new} ELSE host.subids[g]
    BY <2>3
  <2> HIDE DEF s
  <2>4. /\ q \in host.subids[g] \/ (g = f /\ q = new)
        /\ r \in host.subids[g] \/ (g = f /\ r = new)
    BY <2>6
  <2>5. q \in host.subids[g] /\ r \in host.subids[g] => ~Overlap(q, r)
    BY DEF DisjointSubids, Disjoint
  <2> QED BY <2>2, <2>4, <2>5
<1> QED BY <1>7, <1>8, <1>9, <1>10

LEMMA SubidsInv == ASSUME SubidInv, NEW p \in Run, Subids(p) PROVE SubidInv'
<1>1. "subgid" \in PC \ Adding /\ "store" \in PC \ Adding
  BY DEF PC, Steps, Adding
<1>2. "subuid" \in SubFile /\ "subgid" \in SubFile
  BY DEF SubFile
<1> QED BY <1>1, <1>2, ReadSubidsInv, AddSubidsInv DEF Subids

LEMMA StoreInv == ASSUME SubidInv, NEW p \in Run, Store(p) PROVE SubidInv'
<1> DEFINE h == [host EXCEPT !.store = @ \cup {U(p)}]
<1>0. host \in Host /\ U(p) \in User
  BY UserOf DEF SubidInv, TypeOK
<1>1. h \in Host /\ h.subids = host.subids
  BY <1>0 DEF Host
<1>2. Do(p, "store", "linger", h)
  BY DEF Store
<1> HIDE DEF h
<1>3. Active(p) /\ "linger" \in PC \ Adding
  BY <1>2 DEF Do, Active, Steps, PC, Adding
<1> QED BY <1>1, <1>2, <1>3, QuietStep

LEMMA LingerInv == ASSUME SubidInv, NEW p \in Run, Linger(p) PROVE SubidInv'
<1> DEFINE h == IF arg[p].linger THEN [host EXCEPT !.linger = @ \cup {U(p)}] ELSE host
<1>0. host \in Host /\ U(p) \in User
  BY UserOf DEF SubidInv, TypeOK
<1>1. h \in Host /\ h.subids = host.subids
  BY <1>0 DEF Host
<1>2. Do(p, "linger", "touch", h)
  BY DEF Linger
<1> HIDE DEF h
<1>3. Active(p) /\ "touch" \in PC \ Adding
  BY <1>2 DEF Do, Active, Steps, PC, Adding
<1> QED BY <1>1, <1>2, <1>3, QuietStep

\* A host with another authorized_keys file for u.
LEMMA KeysType ==
    ASSUME TypeOK, NEW u \in User, NEW file \in KeyFile
    PROVE  [host EXCEPT !.keys[u] = file] \in Host
           /\ [host EXCEPT !.keys[u] = file].subids = host.subids
<1> DEFINE k == [host.keys EXCEPT ![u] = file]
<1>1. k \in [User -> KeyFile] /\ host \in Host
  BY DEF TypeOK, Host
<1> HIDE DEF k
<1>2. [host EXCEPT !.keys = k] \in Host /\ [host EXCEPT !.keys = k].subids = host.subids
  BY <1>1 DEF Host
<1> QED BY <1>2 DEF k

LEMMA TouchInv == ASSUME SubidInv, NEW p \in Run, Touch(p) PROVE SubidInv'
<1> USE DEF SubidInv
<1>1. "touch" \in Steps /\ {"appdata", "append"} \subseteq PC \ Adding
  BY DEF Steps, PC, Adding
<1>2. CASE Do(p, "touch", "appdata", host) \/ Do(p, "touch", "append", host)
  BY <1>1, <1>2, SameHost
<1>3. CASE Do(p, "touch", "append", [host EXCEPT !.keys[U(p)].owner = "root"])
  <2> DEFINE file == [host.keys[U(p)] EXCEPT !.owner = "root"]
             h == [host EXCEPT !.keys[U(p)] = file]
  <2>0. host.keys[U(p)] \in KeyFile
    BY UserOf DEF TypeOK, Host
  <2>1. file \in KeyFile
    BY <2>0 DEF KeyFile
  <2>2. Do(p, "touch", "append", h)
    BY <1>3
  <2> HIDE DEF file
  <2>3. h \in Host /\ h.subids = host.subids
    BY <2>1, UserOf, KeysType
  <2>4. Active(p)
    BY <1>1, <2>2 DEF Do, Active
  <2> HIDE DEF h
  <2> QED BY <1>1, <2>2, <2>3, <2>4, QuietStep
<1> QED BY <1>2, <1>3 DEF Touch

LEMMA AppendInv == ASSUME SubidInv, NEW p \in Run, Append_(p) PROVE SubidInv'
<1> USE DEF SubidInv
<1> DEFINE file == Appended(host.keys[U(p)], arg[p].key)
           h == [host EXCEPT !.keys[U(p)] = file]
<1>1. file \in KeyFile
  <2>1. host.keys[U(p)] \in KeyFile /\ arg[p].key \in Key
    BY UserOf DEF TypeOK, Host, Append_
  <2> DEFINE old  == host.keys[U(p)]
             line == <<old.open, arg[p].key>>
  <2>2. CASE arg[p].key \in KeysIn(old)
    BY <2>1, <2>2 DEF Appended
  <2>3. CASE arg[p].key \notin KeysIn(old) /\ old.open = NoKey
    <3>1. file = [old EXCEPT !.lines = @ \cup {arg[p].key}]
      BY <2>3 DEF Appended
    <3> QED BY <2>1, <3>1 DEF KeyFile
  <2>4. CASE arg[p].key \notin KeysIn(old) /\ old.open # NoKey
    <3> DEFINE lines == old.joined \cup {line}
    <3>1. line \in Key \X Key
      BY <2>1, <2>4 DEF KeyFile
    <3>2. old.joined \in SUBSET (Key \X Key)
      BY <2>1 DEF KeyFile
    <3>3. lines \in SUBSET (Key \X Key)
      BY <3>1, <3>2
    <3>4. file = [old EXCEPT !.open = NoKey, !.joined = lines]
      BY <2>4 DEF Appended
    <3> HIDE DEF lines
    <3> QED BY <2>1, <3>3, <3>4 DEF KeyFile
  <2> QED BY <2>2, <2>3, <2>4
<1>2. Do(p, "append", "chown", h)
  BY DEF Append_
<1> HIDE DEF file
<1>3. h \in Host /\ h.subids = host.subids
  BY <1>1, UserOf, KeysType
<1> HIDE DEF h
<1>4. Active(p) /\ "chown" \in PC \ Adding
  BY <1>2 DEF Do, Active, Steps, PC, Adding
<1> QED BY <1>2, <1>3, <1>4, QuietStep

LEMMA ChownInv == ASSUME SubidInv, NEW p \in Run, Chown(p) PROVE SubidInv'
<1> USE DEF SubidInv
<1> DEFINE file == [host.keys[U(p)] EXCEPT !.owner = "user"]
           h == [host EXCEPT !.keys[U(p)] = file]
<1>0. host.keys[U(p)] \in KeyFile
  BY UserOf DEF TypeOK, Host
<1>1. file \in KeyFile
  BY <1>0 DEF KeyFile
<1>2. Do(p, "chown", "appdata", h)
  BY DEF Chown
<1> HIDE DEF file
<1>3. h \in Host /\ h.subids = host.subids
  BY <1>1, UserOf, KeysType
<1> HIDE DEF h
<1>4. Active(p) /\ "appdata" \in PC \ Adding
  BY <1>2 DEF Do, Active, Steps, PC, Adding
<1> QED BY <1>2, <1>3, <1>4, QuietStep

LEMMA AppdataInv == ASSUME SubidInv, NEW p \in Run, Appdata(p) PROVE SubidInv'
<1>1. /\ {"appdata", "datadir"} \subseteq Steps
      /\ {"done", "datadir", "unit"} \subseteq PC \ Adding
  BY DEF Steps, PC, Adding
<1>2. CASE Do(p, "appdata", "done", host)
  BY <1>1, <1>2, SameHost
<1>3. CASE EnsureContext(p, "appdata", "appdata", "datadir")
  BY <1>1, <1>3, ContextInv
<1>4. CASE Do(p, "datadir", "unit", [host EXCEPT !.appdata = @ \cup {U(p)}])
  <2> DEFINE h == [host EXCEPT !.appdata = @ \cup {U(p)}]
  <2>0. host \in Host /\ U(p) \in User
    BY UserOf DEF SubidInv, TypeOK
  <2>1. h \in Host /\ h.subids = host.subids
    BY <2>0 DEF Host
  <2>2. Do(p, "datadir", "unit", h) /\ Active(p)
    BY <1>1, <1>4 DEF Do, Active
  <2> HIDE DEF h
  <2> QED BY <1>1, <2>1, <2>2, QuietStep
<1> QED BY <1>2, <1>3, <1>4 DEF Appdata

\* A host with another state of one of u's units.
LEMMA UnitsType ==
    ASSUME TypeOK, NEW u \in User, NEW n \in 1 .. 3,
           NEW state \in {"absent", "torn", "roots", "ready", "edited"}
    PROVE  [host EXCEPT !.units[u][n] = state] \in Host
           /\ [host EXCEPT !.units[u][n] = state].subids = host.subids
<1> DEFINE mine == [host.units[u] EXCEPT ![n] = state]
           all  == [host.units EXCEPT ![u] = mine]
<1>1. host \in Host
      /\ host.units \in [User -> [1 .. 3 -> {"absent", "torn", "roots", "ready", "edited"}]]
  BY DEF TypeOK, Host
<1>2. mine \in [1 .. 3 -> {"absent", "torn", "roots", "ready", "edited"}]
  BY <1>1
<1>3. all \in [User -> [1 .. 3 -> {"absent", "torn", "roots", "ready", "edited"}]]
  <2> HIDE DEF mine
  <2> QED BY <1>1, <1>2
<1>4. [host EXCEPT !.units = all] \in Host /\ [host EXCEPT !.units = all].subids = host.subids
  <2> HIDE DEF all
  <2> QED BY <1>1, <1>3 DEF Host
<1>5. [host EXCEPT !.units[u][n] = state] = [host EXCEPT !.units = all]
  OBVIOUS
<1> QED BY <1>4, <1>5

\* Going on to the next unit touches neither file.
LEMMA NextUnitInv ==
    ASSUME SubidInv, NEW p \in Run, NEW from \in Steps, NextUnit(p, from),
           host' \in Host, host'.subids = host.subids
    PROVE  SubidInv'
<1> USE DEF SubidInv
<1>1. PICK to \in {"done", "unit"} : pc' = [pc EXCEPT ![p] = to] /\ pc[p] = from
  BY DEF NextUnit
<1>2. to \in PC /\ to \notin Adding /\ Active(p)
  BY <1>1 DEF PC, Steps, Adding, Active
<1>3. unit' \in [Run -> 1 .. 3]
  BY DEF NextUnit, TypeOK, Units
<1>4. TypeOK'
  BY <1>1, <1>2, <1>3 DEF NextUnit, TypeOK
<1>5. Alone'
  BY <1>1, <1>2, StaysAlone
<1>6. ComputedInv'
  BY <1>1, <1>2 DEF ComputedInv, Beyond, Adding, TypeOK, NextUnit
<1>7. DisjointSubids'
  BY DEF DisjointSubids
<1> QED BY <1>4, <1>5, <1>6, <1>7

LEMMA UnitInv ==
    ASSUME SubidInv, NEW p \in Run, WriteUnit(p) \/ FillUnit(p) \/ OwnUnit(p)
    PROVE  SubidInv'
<1> USE DEF SubidInv
<1>1. {"unit", "fill", "own"} \subseteq Steps /\ {"fill", "own"} \subseteq PC \ Adding
  BY DEF Steps, PC, Adding
<1>2. U(p) \in User /\ unit[p] \in 1 .. 3 /\ host \in Host
  BY UserOf DEF TypeOK
<1>3. \A state \in {"torn", "roots", "ready"} :
        SetUnit(p, state) \in Host /\ SetUnit(p, state).subids = host.subids
  <2> SUFFICES ASSUME NEW state \in {"torn", "roots", "ready"}
               PROVE  /\ [host EXCEPT !.units[U(p)][unit[p]] = state] \in Host
                      /\ [host EXCEPT !.units[U(p)][unit[p]] = state].subids = host.subids
    BY DEF SetUnit
  <2>1. TypeOK /\ U(p) \in User /\ unit[p] \in 1 .. 3
        /\ state \in {"absent", "torn", "roots", "ready", "edited"}
    BY <1>2
  <2> HIDE DEF SubidInv
  <2> QED BY ONLY <2>1, UnitsType
<1>4. CASE NextUnit(p, "unit") /\ UNCHANGED host
  BY <1>1, <1>2, <1>4, NextUnitInv
<1>5. CASE Do(p, "unit", "fill", SetUnit(p, "torn"))
  <2>1. Active(p)
    BY <1>1, <1>5 DEF Do, Active
  <2> QED BY <1>1, <1>3, <1>5, <2>1, QuietStep
<1>6. CASE FillUnit(p)
  <2>1. Do(p, "fill", "own", SetUnit(p, "roots"))
    BY <1>6 DEF FillUnit
  <2>2. Active(p)
    BY <1>1, <2>1 DEF Do, Active
  <2> QED BY <1>1, <1>3, <2>1, <2>2, QuietStep
<1>7. CASE OwnUnit(p)
  <2>1. NextUnit(p, "own") /\ host' = SetUnit(p, "ready")
    BY <1>7 DEF OwnUnit
  <2> QED BY <1>1, <1>3, <2>1, NextUnitInv
<1> QED BY <1>4, <1>5, <1>6, <1>7 DEF WriteUnit

LEMMA AbortInv == ASSUME SubidInv, NEW p \in Run, Abort(p) PROVE SubidInv'
<1> USE DEF SubidInv
<1>1. "failed" \in PC \ Adding
  BY DEF PC, Steps, Adding
<1>2. TypeOK'
  BY <1>1 DEF Abort, TypeOK, Fault
<1>3. Alone'
  BY <1>1, StaysAlone DEF Abort
<1>4. ComputedInv'
  BY <1>1 DEF Abort, ComputedInv, Beyond, Adding, TypeOK
<1>5. DisjointSubids'
  BY DEF Abort, DisjointSubids
<1> QED BY <1>2, <1>3, <1>4, <1>5

\* Nobody else touches the two files.
LEMMA EditInv ==
    ASSUME SubidInv, NEW h \in Host, h.subids = host.subids, Edit(h)
    PROVE  SubidInv'
<1> USE DEF SubidInv
<1>1. TypeOK'
  BY UserAssumption DEF Edit, TypeOK
<1>2. Alone' /\ ComputedInv' /\ DisjointSubids'
  BY DEF Edit, Alone, Active, ComputedInv, Beyond, DisjointSubids
<1> QED BY <1>1, <1>2

LEMMA EditsInv ==
    ASSUME SubidInv, NEW u \in User, EditKeys(u) \/ EditUnit(u) \/ SetPassword(u)
    PROVE  SubidInv'
<1> USE DEF SubidInv
<1>1. host \in Host /\ host.keys[u] \in KeyFile
  BY DEF TypeOK, Host
<1>2. CASE EditKeys(u)
  <2>1. PICK k \in Key :
          \/ Edit([host EXCEPT !.keys[u] = Closed(host.keys[u], k)])
          \/ Edit([host EXCEPT !.keys[u] = Open(host.keys[u], k)])
    BY <1>2 DEF EditKeys
  <2> DEFINE closed == Closed(host.keys[u], k)
             open   == Open(host.keys[u], k)
  <2>2. closed \in KeyFile /\ open \in KeyFile
    BY <1>1 DEF Closed, Open, KeyFile
  <2>3. \/ Edit([host EXCEPT !.keys[u] = closed])
        \/ Edit([host EXCEPT !.keys[u] = open])
    BY <2>1
  <2> HIDE DEF closed, open
  <2> QED BY <2>2, <2>3, KeysType, EditInv
<1>3. CASE EditUnit(u)
  BY <1>3, UnitsType, EditInv DEF EditUnit
<1>4. CASE SetPassword(u)
  <2> DEFINE w == [host.passwd EXCEPT ![u] = "hash"]
  <2>1. w \in [User -> {"locked", "hash", "empty", "remote"}]
    BY <1>1 DEF Host
  <2>2. Edit([host EXCEPT !.passwd = w])
    BY <1>4 DEF SetPassword
  <2> HIDE DEF w
  <2>3. [host EXCEPT !.passwd = w] \in Host /\ [host EXCEPT !.passwd = w].subids = host.subids
    BY <1>1, <2>1 DEF Host
  <2> QED BY <2>2, <2>3, EditInv
<1> QED BY <1>2, <1>3, <1>4

LEMMA NextInv == ASSUME SubidInv, OneAtATime, [Next]_vars PROVE SubidInv'
<1>1. CASE UNCHANGED vars
  BY <1>1 DEF vars, SubidInv, TypeOK, Alone, Active, ComputedInv, Beyond, DisjointSubids
<1>2. ASSUME NEW p \in Run, Step(p) PROVE SubidInv'
  <2>1. "fcontext" \in Steps /\ "useradd" \in PC \ Adding
    BY DEF Steps, PC, Adding
  <2>2. CASE Fcontext(p)
    BY <2>1, <2>2, ContextInv DEF Fcontext
  <2> QED BY <1>2, <2>2, StartInv, UseraddInv, AgingInv, InitFilesInv, SubidsInv, StoreInv,
             LingerInv, TouchInv, AppendInv, ChownInv, AppdataInv, UnitInv, AbortInv DEF Step
<1>3. ASSUME NEW u \in User, EditKeys(u) \/ EditUnit(u) \/ SetPassword(u) PROVE SubidInv'
  BY <1>3, EditsInv
<1> QED BY <1>1, <1>2, <1>3 DEF Next

\* Every variable stays in its type (create-rootless-user.sh).
THEOREM TypeCorrect == OneAtATime => (Spec => []TypeOK)
<1> SUFFICES ASSUME OneAtATime PROVE Spec => []TypeOK
  OBVIOUS
<1>1. Init => SubidInv
  BY InitInv
<1>2. SubidInv /\ [Next]_vars => SubidInv'
  BY NextInv
<1>3. SubidInv => TypeOK
  BY DEF SubidInv
<1> QED BY <1>1, <1>2, <1>3, PTL DEF Spec

\* As long as no two runs overlap, no subordinate id is handed out twice,
\* whatever fails and however often the script is run (ensure_subids).
THEOREM RangesDisjoint == OneAtATime => (Spec => []DisjointSubids)
<1> SUFFICES ASSUME OneAtATime PROVE Spec => []DisjointSubids
  OBVIOUS
<1>1. Init => SubidInv
  BY InitInv
<1>2. SubidInv /\ [Next]_vars => SubidInv'
  BY NextInv
<1>3. SubidInv => DisjointSubids
  BY DEF SubidInv
<1> QED BY <1>1, <1>2, <1>3, PTL DEF Spec

-----------------------------------------------------------------------------
(***************************************************************************)
(* Safe to re-run.                                                         *)
(*                                                                         *)
(* The script has no memory but the host, so the invariant says what the   *)
(* host holds when a run is at a step (Promised) and that no step of any   *)
(* run, and no edit, takes any of it away (Grew).  The quadlet units need  *)
(* more: one that is being written is known by its name only.              *)
(***************************************************************************)

\* The steps that write units
Writing == {"unit", "fill", "own"}

\* What host h holds when a run with command line a is at step s: an effect is
\* promised at the steps that follow it.
Promised(h, s, a) ==
    LET chown   == {"appdata", "datadir", "done"} \cup Writing
        append  == {"chown"} \cup chown
        linger  == {"touch", "append"} \cup append
        store   == {"linger"} \cup linger
        subgid  == {"store"} \cup store
        subuid  == {"subgid", "add_subgid"} \cup subgid
        aging   == {"init", "subuid", "add_subuid"} \cup subuid
        useradd == {"aging"} \cup aging
    IN  /\ s \in useradd => a.user \in h.account
        /\ s \in aging => (h.passwd[a.user] = "locked" => a.user \notin h.aging)
        /\ s \in subuid => Has(a.user, h.subids["subuid"])
        /\ s \in subgid => Has(a.user, h.subids["subgid"])
        /\ s \in store => a.user \in h.store
        /\ s \in linger /\ a.linger => a.user \in h.linger
        /\ s \in append /\ a.key # NoKey => a.key \in Recorded(h.keys[a.user])
        /\ s \in chown /\ a.key # NoKey => h.keys[a.user].owner = "user"
        /\ s \in Writing \/ (s = "done" /\ a.quadlet) => a.user \in h.appdata
        /\ s = "append" => a.key # NoKey

Promises == \A p \in Run : Promised(host, pc[p], arg[p])

\* Run p is about to finish unit n of user u, or was cut there.
Unfinished(p, u, n) ==
    /\ U(p) = u /\ unit[p] = n /\ arg[p].quadlet
    /\ pc[p] \in {"fill", "own"} \/ (pc[p] = "failed" /\ hit[p] = "cut")

\* Where the runs are at their units; no unit is half written but at such a run;
\* what a run has left behind it is there, and nobody writes it again.
UnitsInv ==
    /\ \A p \in Run : pc[p] \notin Writing \cup {"done", "failed"} => unit[p] = 1
    /\ \A p \in Run : /\ pc[p] = "fill" => host.units[U(p)][unit[p]] = "torn"
                      /\ pc[p] = "own" => host.units[U(p)][unit[p]] = "roots"
                      /\ pc[p] \in Writing \cup {"datadir"} => arg[p].quadlet
    /\ \A u \in User : \A n \in 1 .. 3 : host.units[u][n] \in {"torn", "roots"} =>
           \E p \in Run : Unfinished(p, u, n)
    /\ \A p \in Run : pc[p] \in Writing =>
           \A n \in 1 .. 3 : n < unit[p] => host.units[U(p)][n] # "absent"
    /\ \A p \in Run : pc[p] = "done" /\ arg[p].quadlet =>
           /\ \A n \in 1 .. 3 : host.units[U(p)][n] # "absent"
           /\ \A q \in Run : U(q) = U(p) => pc[q] \notin {"fill", "own"}

RunInv == SubidInv /\ Promises /\ UnitsInv /\ OnlyFaultsFail

\* Host k holds what host h held.
Grew(h, k) ==
    /\ h.account \subseteq k.account /\ h.store \subseteq k.store
    /\ h.linger \subseteq k.linger /\ h.appdata \subseteq k.appdata
    /\ k.present = h.present
    /\ \A f \in SubFile : h.subids[f] \subseteq k.subids[f]
    /\ \A u \in User :
        /\ h.keys[u].lines \subseteq k.keys[u].lines
        /\ Recorded(h.keys[u]) \subseteq Recorded(k.keys[u])
        /\ h.keys[u].owner = "user" => k.keys[u].owner = "user"
        /\ \A n \in 1 .. 3 : /\ h.units[u][n] = "edited" => k.units[u][n] = "edited"
                             /\ h.units[u][n] # "absent" => k.units[u][n] # "absent"
        /\ u \in h.aging \ k.aging => h.passwd[u] = "locked"
        /\ u \in h.account /\ u \in k.aging /\ k.passwd[u] = "locked" =>
               u \in h.aging /\ h.passwd[u] = "locked"

\* Run p moves from one step to another, a listing misread or not, and leaves
\* the host as h.
Moves(p, from, to, h) ==
    /\ pc[p] = from /\ pc' = [pc EXCEPT ![p] = to] /\ host' = h
    /\ UNCHANGED <<arg, unit>>
    /\ hit' = hit \/ hit' = [hit EXCEPT ![p] = "pipe"]

\* What a host held, it holds when it has grown.
LEMMA PromiseKept ==
    ASSUME NEW h, NEW k, NEW s, NEW a, a.user \in User, Grew(h, k), Promised(h, s, a)
    PROVE  Promised(k, s, a)
<1> DEFINE u == a.user
<1>1. \A f \in SubFile : Has(u, h.subids[f]) => Has(u, k.subids[f])
  BY DEF Grew, Has
<1>2. /\ u \in h.account => u \in k.account
      /\ u \in h.store => u \in k.store
      /\ u \in h.linger => u \in k.linger
      /\ u \in h.appdata => u \in k.appdata
      /\ a.key \in Recorded(h.keys[u]) => a.key \in Recorded(k.keys[u])
      /\ h.keys[u].owner = "user" => k.keys[u].owner = "user"
      /\ u \in h.account /\ u \in k.aging /\ k.passwd[u] = "locked" =>
             u \in h.aging /\ h.passwd[u] = "locked"
  BY DEF Grew
<1> QED BY <1>1, <1>2 DEF Promised, SubFile, Writing

LEMMA GrewSame == Grew(host, host)
BY DEF Grew

\* What a run is given
LEMMA ArgOf ==
    ASSUME TypeOK, NEW p \in Run
    PROVE  /\ arg[p] \in Args /\ arg[p].user = U(p) /\ U(p) \in User /\ host \in Host
           /\ Promises => Promised(host, pc[p], arg[p])
BY UserOf DEF TypeOK, U, Promises

\* A step outside the units keeps the invariant if the host only grows and
\* holds what is promised of it at the next step.
LEMMA RunStep ==
    ASSUME RunInv, SubidInv', NEW p \in Run, NEW from \in PC \ (Writing \cup {"done", "failed"}),
           NEW to \in PC \ {"fill", "own"}, NEW h, Moves(p, from, to, h), Grew(host, h),
           h.units = host.units, Promised(h, from, arg[p]) => Promised(h, to, arg[p]),
           to = "done" => ~arg[p].quadlet,
           to \in {"datadir", "unit"} => from = "datadir" \/ arg[p].quadlet,
           to = "failed" => host.present # SubFile \/ hit'[p] # "none"
    PROVE  RunInv' /\ Grew(host, host')
<1> USE DEF RunInv, SubidInv
<1>1. /\ arg' = arg /\ host' = h
      /\ \A q \in Run : pc'[q] = IF q = p THEN to ELSE pc[q]
      /\ \A q \in Run \ {p} : hit'[q] = hit[q]
      /\ hit[p] # "none" => hit'[p] # "none"
  BY DEF TypeOK, Moves
<1>2. Promises'
  <2>1. ASSUME NEW q \in Run PROVE Promised(h, pc'[q], arg[q])
    <3>1. CASE q = p
      BY <1>1, <3>1, ArgOf, PromiseKept DEF Moves
    <3>2. CASE q # p
      BY <1>1, <3>2, ArgOf, PromiseKept
    <3> QED BY <3>1, <3>2
  <2> QED BY <1>1, <2>1 DEF Promises
<1>3. OnlyFaultsFail'
  BY <1>1 DEF OnlyFaultsFail, Grew
<1>4. UnitsInv'
  <2>1. pc[p] = from /\ unit[p] = 1 /\ from \notin {"fill", "own", "failed"}
    BY DEF Moves, UnitsInv, Writing
  <2>2. \A q \in Run : U(q)' = U(q) /\ unit'[q] = unit[q]
    BY <1>1 DEF U, Moves
  <2>3. \A q \in Run : pc'[q] \notin Writing \cup {"done", "failed"} => unit'[q] = 1
    BY <1>1, <2>1, <2>2 DEF UnitsInv
  <2>4. ASSUME NEW u \in User, NEW n \in 1 .. 3, h.units[u][n] \in {"torn", "roots"}
        PROVE  \E q \in Run : Unfinished(q, u, n)'
    <3>1. PICK q \in Run : Unfinished(q, u, n)
      BY <2>4 DEF UnitsInv
    <3>2. q # p
      BY <2>1, <3>1 DEF Unfinished
    <3>3. Unfinished(q, u, n)'
      BY <1>1, <2>2, <3>1, <3>2 DEF Unfinished
    <3> QED BY <3>3
  <2>5. \A q \in Run : pc'[q] \in Writing =>
            \A n \in 1 .. 3 : n < unit[q] => host.units[U(q)][n] # "absent"
    BY <1>1, <2>1 DEF UnitsInv
  <2>6. \A q \in Run : pc'[q] = "done" /\ arg[q].quadlet =>
            /\ \A n \in 1 .. 3 : host.units[U(q)][n] # "absent"
            /\ \A o \in Run : U(o) = U(q) => pc'[o] \notin {"fill", "own"}
    BY <1>1 DEF UnitsInv
  <2>7. \A q \in Run : /\ pc'[q] = "fill" => host.units[U(q)][unit[q]] = "torn"
                       /\ pc'[q] = "own" => host.units[U(q)][unit[q]] = "roots"
                       /\ pc'[q] \in Writing \cup {"datadir"} => arg[q].quadlet
    BY <1>1, <2>1 DEF UnitsInv, Writing
  <2> QED BY <1>1, <2>2, <2>3, <2>4, <2>5, <2>6, <2>7 DEF UnitsInv
<1> QED BY <1>1, <1>2, <1>3, <1>4

LEMMA StartGrows ==
    ASSUME RunInv, SubidInv', NEW p \in Run, Start(p)
    PROVE  RunInv' /\ Grew(host, host')
<1>1. Moves(p, "idle", "fcontext", host)
  BY DEF Start, Do, Moves
<1>2. Promised(host, "fcontext", arg[p])
  BY DEF Promised, Writing
<1> QED BY <1>1, <1>2, GrewSame, RunStep DEF RunInv, PC, Steps, Writing

\* A context is there, is defined, or is mistaken for missing: then the run has
\* met a fault, whether semanage refuses or not.
LEMMA ContextGrows ==
    ASSUME RunInv, SubidInv', NEW p \in Run, NEW context \in {"tree", "appdata"},
           NEW from \in {"fcontext", "appdata"}, NEW to \in {"useradd", "datadir"},
           EnsureContext(p, context, from, to), to = "datadir" => arg[p].quadlet,
           Promised(host, from, arg[p]) => Promised(host, to, arg[p])
    PROVE  RunInv' /\ Grew(host, host')
<1>1. /\ from \in PC \ (Writing \cup {"done", "failed"}) /\ "failed" \in PC \ {"fill", "own"}
      /\ to \in PC \ {"fill", "own", "done", "failed", "unit"}
  BY DEF PC, Steps, Writing
<1>2. CASE Misread(p, from, to)
  <2>1. PICK end \in {"failed", to} : pc' = [pc EXCEPT ![p] = end]
    BY <1>2 DEF Misread
  <2>2. Moves(p, from, end, host) /\ hit' = [hit EXCEPT ![p] = "pipe"]
    BY <1>2, <2>1 DEF Misread, Moves
  <2>3. hit'[p] # "none"
    BY <2>2 DEF RunInv, SubidInv, TypeOK
  <2>4. Promised(host, "failed", arg[p])
    BY DEF Promised, Writing
  <2>5. CASE end = "failed"
    BY <1>1, <2>2, <2>3, <2>4, <2>5, GrewSame, RunStep
  <2>6. CASE end = to
    BY <1>1, <2>2, <2>6, GrewSame, RunStep
  <2> QED BY <2>1, <2>5, <2>6
<1>3. CASE Do(p, from, to, [host EXCEPT !.fcontext = @ \cup {context}])
  <2> DEFINE h == [host EXCEPT !.fcontext = @ \cup {context}]
  <2>1. Moves(p, from, to, h)
    BY <1>3 DEF Do, Moves
  <2>2. host \in Host
    BY DEF RunInv, SubidInv, TypeOK
  <2>3. /\ h.account = host.account /\ h.store = host.store /\ h.linger = host.linger
        /\ h.appdata = host.appdata /\ h.present = host.present /\ h.subids = host.subids
        /\ h.keys = host.keys /\ h.units = host.units /\ h.aging = host.aging
        /\ h.passwd = host.passwd
    BY <2>2 DEF Host
  <2> HIDE DEF h
  <2>4. Grew(host, h)
    BY <2>3 DEF Grew
  <2>5. Promised(h, from, arg[p]) => Promised(h, to, arg[p])
    BY <2>3 DEF Promised, Writing
  <2> QED BY <1>1, <2>1, <2>3, <2>4, <2>5, RunStep
<1> QED BY <1>2, <1>3 DEF EnsureContext

LEMMA UseraddGrows ==
    ASSUME RunInv, SubidInv', NEW p \in Run, Useradd(p)
    PROVE  RunInv' /\ Grew(host, host')
<1>0. host \in Host /\ U(p) \in User /\ arg[p].user = U(p) /\ TypeOK
  BY ArgOf DEF RunInv, SubidInv
<1>1. "useradd" \in PC \ (Writing \cup {"done", "failed"}) /\ "aging" \in PC \ {"fill", "own"}
  BY DEF PC, Steps, Writing
<1>2. \A h : arg[p].user \in h.account => Promised(h, "aging", arg[p])
  BY DEF Promised, Writing
<1>3. CASE U(p) \in host.account
  <2>1. Moves(p, "useradd", "aging", host)
    BY <1>3 DEF Useradd, Do, Moves
  <2> QED BY <1>0, <1>1, <1>2, <1>3, <2>1, GrewSame, RunStep DEF RunInv
<1>4. CASE U(p) \notin host.account
  <2>1. PICK uids \in Block("subuid", U(p)), gids \in Block("subgid", U(p)) :
            Do(p, "useradd", "aging",
               [host EXCEPT !.account = @ \cup {U(p)}, !.aging = @ \cup {U(p)},
                            !.passwd[U(p)] = "locked",
                            !.subids = [f \in SubFile |->
                                IF f \in host.present
                                THEN @[f] \cup {[subuid |-> uids, subgid |-> gids][f]}
                                ELSE @[f]]])
    BY <1>4 DEF Useradd
  <2> DEFINE new == [subuid |-> uids, subgid |-> gids]
             s   == [f \in SubFile |-> IF f \in host.present
                                       THEN host.subids[f] \cup {new[f]} ELSE host.subids[f]]
             w   == [host.passwd EXCEPT ![U(p)] = "locked"]
             h   == [host EXCEPT !.account = @ \cup {U(p)}, !.aging = @ \cup {U(p)},
                                 !.passwd = w, !.subids = s]
  <2>2. Moves(p, "useradd", "aging", h)
    BY <2>1 DEF Do, Moves
  <2>3. \A f \in SubFile : host.subids[f] \subseteq s[f]
    OBVIOUS
  <2>4. \A u \in User \ {U(p)} : w[u] = host.passwd[u]
    BY <1>0 DEF Host
  <2> HIDE DEF s, w
  <2>5. /\ h.account = host.account \cup {U(p)} /\ h.aging = host.aging \cup {U(p)}
        /\ h.passwd = w /\ h.subids = s
        /\ h.store = host.store /\ h.linger = host.linger
        /\ h.appdata = host.appdata /\ h.present = host.present
        /\ h.keys = host.keys /\ h.units = host.units
    BY <1>0 DEF Host
  <2> HIDE DEF h
  <2>6. Grew(host, h)
    BY <1>4, <2>3, <2>4, <2>5 DEF Grew
  <2>7. Promised(h, "aging", arg[p])
    BY <1>0, <1>2, <2>5
  <2> QED BY <1>1, <2>2, <2>5, <2>6, <2>7, RunStep
<1> QED BY <1>3, <1>4

LEMMA AgingGrows ==
    ASSUME RunInv, SubidInv', NEW p \in Run, Aging(p)
    PROVE  RunInv' /\ Grew(host, host')
<1> DEFINE h == IF host.passwd[U(p)] = "locked" THEN [host EXCEPT !.aging = @ \ {U(p)}] ELSE host
<1>1. Moves(p, "aging", "init", h)
  BY DEF Aging, Do, Moves
<1>2. host \in Host /\ U(p) \in User /\ arg[p].user = U(p)
  BY ArgOf DEF RunInv, SubidInv
<1>3. /\ h.account = host.account /\ h.store = host.store /\ h.linger = host.linger
      /\ h.appdata = host.appdata /\ h.present = host.present /\ h.subids = host.subids
      /\ h.keys = host.keys /\ h.units = host.units /\ h.passwd = host.passwd
      /\ h.aging = IF host.passwd[U(p)] = "locked" THEN host.aging \ {U(p)} ELSE host.aging
  BY <1>2 DEF Host
<1> HIDE DEF h
<1>4. Grew(host, h)
  BY <1>2, <1>3 DEF Grew
<1>5. Promised(h, "aging", arg[p]) => Promised(h, "init", arg[p])
  BY <1>2, <1>3 DEF Promised, Writing
<1> QED BY <1>1, <1>3, <1>4, <1>5, RunStep DEF PC, Steps, Writing

LEMMA InitFilesGrows ==
    ASSUME RunInv, SubidInv', NEW p \in Run, InitFiles(p)
    PROVE  RunInv' /\ Grew(host, host')
<1>1. PICK loose \in {host.loose, host.loose \ {U(p)}} :
          Moves(p, "init", "subuid", [host EXCEPT !.loose = loose])
  BY DEF InitFiles, Do, Moves, RunInv, SubidInv, TypeOK, Host
<1> DEFINE h == [host EXCEPT !.loose = loose]
<1>2. host \in Host
  BY DEF RunInv, SubidInv, TypeOK
<1>3. /\ h.account = host.account /\ h.store = host.store /\ h.linger = host.linger
      /\ h.appdata = host.appdata /\ h.present = host.present /\ h.subids = host.subids
      /\ h.keys = host.keys /\ h.units = host.units /\ h.passwd = host.passwd
      /\ h.aging = host.aging
  BY <1>2 DEF Host
<1>4. Moves(p, "init", "subuid", h)
  BY <1>1
<1> HIDE DEF h
<1>5. Grew(host, h)
  BY <1>3 DEF Grew
<1>6. Promised(h, "init", arg[p]) => Promised(h, "subuid", arg[p])
  BY DEF Promised, Writing
<1> QED BY <1>3, <1>4, <1>5, <1>6, RunStep DEF PC, Steps, Writing

LEMMA ReadSubidsGrows ==
    ASSUME RunInv, SubidInv', NEW p \in Run, NEW f, NEW add, NEW next,
           \/ f = "subuid" /\ add = "add_subuid" /\ next = "subgid"
           \/ f = "subgid" /\ add = "add_subgid" /\ next = "store",
           ReadSubids(p, f, add, next)
    PROVE  RunInv' /\ Grew(host, host')
<1>1. /\ f \in PC \ (Writing \cup {"done", "failed"}) /\ f \in SubFile
      /\ {add, next} \subseteq PC \ {"fill", "own", "done", "failed"}
      /\ "failed" \in PC \ {"fill", "own"}
  BY DEF PC, Steps, Writing, SubFile
<1>2. Grew(host, host) /\ arg[p].user = U(p)
  BY GrewSame DEF RunInv, U
<1>3. CASE Has(U(p), host.subids[f]) /\ Do(p, f, next, host)
  <2>1. Moves(p, f, next, host)
    BY <1>3 DEF Do, Moves
  <2>2. Promised(host, f, arg[p]) => Promised(host, next, arg[p])
    BY <1>2, <1>3 DEF Promised, Writing
  <2> QED BY <1>1, <1>2, <2>1, <2>2, RunStep
<1>4. CASE f \notin host.present /\ Do(p, f, "failed", host)
  <2>1. Moves(p, f, "failed", host)
    BY <1>4 DEF Do, Moves
  <2>2. Promised(host, "failed", arg[p])
    BY DEF Promised, Writing
  <2> QED BY <1>1, <1>2, <1>4, <2>1, <2>2, RunStep
<1>5. CASE pc[p] = f /\ pc' = [pc EXCEPT ![p] = add] /\ UNCHANGED <<arg, unit, host, hit, edits>>
  <2>1. Moves(p, f, add, host)
    BY <1>5 DEF Moves
  <2>2. Promised(host, f, arg[p]) => Promised(host, add, arg[p])
    BY DEF Promised, Writing
  <2> QED BY <1>1, <1>2, <2>1, <2>2, RunStep
<1> QED BY <1>3, <1>4, <1>5 DEF ReadSubids

LEMMA AddSubidsGrows ==
    ASSUME RunInv, SubidInv', NEW p \in Run, NEW f, NEW add, NEW next,
           \/ f = "subuid" /\ add = "add_subuid" /\ next = "subgid"
           \/ f = "subgid" /\ add = "add_subgid" /\ next = "store",
           AddSubids(p, f, add, next)
    PROVE  RunInv' /\ Grew(host, host')
<1> DEFINE new == [user |-> U(p), start |-> start[p], len |-> Count]
           s   == [host.subids EXCEPT ![f] = @ \cup {new}]
           h   == [host EXCEPT !.subids = s]
<1>1. /\ add \in PC \ (Writing \cup {"done", "failed"}) /\ f \in SubFile
      /\ next \in PC \ {"fill", "own", "done", "failed"}
  BY DEF PC, Steps, Writing, SubFile
<1>2. host \in Host /\ arg[p].user = U(p) /\ host.subids \in [SubFile -> SUBSET Range]
  BY DEF U, RunInv, SubidInv, TypeOK, Host
<1>3. Moves(p, add, next, h)
  BY DEF AddSubids, Do, Moves
<1>4. new.user = U(p) /\ new \in s[f] /\ \A g \in SubFile : host.subids[g] \subseteq s[g]
  BY <1>1, <1>2
<1>5. Has(U(p), s[f])
  BY <1>4 DEF Has
<1> HIDE DEF s
<1>6. /\ h.account = host.account /\ h.store = host.store /\ h.linger = host.linger
      /\ h.appdata = host.appdata /\ h.present = host.present /\ h.subids = s
      /\ h.keys = host.keys /\ h.units = host.units /\ h.passwd = host.passwd
      /\ h.aging = host.aging
  BY <1>2 DEF Host
<1> HIDE DEF h
<1>7. Grew(host, h)
  BY <1>4, <1>6 DEF Grew
<1>8. Promised(h, add, arg[p]) => Promised(h, next, arg[p])
  BY <1>2, <1>5, <1>6 DEF Promised, Writing
<1> QED BY <1>1, <1>3, <1>6, <1>7, <1>8, RunStep

LEMMA SubidsGrows ==
    ASSUME RunInv, SubidInv', NEW p \in Run, Subids(p)
    PROVE  RunInv' /\ Grew(host, host')
BY ReadSubidsGrows, AddSubidsGrows DEF Subids

LEMMA StoreGrows ==
    ASSUME RunInv, SubidInv', NEW p \in Run, Store(p)
    PROVE  RunInv' /\ Grew(host, host')
<1> DEFINE h == [host EXCEPT !.store = @ \cup {U(p)}]
<1>1. Moves(p, "store", "linger", h)
  BY DEF Store, Do, Moves
<1>2. host \in Host /\ arg[p].user = U(p)
  BY DEF U, RunInv, SubidInv, TypeOK
<1>3. /\ h.account = host.account /\ h.store = host.store \cup {U(p)}
      /\ h.linger = host.linger /\ h.appdata = host.appdata /\ h.present = host.present
      /\ h.subids = host.subids /\ h.keys = host.keys /\ h.units = host.units
      /\ h.passwd = host.passwd /\ h.aging = host.aging
  BY <1>2 DEF Host
<1> HIDE DEF h
<1>4. Grew(host, h)
  BY <1>3 DEF Grew
<1>5. Promised(h, "store", arg[p]) => Promised(h, "linger", arg[p])
  BY <1>2, <1>3 DEF Promised, Writing
<1> QED BY <1>1, <1>3, <1>4, <1>5, RunStep DEF PC, Steps, Writing

LEMMA LingerGrows ==
    ASSUME RunInv, SubidInv', NEW p \in Run, Linger(p)
    PROVE  RunInv' /\ Grew(host, host')
<1> DEFINE h == IF arg[p].linger THEN [host EXCEPT !.linger = @ \cup {U(p)}] ELSE host
<1>1. Moves(p, "linger", "touch", h)
  BY DEF Linger, Do, Moves
<1>2. host \in Host /\ arg[p].user = U(p)
  BY DEF U, RunInv, SubidInv, TypeOK
<1>3. /\ h.account = host.account /\ h.store = host.store
      /\ h.linger = IF arg[p].linger THEN host.linger \cup {U(p)} ELSE host.linger
      /\ h.appdata = host.appdata /\ h.present = host.present
      /\ h.subids = host.subids /\ h.keys = host.keys /\ h.units = host.units
      /\ h.passwd = host.passwd /\ h.aging = host.aging
  BY <1>2 DEF Host
<1> HIDE DEF h
<1>4. Grew(host, h)
  BY <1>3 DEF Grew
<1>5. Promised(h, "linger", arg[p]) => Promised(h, "touch", arg[p])
  BY <1>2, <1>3 DEF Promised, Writing
<1> QED BY <1>1, <1>3, <1>4, <1>5, RunStep DEF PC, Steps, Writing

\* A host on which u's authorized_keys file has become another one, which loses
\* neither a key nor a finished line
LEMMA KeysGrow ==
    ASSUME RunInv, NEW u \in User, NEW file, host.keys[u].lines \subseteq file.lines,
           Recorded(host.keys[u]) \subseteq Recorded(file),
           host.keys[u].owner = "user" => file.owner = "user"
    PROVE  LET h == [host EXCEPT !.keys[u] = file]
           IN  Grew(host, h) /\ h.units = host.units /\ h.keys[u] = file
<1> DEFINE k == [host.keys EXCEPT ![u] = file]
           h == [host EXCEPT !.keys = k]
<1>1. host \in Host
  BY DEF RunInv, SubidInv, TypeOK
<1>2. k[u] = file /\ \A v \in User \ {u} : k[v] = host.keys[v]
  BY <1>1 DEF Host
<1>3. h = [host EXCEPT !.keys[u] = file]
  OBVIOUS
<1> HIDE DEF k
<1>4. /\ h.account = host.account /\ h.store = host.store /\ h.linger = host.linger
      /\ h.appdata = host.appdata /\ h.present = host.present /\ h.subids = host.subids
      /\ h.keys = k /\ h.units = host.units /\ h.passwd = host.passwd
      /\ h.aging = host.aging
  BY <1>1 DEF Host
<1> HIDE DEF h
<1>5. Grew(host, h)
  BY <1>2, <1>4 DEF Grew
<1> QED BY <1>2, <1>3, <1>4, <1>5

LEMMA TouchGrows ==
    ASSUME RunInv, SubidInv', NEW p \in Run, Touch(p)
    PROVE  RunInv' /\ Grew(host, host')
<1>1. /\ host.keys[U(p)] \in KeyFile /\ U(p) \in User /\ Grew(host, host)
  BY ArgOf, GrewSame DEF RunInv, SubidInv, TypeOK, Host
<1>2. CASE arg[p].key = NoKey
  <2>1. Moves(p, "touch", "appdata", host)
    BY <1>2 DEF Touch, Do, Moves
  <2>2. Promised(host, "touch", arg[p]) => Promised(host, "appdata", arg[p])
    BY <1>2 DEF Promised, Writing
  <2> QED BY <1>1, <2>1, <2>2, RunStep DEF PC, Steps, Writing
<1>3. CASE arg[p].key # NoKey
  <2>1. \A h : Promised(h, "touch", arg[p]) => Promised(h, "append", arg[p])
    BY <1>3 DEF Promised, Writing
  <2>2. CASE host.keys[U(p)].owner = "absent"
    <3> DEFINE file == [host.keys[U(p)] EXCEPT !.owner = "root"]
               h == [host EXCEPT !.keys[U(p)] = file]
    <3>1. Moves(p, "touch", "append", h)
      BY <1>3, <2>2 DEF Touch, Do, Moves
    <3>2. file.lines = host.keys[U(p)].lines /\ Recorded(file) = Recorded(host.keys[U(p)])
      BY <1>1 DEF KeyFile, KeysIn, Recorded
    <3> HIDE DEF file
    <3>3. Grew(host, h) /\ h.units = host.units
      BY <1>1, <2>2, <3>2, KeysGrow
    <3> HIDE DEF h
    <3> QED BY <2>1, <3>1, <3>3, RunStep DEF PC, Steps, Writing
  <2>3. CASE host.keys[U(p)].owner # "absent"
    <3>1. Moves(p, "touch", "append", host)
      BY <1>3, <2>3 DEF Touch, Do, Moves
    <3> QED BY <1>1, <2>1, <3>1, RunStep DEF PC, Steps, Writing
  <2> QED BY <2>2, <2>3
<1> QED BY <1>2, <1>3

\* Appending a key keeps the finished lines and every key there is.
LEMMA AppendedKeeps ==
    ASSUME NEW f \in KeyFile, NEW k \in Key
    PROVE  LET file == Appended(f, k)
           IN  /\ file.owner = f.owner /\ f.lines \subseteq file.lines
               /\ Recorded(f) \subseteq Recorded(file) /\ k \in Recorded(file)
<1>1. CASE k \in KeysIn(f)
  BY <1>1 DEF Appended, Recorded
<1>2. CASE k \notin KeysIn(f) /\ f.open = NoKey
  <2>1. Appended(f, k) = [f EXCEPT !.lines = @ \cup {k}]
    BY <1>2 DEF Appended
  <2>2. /\ Appended(f, k).lines = f.lines \cup {k} /\ Appended(f, k).open = f.open
        /\ Appended(f, k).joined = f.joined /\ Appended(f, k).owner = f.owner
    BY <2>1 DEF KeyFile
  <2> QED BY <2>2 DEF Recorded, KeysIn
<1>3. CASE k \notin KeysIn(f) /\ f.open # NoKey
  <2> DEFINE line == <<f.open, k>>
  <2>1. Appended(f, k) = [f EXCEPT !.open = NoKey, !.joined = @ \cup {line}]
    BY <1>3 DEF Appended
  <2>2. line[1] = f.open /\ line[2] = k
    OBVIOUS
  <2> HIDE DEF line
  <2>3. /\ Appended(f, k).lines = f.lines /\ Appended(f, k).open = NoKey
        /\ Appended(f, k).joined = f.joined \cup {line} /\ Appended(f, k).owner = f.owner
    BY <2>1 DEF KeyFile
  <2>4. {line[1], line[2]} \subseteq Recorded(Appended(f, k))
    BY <2>3 DEF Recorded
  <2>5. Recorded(f) \subseteq f.lines \cup {f.open} \cup UNION {{j[1], j[2]} : j \in f.joined}
    BY DEF Recorded, KeysIn
  <2>6. f.lines \cup UNION {{j[1], j[2]} : j \in f.joined} \subseteq Recorded(Appended(f, k))
    BY <2>3 DEF Recorded, KeysIn
  <2> QED BY <2>2, <2>3, <2>4, <2>5, <2>6
<1> QED BY <1>1, <1>2, <1>3

LEMMA AppendGrows ==
    ASSUME RunInv, SubidInv', NEW p \in Run, Append_(p)
    PROVE  RunInv' /\ Grew(host, host')
<1> DEFINE file == Appended(host.keys[U(p)], arg[p].key)
           h == [host EXCEPT !.keys[U(p)] = file]
<1>1. /\ host.keys[U(p)] \in KeyFile /\ U(p) \in User /\ arg[p].user = U(p)
      /\ arg[p].key \in Key
  BY ArgOf, UserOf DEF RunInv, SubidInv, TypeOK, Host, Append_
<1>2. Moves(p, "append", "chown", h)
  BY DEF Append_, Do, Moves
<1>3. /\ file.owner = host.keys[U(p)].owner /\ host.keys[U(p)].lines \subseteq file.lines
      /\ Recorded(host.keys[U(p)]) \subseteq Recorded(file) /\ arg[p].key \in Recorded(file)
  BY <1>1, AppendedKeeps
<1> HIDE DEF file
<1>4. Grew(host, h) /\ h.units = host.units /\ h.keys[U(p)] = file
  BY <1>1, <1>3, KeysGrow
<1> HIDE DEF h
<1>5. Promised(h, "append", arg[p]) => Promised(h, "chown", arg[p])
  BY <1>1, <1>3, <1>4 DEF Promised, Writing
<1> QED BY <1>2, <1>4, <1>5, RunStep DEF PC, Steps, Writing

LEMMA ChownGrows ==
    ASSUME RunInv, SubidInv', NEW p \in Run, Chown(p)
    PROVE  RunInv' /\ Grew(host, host')
<1> DEFINE file == [host.keys[U(p)] EXCEPT !.owner = "user"]
           h == [host EXCEPT !.keys[U(p)] = file]
<1>1. /\ host.keys[U(p)] \in KeyFile /\ U(p) \in User /\ arg[p].user = U(p)
  BY ArgOf DEF RunInv, SubidInv, TypeOK, Host
<1>2. Moves(p, "chown", "appdata", h)
  BY DEF Chown, Do, Moves
<1>3. /\ file.owner = "user" /\ file.lines = host.keys[U(p)].lines
      /\ Recorded(file) = Recorded(host.keys[U(p)])
  BY <1>1 DEF KeyFile, KeysIn, Recorded
<1> HIDE DEF file
<1>4. Grew(host, h) /\ h.units = host.units /\ h.keys[U(p)] = file
  BY <1>1, <1>3, KeysGrow
<1> HIDE DEF h
<1>5. Promised(h, "chown", arg[p]) => Promised(h, "appdata", arg[p])
  BY <1>1, <1>3, <1>4 DEF Promised, Writing
<1> QED BY <1>2, <1>4, <1>5, RunStep DEF PC, Steps, Writing

LEMMA AppdataGrows ==
    ASSUME RunInv, SubidInv', NEW p \in Run, Appdata(p)
    PROVE  RunInv' /\ Grew(host, host')
<1>1. CASE ~arg[p].quadlet /\ Do(p, "appdata", "done", host)
  <2>1. Moves(p, "appdata", "done", host)
    BY <1>1 DEF Do, Moves
  <2>2. Promised(host, "appdata", arg[p]) => Promised(host, "done", arg[p])
    BY <1>1 DEF Promised, Writing
  <2> QED BY <1>1, <2>1, <2>2, GrewSame, RunStep DEF PC, Steps, Writing
<1>2. CASE arg[p].quadlet /\ EnsureContext(p, "appdata", "appdata", "datadir")
  <2>1. Promised(host, "appdata", arg[p]) => Promised(host, "datadir", arg[p])
    BY DEF Promised, Writing
  <2> QED BY <1>2, <2>1, ContextGrows
<1>3. CASE Do(p, "datadir", "unit", [host EXCEPT !.appdata = @ \cup {U(p)}])
  <2> DEFINE h == [host EXCEPT !.appdata = @ \cup {U(p)}]
  <2>1. Moves(p, "datadir", "unit", h)
    BY <1>3 DEF Do, Moves
  <2>2. host \in Host /\ arg[p].user = U(p)
    BY DEF U, RunInv, SubidInv, TypeOK
  <2>3. /\ h.account = host.account /\ h.store = host.store /\ h.linger = host.linger
        /\ h.appdata = host.appdata \cup {U(p)} /\ h.present = host.present
        /\ h.subids = host.subids /\ h.keys = host.keys /\ h.units = host.units
        /\ h.passwd = host.passwd /\ h.aging = host.aging
    BY <2>2 DEF Host
  <2> HIDE DEF h
  <2>4. Grew(host, h)
    BY <2>3 DEF Grew
  <2>5. Promised(h, "datadir", arg[p]) => Promised(h, "unit", arg[p])
    BY <2>2, <2>3 DEF Promised, Writing
  <2> QED BY <2>1, <2>3, <2>4, <2>5, RunStep DEF PC, Steps, Writing
<1> QED BY <1>1, <1>2, <1>3 DEF Appdata

\* A host on which one of u's units has another state
WithUnit(u, n, state) == [host EXCEPT !.units[u][n] = state]

LEMMA UnitGrows ==
    ASSUME RunInv, NEW u \in User, NEW n \in 1 .. 3, NEW state, state # "absent",
           host.units[u][n] = "edited" => state = "edited"
    PROVE  /\ Grew(host, WithUnit(u, n, state))
           /\ \A v \in User : \A m \in 1 .. 3 : WithUnit(u, n, state).units[v][m] =
                  IF v = u /\ m = n THEN state ELSE host.units[v][m]
<1> DEFINE mine == [host.units[u] EXCEPT ![n] = state]
           k == [host.units EXCEPT ![u] = mine]
           h == [host EXCEPT !.units = k]
<1>1. host \in Host
      /\ host.units \in [User -> [1 .. 3 -> {"absent", "torn", "roots", "ready", "edited"}]]
  BY DEF RunInv, SubidInv, TypeOK, Host
<1>2. \A m \in 1 .. 3 : mine[m] = IF m = n THEN state ELSE host.units[u][m]
  BY <1>1
<1>3. h = WithUnit(u, n, state)
  BY DEF WithUnit
<1> HIDE DEF mine
<1>4. \A v \in User : k[v] = IF v = u THEN mine ELSE host.units[v]
  BY <1>1
<1> HIDE DEF k
<1>5. /\ h.account = host.account /\ h.store = host.store /\ h.linger = host.linger
      /\ h.appdata = host.appdata /\ h.present = host.present /\ h.subids = host.subids
      /\ h.keys = host.keys /\ h.units = k /\ h.passwd = host.passwd
      /\ h.aging = host.aging
  BY <1>1 DEF Host
<1> HIDE DEF h
<1>6. \A v \in User : \A m \in 1 .. 3 :
          h.units[v][m] = IF v = u /\ m = n THEN state ELSE host.units[v][m]
  BY <1>2, <1>4, <1>5
<1>7. Grew(host, h)
  BY <1>5, <1>6 DEF Grew
<1> QED BY <1>3, <1>6, <1>7

\* A step of a run that is at its units: what was promised stays promised.
LEMMA UnitPromises ==
    ASSUME RunInv, NEW p \in Run, pc[p] \in Writing, NEW to \in Writing \cup {"done"},
           pc' = [pc EXCEPT ![p] = to], arg' = arg, hit' = hit, Grew(host, host')
    PROVE  Promises' /\ OnlyFaultsFail'
<1> USE DEF RunInv, SubidInv
<1>1. \A q \in Run : pc'[q] = IF q = p THEN to ELSE pc[q]
  BY DEF TypeOK
<1>2. \A q \in Run : Promised(host', pc[q], arg[q])
  BY ArgOf, PromiseKept
<1>3. Promised(host', to, arg[p])
  BY <1>2 DEF Promised, Writing, UnitsInv
<1>4. Promises'
  BY <1>1, <1>2, <1>3 DEF Promises
<1>5. OnlyFaultsFail'
  BY <1>1 DEF OnlyFaultsFail, Grew, Writing
<1> QED BY <1>4, <1>5

\* A unit is begun, or filled.
LEMMA WritingUnit ==
    ASSUME RunInv, SubidInv', NEW p \in Run, NEW from, NEW to, NEW state,
           \/ from = "unit" /\ to = "fill" /\ state = "torn"
              /\ host.units[U(p)][unit[p]] = "absent"
           \/ from = "fill" /\ to = "own" /\ state = "roots",
           Do(p, from, to, SetUnit(p, state))
    PROVE  RunInv' /\ Grew(host, host')
<1> USE DEF RunInv, SubidInv
<1>1. /\ pc[p] = from /\ pc' = [pc EXCEPT ![p] = to] /\ host' = SetUnit(p, state)
      /\ UNCHANGED <<arg, unit, hit>>
  BY DEF Do
<1>2. U(p) \in User /\ unit[p] \in 1 .. 3 /\ from \in Writing /\ to \in Writing
  BY ArgOf DEF TypeOK, Writing
<1>3. host.units[U(p)][unit[p]] \in {"absent", "torn"}
  BY <1>1 DEF UnitsInv
<1>4. /\ Grew(host, host')
      /\ \A v \in User : \A m \in 1 .. 3 :
             host'.units[v][m] = IF v = U(p) /\ m = unit[p] THEN state ELSE host.units[v][m]
  <2>1. state # "absent" /\ (host.units[U(p)][unit[p]] = "edited" => state = "edited")
    BY <1>3
  <2>2. host' = WithUnit(U(p), unit[p], state)
    BY <1>1 DEF SetUnit, WithUnit
  <2> QED BY <1>2, <2>1, <2>2, UnitGrows
<1>5. Promises' /\ OnlyFaultsFail'
  BY <1>1, <1>2, <1>4, UnitPromises
<1>6. \A q \in Run : /\ pc'[q] = (IF q = p THEN to ELSE pc[q])
                     /\ U(q)' = U(q) /\ U(q) \in User /\ unit[q] \in 1 .. 3
  BY <1>1, ArgOf DEF TypeOK, U
<1>7. \A q \in Run \ {p} : pc[q] \notin Writing
  BY <1>1, <1>2 DEF Alone, Active, Writing, Steps
<1>8. \A q \in Run : pc'[q] \notin Writing \cup {"done", "failed"} => unit[q] = 1
  BY <1>2, <1>6 DEF UnitsInv
<1>9. \A q \in Run : /\ pc'[q] = "fill" => host'.units[U(q)][unit[q]] = "torn"
                     /\ pc'[q] = "own" => host'.units[U(q)][unit[q]] = "roots"
                     /\ pc'[q] \in Writing \cup {"datadir"} => arg[q].quadlet
  <2>1. arg[p].quadlet
    BY <1>1, <1>2 DEF UnitsInv
  <2> QED BY <1>2, <1>4, <1>6, <1>7, <2>1 DEF Writing, UnitsInv
<1>10. ASSUME NEW u \in User, NEW n \in 1 .. 3, host'.units[u][n] \in {"torn", "roots"}
       PROVE  \E q \in Run : Unfinished(q, u, n)'
  <2>1. CASE u = U(p) /\ n = unit[p]
    <3>1. Unfinished(p, u, n)'
      BY <1>1, <1>2, <1>6, <1>9, <2>1 DEF Unfinished
    <3> QED BY <3>1
  <2>2. CASE ~(u = U(p) /\ n = unit[p])
    <3>1. host.units[u][n] \in {"torn", "roots"}
      BY <1>4, <1>10, <2>2
    <3>2. PICK q \in Run : Unfinished(q, u, n)
      BY <3>1 DEF UnitsInv
    <3>3. q # p
      BY <2>2, <3>2 DEF Unfinished
    <3>4. Unfinished(q, u, n)'
      BY <1>1, <1>6, <3>2, <3>3 DEF Unfinished
    <3> QED BY <3>4
  <2> QED BY <2>1, <2>2
<1>11. \A q \in Run : pc'[q] \in Writing =>
           \A n \in 1 .. 3 : n < unit[q] => host'.units[U(q)][n] # "absent"
  BY <1>1, <1>2, <1>4, <1>6 DEF UnitsInv, Grew
<1>12. \A q \in Run : pc'[q] = "done" /\ arg[q].quadlet =>
           /\ \A n \in 1 .. 3 : host'.units[U(q)][n] # "absent"
           /\ \A o \in Run : U(o) = U(q) => pc'[o] \notin {"fill", "own"}
  <2> SUFFICES ASSUME NEW q \in Run, pc'[q] = "done", arg[q].quadlet
               PROVE  /\ \A n \in 1 .. 3 : host'.units[U(q)][n] # "absent"
                      /\ \A o \in Run : U(o) = U(q) => pc'[o] \notin {"fill", "own"}
    OBVIOUS
  <2>1. pc[q] = "done" /\ q # p
    BY <1>2, <1>6 DEF Writing
  <2>2. /\ \A n \in 1 .. 3 : host.units[U(q)][n] # "absent"
        /\ \A o \in Run : U(o) = U(q) => pc[o] \notin {"fill", "own"}
    BY <2>1 DEF UnitsInv
  <2>3. U(p) # U(q)
    BY <1>1, <1>2, <2>2
  <2> QED BY <1>4, <1>6, <2>2, <2>3 DEF Grew
<1>13. UnitsInv'
  BY <1>1, <1>6, <1>8, <1>9, <1>10, <1>11, <1>12 DEF UnitsInv
<1> QED BY <1>4, <1>5, <1>13

\* A unit is there, and the next one follows.
LEMMA UnitFinished ==
    ASSUME RunInv, SubidInv', NEW p \in Run, NEW from \in {"unit", "own"}, NextUnit(p, from),
           Grew(host, host'), host'.units[U(p)][unit[p]] # "absent",
           from = "unit" => host' = host,
           from = "own" => host'.units[U(p)][unit[p]] = "ready",
           \A u \in User : \A n \in 1 .. 3 : ~(u = U(p) /\ n = unit[p]) =>
               host'.units[u][n] = host.units[u][n]
    PROVE  RunInv'
<1> USE DEF RunInv, SubidInv
<1>1. PICK to \in {"unit", "done"} :
          /\ pc[p] = from /\ pc' = [pc EXCEPT ![p] = to]
          /\ to = "done" => unit[p] = 3 /\ unit' = unit
          /\ to = "unit" => unit' = [unit EXCEPT ![p] = @ + 1]
          /\ UNCHANGED <<arg, hit>>
  BY DEF NextUnit, Units
<1>2. pc[p] \in Writing /\ to \in Writing \cup {"done"} /\ arg[p].quadlet
  BY <1>1 DEF Writing, UnitsInv
<1>3. Promises' /\ OnlyFaultsFail'
  BY <1>1, <1>2, UnitPromises
<1>4. \A q \in Run : /\ pc'[q] = (IF q = p THEN to ELSE pc[q])
                     /\ U(q)' = U(q) /\ U(q) \in User /\ unit[q] \in 1 .. 3
                     /\ q # p => unit'[q] = unit[q]
  BY <1>1, ArgOf DEF TypeOK, U
<1>5. \A q \in Run \ {p} : pc[q] \notin Writing
  BY <1>2 DEF Alone, Active, Writing, Steps
<1>6. \A q \in Run : pc'[q] \notin Writing \cup {"done", "failed"} => unit'[q] = 1
  BY <1>1, <1>2, <1>4 DEF UnitsInv
<1>7. \A q \in Run : pc'[q] \notin {"fill", "own"}
  BY <1>4, <1>5 DEF Writing
<1>8. ASSUME NEW u \in User, NEW n \in 1 .. 3, host'.units[u][n] \in {"torn", "roots"}
      PROVE  \E q \in Run : Unfinished(q, u, n)'
  <2>1. from = "own" => ~(u = U(p) /\ n = unit[p])
    BY <1>8
  <2>2. host.units[u][n] \in {"torn", "roots"}
    BY <1>8, <2>1
  <2>3. PICK q \in Run : Unfinished(q, u, n)
    BY <2>2 DEF UnitsInv
  <2>4. q # p
    BY <1>1, <2>1, <2>3 DEF Unfinished
  <2>5. Unfinished(q, u, n)'
    BY <1>1, <1>4, <2>3, <2>4 DEF Unfinished
  <2> QED BY <2>5
<1>9. ASSUME NEW n \in 1 .. 3, n <= unit[p] PROVE host'.units[U(p)][n] # "absent"
  <2>1. n < unit[p] \/ n = unit[p]
    BY <1>4, <1>9
  <2>2. n < unit[p] => host.units[U(p)][n] # "absent"
    BY <1>2 DEF UnitsInv
  <2> QED BY <1>4, <2>1, <2>2 DEF Grew
<1>10. \A q \in Run : pc'[q] \in Writing =>
           \A n \in 1 .. 3 : n < unit'[q] => host'.units[U(q)][n] # "absent"
  <2>1. to = "unit" => \A n \in 1 .. 3 : n < unit'[p] => n <= unit[p]
    BY <1>1, <1>4 DEF TypeOK
  <2> QED BY <1>4, <1>5, <1>9, <2>1 DEF Writing
<1>11. \A q \in Run : pc'[q] = "done" /\ arg[q].quadlet =>
           \A n \in 1 .. 3 : host'.units[U(q)][n] # "absent"
  <2>1. to = "done" => \A n \in 1 .. 3 : n <= unit[p]
    BY <1>1
  <2> QED BY <1>4, <1>9, <2>1 DEF UnitsInv, Grew
<1>12. \A q \in Run : pc'[q] \in Writing \cup {"datadir"} => arg[q].quadlet
  BY <1>2, <1>4 DEF UnitsInv
<1>13. UnitsInv'
  BY <1>1, <1>4, <1>6, <1>7, <1>8, <1>10, <1>11, <1>12 DEF UnitsInv
<1> QED BY <1>3, <1>13

LEMMA UnitsGrow ==
    ASSUME RunInv, SubidInv', NEW p \in Run, WriteUnit(p) \/ FillUnit(p) \/ OwnUnit(p)
    PROVE  RunInv' /\ Grew(host, host')
<1>1. U(p) \in User /\ unit[p] \in 1 .. 3
  BY ArgOf DEF RunInv, SubidInv, TypeOK
<1>2. CASE host.units[U(p)][unit[p]] # "absent" /\ NextUnit(p, "unit") /\ UNCHANGED host
  <2>1. Grew(host, host') /\ UNCHANGED host
    BY <1>2, GrewSame
  <2> QED BY <1>2, <2>1, UnitFinished
<1>3. CASE host.units[U(p)][unit[p]] = "absent" /\ Do(p, "unit", "fill", SetUnit(p, "torn"))
  BY <1>3, WritingUnit
<1>4. CASE FillUnit(p)
  BY <1>4, WritingUnit DEF FillUnit
<1>5. CASE OwnUnit(p)
  <2>1. NextUnit(p, "own") /\ pc[p] = "own" /\ host' = [host EXCEPT !.units[U(p)][unit[p]] = "ready"]
    BY <1>5 DEF OwnUnit, NextUnit, SetUnit
  <2>2. host.units[U(p)][unit[p]] = "roots"
    BY <2>1 DEF RunInv, UnitsInv
  <2>3. /\ Grew(host, host')
        /\ \A v \in User : \A m \in 1 .. 3 :
               host'.units[v][m] = IF v = U(p) /\ m = unit[p] THEN "ready" ELSE host.units[v][m]
    <3>1. host' = WithUnit(U(p), unit[p], "ready")
      BY <2>1 DEF WithUnit
    <3> QED BY <1>1, <2>2, <3>1, UnitGrows
  <2> QED BY <1>1, <2>1, <2>3, UnitFinished
<1> QED BY <1>2, <1>3, <1>4, <1>5 DEF WriteUnit

LEMMA AbortGrows ==
    ASSUME RunInv, SubidInv', NEW p \in Run, Abort(p)
    PROVE  RunInv' /\ Grew(host, host')
<1> USE DEF RunInv, SubidInv
<1>1. /\ \A q \in Run : pc'[q] = IF q = p THEN "failed" ELSE pc[q]
      /\ \A q \in Run : hit'[q] = IF q = p THEN "cut" ELSE hit[q]
      /\ UNCHANGED <<arg, unit, host>>
  BY DEF Abort, TypeOK
<1>2. Promised(host, "failed", arg[p])
  BY DEF Promised, Writing
<1>3. Promises'
  BY <1>1, <1>2 DEF Promises
<1>4. \A q \in Run : U(q)' = U(q)
  BY <1>1 DEF U
<1>5. ASSUME NEW u \in User, NEW n \in 1 .. 3, NEW q \in Run, Unfinished(q, u, n)
      PROVE  Unfinished(q, u, n)'
  BY <1>1, <1>4, <1>5 DEF Unfinished
<1>6. UnitsInv'
  <2>1. \A u \in User : \A n \in 1 .. 3 : host'.units[u][n] \in {"torn", "roots"} =>
            \E q \in Run : Unfinished(q, u, n)'
    BY <1>1, <1>5 DEF UnitsInv
  <2> QED BY <1>1, <1>4, <2>1 DEF UnitsInv, Writing
<1>7. OnlyFaultsFail'
  BY <1>1 DEF OnlyFaultsFail
<1> QED BY <1>1, <1>3, <1>6, <1>7, GrewSame

\* What others do between and during the runs, as long as they take no key away
\* and edit no unit but one that is ready
LEMMA EditGrows ==
    ASSUME RunInv, SubidInv', NEW h, Edit(h), Grew(host, h),
           \A u \in User : \A n \in 1 .. 3 :
               \/ h.units[u][n] = host.units[u][n]
               \/ host.units[u][n] = "ready" /\ h.units[u][n] = "edited"
    PROVE  RunInv' /\ Grew(host, host')
<1> USE DEF RunInv, SubidInv
<1>1. host' = h /\ UNCHANGED <<pc, arg, unit, hit>>
  BY DEF Edit
<1>2. Promises'
  BY <1>1, ArgOf, PromiseKept DEF Promises
<1>3. OnlyFaultsFail'
  BY <1>1 DEF OnlyFaultsFail, Grew
<1>4. \A q \in Run : U(q)' = U(q) /\ U(q) \in User /\ unit[q] \in 1 .. 3
  BY <1>1, ArgOf DEF U, TypeOK
<1>5. \A u \in User : \A n \in 1 .. 3 : \A q \in Run : Unfinished(q, u, n) => Unfinished(q, u, n)'
  BY <1>1, <1>4 DEF Unfinished
<1>6. UnitsInv'
  <2>1. \A u \in User : \A n \in 1 .. 3 : host'.units[u][n] \in {"torn", "roots"} =>
            \E q \in Run : Unfinished(q, u, n)'
    BY <1>1, <1>5 DEF UnitsInv
  <2>2. \A u \in User : \A n \in 1 .. 3 :
            /\ host.units[u][n] # "absent" => host'.units[u][n] # "absent"
            /\ host.units[u][n] \in {"torn", "roots"} => host'.units[u][n] = host.units[u][n]
    BY <1>1
  <2> QED BY <1>1, <1>4, <2>1, <2>2 DEF UnitsInv
<1> QED BY <1>1, <1>2, <1>3, <1>6

LEMMA EditsGrow ==
    ASSUME RunInv, SubidInv', NEW u \in User,
           EditKeys(u) \/ EditUnit(u) \/ SetPassword(u)
    PROVE  RunInv' /\ Grew(host, host')
<1>1. host \in Host /\ host.keys[u] \in KeyFile
  BY DEF RunInv, SubidInv, TypeOK, Host
<1>2. CASE EditKeys(u)
  <2>0. PICK k \in Key : /\ host.keys[u].open = NoKey
                         /\ \/ Edit([host EXCEPT !.keys[u] = Closed(@, k)])
                            \/ Edit([host EXCEPT !.keys[u] = Open(@, k)])
    BY <1>2 DEF EditKeys
  <2>1. PICK file \in {Closed(host.keys[u], k), Open(host.keys[u], k)} :
            host.keys[u].open = NoKey /\ Edit([host EXCEPT !.keys[u] = file])
    BY <2>0
  <2> DEFINE h == [host EXCEPT !.keys[u] = file]
  <2>2. /\ file.owner = "user" /\ host.keys[u].lines \subseteq file.lines
        /\ file.joined = host.keys[u].joined
    BY <1>1, <2>1 DEF Closed, Open, KeyFile
  <2>3. Recorded(host.keys[u]) \subseteq Recorded(file)
    BY <2>1, <2>2 DEF Recorded, KeysIn
  <2>4. Edit(h)
    BY <2>1
  <2>5. Grew(host, h) /\ h.units = host.units
    BY <2>2, <2>3, KeysGrow
  <2> HIDE DEF h
  <2> QED BY <2>4, <2>5, EditGrows
<1>3. CASE EditUnit(u)
  <2>1. PICK n \in 1 .. 3 : host.units[u][n] = "ready" /\ Edit(WithUnit(u, n, "edited"))
    BY <1>3 DEF EditUnit, WithUnit
  <2>2. /\ Grew(host, WithUnit(u, n, "edited"))
        /\ \A v \in User : \A m \in 1 .. 3 : WithUnit(u, n, "edited").units[v][m] =
               IF v = u /\ m = n THEN "edited" ELSE host.units[v][m]
    BY UnitGrows
  <2> QED BY <2>1, <2>2, EditGrows
<1>4. CASE SetPassword(u)
  <2> DEFINE w == [host.passwd EXCEPT ![u] = "hash"]
             h == [host EXCEPT !.passwd = w]
  <2>1. w[u] = "hash" /\ \A v \in User \ {u} : w[v] = host.passwd[v]
    BY <1>1 DEF Host
  <2>2. Edit(h)
    BY <1>4 DEF SetPassword
  <2> HIDE DEF w
  <2>3. /\ h.account = host.account /\ h.store = host.store /\ h.linger = host.linger
        /\ h.appdata = host.appdata /\ h.present = host.present /\ h.subids = host.subids
        /\ h.keys = host.keys /\ h.units = host.units /\ h.passwd = w
        /\ h.aging = host.aging
    BY <1>1 DEF Host
  <2> HIDE DEF h
  <2>4. Grew(host, h)
    BY <2>1, <2>3 DEF Grew
  <2> QED BY <2>2, <2>3, <2>4, EditGrows
<1> QED BY <1>2, <1>3, <1>4

LEMMA NextGrows ==
    ASSUME RunInv, OneAtATime, [Next]_vars
    PROVE  RunInv' /\ Grew(host, host')
<1>1. SubidInv'
  BY NextInv DEF RunInv
<1>2. CASE UNCHANGED vars
  <2>1. UNCHANGED <<pc, arg, unit, host, hit>>
    BY <1>2 DEF vars
  <2>2. \A q \in Run : U(q)' = U(q)
    BY <2>1 DEF U
  <2>3. Promises' /\ UnitsInv' /\ OnlyFaultsFail'
    BY <2>1, <2>2 DEF RunInv, Promises, UnitsInv, Unfinished, OnlyFaultsFail
  <2> QED BY <1>1, <2>1, <2>3, GrewSame DEF RunInv
<1>3. ASSUME NEW p \in Run, Step(p) PROVE RunInv' /\ Grew(host, host')
  <2>1. CASE Fcontext(p)
    <3>1. Promised(host, "useradd", arg[p])
      BY DEF Promised, Writing
    <3> QED BY <1>1, <2>1, <3>1, ContextGrows DEF Fcontext
  <2> QED BY <1>1, <1>3, <2>1, StartGrows, UseraddGrows, AgingGrows, InitFilesGrows, SubidsGrows,
             StoreGrows, LingerGrows, TouchGrows, AppendGrows, ChownGrows, AppdataGrows,
             UnitsGrow, AbortGrows DEF Step
<1>4. ASSUME NEW u \in User, EditKeys(u) \/ EditUnit(u) \/ SetPassword(u)
      PROVE  RunInv' /\ Grew(host, host')
  BY <1>1, <1>4, EditsGrow
<1> QED BY <1>2, <1>3, <1>4 DEF Next

LEMMA RunInit == Init => RunInv
<1> SUFFICES ASSUME Init PROVE RunInv
  OBVIOUS
<1>1. Promises
  BY DEF Init, Promises, Promised, Writing
<1>2. UnitsInv /\ OnlyFaultsFail
  BY UserAssumption DEF Init, UnitsInv, OnlyFaultsFail, Writing
<1> QED BY <1>1, <1>2, InitInv DEF RunInv

\* As long as no two runs overlap, whatever host it starts on, whatever fails or
\* is killed, and whatever users do in between: a run that is done has provided
\* what it was asked for, save a unit at which an earlier run was cut, and its key
\* may share a line that was left unfinished; one that failed met a fault in that
\* very run, or one of the two files is missing; and ranges, finished lines of
\* authorized_keys, edited units and the aging of accounts with a password are
\* left as they are (create-rootless-user.sh).
THEOREM ReRunIsSafe ==
    ASSUME OneAtATime
    PROVE  Spec => SafeToRerun
<1>1. Init => RunInv
  BY RunInit
<1>2. RunInv /\ [Next]_vars => RunInv' /\ Grew(host, host')
  BY NextGrows
<1>3. RunInv => Provisioned /\ OnlyFaultsFail
  <2> SUFFICES ASSUME RunInv PROVE Provisioned /\ OnlyFaultsFail
    OBVIOUS
  <2>1. OnlyFaultsFail
    BY DEF RunInv
  <2>2. ASSUME NEW p \in Run, pc[p] = "done"
        PROVE  Promised(host, "done", arg[p]) /\ U(p) = arg[p].user
    BY <2>2 DEF RunInv, Promises, U
  <2>3. ASSUME NEW p \in Run, pc[p] = "done", arg[p].quadlet, NEW n \in 1 .. 3
        PROVE  /\ host.units[U(p)][n] # "absent"
               /\ host.units[U(p)][n] \in {"ready", "edited"} \/ \E q \in Run : CutAt(q, U(p), n)
    <3>1. U(p) \in User /\ host.units[U(p)][n] \in {"absent", "torn", "roots", "ready", "edited"}
      BY ArgOf DEF RunInv, SubidInv, TypeOK, Host
    <3>2. host.units[U(p)][n] # "absent"
      BY <2>3 DEF RunInv, UnitsInv
    <3>3. CASE host.units[U(p)][n] \in {"torn", "roots"}
      <4>1. PICK q \in Run : Unfinished(q, U(p), n)
        BY <3>1, <3>3 DEF RunInv, UnitsInv
      <4>2. pc[q] \notin {"fill", "own"}
        BY <2>3, <4>1 DEF RunInv, UnitsInv, Unfinished
      <4>3. CutAt(q, U(p), n)
        BY <4>1, <4>2 DEF Unfinished, CutAt
      <4> QED BY <3>2, <4>3
    <3> QED BY <3>1, <3>2, <3>3
  <2>4. Provisioned
    BY <2>2, <2>3 DEF Provisioned, Promised, Writing, SubFile
  <2> QED BY <2>1, <2>4
<1>4. ASSUME Grew(host, host')
      PROVE  /\ \A f \in SubFile : host.subids[f] \subseteq host'.subids[f]
             /\ \A u \in User :
                  /\ host.keys[u].lines \subseteq host'.keys[u].lines
                  /\ Recorded(host.keys[u]) \subseteq Recorded(host'.keys[u])
                  /\ \A n \in 1 .. 3 :
                         host.units[u][n] = "edited" => host'.units[u][n] = "edited"
                  /\ u \in host.aging \ host'.aging => host.passwd[u] = "locked"
  BY <1>4 DEF Grew
<1> QED BY <1>1, <1>2, <1>3, <1>4, PTL DEF Spec, SafeToRerun

=============================================================================
