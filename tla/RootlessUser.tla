---------------------------- MODULE RootlessUser ----------------------------
(***************************************************************************)
(* create-rootless-user.sh: provisions an account for rootless containers. *)
(* The kickstart runs it at install, and the operator later, again and     *)
(* again: it says of itself that it is safe to re-run.                     *)
(*                                                                         *)
(* A step is a command of the script that changes the host, with the test  *)
(* that guards it.  Under `set -e' a command that fails ends the run where *)
(* it is, and so does a kill; the next run starts from what is there.      *)
(*                                                                         *)
(*   assets/create-rootless-user.sh                                        *)
(***************************************************************************)
EXTENDS Naturals, Sequences, FiniteSets

CONSTANTS
    Run,         \* runs of the script
    User, Key,   \* account names, ssh public keys
    NoKey,       \* no key
    Hosts,       \* the hosts that it may start on
    Args,        \* the command lines that may be given
    Floor,       \* the first id that is handed out (100000)
    Count,       \* the size of a block (65536)
    MaxId,       \* bound on the ids that useradd picks
    OneAtATime,  \* TRUE: no two runs overlap
    MaxFaults,   \* bound on the runs that meet a fault
    MaxEdits     \* bound on what users and the operator do in between

SubFile == {"subuid", "subgid"}
Units   == <<"network", "volume", "container">>

\* A line of /etc/subuid: the ids start .. start + len - 1
Range         == [user : User, start : Nat, len : Nat]
Overlap(r, s) == r.start < s.start + s.len /\ s.start < r.start + r.len

\* An authorized_keys file: the keys on its lines, the key on a last line that
\* does not end in a newline, and the lines on which two keys run together
KeyFile   == [lines : SUBSET Key, open : Key \cup {NoKey}, joined : SUBSET (Key \X Key),
              owner : {"absent", "root", "user"}]
KeysIn(f) == f.lines \cup ({f.open} \ {NoKey})
Recorded(f) == KeysIn(f) \cup UNION {{j[1], j[2]} : j \in f.joined}

(***************************************************************************)
(* A host: the SELinux contexts that are defined; accounts, what is        *)
(* in their password field, whether it ages, whose init files are loose;   *)
(* which of /etc/subuid and /etc/subgid exist and their lines; who has a   *)
(* storage directory, an appdata directory, and lingers; authorized_keys   *)
(* and quadlet units.  A unit is torn while it is written, then root's,    *)
(* then the user's.                                                        *)
(***************************************************************************)
Host == [fcontext : SUBSET {"tree", "appdata"}, account : SUBSET User,
         passwd : [User -> {"locked", "hash", "empty", "remote"}],
         aging : SUBSET User, loose : SUBSET User,
         present : SUBSET SubFile, subids : [SubFile -> SUBSET Range],
         store : SUBSET User, appdata : SUBSET User, linger : SUBSET User,
         keys : [User -> KeyFile],
         units : [User -> [1 .. 3 -> {"absent", "torn", "roots", "ready", "edited"}]]]

Disjoint(lines)  == \A r, s \in lines : r # s => ~Overlap(r, s)
Has(u, lines)    == \E r \in lines : r.user = u

ASSUME UserAssumption ==
    /\ Floor \in Nat /\ Count \in Nat \ {0} /\ MaxId \in Nat
    /\ Hosts \subseteq Host
    /\ \A h \in Hosts : \A f \in SubFile : Disjoint(h.subids[f])
    \* only the script writes these states
    /\ \A h \in Hosts : \A u \in User : \A n \in 1 .. 3 : h.units[u][n] \notin {"torn", "roots"}
    /\ Args \subseteq [user : User, key : Key \cup {NoKey}, linger : BOOLEAN, quadlet : BOOLEAN]
    /\ OneAtATime \in BOOLEAN
    /\ MaxFaults \in Nat /\ MaxEdits \in Nat

VARIABLES
    pc,     \* the step of each run
    arg,    \* its command line
    start,  \* the block it has computed
    unit,   \* the unit it is at
    host,   \* the host
    hit,    \* the fault that each run has met
    edits   \* edits so far

vars == <<pc, arg, start, unit, host, hit, edits>>

\* The steps, in the order of the script
Steps == {"fcontext", "useradd", "aging", "init", "subuid", "add_subuid", "subgid", "add_subgid",
          "store", "linger", "touch", "append", "chown", "appdata", "datadir", "unit", "fill",
          "own"}
PC    == Steps \cup {"idle", "done", "failed"}
\* A run may be cut: a command fails, or it is killed.  Or a listing is (Misread).
Fault == {"none", "cut", "pipe"}
Active(p) == pc[p] \in Steps

TypeOK ==
    /\ pc \in [Run -> PC] /\ start \in [Run -> Nat] /\ unit \in [Run -> 1 .. 3]
    /\ arg \in [Run -> Args] /\ host \in Host
    /\ hit \in [Run -> Fault] /\ edits \in 0 .. MaxEdits

Init ==
    /\ pc = [p \in Run |-> "idle"] /\ start = [p \in Run |-> 0] /\ unit = [p \in Run |-> 1]
    /\ arg \in [Run -> Args] /\ host \in Hosts
    /\ hit = [p \in Run |-> "none"] /\ edits = 0

U(p) == arg[p].user

\* Run p goes from one step to another, and leaves the host as h.
Do(p, from, to, h) ==
    /\ pc[p] = from /\ pc' = [pc EXCEPT ![p] = to] /\ host' = h
    /\ UNCHANGED <<arg, start, unit, hit, edits>>

-----------------------------------------------------------------------------
Start(p) ==
    /\ OneAtATime => \A q \in Run : ~Active(q)
    /\ Do(p, "idle", "fcontext", host)

MayHit(p) == Cardinality({q \in Run : hit[q] # "none"} \cup {p}) <= MaxFaults

\* `semanage -l | grep -q' under pipefail: grep may leave at its match while
\* semanage still writes, and then the match counts as none.  The context is
\* defined again, which semanage, by its release, refuses or takes.
Misread(p, from, to) ==
    /\ pc[p] = from /\ MayHit(p)
    /\ \E end \in {"failed", to} : pc' = [pc EXCEPT ![p] = end]
    /\ hit' = [hit EXCEPT ![p] = "pipe"]
    /\ UNCHANGED <<arg, start, unit, host, edits>>

EnsureContext(p, context, from, to) ==
    \/ Do(p, from, to, [host EXCEPT !.fcontext = @ \cup {context}])
    \/ context \in host.fcontext /\ Misread(p, from, to)

Fcontext(p) == EnsureContext(p, "tree", "fcontext", "useradd")

\* useradd takes a free block in each file that exists; the password of a new
\* account is locked, and ages.
Block(f, u) ==
    {r \in [user : {u}, start : Floor .. MaxId, len : {Count}] :
        \A s \in host.subids[f] : ~Overlap(r, s)}

Useradd(p) ==
    \/ U(p) \in host.account /\ Do(p, "useradd", "aging", host)
    \/ /\ U(p) \notin host.account
       /\ \E uids \in Block("subuid", U(p)), gids \in Block("subgid", U(p)) :
            LET new == [subuid |-> uids, subgid |-> gids]
            IN  Do(p, "useradd", "aging",
                   [host EXCEPT !.account = @ \cup {U(p)}, !.aging = @ \cup {U(p)},
                                !.passwd[U(p)] = "locked",
                                !.subids = [f \in SubFile |->
                                    IF f \in host.present THEN @[f] \cup {new[f]} ELSE @[f]]])

Aging(p) ==
    Do(p, "aging", "init",
       IF host.passwd[U(p)] = "locked" THEN [host EXCEPT !.aging = @ \ {U(p)}] ELSE host)

\* What cannot be tightened is only warned about.
InitFiles(p) ==
    \/ Do(p, "init", "subuid", [host EXCEPT !.loose = @ \ {U(p)}])
    \/ Do(p, "init", "subuid", host)

(***************************************************************************)
(* ensure_subids.  The next block starts after the last one in the file.   *)
(* If there is no file, awk fails, and with it the assignment.             *)
(***************************************************************************)
\* A mutant of Ends: the length of the last block is forgotten
Starts(f)  == {r.start + 1 : r \in host.subids[f]}
Ends(f)    == {r.start + r.len : r \in host.subids[f]}
NextBlock(f, s) == s \in Ends(f) \cup {Floor} /\ \A e \in Ends(f) \cup {Floor} : e <= s

ReadSubids(p, f, add, next) ==
    \/ Has(U(p), host.subids[f]) /\ Do(p, f, next, host)
    \/ f \notin host.present /\ Do(p, f, "failed", host)
    \/ /\ f \in host.present /\ ~Has(U(p), host.subids[f])
       /\ \E s \in Ends(f) \cup {Floor} :
            NextBlock(f, s) /\ start' = [start EXCEPT ![p] = s]
       /\ pc[p] = f /\ pc' = [pc EXCEPT ![p] = add]
       /\ UNCHANGED <<arg, unit, host, hit, edits>>

AddSubids(p, f, add, next) ==
    Do(p, add, next,
       [host EXCEPT !.subids[f] = @ \cup {[user |-> U(p), start |-> start[p], len |-> Count]}])

Subids(p) ==
    \/ ReadSubids(p, "subuid", "add_subuid", "subgid")
    \/ AddSubids(p, "subuid", "add_subuid", "subgid")
    \/ ReadSubids(p, "subgid", "add_subgid", "store")
    \/ AddSubids(p, "subgid", "add_subgid", "store")

Store(p) == Do(p, "store", "linger", [host EXCEPT !.store = @ \cup {U(p)}])

\* With loginctl or, if that fails, by its marker file
Linger(p) ==
    Do(p, "linger", "touch",
       IF arg[p].linger THEN [host EXCEPT !.linger = @ \cup {U(p)}] ELSE host)

(***************************************************************************)
(* The key.  `>>' continues a last line that has no newline.               *)
(***************************************************************************)
Touch(p) ==
    \/ arg[p].key = NoKey /\ Do(p, "touch", "appdata", host)
    \/ /\ arg[p].key # NoKey
       /\ Do(p, "touch", "append",
             IF host.keys[U(p)].owner = "absent"
             THEN [host EXCEPT !.keys[U(p)].owner = "root"] ELSE host)

Appended(f, k) ==
    IF k \in KeysIn(f) THEN f
    ELSE IF f.open = NoKey THEN [f EXCEPT !.lines = @ \cup {k}]
    ELSE [f EXCEPT !.open = NoKey, !.joined = @ \cup {<<f.open, k>>}]

Append_(p) ==
    /\ arg[p].key # NoKey
    /\ Do(p, "append", "chown", [host EXCEPT !.keys[U(p)] = Appended(@, arg[p].key)])

Chown(p) == Do(p, "chown", "appdata", [host EXCEPT !.keys[U(p)].owner = "user"])

(***************************************************************************)
(* The quadlet set.  A unit that exists is left alone; else cat creates    *)
(* and fills it, and chown and chmod make it the user's.                   *)
(***************************************************************************)
Appdata(p) ==
    \/ ~arg[p].quadlet /\ Do(p, "appdata", "done", host)
    \/ arg[p].quadlet /\ EnsureContext(p, "appdata", "appdata", "datadir")
    \/ Do(p, "datadir", "unit", [host EXCEPT !.appdata = @ \cup {U(p)}])

SetUnit(p, state) == [host EXCEPT !.units[U(p)][unit[p]] = state]

\* A mutant of NextUnit: one unit too many
PastLastUnit(p, from) ==
    /\ pc[p] = from
    /\ IF unit[p] > Len(Units)
       THEN pc' = [pc EXCEPT ![p] = "done"] /\ UNCHANGED unit
       ELSE pc' = [pc EXCEPT ![p] = "unit"] /\ unit' = [unit EXCEPT ![p] = @ + 1]
    /\ UNCHANGED <<arg, start, hit, edits>>

NextUnit(p, from) ==
    /\ pc[p] = from
    /\ IF unit[p] = Len(Units)
       THEN pc' = [pc EXCEPT ![p] = "done"] /\ UNCHANGED unit
       ELSE pc' = [pc EXCEPT ![p] = "unit"] /\ unit' = [unit EXCEPT ![p] = @ + 1]
    /\ UNCHANGED <<arg, start, hit, edits>>

\* A mutant of WriteUnit: no test for a unit that exists
OverwriteUnit(p) == Do(p, "unit", "fill", SetUnit(p, "torn"))

WriteUnit(p) ==
    \/ host.units[U(p)][unit[p]] # "absent" /\ NextUnit(p, "unit") /\ UNCHANGED host
    \/ host.units[U(p)][unit[p]] = "absent" /\ Do(p, "unit", "fill", SetUnit(p, "torn"))

FillUnit(p) == Do(p, "fill", "own", SetUnit(p, "roots"))
OwnUnit(p)  == NextUnit(p, "own") /\ host' = SetUnit(p, "ready")

\* A command fails, or the run is killed.
Abort(p) ==
    /\ Active(p) /\ MayHit(p)
    /\ pc' = [pc EXCEPT ![p] = "failed"] /\ hit' = [hit EXCEPT ![p] = "cut"]
    /\ UNCHANGED <<arg, start, unit, host, edits>>

Step(p) ==
    \/ Start(p) \/ Fcontext(p) \/ Useradd(p) \/ Aging(p) \/ InitFiles(p) \/ Subids(p)
    \/ Store(p) \/ Linger(p) \/ Touch(p) \/ Append_(p) \/ Chown(p)
    \/ Appdata(p) \/ WriteUnit(p) \/ FillUnit(p) \/ OwnUnit(p) \/ Abort(p)

(***************************************************************************)
(* What others do to the host.                                             *)
(***************************************************************************)
Edit(h) ==
    /\ edits < MaxEdits /\ edits' = edits + 1 /\ host' = h
    /\ UNCHANGED <<pc, arg, start, unit, hit>>

\* A key is added, with or without a newline after it.
Closed(f, k) == [f EXCEPT !.lines = @ \cup {k}, !.owner = "user"]
Open(f, k)   == [f EXCEPT !.open = k, !.owner = "user"]

EditKeys(u) ==
    \E k \in Key \ KeysIn(host.keys[u]) :
        /\ u \in host.account /\ host.keys[u].open = NoKey
        /\ \/ Edit([host EXCEPT !.keys[u] = Closed(@, k)])
           \/ Edit([host EXCEPT !.keys[u] = Open(@, k)])

EditUnit(u) ==
    \E n \in 1 .. 3 : host.units[u][n] = "ready" /\ Edit([host EXCEPT !.units[u][n] = "edited"])

SetPassword(u) ==
    u \in host.account /\ host.passwd[u] = "locked" /\ Edit([host EXCEPT !.passwd[u] = "hash"])

Next == \/ \E p \in Run : Step(p)
        \/ \E u \in User : EditKeys(u) \/ EditUnit(u) \/ SetPassword(u)

Spec == Init /\ [][Next]_vars

(***************************************************************************)
(* Properties.                                                             *)
(***************************************************************************)

\* No subordinate id belongs to two users, or to one twice (ensure_subids,
\* "Compute the next free block").
DisjointSubids == \A f \in SubFile : Disjoint(host.subids[f])

\* Run q was cut at unit n of user u, or before its units.
CutAt(q, u, n) ==
    pc[q] = "failed" /\ hit[q] = "cut" /\ U(q) = u /\ arg[q].quadlet /\ unit[q] = n

\* Everything a successful run was asked for is there afterwards, also when
\* earlier runs were cut short (header, "Idempotent: safe to re-run"), with two
\* exceptions the script does not repair: the unit at which an earlier run was
\* cut stays as it was left, and a key appended to an unfinished line shares it.
Provisioned ==
    \A p \in Run : pc[p] = "done" =>
        LET u == U(p) IN
        /\ u \in host.account /\ u \in host.store
        /\ \A f \in SubFile : Has(u, host.subids[f])
        /\ arg[p].linger => u \in host.linger
        /\ arg[p].quadlet =>
              /\ u \in host.appdata
              /\ \A n \in 1 .. 3 :
                    /\ host.units[u][n] # "absent"
                    /\ host.units[u][n] \in {"ready", "edited"} \/ \E q \in Run : CutAt(q, u, n)
        /\ arg[p].key # NoKey => arg[p].key \in Recorded(host.keys[u])
                                 /\ host.keys[u].owner = "user"
        /\ host.passwd[u] = "locked" => u \notin host.aging

\* A run fails only if it met a fault itself, or /etc/subuid or /etc/subgid is not
\* there: nothing an earlier run left makes a command of a later one fail.  (That
\* it met one may be its own doing: see CutRunsFail.)
OnlyFaultsFail ==
    \A p \in Run : pc[p] = "failed" => hit[p] # "none" \/ host.present # SubFile

\* The script may be run again for an existing user (header), one run at a time:
\* a run that is done has provided what Provisioned says, one that failed met a
\* fault in that very run, and what is there is left as it is: ranges, keys on
\* finished lines, edited units, and the aging of accounts with a password (the
\* guards of every section).  No key ever leaves the file, though an unfinished
\* line may be continued by another key.
SafeToRerun ==
    [][/\ Provisioned' /\ OnlyFaultsFail'
       /\ \A f \in SubFile : host.subids[f] \subseteq host'.subids[f]
       /\ \A u \in User :
            /\ host.keys[u].lines \subseteq host'.keys[u].lines
            /\ Recorded(host.keys[u]) \subseteq Recorded(host'.keys[u])
            /\ \A n \in 1 .. 3 : host.units[u][n] = "edited" => host'.units[u][n] = "edited"
            /\ u \in host.aging \ host'.aging => host.passwd[u] = "locked"]_vars

(***************************************************************************)
(* What the script also says, and does not keep.                           *)
(***************************************************************************)

\* After a successful run with -q the units are whole and the user's (header).
UnitsReady ==
    \A p \in Run : pc[p] = "done" /\ arg[p].quadlet =>
        \A n \in 1 .. 3 : host.units[U(p)][n] \in {"ready", "edited"}

\* A successful run with -k has installed the key (usage).
KeyInstalled ==
    \A p \in Run : pc[p] = "done" /\ arg[p].key # NoKey => arg[p].key \in KeysIn(host.keys[U(p)])

\* A re-run fails only if it is cut: not over a context that is defined (header).
CutRunsFail ==
    \A p \in Run : pc[p] = "failed" => hit[p] = "cut" \/ host.present # SubFile

=============================================================================
