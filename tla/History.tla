------------------------------ MODULE History ------------------------------
(***************************************************************************)
(* The run history: `ks-gen verify --record' appends one line per run to   *)
(* the file of its host, and `ks-gen verify-history' reads the files,      *)
(* orders the runs by time and tells streaks and changes.                  *)
(*                                                                         *)
(* A line reaches the file in one write or, once it is longer than         *)
(* Python's buffer, in several; a run may be killed, or the disk be full,  *)
(* between them.  A line is three parts: two halves of the record, and the *)
(* newline.                                                                *)
(*                                                                         *)
(*   verify/history.py, cli.py (_record_run, the end of verify_cmd,        *)
(*   verify_history_cmd)                                                   *)
(***************************************************************************)
EXTENDS Reconcile, Integers, Sequences

CONSTANTS
    Run,        \* verify runs that end with a report, numbered as they do
    Host, HostOf,
    Reported,   \* the categories that a report may hold
    MaxTime,    \* bound on the clock
    Exclusive,  \* TRUE: no two runs of a host overlap
    Leaves,     \* TRUE: a run may end before it records (cli.py: 296, 806)
    MaxFaults   \* bound on kills and failing writes

ASSUME HistoryAssumption ==
    /\ Run \subseteq Nat /\ HostOf \in [Run -> Host]
    /\ Reported \subseteq Category /\ "clean" \in Reported
    /\ MaxTime \in Nat /\ MaxFaults \in Nat
    /\ Exclusive \in BOOLEAN /\ Leaves \in BOOLEAN

Part    == {"first", "second", "newline"}
Line    == <<"first", "second", "newline">>
\* A part in a file, and the run whose it is
Chunk   == [run : Run, part : Part]

VARIABLES
    pc,      \* the step of each run
    report,  \* its report: the category of each rule
    drift,   \* it found tailoring drift
    time,    \* timestamp_utc
    left,    \* how many parts of its line are not written
    file,    \* <host>.jsonl
    clock,   \* the time
    faults   \* faults so far

HistoryVars == <<pc, report, drift, time, left, file, clock, faults>>

HistoryTypeOK ==
    /\ pc \in [Run -> {"idle", "report", "write", "done"}]
    /\ report \in [Run -> [Rule -> Reported]] /\ drift \in [Run -> BOOLEAN]
    /\ time \in [Run -> 0 .. MaxTime] /\ left \in [Run -> 0 .. Len(Line)]
    /\ file \in [Host -> Seq(Chunk)]
    /\ clock \in 0 .. MaxTime /\ faults \in 0 .. MaxFaults

HistoryInit ==
    /\ pc = [r \in Run |-> "idle"]
    /\ report = [r \in Run |-> [x \in Rule |-> "clean"]] /\ drift = [r \in Run |-> FALSE]
    /\ time = [r \in Run |-> 0] /\ left = [r \in Run |-> Len(Line)]
    /\ file = [h \in Host |-> <<>>]
    /\ clock = 0 /\ faults = 0

Active(r)  == pc[r] \in {"report", "write"}
Goto(r, s) == pc' = [pc EXCEPT ![r] = s]

Answer(r, t) ==
    /\ pc[r] = "idle" /\ Goto(r, "report")
    /\ \A q \in Run : HostOf[q] = HostOf[r] =>
        /\ q < r => pc[q] # "idle"
        /\ Exclusive => ~Active(q)
    /\ \E found \in [Rule -> Reported] : report' = [report EXCEPT ![r] = found]
    /\ \E differs \in BOOLEAN : drift' = [drift EXCEPT ![r] = differs]
    /\ time' = [time EXCEPT ![r] = t]
    /\ UNCHANGED <<left, file, clock, faults>>

\* A mutant of Report: the seconds are rounded up
ReportRounded(r) == Answer(r, clock + 1)
\* run_verify returns a report, with the time of its construction.
Report(r)        == Answer(r, clock)

\* --html-out or --apply fails, and the command ends before _record_run.
Leave(r) ==
    /\ Leaves /\ pc[r] = "report" /\ Goto(r, "done")
    /\ UNCHANGED <<report, drift, time, left, file, clock, faults>>

\* Appends the next n parts.
Written(r, n) ==
    [i \in 1 .. n |-> [run |-> r, part |-> Line[Len(Line) - left[r] + i]]]

\* write_record
Write(r) ==
    /\ Active(r)
    /\ \E n \in 1 .. left[r] :
        /\ file' = [file EXCEPT ![HostOf[r]] = @ \o Written(r, n)]
        /\ left' = [left EXCEPT ![r] = @ - n]
        /\ Goto(r, IF left[r] = n THEN "done" ELSE "write")
    /\ UNCHANGED <<report, drift, time, clock, faults>>

\* A kill; or an OSError, when the file is opened or written, which _record_run
\* turns into a warning
Fault(r) ==
    /\ Active(r) /\ faults < MaxFaults
    /\ Goto(r, "done") /\ faults' = faults + 1
    /\ UNCHANGED <<report, drift, time, left, file, clock>>

Tick ==
    /\ clock < MaxTime /\ clock' = clock + 1
    /\ UNCHANGED <<pc, report, drift, time, left, file, faults>>

HistoryNext == Tick \/ \E r \in Run : Report(r) \/ Leave(r) \/ Write(r) \/ Fault(r)

HistorySpec == HistoryInit /\ [][HistoryNext]_HistoryVars

-----------------------------------------------------------------------------
(***************************************************************************)
(* verify-history.  read_host_history parses every line that is not blank, *)
(* and sorts by time, keeping the order of the file among equals.          *)
(***************************************************************************)
Newlines(f)  == {i \in DOMAIN f : f[i].part = "newline"}
\* The lines of a file, as the intervals of its chunks; the last one may lack
\* its newline.
LinesOf(f) ==
    {l \in (1 .. Len(f)) \X (1 .. Len(f)) :
        /\ l[1] <= l[2] /\ (l[1] - 1) \in Newlines(f) \cup {0}
        /\ (l[2] + 1) \in Newlines(f) \cup {Len(f) + 1}
        /\ \A k \in l[1] .. l[2] : k \notin Newlines(f)}

\* json.loads and _record_from_dict accept whole records.
IsRecord(f, line) ==
    /\ line[2] = line[1] + 1
    /\ f[line[1]] = [run |-> f[line[2]].run, part |-> "first"]
    /\ f[line[2]].part = "second"

\* A mutant of Malformed: a line that does not parse is skipped
SkipMalformed(f) == FALSE
Malformed(f)     == \E line \in LinesOf(f) : ~IsRecord(f, line)

\* Where the records are in the file
Records(f)   == {line \in LinesOf(f) : IsRecord(f, line)}
RunAt(f, l)  == f[l[1]].run

Before(f, l, m) == time[RunAt(f, l)] < time[RunAt(f, m)] \/
                   (time[RunAt(f, l)] = time[RunAt(f, m)] /\ l[1] < m[1])

\* The members of S in the order of a set of pairs
Sorted(S, order) ==
    CHOOSE s \in [1 .. Cardinality(S) -> S] :
        \A i, j \in DOMAIN s : i < j => <<s[i], s[j]>> \in order

ReadHostHistory(f) ==
    LET lines == Sorted(Records(f),
                        {p \in Records(f) \X Records(f) : Before(f, p[1], p[2])})
    IN  [n \in DOMAIN lines |-> RunAt(f, lines[n])]

(***************************************************************************)
(* A record keeps the rows that are not clean.                             *)
(***************************************************************************)
Rows(r)        == {<<x, report[r][x]>> : x \in {y \in Rule : report[r][y] # "clean"}}
FailingCategories  == {"new_fail", "regression"}
FailingRows(r) == {row \in Rows(r) : row[2] \in FailingCategories}
FailingIds(r)  == {row[1] : row \in FailingRows(r)}

RecordClean(r) == \A x \in Rule : report[r][x] \notin FailingCategory
Verdict(r)     == IF RecordClean(r) /\ ~drift[r] THEN "CLEAN" ELSE "FAIL"

(***************************************************************************)
(* streaks and delta, of runs in the order of their history: for a rule    *)
(* that fails in the last run, how many runs ago it last did not; and the  *)
(* failures that the last run has, and the one before it had, alone.       *)
(***************************************************************************)
Misses(runs, x) == {0} \cup {i \in DOMAIN runs : x \notin FailingIds(runs[i])}
LastMiss(runs, x) == CHOOSE i \in Misses(runs, x) : \A j \in Misses(runs, x) : j <= i

\* A mutant of Length: the walk does not stop at a miss
AllFailures(runs, x) == Cardinality({i \in DOMAIN runs : x \in FailingIds(runs[i])})
Length(runs, x) == Len(runs) - LastMiss(runs, x)

Latest(runs)  == runs[Len(runs)]
Streaks(runs) ==
    IF runs = <<>> THEN {}
    ELSE {[rule |-> row[1], category |-> row[2], length |-> Length(runs, row[1])] :
            row \in FailingRows(Latest(runs))}

Newly(rows, ids) == {row \in rows : row[1] \notin ids}
Delta(runs) ==
    IF Len(runs) < 2 THEN [added |-> {}, recovered |-> {}]
    ELSE LET prev == runs[Len(runs) - 1] IN
         [added     |-> Newly(FailingRows(Latest(runs)), FailingIds(prev)),
          recovered |-> Newly(FailingRows(prev), FailingIds(Latest(runs)))]

-----------------------------------------------------------------------------
(***************************************************************************)
(* Properties.                                                             *)
(***************************************************************************)

\* The runs of a host whose records are whole, in the order they reported
Recorded(h) ==
    Sorted({r \in Run : HostOf[r] = h /\ left[r] <= 1}, {p \in Run \X Run : p[1] < p[2]})

\* A history that can be read is the true one: every run whose record is in the
\* file, none left out or made up, in the order in which they were made, even if
\* the file was damaged earlier (read_host_history).  Only a fault in the middle of
\* one of a host's own writes makes its history unreadable, while none of its runs
\* is writing (write_record, "Per-host files are separate").
TimelineTrue ==
    \A h \in Host :
        IF Malformed(file[h])
        THEN \E r \in Run : HostOf[r] = h /\ left[r] \in 1 .. Len(Line) - 1
        ELSE ReadHostHistory(file[h]) = Recorded(h)

\* What verify-history says of the last run is what that run's exit code said: it
\* is CLEAN, without streaks, exactly if `verify' ended with 0 (RunRecord.verdict).
LatestFitsExit(runs) ==
    LET r == Latest(runs) IN
    /\ (Verdict(r) = "CLEAN") <=> (ReportExit(RecordClean(r), drift[r]) = OK)
    /\ (Streaks(runs) = {}) <=> RecordClean(r)

\* A newly failing rule has a streak of one, any other failing rule a longer one, a
\* recovered rule none; and a streak is as long as the rule has failed without a
\* break.
TrendsFit(runs) ==
    /\ \A s \in Streaks(runs) :
        /\ \A i \in 1 .. Len(runs) :
            i > Len(runs) - s.length => s.rule \in FailingIds(runs[i])
        /\ s.length < Len(runs) =>
            s.rule \notin FailingIds(runs[Len(runs) - s.length])
        /\ Len(runs) > 1 =>
            (s.length = 1 <=> <<s.rule, s.category>> \in Delta(runs).added)
    /\ \A row \in Delta(runs).recovered : \A s \in Streaks(runs) : s.rule # row[1]

\* Verdict, streaks and delta agree with each other and with the exit codes
\* (streaks, delta, _FAILING_CATEGORIES).
TrendsAgree ==
    \A h \in Host : LET runs == ReadHostHistory(file[h]) IN
        ~Malformed(file[h]) /\ runs # <<>> => LatestFitsExit(runs) /\ TrendsFit(runs)

\* Every run that came to a report, and was neither killed nor kept from
\* writing, is in the history of its host (MANUAL: "at the end of every verify
\* run", "regardless of outcome").
EveryRunRecorded ==
    \A r \in Run : pc[r] = "done" /\ faults = 0 => left[r] = 0

=============================================================================
