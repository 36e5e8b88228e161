----------------------------- MODULE Partitions -----------------------------
(***************************************************************************)
(* The monthly partitions of the events table: those of the migration, the *)
(* DEFAULT one, and the job of the worker that creates the next month's    *)
(* (partitions.ts).  The months go by, a run reads the clock and executes  *)
(* its DDL later, runs fail, are missed or run twice, events come in.      *)
(*                                                                         *)
(* Data: an instant is its UTC month; the rows of a month are one.         *)
(***************************************************************************)
EXTENDS Naturals

CONSTANTS
    LastMonth,      \* bounds the clock
    Runs,           \* bounds the runs at one time
    Idle            \* no run

Months == [year: Nat, month: 1..12]

ASSUME PartitionsAssumption == LastMonth \in Months /\ Idle \notin Months

VARIABLES
    now,         \* the month of the clock
    parts,       \* the partitions of a range: name, from, to
    inDefault,   \* the months with rows in events_default
    due,         \* the job of the scheduler waits
    runs,        \* the month each run read, or Idle
    served       \* ghost: months a run read and then ended well

vars == <<now, parts, inDefault, due, runs, served>>

Before(a, b) == a.year < b.year \/ (a.year = b.year /\ a.month < b.month)

Following(m) ==
    IF m.month = 12 THEN [year |-> m.year + 1, month |-> 1] ELSE [m EXCEPT !.month = @ + 1]

NextMonthPartitionSpec_SameYear(m) ==
    LET next == IF m.month = 12 THEN [m EXCEPT !.month = 1] ELSE Following(m)
    IN [name |-> next, from |-> next, to |-> Following(next)]

\* nextMonthPartitionSpec: the month after, up to the one after that.
NextMonthPartitionSpec(m) ==
    [name |-> Following(m), from |-> Following(m), to |-> Following(Following(m))]

\* The rows a partition takes, and when two of them overlap.
Covers(p, m) == ~Before(m, p.from) /\ Before(m, p.to)
Overlap(p, q) == Before(p.from, q.to) /\ Before(q.from, p.to)

June2026 == [year |-> 2026, month |-> 6]
Migrated == {NextMonthPartitionSpec([year |-> 2026, month |-> m]) : m \in 5..8}

Init ==
    /\ now = June2026 /\ parts = Migrated /\ inDefault = {}
    /\ due = FALSE /\ runs = [r \in Runs |-> Idle] /\ served = {}

\* 03:00 of the first of the month: the scheduler's job becomes due; one that
\* still waits is the same.
MonthPasses ==
    /\ Before(now, LastMonth) /\ now' = Following(now)
    /\ due' = TRUE
    /\ UNCHANGED <<parts, inDefault, runs, served>>

\* The processor reads the clock.
StartRun(r) ==
    /\ due /\ runs[r] = Idle
    /\ due' = FALSE /\ runs' = [runs EXCEPT ![r] = now]
    /\ UNCHANGED <<now, parts, inDefault, served>>

\* CREATE TABLE IF NOT EXISTS: a name that exists is all it asks for.
EnsurePartition(r) ==
    LET spec == NextMonthPartitionSpec(runs[r])
    IN /\ runs[r] # Idle
       /\ runs' = [runs EXCEPT ![r] = Idle] /\ served' = served \cup {runs[r]}
       /\ \/ (\E p \in parts : p.name = spec.name) /\ UNCHANGED parts
          \/ /\ \A p \in parts : p.name # spec.name /\ ~Overlap(p, spec)
             /\ \A m \in inDefault : ~Covers(spec, m)
             /\ parts' = parts \cup {spec}
       /\ UNCHANGED <<now, inDefault, due>>

\* The database is away, PostgreSQL refuses the range, or the worker dies: the
\* job has failed for good, or is recovered as stalled and waits again.
RunFails(r) ==
    /\ runs[r] # Idle /\ runs' = [runs EXCEPT ![r] = Idle]
    /\ due' \in {due, TRUE}
    /\ UNCHANGED <<now, parts, inDefault, served>>

\* A run loses its lock, and the job is taken again beside it.
LoseLock(r) ==
    /\ runs[r] # Idle /\ due' = TRUE
    /\ UNCHANGED <<now, parts, inDefault, runs, served>>

\* An event is stored under the month its transaction began.
InsertEvent(m) ==
    /\ m = now \/ (Following(m) = now /\ ~Before(m, June2026))
    /\ inDefault' = IF \E p \in parts : Covers(p, m) THEN inDefault ELSE inDefault \cup {m}
    /\ UNCHANGED <<now, parts, due, runs, served>>

Next ==
    \/ MonthPasses
    \/ \E r \in Runs : StartRun(r) \/ EnsurePartition(r) \/ RunFails(r) \/ LoseLock(r)
    \/ \E m \in [year: 2026..LastMonth.year, month: 1..12] : InsertEvent(m)

Spec == Init /\ [][Next]_vars

-----------------------------------------------------------------------------
(* Properties.                                                             *)

\* A run whose month has not passed by its DDL is not refused: its partition
\* is there, or nothing is in its way.
CurrentRunSucceeds ==
    LET spec == NextMonthPartitionSpec(now)
    IN (\A p \in parts : p.name # spec.name)
           => (\A p \in parts : ~Overlap(p, spec)) /\ \A m \in inDefault : ~Covers(spec, m)

\* The partitions are disjoint months, each under its own name, over any turn
\* of the year; a month before which a run ended well has all its rows in its
\* own partition and none in DEFAULT; what DEFAULT keeps has no partition; and
\* PostgreSQL refuses only runs whose month changed after they read the clock.
EventsFindTheirMonth ==
    /\ \A p \in parts : p.from = p.name /\ \A m \in inDefault : ~Covers(p, m)
    /\ \A p, q \in parts : p # q => p.name # q.name /\ ~Overlap(p, q)
    /\ \A m \in served : /\ Following(m) \notin inDefault
                         /\ \E p \in parts : p.name = Following(m) /\ Covers(p, Following(m))
    /\ CurrentRunSucceeds

=============================================================================
