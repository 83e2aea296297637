------------------------------- MODULE Journal -------------------------------
(***************************************************************************)
(* The record of the runs of one runtime, src/app/journal.go and           *)
(* src/app/sqlite_journal.go: every event goes to a ring in memory and     *)
(* then to disk, a file of lines for each run or one SQLite database, while *)
(* the goroutines of several runs write at once, `mani runs` opens the same *)
(* database, and the process dies.                                         *)
(*                                                                         *)
(* A run is its number in the order of their starts, which is also its     *)
(* time stamp.  A SQLite transaction is one step; a line is one write, and *)
(* the number it carries is taken in a step before.                        *)
(***************************************************************************)
EXTENDS Naturals, FiniteSets, Sequences, Functions

CONSTANTS
    Runs,           \* how many runs
    Goroutine,      \* of a run, besides the one that starts and ends it
    Work,           \* run -> goroutine -> the kinds of the events it writes
    Outcomes,       \* how the runs of an instance may end
    Retention,      \* observability.journal.retention
    Backends,       \* subset of {"jsonl", "sqlite"}
    Reader,         \* who else opens the database
    MaxCrashes, MaxFaults

Run == 1..Runs
Main == "main"          \* ExecuteIn and the goroutine it starts: run_start and run_end
Writer == Goroutine \cup {Main}
App  == "app"           \* the process that runs the agents
Opener  == {App} \cup Reader
Counted == {"llm_response", "tool_result", "deny", "mask"}
Status  == {"ok", "error", "cancelled"}

ASSUME JournalAssumption ==
    /\ Runs \in Nat \ {0} /\ Retention \in Nat \ {0}
    /\ Main \notin Goroutine /\ Goroutine # {} /\ IsFiniteSet(Goroutine)
    /\ Work \in [Run -> [Goroutine -> Seq(Counted)]]
    /\ Outcomes \subseteq Status
    /\ Backends \subseteq {"jsonl", "sqlite"} /\ App \notin Reader
    /\ MaxCrashes \in Nat /\ MaxFaults \in Nat

VARIABLES
    backend,
    pc,         \* per run: "new", "running", "end" or "dead"
    done,       \* per run and goroutine, the events it has handed to the journal
    pending,    \* per run and writer, the event on its way to disk, and the number it has
    ring, head, \* InMemoryJournal: order, and the header of each run
    file,       \* the lines of a run's file, or its rows in journal_events
    next,       \* the run's next sequence number
    row,        \* journal_runs: run -> header
    handle,     \* per opener of the database, how far it is
    seen,       \* the events an opener has read to fill journal_runs
    crashes, faults,
    lost,       \* history: runs of which an event did not reach the disk
    entered     \* history: runs whose start did

memory  == <<ring, head>>
disk    == <<file, next, row>>
openers == <<handle, seen>>
history == <<crashes, faults, lost, entered>>
vars    == <<backend, pc, done, pending, memory, disk, openers, history>>

Event(kind, by, n) == [kind |-> kind, by |-> by, n |-> n]
Torn == Event("torn", Main, 0)
Idle == [at |-> "idle", ev |-> Torn, seq |-> 0]

NoStatus == ""
Blank == [started |-> 0, status |-> NoStatus, count |-> [k \in Counted |-> 0]]

Events == [kind : Counted \cup Status \cup {"run_start", "torn"}, by : Writer, n : Nat]
Slot   == [at : {"idle", "handed", "numbered"}, ev : Events, seq : Nat]
Header == [started : 0..Runs, status : Status \cup {NoStatus, "running"}, count : [Counted -> Nat]]

TypeOK ==
    /\ backend \in Backends
    /\ pc \in [Run -> {"new", "running", "end", "dead"}]
    /\ done \in [Run -> [Goroutine -> Nat]]
    /\ pending \in [Run -> [Writer -> Slot]]
    /\ ring \in Seq(Run) /\ Len(ring) <= Retention /\ head \in [Run -> Header]
    /\ file \in [Run -> Seq([ev : Events, seq : Nat])] /\ next \in [Run -> Nat]
    /\ DOMAIN row \subseteq Run /\ \A r \in DOMAIN row : row[r] \in Header
    /\ handle \in [Opener -> {"off", "scan", "fill", "prune", "open", "closed"}]
    /\ crashes \in 0..MaxCrashes /\ faults \in 0..MaxFaults
    /\ lost \subseteq Run /\ entered \subseteq Run

\* What an event does to the header of its run; a line that does not parse is skipped.
Apply(h, r, ev) ==
    CASE ev.kind = "run_start" ->
            [h EXCEPT !.started = IF @ = 0 THEN r ELSE @, !.status = IF @ = NoStatus THEN "running" ELSE @]
      [] ev.kind \in Counted -> [h EXCEPT !.count[ev.kind] = @ + 1]
      [] ev.kind \in Status  -> [h EXCEPT !.status = ev.kind]
      [] ev.kind = "torn"    -> h

\* What is read back: the lines that parse, and the header that their replay gives.
Readable(r) == {i \in DOMAIN file[r] : file[r][i].ev # Torn}

Replay(r, lines) ==
    LET header[n \in 0..Len(lines)] == IF n = 0 THEN Blank ELSE Apply(header[n - 1], r, lines[n].ev)
    IN  header[Len(lines)]

Get(r) == Replay(r, file[r])

\* What List gives of the disk, and of the memory.
Listed == IF backend = "sqlite" THEN row ELSE [r \in {q \in Run : Readable(q) # {}} |-> Get(r)]
ListedInMemory == [r \in Range(ring) |-> head[r]]

\* A database of a version without journal_runs holds one run.
Line(s, ev) == [seq |-> s, ev |-> ev]
OldRun == <<Line(0, Event("run_start", Main, 0)),
            Line(1, Event("llm_response", CHOOSE g \in Goroutine : TRUE, 1)),
            Line(2, Event("ok", Main, 1))>>

Init ==
    /\ backend \in Backends
    /\ \E old \in IF backend = "sqlite" THEN {{}, {1}} ELSE {{}} :
         /\ pc = [r \in Run |-> IF r \in old THEN "end" ELSE "new"]
         /\ file = [r \in Run |-> IF r \in old THEN OldRun ELSE <<>>]
         /\ next = [r \in Run |-> IF r \in old THEN Len(OldRun) ELSE 0]
         /\ entered = old
    /\ done = [r \in Run |-> [g \in Goroutine |-> 0]]
    /\ pending = [r \in Run |-> [g \in Writer |-> Idle]]
    /\ ring = <<>> /\ head = [r \in Run |-> Blank] /\ row = <<>>
    /\ handle = [o \in Opener |-> "off"] /\ seen = [o \in Opener |-> file]
    /\ crashes = 0 /\ faults = 0 /\ lost = {}

-----------------------------------------------------------------------------
(* The database is opened, by the runtime or by a reader.                  *)

\* Mutant: the oldest are kept.
MutantStale(rows) ==
    {r \in DOMAIN rows : Cardinality({q \in DOMAIN rows : rows[q].started < rows[r].started}) >= Retention}

\* Runs that are not among the newest: a row without a start is the oldest.
Stale(rows) ==
    {r \in DOMAIN rows :
        Cardinality({q \in DOMAIN rows : \/ rows[q].started > rows[r].started
                                         \/ rows[q].started = rows[r].started /\ q > r}) >= Retention}

\* Rows and events of stale runs are deleted, their sequence numbers with them.
Trim(files, nexts, rows) ==
    /\ row'  = [r \in DOMAIN rows \ Stale(rows) |-> rows[r]]
    /\ file' = [r \in Run |-> IF r \in Stale(rows) THEN <<>> ELSE files[r]]
    /\ next' = [r \in Run |-> IF r \in Stale(rows) THEN 0 ELSE nexts[r]]

\* Mutant: headers are filled from the events even if there are some.
MutantOpen(o) ==
    /\ handle[o] = "off"
    /\ handle' = [handle EXCEPT ![o] = IF backend = "jsonl" THEN "open" ELSE "scan"]
    /\ UNCHANGED <<backend, pc, done, pending, memory, disk, seen, history>>

Open(o) ==
    /\ handle[o] = "off"
    /\ handle' = [handle EXCEPT ![o] =
         IF backend = "jsonl" THEN "open" ELSE IF row = <<>> THEN "scan" ELSE "prune"]
    /\ UNCHANGED <<backend, pc, done, pending, memory, disk, seen, history>>

Scan(o) ==
    /\ handle[o] = "scan"
    /\ seen' = [seen EXCEPT ![o] = file] /\ handle' = [handle EXCEPT ![o] = "fill"]
    /\ UNCHANGED <<backend, pc, done, pending, memory, disk, history>>

\* The UPDATE of journal_runs for an event.
UpdateMeta(h, r, ev) ==
    [started |-> IF ev.kind = "run_start" /\ h.started = 0 THEN r ELSE h.started,
     status  |-> CASE ev.kind = "run_start" -> IF h.status = NoStatus THEN "running" ELSE h.status
                   [] ev.kind \in Status -> ev.kind
                   [] OTHER -> h.status,
     count   |-> [k \in Counted |-> h.count[k] + IF k = ev.kind THEN 1 ELSE 0]]

RowOf(r) == IF r \in DOMAIN row THEN row[r] ELSE Blank

Refill(from, r, lines) ==
    LET header[n \in 0..Len(lines)] == IF n = 0 THEN from ELSE UpdateMeta(header[n - 1], r, lines[n].ev)
    IN  header[Len(lines)]

Backfill(o) ==
    /\ handle[o] = "fill"
    /\ row' = [r \in DOMAIN row \cup {q \in Run : seen[o][q] # <<>>} |->
                 Refill(RowOf(r), r, seen[o][r])]
    /\ handle' = [handle EXCEPT ![o] = "prune"]
    /\ UNCHANGED <<backend, pc, done, pending, memory, file, next, seen, history>>

Prune(o) ==
    /\ handle[o] = "prune" /\ Trim(file, next, row)
    /\ handle' = [handle EXCEPT ![o] = "open"]
    /\ UNCHANGED <<backend, pc, done, pending, memory, seen, history>>

\* The runtime is closed, at times under its runs.
Close ==
    /\ handle[App] = "open" /\ handle' = [handle EXCEPT ![App] = "closed"]
    /\ UNCHANGED <<backend, pc, done, pending, memory, disk, seen, history>>

-----------------------------------------------------------------------------
(* Writers: first the ring, then the disk.                                 *)

InRing(r) == r \in Range(ring)
Free(r, g) == pending[r][g].at = "idle"
Hand(r, g, ev) == pending' = [pending EXCEPT ![r][g] = [at |-> "handed", ev |-> ev, seq |-> 0]]

\* A run that starts drives the oldest out, finished or not.
Push(r) == IF Len(ring) < Retention THEN Append(ring, r) ELSE Append(Tail(ring), r)

Start(r) ==
    /\ pc[r] = "new" /\ handle[App] = "open" /\ \A q \in 1..(r - 1) : pc[q] # "new"
    /\ pc' = [pc EXCEPT ![r] = "running"]
    /\ ring' = Push(r)
    /\ head' = [q \in Run |-> IF q \notin Range(ring') THEN Blank
                              ELSE IF q = r THEN [Blank EXCEPT !.started = r, !.status = "running"] ELSE head[q]]
    /\ Hand(r, Main, Event("run_start", Main, 0))
    /\ UNCHANGED <<backend, done, disk, openers, history>>

\* Mutant: the agent starts while the run's start is still on its way.
MutantAppendEvent(r, g) ==
    /\ pc[r] = "running" /\ Free(r, g)
    /\ done[r][g] < Len(Work[r][g])
    /\ LET n  == done[r][g] + 1
           ev == Event(Work[r][g][n], g, n)
       IN  /\ done' = [done EXCEPT ![r][g] = n]
           /\ head' = IF InRing(r) THEN [head EXCEPT ![r] = Apply(@, r, ev)] ELSE head
           /\ Hand(r, g, ev)
    /\ UNCHANGED <<backend, pc, ring, disk, openers, history>>

\* ExecuteIn starts the agent when Start has returned.
AppendEvent(r, g) ==
    /\ pc[r] = "running" /\ Free(r, Main) /\ Free(r, g)
    /\ done[r][g] < Len(Work[r][g])
    /\ LET n  == done[r][g] + 1
           ev == Event(Work[r][g][n], g, n)
       IN  /\ done' = [done EXCEPT ![r][g] = n]
           /\ head' = IF InRing(r) THEN [head EXCEPT ![r] = Apply(@, r, ev)] ELSE head
           /\ Hand(r, g, ev)
    /\ UNCHANGED <<backend, pc, ring, disk, openers, history>>

\* Mutant: only runs that end well are finished in memory.
MutantFinished(h, s) == IF s = "ok" THEN [h EXCEPT !.status = s] ELSE h

Finished(h, s) == [h EXCEPT !.status = s]

\* The agent has waited for its tools.
Finish(r, s) ==
    /\ pc[r] = "running" /\ \A g \in Writer : Free(r, g)
    /\ pc' = [pc EXCEPT ![r] = "end"]
    /\ head' = IF InRing(r) THEN [head EXCEPT ![r] = Finished(@, s)] ELSE head
    /\ Hand(r, Main, Event(s, Main, 1))
    /\ UNCHANGED <<backend, done, ring, disk, openers, history>>

-----------------------------------------------------------------------------
(* The disk.                                                               *)

Release(r, g) == pending' = [pending EXCEPT ![r][g] = Idle]
Enter(r, ev)  == entered' = IF ev.kind = "run_start" THEN entered \cup {r} ELSE entered

\* Under the lock of the journal, which is left before the line is written.
Number(r, g) ==
    /\ backend = "jsonl" /\ pending[r][g].at = "handed"
    /\ pending' = [pending EXCEPT ![r][g] = [at |-> "numbered", ev |-> @.ev, seq |-> next[r]]]
    /\ next' = [next EXCEPT ![r] = @ + 1]
    /\ UNCHANGED <<backend, pc, done, memory, file, row, openers, history>>

WriteLine(r, g) ==
    /\ pending[r][g].at = "numbered"
    /\ file' = [file EXCEPT ![r] = Append(@, Line(pending[r][g].seq, pending[r][g].ev))]
    /\ Release(r, g) /\ Enter(r, pending[r][g].ev)
    /\ UNCHANGED <<backend, pc, done, memory, next, row, openers, crashes, faults, lost>>

\* One transaction: number, event, header, and at a start the trim.
Insert(r, g) ==
    /\ backend = "sqlite" /\ ~Free(r, g) /\ handle[App] = "open"
    /\ LET ev    == pending[r][g].ev
           files == [file EXCEPT ![r] = Append(@, Line(next[r], ev))]
           nexts == [next EXCEPT ![r] = @ + 1]
           rows  == [q \in DOMAIN row \cup {r} |-> IF q = r THEN UpdateMeta(RowOf(r), r, ev) ELSE row[q]]
       IN  /\ IF ev.kind = "run_start" THEN Trim(files, nexts, rows)
                                       ELSE file' = files /\ next' = nexts /\ row' = rows
           /\ Enter(r, ev)
    /\ Release(r, g)
    /\ UNCHANGED <<backend, pc, done, memory, openers, crashes, faults, lost>>

\* The error is logged and the run goes on; a closed database always gives one.
WriteFails(r, g) ==
    /\ ~Free(r, g) /\ Release(r, g) /\ lost' = lost \cup {r}
    /\ IF backend = "sqlite" /\ handle[App] = "closed"
         THEN UNCHANGED faults
         ELSE faults < MaxFaults /\ faults' = faults + 1
    /\ UNCHANGED <<backend, pc, done, memory, disk, openers, crashes, entered>>

Numbered(r) == \E g \in Writer : pending[r][g].at = "numbered"

\* The process dies, perhaps in the middle of a line, and starts again.
Crash ==
    /\ crashes < MaxCrashes /\ crashes' = crashes + 1
    /\ \E torn \in SUBSET {r \in Run : Numbered(r)} :
         file' = [r \in Run |-> IF r \in torn THEN Append(file[r], Line(0, Torn)) ELSE file[r]]
    /\ pc' = [r \in Run |-> IF pc[r] = "running" \/ ~Free(r, Main) THEN "dead" ELSE pc[r]]
    /\ pending' = [r \in Run |-> [g \in Writer |-> Idle]]
    /\ ring' = <<>> /\ head' = [r \in Run |-> Blank]
    /\ handle' = [handle EXCEPT ![App] = "off"]
    /\ done' = [r \in Run |-> [g \in Goroutine |-> 0]]
    /\ UNCHANGED <<backend, next, row, seen, faults, lost, entered>>

Write(r, g) == Number(r, g) \/ WriteLine(r, g) \/ Insert(r, g) \/ WriteFails(r, g)

RunStep(r) ==
    Start(r) \/ (\E g \in Goroutine : AppendEvent(r, g)) \/ (\E s \in Outcomes : Finish(r, s))
    \/ \E g \in Writer : Write(r, g)

Next == Close \/ Crash \/ (\E o \in Opener : Open(o) \/ Scan(o) \/ Backfill(o) \/ Prune(o)) \/ \E r \in Run : RunStep(r)

Spec == Init /\ [][Next]_vars

-----------------------------------------------------------------------------
(* Properties.                                                             *)

Quiet(r) == \A g \in Writer : Free(r, g)
Intact(r) == r \notin lost /\ (backend = "sqlite" => RowOf(r).started # 0)

\* The header that List reads from journal_runs says what Get makes of the events, in
\* every state of a database in use (journal.go, "the only source of truth").
ListAgreesWithGet ==
    backend = "sqlite" /\ handle[App] = "open" =>
        Listed = [r \in {q \in Run : Readable(q) # {}} |-> Get(r)]

\* A run of this process that is still in memory is listed from disk as it is from memory,
\* once its writers are done, unless the disk refused an event or retention took the run.
SinksAgree ==
    \A r \in DOMAIN ListedInMemory : Quiet(r) /\ Intact(r) =>
        r \in DOMAIN Listed /\ Listed[r] = ListedInMemory[r]

\* What is on disk of a run, be it dead or alive, is its past: the start first, the
\* events of each goroutine in their order and without a gap, the end last, whichever
\* order is looked at, that of the lines or that of their numbers.
Follows(e, f) == \/ e.by = f.by /\ e.n < f.n
                 \/ e.kind = "run_start" \/ f.kind \in Status
DiskIsThePast ==
    \A r \in Run : Intact(r) =>
        LET l  == file[r]
            In == Readable(r)
        IN  /\ \A i \in In : \E j \in In : j <= i /\ l[j].ev.kind = "run_start"
            /\ \A i, j \in In : i < j => l[i].ev # l[j].ev /\ l[i].seq # l[j].seq
            /\ \A i, j \in In : i # j /\ Follows(l[i].ev, l[j].ev) /\ ~Follows(l[j].ev, l[i].ev)
                                   => i < j /\ l[i].seq < l[j].seq
            /\ \A i \in In : l[i].ev.n > 1 => \E j \in In :
                    j < i /\ l[j].ev.by = l[i].ev.by /\ l[j].ev.n = l[i].ev.n - 1

\* The database keeps the newest runs, no more than retention of them, and a run that
\* it has lost is older than all of those; so does the memory.
Whole == {r \in DOMAIN row : row[r].started # 0}
NewestKept ==
    backend = "sqlite" /\ handle[App] = "open" =>
        /\ Cardinality(Whole) <= Retention
        /\ \A r \in entered \ Whole : Cardinality({q \in entered : q > r}) >= Retention
=============================================================================
