-------------------------------- MODULE Flow --------------------------------
(***************************************************************************)
(* `mani run` on a flow, and `mani batch`: src/cmd/mani/flow.go, batch.go  *)
(* and records.go.  A process takes the steps in order.  Each step keeps   *)
(* its records in a directory that outlives the process, and make's rule   *)
(* on the times of the files decides what the next process makes again.    *)
(* The process may be interrupted or killed at any point; between two      *)
(* processes the user may delete files and give another input.             *)
(*                                                                         *)
(* A file is its modification time, 0 if it does not exist: every write    *)
(* has a time of its own, and stands for the content it wrote.  The result *)
(* of a flow is its last step.                                             *)
(***************************************************************************)
EXTENDS Naturals, Sequences, FiniteSets

CONSTANTS
    Id,         \* ids of records
    AllId,      \* the id of the one record of an agent with from_all
    Flows,      \* flow files
    Inputs,     \* what --in may hold: sequences of ids, or of lines without one
    Prints,     \* bound: sets of ids a command may print
    Limits,     \* what --limit may be, besides 0 (none)
    MaxStarts,  \* bound: processes
    MaxSamples, \* bound: the first processes, those that may use --limit
    MaxEdits    \* bound: files the user deletes

\* A step reads the input (from 0) or a step above it.  A flow is its steps, and its
\* limits.tokens (0: none); a run costs one token.
Step == [kind : {"each", "all", "command"}, from : Nat, jobs : Nat]

ASSUME FlowAssumption ==
    /\ IsFiniteSet(Id) /\ AllId \in Id /\ Prints \subseteq SUBSET Id
    /\ \A f \in Flows : f.steps \in Seq(Step) /\ f.tokens \in Nat
    /\ Limits \subseteq Nat
    /\ MaxStarts \in Nat /\ MaxSamples \in Nat /\ MaxEdits \in Nat

\* A flow has steps, each reads one above it, only an agent with for_each has jobs,
\* and somebody reads the input.
Validate(f) ==
    /\ f.steps # <<>> /\ \E i \in DOMAIN f.steps : f.steps[i].from = 0
    /\ \A i \in DOMAIN f.steps :
         f.steps[i].from < i /\ (f.steps[i].jobs > 1 => f.steps[i].kind = "each")

Batch(jobs) == [steps |-> <<[kind |-> "each", from |-> 0, jobs |-> jobs]>>, tokens |-> 0]

\* The input is refused unless every line has an id of its own.
ParseRecords(lines) ==
    /\ lines # <<>> /\ \A i \in DOMAIN lines : lines[i] \in Id
    /\ \A i, j \in DOMAIN lines : lines[i] = lines[j] => i = j

VARIABLES
    flow,       \* the flow, the same for all processes
    rec,        \* disk: per step, per id, the time of <id>.json
    mark,       \* disk: per step, the time of .done
    errors,     \* disk: ids in errors.jsonl, per step
    clock,
    pc,         \* where the process stands ("off": none runs)
    step,       \* the step it is at
    input,      \* the ids of --in
    limit,
    live,       \* its context is not cancelled
    tokens,     \* spent by this process
    todo,       \* records still to start, or to write
    flying,     \* records in the hands of a goroutine
    leaving,    \* those of them whose run is over
    failures,   \* records that failed in this step
    now,        \* records made by this process in this step, or that a command printed
    partial,    \* --limit has left something for later
    verdict,    \* how the last process ended
    printed,    \* per id, how often it was printed on stdout
    madeFrom,   \* history: per step and id, the time of the record it was made from
    readAll,    \* history: per step, the records its last whole run read
    grew,       \* history: no process was given less input than the one before
    calls,      \* history: runs and commands of this process
    settled,    \* history: the last process ended well and nothing has changed since
    starts, edits

disk    == <<rec, mark, errors, clock>>
process == <<step, input, limit, live, tokens, todo, flying, leaving, failures, now, partial, printed>>
history == <<madeFrom, readAll, grew, calls, settled>>
bounds  == <<flow, starts, edits>>
vars    == <<disk, pc, verdict, process, history, bounds>>

steps == flow.steps
Cap   == flow.tokens
N     == Len(steps)
st    == steps[step]
Field == DOMAIN steps

\* What step k hands on: an agent with for_each the records of its input, the
\* others all they have on disk.
Output[k \in 0..N] ==
    IF k = 0 THEN input
    ELSE {id \in IF steps[k].kind = "each" THEN Output[steps[k].from] ELSE Id : rec[k][id] # 0}

Stamp(k, id) == IF k = 0 THEN 0 ELSE rec[k][id]      \* a record of --in has none
Upstream     == Output[st.from]
Newer(t, k)  == \A id \in Output[k] : t >= Stamp(k, id)

\* Mutant: what exists is not made again.
MutantFreshSince(k, id) == rec[k][id] # 0

FreshSince(k, id) == rec[k][id] # 0 /\ rec[k][id] >= Stamp(steps[k].from, id)
Done(k)           == mark[k] # 0 /\ Newer(mark[k], steps[k].from)
Spent             == Cap > 0 /\ tokens >= Cap

TypeOK ==
    /\ rec \in [Field -> [Id -> 0..clock]]
    /\ mark \in [Field -> 0..clock]
    /\ errors \in [Field -> SUBSET Id]
    /\ clock \in Nat /\ tokens \in Nat /\ calls \in Nat
    /\ pc \in {"off", "plan", "map", "drain", "make", "write", "mark", "output"}
    /\ step \in Field
    /\ input \subseteq Id /\ todo \subseteq Id /\ leaving \subseteq flying /\ flying \subseteq Id
    /\ failures \subseteq Id /\ now \subseteq Id
    /\ limit \in Limits \cup {0}
    /\ live \in BOOLEAN /\ partial \in BOOLEAN /\ grew \in BOOLEAN /\ settled \in BOOLEAN
    /\ verdict \in {"none", "ok", "failed", "interrupted", "budget"}
    /\ printed \in [Id -> 0..2]
    /\ madeFrom \in [Field -> [Id -> 0..clock]]
    /\ readAll \in [Field -> SUBSET (Id \X (0..clock))]

Init ==
    /\ flow \in {f \in Flows : Validate(f)} \cup {Batch(2)}
    /\ rec = [k \in Field |-> [id \in Id |-> 0]] /\ mark = [k \in Field |-> 0]
    /\ errors = [k \in Field |-> {}]
    /\ clock = 0 /\ pc = "off" /\ verdict = "none"
    /\ step = 1 /\ input = {} /\ limit = 0 /\ live = TRUE /\ tokens = 0
    /\ todo = {} /\ flying = {} /\ leaving = {} /\ failures = {} /\ now = {} /\ partial = FALSE
    /\ printed = [id \in Id |-> 0]
    /\ madeFrom = [k \in Field |-> [id \in Id |-> 0]] /\ readAll = [k \in Field |-> {}]
    /\ grew = TRUE /\ calls = 0 /\ settled = FALSE
    /\ starts = 0 /\ edits = 0

-----------------------------------------------------------------------------
(* The process.                                                            *)

Start ==                                    \* refused input starts nothing
    /\ pc = "off" /\ starts < MaxStarts
    /\ \E lines \in Inputs : ParseRecords(lines) /\ input' = {lines[i] : i \in DOMAIN lines}
    /\ limit' \in IF starts < MaxSamples THEN Limits \cup {0} ELSE {0}
    /\ pc' = "plan" /\ verdict' = "none" /\ step' = 1 /\ live' = TRUE /\ tokens' = 0
    /\ todo' = {} /\ flying' = {} /\ leaving' = {} /\ failures' = {} /\ now' = {} /\ partial' = FALSE
    /\ printed' = [id \in Id |-> 0]
    /\ grew' = (grew /\ input \subseteq input') /\ calls' = 0
    /\ settled' = (settled /\ input = input') /\ starts' = starts + 1
    /\ UNCHANGED <<disk, madeFrom, readAll, flow, edits>>

\* The process ends before its last step; nothing of its memory is left.
Gone(v) ==
    /\ pc' = "off" /\ verdict' = v /\ settled' = FALSE
    /\ todo' = {} /\ flying' = {} /\ leaving' = {} /\ failures' = {} /\ now' = {}
    /\ printed' = [id \in Id |-> 0] /\ tokens' = 0 /\ step' = 1 /\ live' = TRUE
    /\ UNCHANGED <<input, limit, partial>>

End(v) == Gone(v) /\ UNCHANGED <<disk, madeFrom, readAll, grew, calls, bounds>>

Interrupted == pc = "plan" /\ ~live /\ End("interrupted")     \* between two steps

\* An agent with for_each: what is missing, or older than what it comes from.
PlanEach ==
    /\ pc = "plan" /\ live /\ st.kind = "each"
    /\ LET stale == {id \in Upstream : ~FreshSince(step, id)}
       IN  IF limit = 0 \/ Cardinality(stale) <= limit
             THEN todo' = stale /\ UNCHANGED partial
             ELSE todo' \in {s \in SUBSET stale : Cardinality(s) = limit} /\ partial' = TRUE
    /\ pc' = IF todo' = {} THEN "output" ELSE "map"
    /\ failures' = {} /\ now' = {}
    /\ UNCHANGED <<disk, verdict, step, input, limit, live, tokens, flying, leaving, printed,
                   history, bounds>>

PlanWhole ==
    /\ pc = "plan" /\ live /\ st.kind # "each"
    /\ pc' = IF Done(step) THEN "output" ELSE "make"
    /\ now' = {}
    /\ UNCHANGED <<disk, verdict, step, input, limit, live, tokens, todo, flying, leaving, failures,
                   partial, printed, history, bounds>>

\* A record without a task, or a manifest that cannot be built, before any run;
\* the budget, before the one run of an agent with from_all.
CannotStart ==
    \/ /\ pc = "plan" /\ live /\ st.kind = "each"
       /\ \E id \in Upstream : ~FreshSince(step, id)
       /\ End("failed")
    \/ pc = "make" /\ st.kind = "all" /\ End(IF Spent THEN "budget" ELSE "failed")

-----------------------------------------------------------------------------
(* mapRecords: at most `jobs` goroutines at a time.                        *)

Jobs(k) == IF steps[k].jobs > 1 THEN steps[k].jobs ELSE 1
Slot    == Cardinality(flying) < Jobs(step)

\* Mutant: the budget is not looked at when a slot frees up.
MutantStartOne(id) ==
    /\ pc = "map" /\ id \in todo /\ Slot /\ live
    /\ todo' = todo \ {id}
    /\ flying' = flying \cup {id}
    /\ calls' = calls + 1
    /\ UNCHANGED <<disk, pc, verdict, step, input, limit, live, tokens, leaving, failures, now,
                   partial, printed, madeFrom, readAll, grew, settled, bounds>>

StartOne(id) ==
    /\ pc = "map" /\ id \in todo /\ Slot /\ live /\ ~Spent
    /\ todo' = todo \ {id}
    /\ flying' = flying \cup {id}
    /\ calls' = calls + 1
    /\ UNCHANGED <<disk, pc, verdict, step, input, limit, live, tokens, leaving, failures, now,
                   partial, printed, madeFrom, readAll, grew, settled, bounds>>

StopStarting ==
    /\ pc = "map"
    /\ todo = {} \/ (Slot /\ (~live \/ Spent))
    /\ pc' = "drain"
    /\ UNCHANGED <<disk, verdict, process, history, bounds>>

\* The record is written through a temporary file, so whole or not at all.
RunSucceeds(id) ==
    /\ id \in flying \ leaving
    /\ tokens' = tokens + 1 /\ leaving' = leaving \cup {id}
    /\ clock' = clock + 1
    /\ rec' = [rec EXCEPT ![step][id] = clock + 1]
    /\ madeFrom' = [madeFrom EXCEPT ![step][id] = Stamp(st.from, id)]
    /\ now' = now \cup {id}
    /\ printed' = IF step = N THEN [printed EXCEPT ![id] = @ + 1] ELSE printed
    /\ UNCHANGED <<mark, errors, pc, verdict, step, input, limit, live, todo, flying, failures,
                   partial, readAll, grew, calls, settled, bounds>>

\* The run fails on its own, or because the context ended.
RunFails(id) ==
    /\ id \in flying \ leaving
    /\ tokens' = tokens + 1 /\ leaving' = leaving \cup {id}
    /\ failures' = failures \cup {id}
    /\ errors' = IF live THEN [errors EXCEPT ![step] = @ \cup {id}] ELSE errors
    /\ UNCHANGED <<rec, mark, clock, pc, verdict, step, input, limit, live, todo, flying, now, partial,
                   printed, madeFrom, readAll, grew, calls, settled, bounds>>

\* Mutant: a run that fails keeps its slot.
MutantLeave(id) ==
    /\ id \in leaving \ failures
    /\ flying' = flying \ {id} /\ leaving' = leaving \ {id}
    /\ UNCHANGED <<disk, pc, verdict, step, input, limit, live, tokens, todo, failures, now, partial,
                   printed, history, bounds>>

Leave(id) ==                                \* the slot is given back
    /\ id \in leaving
    /\ flying' = flying \ {id} /\ leaving' = leaving \ {id}
    /\ UNCHANGED <<disk, pc, verdict, step, input, limit, live, tokens, todo, failures, now, partial,
                   printed, history, bounds>>

Drained == pc = "drain" /\ flying = {}

MapEnds ==
    /\ Drained /\ live /\ failures = {} /\ todo = {}
    /\ pc' = "output"
    /\ UNCHANGED <<disk, verdict, process, history, bounds>>

MapStops ==
    /\ Drained
    /\ \/ ~live /\ End("interrupted")
       \/ live /\ failures # {} /\ End("failed")
       \/ live /\ failures = {} /\ todo # {} /\ End("budget")

-----------------------------------------------------------------------------
(* An agent with from_all, or a command: the directory is replaced.        *)

Reads == {<<id, Stamp(st.from, id)>> : id \in Upstream}

\* What it makes, and what of that differs from the files on disk; an agent's
\* record always does, it carries its run.
Make ==
    /\ pc = "make" /\ (st.kind = "all" => ~Spent)
    /\ \/ /\ st.kind = "all"
          /\ now' = {AllId} /\ todo' = {AllId} /\ tokens' = tokens + 1
       \/ /\ st.kind = "command"
          /\ now' \in Prints /\ todo' \in SUBSET now'
          /\ {id \in now' : rec[step][id] = 0} \subseteq todo'
          /\ UNCHANGED tokens
    /\ calls' = calls + 1
    /\ pc' = "write"
    /\ UNCHANGED <<disk, verdict, step, input, limit, live, flying, leaving, failures, partial, printed,
                   madeFrom, readAll, grew, settled, bounds>>

MakeFails ==                                \* a command that fails is not written down
    /\ pc = "make" /\ (st.kind = "all" => ~Spent)
    /\ errors' = IF st.kind = "all" /\ live THEN [errors EXCEPT ![step] = @ \cup {AllId}] ELSE errors
    /\ Gone("failed")
    /\ UNCHANGED <<rec, mark, clock, madeFrom, readAll, grew, calls, bounds>>

WriteOne(id) ==
    /\ pc = "write" /\ id \in todo
    /\ todo' = todo \ {id}
    /\ clock' = clock + 1
    /\ rec' = [rec EXCEPT ![step][id] = clock + 1]
    /\ UNCHANGED <<mark, errors, pc, verdict, step, input, limit, live, tokens, flying, leaving, failures,
                   now, partial, printed, history, bounds>>

RemoveOne(id) ==
    /\ pc = "write" /\ todo = {} /\ id \notin now /\ rec[step][id] # 0
    /\ rec' = [rec EXCEPT ![step][id] = 0]
    /\ UNCHANGED <<mark, errors, clock, pc, verdict, process, history, bounds>>

\* Mutant: rewriting the empty marker does not move its time.
MutantMark ==
    /\ pc = "write" /\ todo = {} /\ \A id \in Id \ now : rec[step][id] = 0
    /\ clock' = clock + 1
    /\ mark' = [mark EXCEPT ![step] = IF @ = 0 THEN clock + 1 ELSE @]
    /\ readAll' = [readAll EXCEPT ![step] = Reads]
    /\ pc' = "output" /\ now' = {}
    /\ UNCHANGED <<rec, errors, verdict, step, input, limit, live, tokens, todo, flying, leaving, failures,
                   partial, printed, madeFrom, grew, calls, settled, bounds>>

Mark ==
    /\ pc = "write" /\ todo = {} /\ \A id \in Id \ now : rec[step][id] = 0
    /\ clock' = clock + 1
    /\ mark' = [mark EXCEPT ![step] = clock + 1]
    /\ readAll' = [readAll EXCEPT ![step] = Reads]
    /\ pc' = "output" /\ now' = {}
    /\ UNCHANGED <<rec, errors, verdict, step, input, limit, live, tokens, todo, flying, leaving, failures,
                   partial, printed, madeFrom, grew, calls, settled, bounds>>

WriteFails == pc = "write" /\ End("failed")

-----------------------------------------------------------------------------
\* The records are read back; those of the result are printed, except the ones
\* printed when they were made.
HandOn ==
    /\ pc = "output"
    /\ printed' = [id \in Id |-> IF step = N /\ id \in Output[N] \ now THEN printed[id] + 1 ELSE printed[id]]
    /\ IF step < N
         THEN step' = step + 1 /\ pc' = "plan" /\ UNCHANGED <<verdict, settled>>
         ELSE pc' = "off" /\ verdict' = "ok" /\ settled' = ~partial /\ UNCHANGED step
    /\ UNCHANGED <<disk, input, limit, live, tokens, todo, flying, leaving, failures, now, partial, madeFrom,
                   readAll, grew, calls, bounds>>

Interrupt ==                                \* Ctrl-C
    /\ pc # "off" /\ live
    /\ live' = FALSE
    /\ UNCHANGED <<disk, pc, verdict, step, input, limit, tokens, todo, flying, leaving, failures, now, partial,
                   printed, history, bounds>>

Kill == pc # "off" /\ End("failed")

\* The user deletes a result, or the marker of a whole step: what flows.md proposes.
Edit ==
    /\ pc = "off" /\ edits < MaxEdits /\ edits' = edits + 1 /\ settled' = FALSE
    /\ \/ \E k \in Field, id \in Id : steps[k].kind = "each" /\ rec[k][id] # 0 /\ rec' = [rec EXCEPT ![k][id] = 0] /\ UNCHANGED mark
       \/ \E k \in Field : mark[k] # 0 /\ mark' = [mark EXCEPT ![k] = 0] /\ UNCHANGED rec
    /\ UNCHANGED <<errors, clock, pc, verdict, process, madeFrom, readAll, grew, calls, flow, starts>>

Goroutine(id) == StartOne(id) \/ RunSucceeds(id) \/ RunFails(id) \/ Leave(id)

Main ==
    \/ PlanEach \/ PlanWhole \/ CannotStart \/ StopStarting \/ MapEnds \/ MapStops
    \/ Make \/ MakeFails \/ Mark \/ WriteFails \/ HandOn \/ Interrupted
    \/ \E id \in Id : WriteOne(id) \/ RemoveOne(id)

Next ==
    \/ Start \/ Main \/ Interrupt \/ Kill \/ Edit
    \/ \E id \in Id : Goroutine(id)

Spec == Init /\ [][Next]_vars

FairSpec == Spec /\ WF_vars(Main) /\ \A id \in Id : WF_vars(Goroutine(id))

-----------------------------------------------------------------------------
(* Properties.                                                             *)

\* Steps whose output this process, or the last one if it ended well, vouches for.
Finished == IF settled /\ pc = "off" THEN Field ELSE IF pc # "off" THEN 1..(step - 1) ELSE {}

MadeFromAll(k) ==
    \A id \in Output[steps[k].from] :
        LET now0 == Stamp(steps[k].from, id)
        IN  IF steps[k].kind = "each" THEN rec[k][id] # 0 /\ madeFrom[k][id] = now0
                                     ELSE <<id, now0>> \in readAll[k]

\* When a step is over, and before the next one starts, all it was given is in what
\* it made, in the version it has now: whatever was interrupted, killed, failed,
\* deleted or left for later by an earlier process (flow.go, records.go: make's
\* rule).  Three provisos: this process leaves nothing for later; no process was
\* given less input than an earlier one; the step does not read --in as a whole.
UpToDate ==
    grew /\ ~partial =>
        \A k \in Finished : steps[k].kind = "each" \/ steps[k].from # 0 => MadeFromAll(k)

\* "appending lines is always safe" (reference/flow.md): without the last proviso.
AppendingIsSafe == grew /\ ~partial => \A k \in Finished : MadeFromAll(k)

\* A flow that ended well has printed every record of its result once; started again
\* on the same input, it makes nothing (agentEach, emit).
FinishedIsQuiet ==
    settled => IF pc = "off" THEN \A id \in Id : printed[id] = IF id \in Output[N] THEN 1 ELSE 0
                             ELSE calls = 0

\* The runs in flight pass the token budget by less than there are jobs, those of the
\* step that spent it (spent, mapRecords).
BudgetHolds ==
    Cap > 0 => \E k \in 1..step : tokens + Cardinality(flying \ leaving) <= Cap - 1 + Jobs(k)

\* A process ends, interrupted or not: no run keeps its slot.
FlowEnds == (pc # "off") ~> (pc = "off")
=============================================================================
