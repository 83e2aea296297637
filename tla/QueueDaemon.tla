---------------------------- MODULE QueueDaemon ----------------------------
(***************************************************************************)
(* The trigger daemon of src/app/daemon.go on its durable queue: the       *)
(* goroutines that enqueue (webhook handlers, cron and daily loops), the   *)
(* `concurrency` workers that claim and execute, the shutdown by context,  *)
(* the death of the process between any two file-system calls, and the     *)
(* next start, which recovers running/ before it starts its workers.       *)
(*                                                                         *)
(* An agent run is abstract: it ends well, with an error, or (once the     *)
(* context is cancelled) cancelled.  The daemon ignores the errors of Ack, *)
(* Retry and Fail, and a worker whose Claim fails is gone: see StepFails   *)
(* and ClaimFails.                                                         *)
(***************************************************************************)
EXTENDS FileQueue

CONSTANTS
    Worker,        \* Daemon.concurrency goroutines
    NoFile,        \* no task in hand
    MaxAttempts,   \* Daemon.maxAttempts
    Backoff,       \* Daemon.backoff, in clock units
    MinRun,        \* a run ends at least this many clock units after its file's stamp
    MaxCrashes, MaxStops, MaxFaults,   \* bounds: process deaths, shutdowns, I/O errors
    Horizon        \* bound: how far the clock runs with nobody waiting for it

\* Daemon.backoff, doubled after every failed attempt (a shift of a time.Duration).
Delay(n) == Backoff * 2 ^ (n - 1)

ASSUME DaemonAssumption ==
    /\ NoFile \notin File
    /\ MaxAttempts \in Nat \ {0}
    /\ MinRun \in Nat
    /\ \A n \in 1..MaxAttempts : Delay(n) \in Nat     \* no overflow
    /\ MaxCrashes \in Nat /\ MaxStops \in Nat /\ MaxFaults \in Nat /\ Horizon \in Nat

VARIABLES
    mode,        \* of the process
    now,         \* the clock, in the unit of file names (a millisecond)
    sub,         \* [Task -> where the goroutine that enqueues it stands]
    created,     \* [Task -> its CreatedAt]
    wpc,         \* [Worker -> program counter]
    held,        \* [Worker -> the file it claimed, as it was]
    next,        \* [Worker -> the file it is publishing]
    goal,        \* [Worker -> the directory it publishes to]
    succeeded,   \* history: tasks a run of which ended well
    errors,      \* history: [Task -> runs of it that ended with an error]
    crashes, stops, faults,
    clean        \* history: no I/O error since the process last recovered running/

daemonVars  == <<mode, now>>
submitVars  == <<sub, created>>
workerVars  == <<wpc, held, next, goal>>
historyVars == <<succeeded, errors>>
boundVars   == <<crashes, stops, faults, clean>>
vars == <<queueVars, daemonVars, submitVars, workerVars, historyVars, boundVars>>

Mode   == {"recovering", "up", "stopping", "down"}
Submit == {"new", "write", "publish", "accepted", "abandoned"}
Busy   == {"reject", "run", "write", "publish", "unlink"}
WPC    == Busy \cup {"idle", "scan", "exit"}

TypeOK ==
    /\ QueueTypeOK
    /\ mode \in Mode
    /\ now \in Nat
    /\ sub \in [Task -> Submit]
    /\ created \in [Task -> Nat]
    /\ wpc \in [Worker -> WPC]
    /\ held \in [Worker -> File \cup {NoFile}]
    /\ next \in [Worker -> File \cup {NoFile}]
    /\ goal \in [Worker -> State]
    /\ succeeded \in SUBSET Task
    /\ errors \in [Task -> Nat]
    /\ crashes \in Nat /\ stops \in Nat /\ faults \in Nat
    /\ clean \in BOOLEAN

Accepted   == {t \in Task : sub[t] = "accepted"}
Running(w) == wpc[w] \in Busy

Init ==
    /\ QueueInit
    /\ mode = "recovering"
    /\ now = 0
    /\ sub = [t \in Task |-> IF t \in Damaged THEN "abandoned" ELSE "new"]
    /\ created = [t \in Task |-> 0]
    /\ wpc = [w \in Worker |-> "exit"]
    /\ held = [w \in Worker |-> NoFile]
    /\ next = [w \in Worker |-> NoFile]
    /\ goal = [w \in Worker |-> "running"]
    /\ succeeded = {}
    /\ errors = [t \in Task |-> 0]
    /\ crashes = 0 /\ stops = 0 /\ faults = 0
    /\ clean = TRUE
-----------------------------------------------------------------------------
(***************************************************************************)
(* Enqueue.  It takes no lock: the count, the write and the rename are     *)
(* three steps, of as many goroutines as there are tasks to enqueue.  A    *)
(* full queue refuses the task and changes nothing.  The webhook server    *)
(* closes some time after the context, so requests come in while stopping. *)
(***************************************************************************)
EnqueueCheck(t) ==
    /\ mode \in {"up", "stopping"}
    /\ sub[t] = "new"
    /\ HasRoom
    /\ sub' = [sub EXCEPT ![t] = "write"]
    /\ created' = [created EXCEPT ![t] = now]
    /\ UNCHANGED <<queueVars, daemonVars, workerVars, historyVars, boundVars>>

NewFile(t) == [id |-> t, at |-> created[t], attempt |-> 0]

EnqueueWrite(t) ==
    /\ sub[t] = "write"
    /\ Stage("pending", NewFile(t))
    /\ sub' = [sub EXCEPT ![t] = "publish"]
    /\ UNCHANGED <<daemonVars, created, workerVars, historyVars, boundVars>>

EnqueuePublish(t) ==
    /\ sub[t] = "publish"
    /\ Land("pending", NewFile(t))
    /\ sub' = [sub EXCEPT ![t] = "accepted"]
    /\ UNCHANGED <<daemonVars, created, workerVars, historyVars, boundVars>>

\* An I/O error on the way: the caller is told (503), a ".tmp" may stay behind.
EnqueueFails(t) ==
    /\ faults < MaxFaults
    /\ sub[t] \in {"write", "publish"}
    /\ \/ Stage("pending", NewFile(t))
       \/ UNCHANGED queueVars
    /\ sub' = [sub EXCEPT ![t] = "abandoned"]
    /\ faults' = faults + 1
    /\ clean' = FALSE
    /\ UNCHANGED <<daemonVars, created, workerVars, historyVars, crashes, stops>>
-----------------------------------------------------------------------------
(***************************************************************************)
(* A worker: Claim looks at the context, then at pending/ (under the       *)
(* queue's mutex), again and again; execute runs the task and hands it to  *)
(* Ack, Retry or Fail, each a write, a rename and a remove.                *)
(***************************************************************************)
Goto(w, pc) == wpc' = [wpc EXCEPT ![w] = pc]

\* Mutant: the context is not looked at before a claim.
MutantCheckContext(w) ==
    /\ wpc[w] = "idle"
    /\ Goto(w, "scan")
    /\ UNCHANGED <<queueVars, daemonVars, submitVars, held, next, goal,
                   historyVars, boundVars>>

CheckContext(w) ==
    /\ wpc[w] = "idle"
    /\ Goto(w, IF mode = "stopping" THEN "exit" ELSE "scan")
    /\ UNCHANGED <<queueVars, daemonVars, submitVars, held, next, goal,
                   historyVars, boundVars>>

\* The rename makes the claim; the file is read afterwards, so one that cannot be read is in
\* running/ for a moment too.
Claim(w) ==
    /\ wpc[w] = "scan"
    /\ \E f \in dir["pending"] :
        /\ IsNext(f, now)
        /\ Take(f)
        /\ held' = [held EXCEPT ![w] = f]
        /\ Goto(w, IF f.id \in Damaged THEN "reject" ELSE "run")
    /\ UNCHANGED <<daemonVars, submitVars, next, goal, historyVars, boundVars>>

Rejected(w) ==
    /\ wpc[w] = "reject"
    /\ Goto(w, "scan")
    /\ held' = [held EXCEPT ![w] = NoFile]
    /\ UNCHANGED <<daemonVars, submitVars, next, goal, historyVars, crashes, stops>>

\* Mutant: an unreadable file goes back where it came from.
MutantReject(w) ==
    /\ Rejected(w)
    /\ PutBack(held[w])
    /\ UNCHANGED <<faults, clean>>

\* The unreadable file is set aside and the scan goes on.
Reject(w) ==
    /\ Rejected(w)
    /\ Quarantine(held[w])
    /\ UNCHANGED <<faults, clean>>

\* The error of that rename is dropped: the file stays in running/.
RejectFails(w) ==
    /\ faults < MaxFaults
    /\ Rejected(w)
    /\ faults' = faults + 1
    /\ clean' = FALSE
    /\ UNCHANGED queueVars

\* Nothing due: wait for the ticker or the context, then start over.
ClaimNothing(w) ==
    /\ wpc[w] = "scan"
    /\ NothingDue(now)
    /\ Goto(w, "idle")
    /\ UNCHANGED <<queueVars, daemonVars, submitVars, held, next, goal,
                   historyVars, boundVars>>

\* An I/O error in Claim (reading pending/, the rename, or the file just renamed) ends the
\* worker for good.
ClaimFails(w) ==
    /\ faults < MaxFaults
    /\ wpc[w] = "scan"
    /\ \/ UNCHANGED queueVars
       \/ \E f \in dir["pending"] : IsNext(f, now) /\ Take(f)
    /\ Goto(w, "exit")
    /\ faults' = faults + 1
    /\ clean' = FALSE
    /\ UNCHANGED <<daemonVars, submitVars, held, next, goal, historyVars, crashes, stops>>

\* What the end of a run leaves to write: file f, to directory s.
HandOver(w, s, f) ==
    /\ wpc[w] = "run"
    /\ held[w].at + MinRun <= now
    /\ Goto(w, "write")
    /\ next' = [next EXCEPT ![w] = f]
    /\ goal' = [goal EXCEPT ![w] = s]
    /\ UNCHANGED <<queueVars, daemonVars, submitVars, held, boundVars>>

RunSucceeds(w) ==
    /\ HandOver(w, "done", held[w])
    /\ succeeded' = succeeded \cup {held[w].id}
    /\ UNCHANGED errors

\* Mutant: the doubled delay overflows and comes out negative.
MutantRetryAt(n) == now - 2 * Delay(n)

\* The NextAt of a retry after the n-th failed attempt.
RetryAt(n) == now + Delay(n)

\* Mutant: an attempt is counted when it starts and again when it fails.
MutantFailed(f) ==
    LET n == f.attempt + 2
    IN  IF n >= MaxAttempts THEN [f EXCEPT !.attempt = n]
        ELSE [f EXCEPT !.attempt = n, !.at = RetryAt(n)]

\* The task as a failed run leaves it.
Failed(f) ==
    LET n == f.attempt + 1
    IN  IF n >= MaxAttempts THEN [f EXCEPT !.attempt = n]
        ELSE [f EXCEPT !.attempt = n, !.at = RetryAt(n)]

RunFails(w) ==
    LET f == Failed(held[w])
    IN  /\ HandOver(w, IF f.attempt >= MaxAttempts THEN "failed" ELSE "pending", f)
        /\ errors' = [errors EXCEPT ![f.id] = @ + 1]
        /\ UNCHANGED succeeded

\* Mutant: a cancelled run counts as a success.
MutantCancelledIsDone(w) ==
    /\ mode = "stopping"
    /\ HandOver(w, "done", held[w])
    /\ UNCHANGED historyVars

\* Mutant: a cancelled task is requeued as a new one.
MutantCancelledIsNew(w) ==
    /\ mode = "stopping"
    /\ HandOver(w, "pending", [held[w] EXCEPT !.at = now, !.attempt = 0])
    /\ UNCHANGED historyVars

\* The shutdown cancelled the run: back to the queue, due at once, no attempt consumed.
RunCancelled(w) ==
    /\ mode = "stopping"
    /\ HandOver(w, "pending", [held[w] EXCEPT !.at = now])
    /\ UNCHANGED historyVars

\* Mutant: the old file is removed before the new one is in place.
MutantWrite(w) ==
    /\ wpc[w] = "write"
    /\ tmp' = IF goal[w] = "pending" THEN tmp \cup {Name(next[w])} ELSE tmp
    /\ dir' = [dir EXCEPT !["running"] = Drop(@, held[w])]
    /\ Goto(w, "publish")
    /\ UNCHANGED <<daemonVars, submitVars, held, next, goal, historyVars, boundVars>>

Write(w) ==
    /\ wpc[w] = "write"
    /\ Stage(goal[w], next[w])
    /\ Goto(w, "publish")
    /\ UNCHANGED <<daemonVars, submitVars, held, next, goal, historyVars, boundVars>>

Publish(w) ==
    /\ wpc[w] = "publish"
    /\ Land(goal[w], next[w])
    /\ Goto(w, "unlink")
    /\ UNCHANGED <<daemonVars, submitVars, held, next, goal, historyVars, boundVars>>

PutDown(w) ==
    /\ Goto(w, "idle")
    /\ held' = [held EXCEPT ![w] = NoFile]
    /\ next' = [next EXCEPT ![w] = NoFile]
    /\ goal' = [goal EXCEPT ![w] = "running"]

Unlink(w) ==
    /\ wpc[w] = "unlink"
    /\ Remove(held[w])
    /\ PutDown(w)
    /\ UNCHANGED <<daemonVars, submitVars, historyVars, boundVars>>

\* An I/O error in Ack, Retry or Fail: execute drops it and the worker moves on.
StepFails(w) ==
    /\ faults < MaxFaults
    /\ wpc[w] \in {"write", "publish", "unlink"}
    /\ \/ wpc[w] = "write" /\ Stage(goal[w], next[w])
       \/ UNCHANGED queueVars
    /\ PutDown(w)
    /\ faults' = faults + 1
    /\ clean' = FALSE
    /\ UNCHANGED <<daemonVars, submitVars, historyVars, crashes, stops>>
-----------------------------------------------------------------------------
(***************************************************************************)
(* The process.  A shutdown cancels the context; Run returns when every    *)
(* worker has left, and the exit kills the enqueuers still on their way.   *)
(* A crash kills everybody.  The next start recovers file by file.         *)
(***************************************************************************)
Stop ==
    /\ mode = "up"
    /\ stops < MaxStops
    /\ mode' = "stopping"
    /\ stops' = stops + 1
    /\ UNCHANGED <<queueVars, now, submitVars, workerVars, historyVars, crashes, faults, clean>>

Die ==
    /\ mode' = "down"
    /\ sub' = [t \in Task |-> IF sub[t] \in {"write", "publish"} THEN "abandoned" ELSE sub[t]]
    /\ wpc' = [w \in Worker |-> "exit"]
    /\ held' = [w \in Worker |-> NoFile]
    /\ next' = [w \in Worker |-> NoFile]
    /\ goal' = [w \in Worker |-> "running"]
    /\ UNCHANGED <<queueVars, now, created, historyVars, stops, faults, clean>>

Return ==
    /\ mode \in {"up", "stopping"}
    /\ \A w \in Worker : wpc[w] = "exit"
    /\ Die
    /\ UNCHANGED crashes

Crash ==
    /\ mode # "down"
    /\ crashes < MaxCrashes
    /\ Die
    /\ crashes' = crashes + 1

Restart ==
    /\ mode = "down"
    /\ mode' = "recovering"
    /\ clean' = TRUE
    /\ UNCHANGED <<queueVars, now, submitVars, workerVars, historyVars, crashes, stops, faults>>

RecoverOne ==
    /\ mode = "recovering"
    /\ \E f \in dir["running"] : PutBack(f)
    /\ UNCHANGED <<daemonVars, submitVars, workerVars, historyVars, boundVars>>

StartWorkers ==
    /\ mode' = "up"
    /\ wpc' = [w \in Worker |-> "idle"]
    /\ UNCHANGED <<queueVars, now, submitVars, held, next, goal, historyVars, crashes, stops>>

\* Mutant: the workers start while running/ is being recovered.
MutantRecoverDone ==
    /\ mode = "recovering"
    /\ StartWorkers
    /\ UNCHANGED <<faults, clean>>

RecoverDone ==
    /\ mode = "recovering"
    /\ dir["running"] = {}
    /\ StartWorkers
    /\ UNCHANGED <<faults, clean>>

\* Recover could not list running/, or could not rename some of it: logged, and on.
RecoverFails ==
    /\ mode = "recovering"
    /\ faults < MaxFaults
    /\ StartWorkers
    /\ faults' = faults + 1
    /\ clean' = FALSE

\* Time passes freely up to Horizon, and beyond it while somebody waits for it.
Tick ==
    /\ \/ now < Horizon
       \/ \E f \in dir["pending"] : f.at > now
       \/ \E w \in Worker : wpc[w] = "run" /\ held[w].at + MinRun > now
    /\ now' = now + 1
    /\ UNCHANGED <<queueVars, mode, submitVars, workerVars, historyVars, boundVars>>

EnqueueStep(t) == EnqueueCheck(t) \/ EnqueueWrite(t) \/ EnqueuePublish(t) \/ EnqueueFails(t)

RunEnds(w) == RunSucceeds(w) \/ RunFails(w) \/ RunCancelled(w)

WorkerStep(w) ==
    \/ CheckContext(w) \/ Claim(w) \/ Reject(w) \/ ClaimNothing(w)
    \/ RunEnds(w) \/ Write(w) \/ Publish(w) \/ Unlink(w)

Recovery == RecoverOne \/ RecoverDone

Next ==
    \/ \E t \in Task : EnqueueStep(t)
    \/ \E w \in Worker : WorkerStep(w) \/ ClaimFails(w) \/ RejectFails(w) \/ StepFails(w)
    \/ Stop \/ Return \/ Crash \/ Restart \/ Recovery \/ RecoverFails
    \/ Tick

Spec == Init /\ [][Next]_vars

\* The Go scheduler runs every goroutine (whether a task is ever enqueued is up to the
\* triggers), a run ends (its iterations and its requests are bounded), the clock advances,
\* and somebody starts the process again.
Fairness ==
    /\ \A t \in Task : WF_vars(EnqueueWrite(t) \/ EnqueuePublish(t))
    /\ \A w \in Worker : WF_vars(WorkerStep(w))
    /\ WF_vars(Tick) /\ WF_vars(Return) /\ WF_vars(Restart) /\ WF_vars(Recovery)

FairSpec == Spec /\ Fairness
-----------------------------------------------------------------------------
(***************************************************************************)
(* Safety.                                                                 *)
(***************************************************************************)
\* A task whose Enqueue published its file is always on disk, live or with an outcome,
\* whatever step of whichever goroutine the process dies after: "the next start picks it up"
\* (docs/content/docs/guides/triggers.md).  It needs a retry never to take the name of the
\* file it replaces (MinRun > 0).
NothingLost == \A t \in Accepted : LiveCopies(t) \cup OutcomeCopies(t) # {}

\* What is archived is what happened: done/ only after a run of the task succeeded, failed/
\* only after MaxAttempts of its runs failed (or for a file that cannot be read), across
\* crashes, duplicated copies and recoveries.
OutcomeHonest ==
    /\ \A f \in dir["done"] : f.id \in succeeded
    /\ \A f \in dir["failed"] : f.id \in Damaged \/ errors[f.id] >= MaxAttempts

\* While the process runs and no I/O error has hit it, every file of running/ belongs to a
\* worker: nothing waits there for a restart that may never come.
NoOrphan ==
    mode \in {"up", "stopping"} /\ clean =>
        \A f \in dir["running"] : \E w \in Worker : Running(w) /\ SameName(held[w], f)

\* Without a crash or an I/O error a task is in the hands of one worker at a time (but for
\* the Remove of the old file), and is not run again once it has an outcome: a graceful
\* shutdown in the middle of a run duplicates nothing.
DeliveredOnce ==
    crashes = 0 /\ faults = 0 =>
        \A w \in Worker : wpc[w] \in {"run", "write", "publish"} =>
            /\ OutcomeCopies(held[w].id) = {}
            /\ \A v \in Worker \ {w} :
                  wpc[v] \in {"run", "write", "publish"} => held[v].id # held[w].id

\* Without a crash or an I/O error no task has more than MaxAttempts failing runs, however
\* often a shutdown interrupted it: the count survives the trips through the disk.
RetryBudget ==
    crashes = 0 /\ faults = 0 => \A t \in Task : errors[t] <= MaxAttempts

\* CONTEXT.md:78-83 of the Task Queue: the state of a task is the directory its file is in,
\* and it changes by one atomic rename.
OneDirectory == \A t \in Task : Cardinality({s \in State : \E f \in dir[s] : f.id = t}) <= 1

\* docs/content/docs/guides/triggers.md:112: max_pending is how long the queue may get.
PendingWithinMax == Cardinality(dir["pending"]) <= MaxPending
-----------------------------------------------------------------------------
(***************************************************************************)
(* Refinement and liveness.                                                *)
(***************************************************************************)
Readable == Task \ Damaged

LiveTasks == {t \in Readable : LiveCopies(t) # {}}

Outcomes == [t \in Readable |-> {s \in {"done", "failed"} : \E f \in dir[s] : f.id = t}]

Promise == INSTANCE TaskQueue WITH
    Task <- Readable, accepted <- Accepted, live <- LiveTasks, outcome <- Outcomes

\* The directories, seen through that mapping, keep the at-least-once promise step by step.
AtLeastOnce == Promise!Spec

\* A task stuck in running/ after an I/O error, until the next start.
Stranded(t) ==
    /\ ~clean
    /\ \E f \in dir["running"] : f.id = t

\* Every accepted task gets an outcome, through crashes and shutdowns, or is stranded by an
\* I/O error the daemon ignored.
EventuallyDecided ==
    \A t \in Task : t \in Accepted ~> OutcomeCopies(t) # {} \/ Stranded(t)

\* A shutdown ends: the workers finish or cancel their runs and leave.
ShutdownCompletes == mode = "stopping" ~> mode = "down"

\* As long as no process has died (a death leaves its ".tmp" files in pending/, counted for
\* ever) the queue never refuses for good: what fills pending/ drains.
AdmissionReopens == []<>(HasRoom \/ crashes + stops + faults > 0)
=============================================================================
