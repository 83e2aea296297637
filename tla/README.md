# A verification project for mani

mani (Go) is a harness for LLM agents: an agent loop with tools and hooks, a
runtime that gives it sessions, permissions, budgets and a journal, and several
ways to start a run: a terminal UI, a command line, flows, a WebSocket/REST
server, an MCP server, and a daemon that runs tasks from webhooks and clocks
through a durable queue.  This directory holds TLA+ models of that code, the
TLC runs that check them and TLAPS proofs about them.  Paths and line numbers
refer to the repository at the commit the models were written from;
`PROJECT.json` maps every definition to its lines.

## 1. Inventory

| component | state it keeps | operations | what is hard | what makes it correct |
|---|---|---|---|---|
| durable queue, `app/queue.go` FileQueue | one file per task in `pending/ running/ done/ failed/`, `.tmp` files | Enqueue, Claim/tryClaim, Ack, Retry, Fail, Recover | every method is several file-system calls; only Claim and Recover hold the mutex; the process may die between two calls; other goroutines list the same directories | no accepted task leaves the disk; the archive is true; one worker per task; unreadable files neither block nor run |
| in-memory queue, `app/queue.go` | a slice, a wake-up channel | the same port | Retry is an Enqueue that can be refused | a claimed task is not lost; a waiting worker is woken |
| trigger daemon, `app/daemon.go` | workers, HTTP server, the clocks' goroutines, the trigger state file | Run, worker, execute, enqueue, hookHandler, runCron, runDaily, catchUp, markRun | shutdown in the middle of a run; recovery before claims; errors of the queue are dropped; days of 23 and 25 hours; enqueue and mark are not atomic | attempts are respected; a shutdown ends; a missed occurrence is caught up once |
| agent loop, `core/agent.go`, `core/hooks.go`, `core/memory.go` | the message list of the session, the tool results of one response | Run, executeTools, runTool, Fire | hooks may fail at five points; parallel and sequential tools under one cancellable context; final tool and its validation; every exit leaves the memory to the next turn | every tool call is answered once, in order, before the next request; no refused call is executed; the loop ends |
| schema validation, `core/validate_schema.go` | none | validateAgainstSchema, checkType | recursion over nested objects and arrays | accepts exactly the values of the schema |
| runtime, `app/runtime.go`, `app/events.go`, `app/emitter.go` | current session, cancel function, event channels, journal | Execute, ExecuteIn, Cancel, Close, NewSession, SwitchSession | cancel racing the start; a full event channel blocks the run; Close during a run | each run ends with exactly one final event; a cancelled run ends |
| permission gate, `app/permission.go` | tools always allowed | check | answer, timeout and cancellation race; requests of parallel sub-agents | nothing risky runs without an answer; a denied or cancelled request is not executed |
| WebSocket/REST server, `server/*.go` | sessions with their runtimes (busy count, last use), a connection's running flag and pending requests with timers | acquire/release, sweep, remove, the reader, runTurn, routeDecision | one socket reader and one turn per connection, several connections per session, sweeping | one turn at a time; a request gets one decision; a used session is not closed |
| run journal, `app/journal.go`, `app/sqlite_journal.go` | runs and their events, in memory, JSONL or SQLite | Start, Append, Finish, Subscribe, eviction, trim, replay on open | concurrent appends from parallel tools; eviction of running runs; an interrupted file | events in order, once; what is replayed is what was written |
| flow executor, `cmd/mani/flow.go`, `records.go`, `batch.go`, `app/flow.go` | the records of each step on disk and their times, the tokens used | planning, freshness (as make), running the records with n jobs, replace, prune | interruption and resume; a failed step; a budget shared by jobs | a step is done only if its records are newer than their inputs; a resumed flow repeats nothing that is done and skips nothing that is not |
| governance, `app/budget.go`, `policy_rules.go` | counters per run | hooks before and after LLM and tool calls | concurrent increments; the limit is looked at one step later | limits bound what a run may spend |
| sub-agents, planning, context, retry client, `app/subagent.go`, `planning.go`, `context.go`, `retry.go` | depth in the context, the plan | delegate, plan tool, trimming, re-sending | parallel delegates share the parent's budget and permissions | depth is bounded; trimmed conversations are still well formed |
| manifest, builder, configuration, `app/manifest.go`, `app/builder.go`, `config/config.go` | none after start | load, validate, build, merge the sources of a setting | what validates is not what builds, nor what starts | what `mani validate` accepts is refused later only for what it cannot know |
| session store, `session/*.go` | one JSON file per session | Save, Load, List | conversion of the message blocks | what is loaded is what was saved |
| tools, LLM adapters, MCP server, terminal UI, command line | - | external calls, presentation | - | left to the repository's tests |

How they interact: the daemon's triggers and the webhook handlers call
`Enqueue`; workers call `Claim`, run the task through `Runtime.ExecuteIn` (a
goroutine running `Agent.Run` that feeds a channel of events) and call `Ack`,
`Retry` or `Fail`.  `Agent.Run` calls the hooks (permission gate, policy rules,
budgets, journal, tracing) and the tools, one of which (`delegate`) runs another
agent.  The WebSocket server reads the same event channel, forwards permission
requests to the client, and cancels through `Runtime.Cancel`.  Flows start many
runs over the same runtime and keep their results as records on disk.

The hazards this code is exposed to, each at its line, are listed under
`hazards` in `PROJECT.json` with the properties that watch over them.

## 2. Plan

In order of importance.  Entries 1 to 7 are built, each with proofs.

1. **Durable queue and daemon** (`FileQueue`, `TaskQueue`, `QueueDaemon`): crashes
   between file-system calls, retries, shutdown.  Abstract specification: an
   at-least-once queue.  Proofs: type correctness, the safety invariants, the
   refinement.
2. **Agent loop** (`AgentLoop`): `Run` with its hooks, phases of tools,
   cancellation, final tool, over several turns of one memory.  Proofs: type
   correctness, results in their place, once and true, refusals, risky tools.
3. **Conversation** (`Conversation`): socket reader and writer, turn, event channel,
   permission requests with their timers, `Runtime.Cancel`, the session manager's
   acquire/release/sweep.
4. **Journal** (`Journal`): appends of parallel goroutines to memory and disk,
   eviction, trim, back-fill, replay after a crash.
5. **Flow** (`Flow`): records and their times, jobs, budget, interruption, resume,
   against make's rule.
6. **Triggers** (`Triggers`, over `Manifest`) and the in-memory queue: occurrences
   across clock changes, catch-up, the crash between enqueue and mark; what a
   manifest that validates may still fail at.
7. **Governance** (`Governance`): budgets, rules and redaction in a tree of
   sub-agents.
8. To come: the pure functions (schema validation, the session's conversion) against reference definitions.

Each model gets one passing run, or two where safety and liveness need different
bounds, and a violation run where the code breaks a promise by an interleaving
that is hard to see.  Disagreements that a reading shows as well are findings
without a run; the property that refutes each is in the module, ready to be added to a
configuration.

## 3. The durable queue and its daemon

### Modules

* `FileQueue` has the state of the disk, `dir` (the four directories, a set of
  files each) and `tmp` (the `.tmp` names in `pending/`, which Enqueue's count
  sees), and one operator per file-system call: `Stage` and `Land` are the two
  calls of `writeTo`, `Take` the rename of a claim, `Remove` the unlink that ends
  Ack, Retry and Fail, `Quarantine` what is done with an unreadable file,
  `PutBack` one rename of `Recover`.  A file is its task's id, its stamp (the
  decimal prefix of its name, by which claims are ordered) and its number of
  attempts; the prompt and the other fields travel unchanged and are left out.
* `QueueDaemon` has everybody who makes those calls: one goroutine per task for
  `Enqueue` (`EnqueueCheck`, `EnqueueWrite`, `EnqueuePublish`), `concurrency`
  workers (`CheckContext`, `Claim`, `Reject`, `ClaimNothing`, then the end of the
  run, `RunSucceeds | RunFails | RunCancelled`, then `Write`, `Publish`,
  `Unlink`), and the process (`Stop`, `Return`, `Crash`, `Restart`, `RecoverOne`,
  `RecoverDone`).  Each action is at most one file-system call, so that a crash
  or another goroutine can come between any two.  I/O errors are actions of
  their own, because what the code does with them differs: an enqueue reports
  it (`EnqueueFails`), a claim ends the worker (`ClaimFails`), the errors of
  Ack, Retry and Fail are dropped (`StepFails`), recovery goes on
  (`RecoverFails`).
* `TaskQueue` is the promise: accepted tasks stay live until an outcome is on
  record, outcomes are never withdrawn, `done` is recorded only after a run
  succeeded.  `QueueDaemon!AtLeastOnce` is its specification under the mapping
  *live = has a file in pending/ or running/*, *outcome = has a file in done/ or
  failed/*.
* `MCQueueDaemon` gives TLC the model values.
* `QueueDaemonProofs` has the theorems that hold through deaths and errors,
  `QueueDeliveryProofs` those about a queue that meets none.

The agent run is abstract: it ends well, with an error or, after a shutdown,
cancelled.  A duplicate of a task after a crash is not hidden: the promise is at
least once, and `DeliveredOnce` says when it is exactly once.

The stamp is the interesting datum.  `Retry` publishes the task under a new name
and then removes the old one; the code relies on the two being different.
`MinRun` is the least number of milliseconds between the stamp of a file and
the end of the run that claimed it.  With `MinRun >= 1` the names differ and
nothing is lost; with `MinRun = 0` and `Backoff = 0` they can coincide, and
`queue_lost` shows what follows.

### Runs

| run | shows | instance |
|---|---|---|
| `queue_crash` | `TypeOK`, `NothingLost`, `OutcomeHonest`, `NoOrphan`, the refinement `AtLeastOnce`, and `EventuallyDecided` (every accepted task gets an outcome, unless an I/O error the daemon drops strands it in `running/`), with a crash, a shutdown and an I/O error at any step | 2 workers, a task and an unreadable file |
| `queue_steady` | `DeliveredOnce`, `RetryBudget`, `ShutdownCompletes`, `AdmissionReopens` without crashes | 2 workers, 2 tasks, one place in `pending/` |
| `queue_lost` | violation of `NothingLost` when a retry keeps its millisecond | 2 workers, 1 task |

Bounds.  `MaxCrashes`, `MaxStops`, `MaxFaults` bound the deaths, shutdowns and
I/O errors of a behaviour: one of each reaches every error path in every state
the others produce, recovery included.  `Horizon` bounds how far the clock runs while nobody waits for
it; it always runs as far as the earliest retry or the end of a run needs, so a
retry is always reached.  `MaxAttempts = 2` has a run that is retried and one
that exhausts the attempts; `Backoff = 1`, doubled, is enough to order stamps.
Two workers are what is needed to race for a file; two tasks race for one place.
In `queue_crash` the second file is the unreadable one, so that the scan has to
get past it.  Deadlock is checked.

Every property of a passing run is paired with a mutated definition of the
model (`Mutant...` in the modules): a dropped guard, a swapped order, a lost
count, that the run then reports.

Fairness (`FairSpec`).  Weak fairness of each worker's next step, of an enqueue
that has begun, of recovery and of the process's exit is what the Go scheduler
gives to runnable goroutines.  That a run ends is justified by the loop's
`max_iterations` and the limits on requests and tools; that the clock advances
needs no comment; that somebody restarts a dead process is an assumption about
the operator, without which no durable queue keeps a promise.  Nothing is
assumed of new tasks arriving, of crashes, of shutdowns or of errors.

### Proofs

`QueueDaemonProofs` and `QueueDeliveryProofs` prove for all tasks, workers and bounds:

| theorem | states |
|---|---|
| `TypeCorrect` | `Spec => []TypeOK` |
| `NobodyOrphaned` | `Spec => []NoOrphan` |
| `RecordsAreHonest` | `Spec => []OutcomeHonest` |
| `NothingIsLost` | `MinRun > 0 => (Spec => []NothingLost)` |
| `QueueKeepsItsPromise` | `MinRun > 0 => (Spec => AtLeastOnce)` |
| `TaskIsDeliveredOnce` | `Spec => []DeliveredOnce` |
| `RetriesAreBounded` | `Spec => []RetryBudget` |

The assumptions are those of the modules: `QueueAssumption` (damaged ids are
ids, a queue has room for one), `DaemonAssumption` (`NoFile` is not a file, at
least one attempt, the delays do not overflow).

The argument has three layers, each inductive relative to those before it.

* `TypeInv` is `TypeOK` and what a program counter says of a worker's hands
  (`HandsOK`): a busy worker holds a file, one that publishes has a next file of
  the same task and one of three directories to put it in.  `NoOrphan` is
  inductive relative to it.
* `LedgerInv` is about what is on record.  `OutcomeHonest` is not inductive: `done/`
  receives a file its worker decided on two steps earlier, and `failed/` a count
  that travelled through names, workers and restarts.  The strengthening says
  that the attempts written in every live file and in every worker's hands are
  covered by `errors` (`Known`), that a worker on its way to `done/` has seen its
  task succeed, and that one on its way to `failed/` carries an exhausted count.
* `DurableInv` is about the disk.  `NothingLost` is not inductive either: `Unlink`
  removes a file, and it must be known that something else of the task remains.
  The strengthening says that a worker about to unlink is `Superseded`: an outcome
  is on record, or a live copy with a LATER stamp is.  Stamps only grow along
  claims, retries and recoveries, so that no other worker's remove takes the copy
  this one relies on, however many duplicates crashes have made; that the stamp
  of a retry is later than the one it replaces is where `MinRun > 0` is used.

`DeliveredOnce` and `RetryBudget` need the opposite kind of invariant, exact
instead of at least.  `OnceInv` says, as long as nothing has died or failed, that a task has one
place, a file in `pending/`, a worker or an outcome (`OneCopy`); that the attempts
written there are the failures, not only covered by them (`AttemptsCounted`); that nothing has happened
yet to a task that is still being enqueued (`Untouched`); and that a process starts on an empty `running/` (`AtRest`),
without which recovery would bring back what a worker holds.  `MinRun` plays no part: the names
coincide only for a task that has one file anyway, whose loss is `NothingLost`'s concern.

The refinement maps every action to one of the abstract queue's or to a
stutter: `EnqueuePublish` to `Accept`, `RunSucceeds` to `Succeed`, a `Publish`
into `done/` or `failed/` to `Record`, `Unlink` to `Retire` or a stutter, and a
`Publish` into `pending/` to `Requeue` or a stutter.

Only model-checked: the liveness properties `EventuallyDecided`, `ShutdownCompletes` and
`AdmissionReopens`, which are out of the prover's reach.

### What the model leaves out

* The content of tasks, HTTP parsing and the bearer token of the webhook.
* The wall clock is assumed not to step back: a step back of the clock by more
  than a run would give a retry an older name, which the code orders first but
  does not lose.
* `fsync`: `WriteFile` and `Rename` are taken to be on disk when they return.  A
  power failure may leave an empty or truncated file; that is what `Damaged`
  stands for.
* The `.tmp` files of `done/` and `failed/`, which nobody reads.
* Two processes on one queue directory.

## 4. The agent loop

### Modules

`AgentLoop` has one session: its messages (`memory`), the copy in the store
(`saved`), and the turn that works on them.  `pc` says where `Agent.Run` stands:

| `pc` | in the code | actions from there |
|---|---|---|
| `idle` | no turn | `StartTurn` (`ExecuteIn`: the user's message is added), `Reload` (`SwitchSession`, or another process) |
| `top` | head of the loop: iterations, `PreLLMCall` and `ContextFull` hooks | `Ask`, `GiveUp` |
| `send` | `Client.Send` and the `PostLLMCall` hook | `ModelFails`; on a reply `EndTurn`, `Cut`, `CaptureOutput`, `CallTools` |
| `gate` | first loop of `executeTools`: lookup, `PreToolUse` hook, policy | `Refuse`, `Pass`, `RequestPermission`, `GateDone` |
| `ask` | `PermissionManager.check` waiting | `Permit`, `Deny`, `AskCancelled` |
| `spawn`, `wait` | the safe tools in goroutines, `wg.Wait` | `Spawn`, `Returns`, `AllReturned` |
| `serial` | the risky tools, one by one | `RunNext`, `Returns`, `SerialDone` |
| `fill` | results written to memory, `return ctx.Err()` | `WriteResults` |

`Interrupt` (a `Cancel`, or the deadline of `WithTimeout`) may come at any moment
of a turn; each `ctx.Err()` of the code is a guard on `ctx` in the action that
looks at it, and nowhere else.  How a turn ends is `Finish`: `ok` and `cancelled` save
the session, `error` does not, so that the memory of the process and the store may
differ when the next turn starts.

A message is its role, the calls of a reply with its stop reason, or the index of
the call a result answers; texts and inputs are left out.  Hooks, model and tools
are outside: their outcome is a choice.  The
tools without an executor (`Unknown`) and those of risk none (`Safe`) are constants.  `pending`,
`running` and `result` are the locals of `executeTools`; `started` and `denied` are
history, for the properties.

`MCAgentLoop` has the replies and `AgentLoopProofs` the theorems.

### Runs

| run | shows | instance |
|---|---|---|
| `agent_turn` | `TypeOK`, `AnsweredInOrder`, `RefusedNeverRuns`, `RiskyAlone`, `ResultsAreTrue`, `OutputIsValid`, `TurnEnds` | 2 turns of 2 iterations, 7 replies, a final tool; 373,078 states |

Bounds.  `MaxTurns = 2` lets a turn begin on what an interrupted or failed one left in
memory or, after `Reload`, in the store; `MaxIterations = 2` lets the loop go round
and be used up.  The replies are one of each kind the code tells apart: a free
text, one cut by the token limit with a call in it, an unknown tool, a risky call
before a safe one, a safe one before two risky, and the final tool beside another
call, and a reply that ends the turn although a call is in it, which the adapters let through
(`llm/openai/client.go:288`, `llm/anthropic/client.go:280`).  Two risky calls are what order and exclusion need, one of each kind what the
two phases need.

Fairness (`FairSpec`).  Weak fairness of the turn's own steps: the goroutine is
runnable, and a model call returns or fails (the adapters have timeouts).  Weak
fairness of the tools' return, for the same reason.  None of a user who answers a permission
request: `TurnEnds` allows a turn to wait there for ever, unless it is cancelled
or its time is over.

### Proofs

`AgentLoopProofs` proves, for any tools, replies and bounds that satisfy
`AgentAssumption` (calls are of tools, a reply has any number of them with any of the three stop reasons):

| theorem | states |
|---|---|
| `TypeCorrect` | `Spec => []TypeOK` |
| `ConversationIsAnswered` | `Spec => []AnsweredInOrder` |
| `RefusalIsFinal` | `Spec => []RefusedNeverRuns` |
| `RiskyToolsRunAlone` | `Spec => []RiskyAlone` |
| `ResultsSayWhatHappened` | `Spec => []ResultsAreTrue` |
| `OutputIsNeverSkipped` | `Spec => []OutputIsValid` |

* `TypeInv` is `TypeOK` and the shape of a batch (`ToolsOK`): inside `executeTools` the
  last message is a reply with tool calls and there is one result slot per call;
  tools run only in the two phases that run them (`RunningOK`).
* `PhaseInv` is relative to it.  `RefusedNeverRuns` is not inductive, since what is
  started comes from `pending`, which the gate filled: `GateInv` says the gate decides
  each call once and one way.  `ResultInv` says what each result slot means at every
  step, of which `ResultsAreTrue` is the case at the end.  `OrderInv` says that while
  the context lives every safe call is started before the risky phase, without
  which `RiskyAlone` would not survive `RunNext`.
* `ConversationInv` says that inside `executeTools` the memory is a well answered
  conversation followed by the open reply.  The lemmas on sequences before it say
  that a well answered conversation stays one when a user's message or a reply
  with its answers is put after it; `FinalCallIsACall` finds the first final call
  by well-foundedness of the natural numbers.

`TurnEnds` is only model-checked: liveness is out of the prover's reach.

### What the model leaves out

* What the hooks do to the copy of the messages that is sent (system prompt,
  trimming): see the finding on trimming below.
* `ClearMemory`, which may be called between turns and leaves an empty conversation.
* Several turns at a time on one memory (two connections, two workers).  The event
  channel and its consumer are in `Conversation`.
* Replies with a stop reason other than the three that the adapters produce.

## 5. The conversation

### Modules

`Conversation` has one session of the server and all who use it: WebSocket
connections (`Socket`), one-shot requests (`Rest`) and the runs (`Run`) they start.

| state | in the code | actions |
|---|---|---|
| `entry`, `busy` | `sessionManager`: the entry in the map, the count of its users | `Connect` (acquire), `Hangup` and `ChatOver` (release), `Sweep`, `Delete` |
| `here`, `reader` | the client, and `Server.handleTurn` in `conn.reader` | `Input`, `Refuse`, `Refused`, `Answer`, `Cancel`, `Leave`, `ReadFails`, `Shutdown`, `Hangup` |
| `writer`, `outbound` | `conn.writer` and its channel | `Deliver`, `WriterQuits` |
| `turn`, `at`, `handing`, `running` | the goroutine of `conn.runTurn` | `StartRun`, `StoreCancel`, `Forward`, `Send`, `TurnOver`; for a chat `Chat`, `ChatOver` |
| `pending` | `conn.pending` and its timers | `Forward`, `Answer`, `TimesOut`, `Shutdown` |
| `phase`, `live`, `events`, `recorded` | `ExecuteIn`'s goroutine, its context, its channel, its record | `Token`, `RunEnds`, `Finish`, `Report` |
| `call`, `reply`, `always` | `PermissionManager.check` in the calls of the run and its sub-agents | `Check`, `Request`, `Decided`, `Abandoned` |

A channel is a sequence with a capacity, and who sends to a full one waits in a state
of its own, which is where the deadlocks would be.  `StartRun` and `StoreCancel` are two
steps because `Execute` stores the cancel function after `ExecuteIn` has started the
run; `RunEnds` and `Finish` are two because `finishRun` reads the journal field twice while
`Close` may clear it.  The panic that follows is the outcome `down`.

### Runs

| run | shows | instance |
|---|---|---|
| `conversation` | `GrantedByTheClient`, `AnswersNeverBlock`, `KeptWhileInUse`, `EndsAreRecorded` | a socket and a chat, two runs that ask once each, channels of one place |
| `conversation_live` | `TurnAnswered`, `LeftIsReleased`, `AskedIsDecided` | a socket, a run with a token and two calls that ask in parallel |
| `conversation_left` | violation of `NeverWaitsForever`: the client that leaves while an error waits for room | a socket, a run with a token and one call |

Bounds.  Channels have one place, where the code has 32: every full channel is then
reached with few messages, and nothing in the code looks at how many are in
one.  Two runs are what an interleaving of two turns needs; `RunLeft` keeps one for
each chat.  A run says at most one token, at its start: it fills the channel before a
request, the case that matters.  Deadlock is not checked: the clients may stop at any time.

Fairness.  Weak fairness of every goroutine, of the timers (ten minutes pass) and of the
writer while its client is connected; strong fairness of the sends to a channel, whose
waiters Go serves first in, first out.  Nothing makes a client answer, cancel or leave.
`LeftIsReleased` and `AskedIsDecided` except the state `Stuck`, which `conversation_left` shows.

### Proofs

`ConversationProofs` proves for any connections, calls and channel capacities
(`ConversationAssumption`: sockets and chats are different and finitely many, a channel has room for one):

| theorem | states |
|---|---|
| `TypesAreKept` | `Spec => []TypeOK` |
| `SessionIsKept` | `Spec => []KeptWhileInUse` |
| `EndsAreAlwaysRecorded` | `Spec => []EndsAreRecorded` |
| `OnlyTheClientGrants` | `Spec => []GrantedByTheClient` |
| `AnsweringNeverBlocks` | `Spec => []AnswersNeverBlock` |

* `TypeInv` is `TypeOK`, `KeptWhileInUse` and `Seated`: a turn under way has a run, and a chat is counted
  for as long as its turn lasts.  The three go together, since the types of the count depend on who is counted.
* `EndsInv` adds the goroutine that has ended and not yet reported.
* `GrantInv` adds what an allowance passes through: an answer between the reader and the call, and the
  tools always allowed, were said by the client.
* `AnswerInv` is the one that took work.  That the reader or a timer finds room for an answer
  follows from where a request is: in the event channel (`InTransit`), in `pending` of one connection, or answered, and
  never in two of these.  The lemmas about it are about sequences of events, whose heads move to the connections.

### What the model leaves out

The age of a session (a sweep may come whenever nobody uses it), the ids of requests, the
authentication, the routes that list and replay runs, and `POST /chat` without a session, which has
a runtime of its own.  `Runtime.Close` is one step with the removal from the map.  A timer or
an answer that finds its request gone changes nothing and is a stutter.

## 6. Flows

### Modules

`Flow` has a state directory and the processes that work in it, one after the other.  A file
is its modification time.  `Start` begins a process on some input; `PlanEach` and `PlanWhole` are
make's rule; `StartOne`, `RunSucceeds`, `RunFails` and `Leave` are the goroutines of
`mapRecords` with its semaphore, `StopStarting`, `MapEnds` and `MapStops` its main loop;
`Make`, `WriteOne`, `RemoveOne` and `Mark` are a whole step and `stepStore.replace` write by write;
`HandOn` reads the records back and prints the result.  `Interrupt` is Ctrl-C, `Kill` a death at any
step, `Edit` the user who deletes a result or a marker.  `Validate` and `ParseRecords` decide which
flows and inputs start at all.  `Batch` is `mani batch`: a flow of one step.

### Run

| run | shows | instance |
|---|---|---|
| `flow` | `UpToDate`, `FinishedIsQuiet`, `BudgetHolds`, `FlowEnds` | 3 processes, 2 records, four flows that validate and a batch (agents, a command, an aggregation; three with a budget), two that do not, one deletion, one sample (`--limit`) |

`UpToDate` is the abstract promise of make, stated on histories of what was really read (`madeFrom`,
`readAll`) and not on times.  Its provisos are in the comment, and each is there because
the code breaks the promise without it.

Bounds.  Three processes are one that is stopped, one that resumes and one that should find nothing to
do.  Two records and two jobs are what a race for the budget needs.  Every write has a time of its own:
files of one file-system tick are not told apart by the code, which then takes them for fresh.

Fairness.  Weak fairness of the main goroutine and of each record's: a run ends, because the agent
loop does.  None of starting a process, of interrupting or editing.  Deadlock is not checked: after the last
process nothing happens.

### Proofs

`FlowProofs` proves for any flows, inputs, records, prints and bounds (`FlowAssumption`: finitely many
records, steps of the types of the Go struct):

| theorem | states |
|---|---|
| `FinishedStepsAreUpToDate` | `Spec => []UpToDate` |
| `FinishedFlowsAreQuiet` | `Spec => []FinishedIsQuiet` |
| `BudgetIsKept` | `Spec => []BudgetHolds` |
| `TypesHold` | `Spec => []TypeOK` |

* `BudgetInv` adds to `BudgetHolds` that no more goroutines are in flight than the step has jobs.  `BudgetHolds`
  bounds the overshoot by the jobs of SOME step so far, not by those of the current one: the proof failed on that
  form, which is false when a step with many jobs overshoots and one with fewer resumes after it.  `Digest`, one
  of the flows of the run, is such a flow.
* `UpToDate` speaks of finished steps and of what they really read; the code compares times.
  What connects them is `RuleInv`: a record is made from the present version of its source, or is
  visibly older (`MadeInv`, `InputInv`); a whole step has read every record above it that is not newer than
  its marker (`ReadInv`); in the middle of a step each record is fresh, to do, in flight or failed (`MapInv`);
  the steps that are over have made all they should (`ProgressInv`).  `OutputInv` and `PrintInv` say what
  is handed on and printed.
* `ReadInv` cannot be stated of `Output`, what a step hands on: a marker or record that somebody deletes and a
  later step remakes changes it.  It is stated of `Alive`, what has not been superseded by anything newer above it.
  `Output` and `Alive` are recursive functions; that such a function exists and unfolds (`ChainExists`)
  and that a fact that passes from the steps above to a step holds for all (`UpTo`) are both derived from the least
  member of a set of natural numbers.
* `QuietInv` says what an undisturbed, finished flow looks like to the next process; no new fact is needed for it.

Left out: the text of records, progress output, provenance of each record, tokens spent by
sub-agents (their emitter is silent, so the code does not count them either).

## 7. Governance

`Governance` has one run as a tree of agents.  An agent is its path of delegating calls; `Root` has
all hooks, the others those of the permission gate and the journal, as `Runtime.Spawn` and `spawnNamed`
attach them.  `PreCall`, `Reply`, `Gate`, `Answer`, `Start`, `ToolReturns`, `ChildReturns` and
`WriteResults` are the loop of `AgentLoop` with less detail, and each runs the hooks of its point in the
order in which `builder.go` registers them: `OverCalls` and `OverTokens` are the budgets, `Verdict` the rules
and policies, `Masks` redaction, `Rec` the journal's.  `NoExecutor` is a call of a tool the sub-agent was not
given.

Every agent has a context of its own, `ctx`.  `WithToolTimeout` gives each call of a tool one, derived from
its agent's, and the context of a `delegate` is the sub-agent's.  `Stop` ends one and all those below it:
`Cancel` the root's, `Expire` the root's at `limits.max_duration` and a sub-agent's at `limits.tool_timeout`.
An agent looks at its own context only, so that a sub-agent may be over, with an error for the agent that called it, in a run
that goes on and ends well.  `refusals` counts, per agent, what the user or `policy.network` refused, and `cut` is
the history of the agents whose context ended while they had calls.

| run | shows | instance |
|---|---|---|
| `governance` | `BudgetHolds`, `CallsAccounted`, `Confined`, `EventsNest`, `InterruptedEnds` | four manifests, two levels of sub-agents, in parallel and in a chain; 643,038 states |

Bounds.  Two calls in a reply are two sub-agents at once, or a safe and a risky call, and the calls are one of each kind that
a hook tells apart.  Two levels, with a third refused, are what the rule on who may delegate needs (a sub-agent is given `delegate`
or not by its entry, and then uses it or not), and what a context in the middle of the chain needs, which ends before or after the one
below it.  The manifests are: a limit of tokens, with a sub-agent that lists no tools; a limit of calls, with two sub-agents at once; a
sub-agent that lists `delegate`; and no team, where two sub-agents at once have sub-agents of their own.  The first two have two
iterations, as the limits are looked at in the next one, the others one.

Fairness.  Weak fairness of each agent's steps and its tools; none of the user's answers.

### Proofs

`GovernanceProofs` proves for any tools, policies, manifests, replies and depth (`GovernanceAssumption`:
`Width` is the length of the longest reply, a `delegate` is not risky, limits are natural numbers; `BoundsAssumption`):

| theorem | states |
|---|---|
| `BudgetIsKept` | `Spec => []BudgetHolds` |
| `SubAgentsAreConfined` | `Spec => []Confined` |
| `RecordIsATree` | `Spec => EventsNest` |
| `EveryCallIsAccounted` | `Spec => []CallsAccounted` |
| `TypesHold` | `Spec => []TypeOK` |

* `TreeInv` is `TypeOK`, `Chain` and `Shape`.  `Chain` says that for every agent that is running each ancestor waits,
  in the call that leads to it; it is what lets an action of one agent be known to leave the others alone.  `Shape` says
  what the results of a reply are at each `pc`, and which calls the journal has open.  The end of a context (`Stop`) changes
  neither (`QuietStep`).
* `Confined` follows with `CleanRoot`, which says that what makes a conversation dirty never reaches the root.
* `BudgetInv` adds to `BudgetHolds` what is decided and not yet counted.  The limit on calls is compared before a request
  only, so that it is passed by the calls of one reply, of any length: `CallsInv` says that the counter is past the limit by no
  more than the calls that have gone through the gate, and covers the results and the calls still open, both counted as sets (`FewCalls`,
  `OneMore`, `CallMoves`).  `TokensInv` says that tokens pass the limit by one reply at most, at which the run is over.
* `EventsNest` is an action property: an event of a sub-agent falls between the call that delegated to it and its
  result, and none comes after the end of the run.  It follows from `TreeInv` step by step.
* `CallsAccounted` is stated of each agent by itself.  `AccountInv` is the balance of which it is the end: outside `cut`, an
  agent's `tool_call` events are its results, its verdicts, its refusals and its open calls (`Balanced`).  An end of
  the context breaks the balance of an agent among its calls, since what it ends has no `tool_result`; such an agent is in
  `cut`.  One that was not among its calls makes none any more (`CutInv`), and a root that is in `cut` does not end well.  That a
  sub-agent ends as cancelled only if the whole run was cancelled is `CancelledAll`: without it `delegate` could drop a result of a
  parent that goes on.

`InterruptedEnds` is liveness, and only model-checked.

Left out: the patterns of rules (a call matches or not), the price of a reply (one token).  The timeout of a tool
other than `delegate` is one of the reasons for which it returns an error (`ToolReturns`); tools return when their context ends.

## 8. The journal

`Journal` has the runs of one runtime, written by several goroutines each to the ring in memory and then to one
of two backends.  `Start`, `AppendEvent` and `Finish` are the fan-out to memory (`Push` evicts, `Apply`
folds); then `Number` and `WriteLine` are the two steps of `JSONLJournal.writeEvent`, and `Insert` the transaction of
the SQLite journal with its header (`UpdateMeta`) and, at a start, its trim.  `Open`, `Scan`, `Backfill` and
`Prune` open a database; one without headers is among the initial states.  `Close` may come under
running runs, `WriteFails` is an error that is logged, `Crash` a death that may tear the last line of any file.

| run | shows | instance |
|---|---|---|
| `journal` | `ListAgreesWithGet`, `SinksAgree`, `DiskIsThePast`, `NewestKept` | 3 runs, 2 goroutines beside the main one, retention 1, both backends, a crash, an I/O error |

Bounds.  Retention 1 with three runs makes two evictions, one of a run that still writes; the first run's goroutines
write three events between them, so that two are numbered and not yet written at once.  Deadlock is not
checked: the runs end.

### Proofs

`JournalProofs` proves for any number of runs, goroutines and events, any retention, outcomes and bounds
(`JournalAssumption`: the types of the constants, finitely many goroutines, a retention of at least one, as
`journalRetention` gives):

| theorem | states |
|---|---|
| `TypeCorrect` | `Spec => []TypeOK` |
| `ListIsGet` | `Reader = {} => (Spec => []ListAgreesWithGet)` |
| `NewestAreKept` | `Reader = {} => (Spec => []NewestKept)` |
| `ThePast` | `Reader = {} => (Spec => []DiskIsThePast)` |
| `SinksAreOne` | `Reader = {} => (Spec => []SinksAgree)` |

`Reader = {}` is the run's own setting: nobody but the runtime opens the database.  It is needed: two openers
of a database without headers back-fill it twice (section 10).

* Headers are folds of events (`Replay`, `Refill`), written as recursive functions; that such a function exists
  and unfolds at its last event (`FoldExists`, `ReplayProperties`, `RefillProperties`) is derived from the least number
  at which it does not.  `ApplyProperties` is that the replay of an event in Go (`RunRecord.apply`) and its UPDATE
  in SQL (`updateRunMeta`) do the same to a header.
* `RowInv`: a database is that of an older version, without a header and back-filled as a whole (`Before`), or it has a
  header for every run with events, the one they give (`Settled`).  A row without a start, of a run trimmed while
  it was writing, is among the second.
* `NewestInv` says that a header's start is its run's number (`Sound`), and that an entered run without a whole header has
  retention newer ones (`Outlived`); that a trim keeps this is `TrimKeepsNewest`, a count of what is newer than a run.
* `Control` says where the writers are at each `pc`: nothing of a run is anywhere before its start is written, the end
  comes when all its goroutines are done.  It holds with any `Reader`.
* `PastInv` strengthens `DiskIsThePast` to what is numbered and not yet written: numbers are given once (`Numbering`),
  in each writer's order (`InTurn`), after the start's (`Opens`) and before the end's (`Ends`), and what
  a goroutine has handed over is on disk or in its hands (`NoGap`).
* `SinksInv`: the memory's header is the disk's plus what is on its way (`Ahead`), event by event.  It is stated of the
  runs whose start is on its way or on disk (`Followed`), for the trim may take any other.

Left out: the payload of events and results, subscriptions, the filters of `List`.  A run's
number is its order, its id and its time stamp.

## 9. Manifest and triggers

`Manifest` has no variables: `Readable` and `Valid` are what loading and `Validate` accept, one
operator for each section, and `BuildProblems` and `DaemonProblems` are the reasons for which building may
still refuse.  A text is one of the few forms a check tells apart.  The machine is its configuration file, its
environment and the directories that cannot be used (`unusable`): `JournalOpens` and `QueueOpens` fail on those, and stand for every error
of making the directory, opening the database and back-filling it.  Which directories these are does not change while a behaviour lasts.

`Triggers` is `mani run` without a task: `LoadManifest`, `Build`, `BuildDaemon` and `Recover`, then the goroutine that
catches up (`CatchUp`, `CatchUpMark`), one for each clock (`Arm`, `Fire`, `Mark`), that of the webhooks (`Listen`, `Post`) and a
worker (`Claim`, `RunSucceeds`, `RunFails`) over the in-memory queue or, abstractly, the durable one
of section 3.  `Die` may come between any two.  Time is counted in hours, and a day is the sequence of hours its
clock shows, so that a day may lack an hour or have one twice; what `time.Date` makes of such an hour is
unspecified by its documentation and either choice here (`pick`).

`Listen` is `runWebhook`: it registers the routes, and then `listener` is open, or failed if the address cannot be had, which the daemon
logs and survives without routes.  `http.ServeMux` panics on what is no pattern and on two routes that match the same
requests; its rule is external here (`RoutesServed`, `Clash`).  `Validate` looks for a leading slash and for routes written
twice only, and so a manifest that validates may still panic: `ValidatedStarts` says that routes of these kinds, and an `every` of zero, are the only
way, and that a daemon refuses such a manifest only for what validation cannot know or does not look at.

| run | shows | instance |
|---|---|---|
| `triggers` | `OccurrencesServed`, `AcceptedIsInOnePlace`, `ValidatedStarts` | three days, the middle one short, plain or long; two dailies, or an `every` and a webhook; a death; and some thousand manifests, good and bad routes and unusable directories among them, that are only read, built and started |
| `triggers_midnight` | violation of `TimersAreAhead` | a daily trigger at midnight on a day that begins at one |

Bounds.  A day has three hours instead of 24: one before, one at and one after the trigger's are all that the
arithmetic tells apart.  One death can fall before, between and after enqueue and mark; `MaxSlips` lets one hour
pass while the daemon starts.

Fairness: none; the properties are invariants.  Deadlock is not checked: time ends, and refused
manifests stop at once.

### Proofs

`TriggersProofs` proves for any manifests, machines, calendars and bounds (`InstancesAssumption`: the types of
the Go structs; `CalendarAssumption`: a day shows some hour, and the interval of a ticker that `time.NewTicker` takes is
positive):

| theorem | states |
|---|---|
| `TasksAreInOnePlace` | `Spec => []AcceptedIsInOnePlace` |
| `ValidManifestsStart` | `Spec => []ValidatedStarts` |
| `OccurrencesAreServed` | `Spec => [](HoursInDays => OccurrencesServed)` |
| `TimersRunAhead` | `Spec => [](HoursInDays => TimersAreAhead)` |

* `PlaceInv` is `AcceptedIsInOnePlace` with the types of the queue and the worker's hands.  The lemmas count the members of
  a sequence before and after a task is taken from its middle.
* `StageInv` says what a process has come past at each stage; what remains is about `Valid`, `BuildProblems`,
  `DaemonProblems` and the routes (`RoutesRefused`), without any state.  The proof found one conjunct of `ValidatedStarts` too strong: `Validate` compares the
  addresses of webhooks only, so that another trigger's is free.  The property and its comment now say so.

* `HoursInDays` is the hypothesis of the last two: the clock of no day starts after, or ends before, the hour of a daily
  trigger.  Any other irregularity is allowed, in any number of days: hours that are left out or shown twice, and days as
  long or short as you like.  It cannot be dropped: the run `triggers_midnight` violates `TimersAreAhead` on a day that
  starts one hour late (section 10).  Manifest and days never change, so the hypothesis is true always or never.
* The calendar comes first.  `Begins` is recursive, `Earliest`, `Latest` and `Day` are choices: that they exist is shown from
  the least element of a set of numbers (`LeastExists`), without induction.  Then `BeginsGrow` (days follow each other),
  `DayOf` (each hour is in one), `OccurrenceInDay` (under the hypothesis the occurrence of a day is in it, and between the
  candidates), and `NextIsFirst` and `PreviousIsLast`: the two functions of `daemon.go` find the first occurrence after
  an hour and the last that is not after it.
* `ScheduleInv` is the inductive invariant, in four parts.  `ClockInv`: timers run only once
  `catchUp` is done, each for the first occurrence after it was armed, and nothing was handed over since.  `DayInv`, for
  `OncePerDay`: in a day that began after the last timer was armed, a trigger was handed over once if its occurrence
  is before its timer, and not at all otherwise.  `MissInv`, for `MissedIsServed`: what the record says was handed over at
  that hour, or at one since which only hours of a start have passed; once `catchUp` is past a trigger, each occurrence
  up to now was handed over, fell into a start, or the timer is already due for it.  `TwiceInv`, for `NotServedTwice`: an occurrence
  for which the record says nothing was handed over no more often than there were deaths that made the record stale.

Left out: bodies and tokens of requests beyond their presence, minutes (a trigger is at an hour), several
workers (section 3 has them).

## 10. Findings

With a run:

* **A retry can delete its own task** (`queue_lost`, `app/queue.go:203`).  With
  `backoff: 0s`, or a shutdown in the millisecond of the claim, the new name is the
  old one; another worker that claims it between the rename and the remove has
  its file deleted.  `docs/content/docs/guides/triggers.md:108` promises that a
  task killed mid-way is picked up by the next start.
* **A connection may never be taken down** (`conversation_left`, `server/ws.go:71`).  An input
  during a turn is refused through the same channel the turn writes to.  If the client then leaves with the channel full,
  the writer is gone, the reader waits for room and never reads the end of the
  connection.  `docs/content/docs/guides/service.md:87` says a run never waits forever on a human who left.
* **A daily trigger at a midnight that does not exist** (`triggers_midnight`, `app/daemon.go:405`) gets a next
  occurrence in the past: the timer fires at once, again and again, until the day is over.  `app/daemon.go:404`
  says strictly after now.

Without a run.  Those marked with a property can be seen by adding that line to a
configuration:

* **`max_pending` may be exceeded** (`app/queue.go:107`): the count and the write are not one
  step; `triggers.md:112`.  `INVARIANT PendingWithinMax` in `queue_steady.cfg`.
* **A task may be in two directories** (`app/queue.go:188`): `CONTEXT.md:80` says a transition is one atomic rename; only
  Claim and Recover are.  At-least-once delivery survives it.  `INVARIANT OneDirectory` in `queue_crash.cfg`.
* **Tool calls may stay unanswered** (`core/agent.go:98`, `:113`, `:129`): the final tool answers only its own call; a cut reply
  and a reply that ends the turn although it has calls answer none.  The comment at `core/agent.go:285` describes a function that
  nothing calls.  `AnsweredInOrder` says these three cases are the only ones.  `INVARIANT EveryCallAnswered` in `agent_turn.cfg`.
* **Appending a line is not always safe** (`app/flow.go:112`): a step that reads the input as a whole is not made
  again; `reference/flow.md:142`.  `INVARIANT AppendingIsSafe` in `flow.cfg`.
* **Two openers back-fill twice** (`app/sqlite_journal.go:256`).  `Reader = {"reader"}` in `journal.cfg`.
* **A validated route may panic** (`app/daemon.go:286`): `/a b` or `/{`, or `/{a}` beside `/{b}`, when the routes are registered.
* **A daemon may run without its webhooks** (`app/daemon.go:276`): an address that cannot be listened on is an error in the log;
  `docs/content/docs/guides/triggers.md:74` promises every webhook its route.
* The others (PostToolUse errors, compaction, lost cancels, the refused input after `done`, what budgets, retention and
  redaction do not reach, the sources of triggered runs, catch-up without a path, `every: 0s`, the shared temporary file, the
  journal cleared under a run) are in `PROJECT.json`, each with the line of the code and the line of the
  documentation it disagrees with.

## 11. What is proved and what is only checked

Proved, for all values of the constants: the theorems of sections 3 to 9, each from the invariant its section describes.
TLC finds these invariants true on the instances of the runs as well (those of flows on two processes).

Every safety property of a passing run is proved, some under a hypothesis that the section names (no other process at the
database in section 8, `HoursInDays` in section 9).  Only model-checked, on the instances above: the liveness
properties, which are out of the prover's reach.

The SMT encoding of this tlapm has a fact about sequences that is true only of sequences (`0 <= Len(s)` for any `s`).  So that no
leaf rests on it, all proofs were also run with that fact restricted to sequences; they pass both ways.

Every property of a passing run is paired with a mutated definition of the model (`Mutant...` in the
modules), which that run reports.

## 12. Not modelled

Everything `PROJECT.json` lists as `not_modelled`, with its reason: schema validation, the session store, the
tools, the LLM adapters, the MCP server, observation, the terminal UI and the command line.  They
are sequential, external or presentation.  What the partly modelled components leave out is named in their notes.
