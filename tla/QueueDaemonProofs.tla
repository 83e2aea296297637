------------------------- MODULE QueueDaemonProofs -------------------------
(***************************************************************************)
(* Theorems about QueueDaemon, for any tasks, workers and bounds: types,   *)
(* what the queue records, and that it loses nothing.                      *)
(***************************************************************************)
EXTENDS QueueDaemon, TLAPS

\* What a worker has in hand: the file it claimed and, once its run has ended, the file it
\* publishes, which is of the same task.
HandsOK ==
    \A w \in Worker :
        /\ Running(w) => held[w] \in File
        /\ wpc[w] \in {"write", "publish", "unlink"} =>
              /\ next[w] \in File
              /\ next[w].id = held[w].id
              /\ goal[w] \in {"pending", "done", "failed"}

TypeInv == TypeOK /\ HandsOK

LEMMA InitTypeInv == Init => TypeInv
  BY DaemonAssumption, QueueAssumption
     DEF Init, TypeInv, TypeOK, HandsOK, QueueInit, QueueTypeOK, File, State, Mode, Submit,
         WPC, Busy, Running

\* The directories keep their type under every operator of FileQueue.
LEMMA QueueTypes ==
    ASSUME QueueTypeOK, NEW f \in File, NEW s \in State,
           \/ Stage(s, f) \/ Land(s, f) \/ Remove(f) \/ Take(f) \/ Quarantine(f) \/ PutBack(f)
           \/ UNCHANGED queueVars
    PROVE  QueueTypeOK'
<1>1. CASE Stage(s, f)
  BY <1>1 DEF Stage, QueueTypeOK, Name, File
<1>2. CASE Land(s, f)
  BY <1>2 DEF Land, QueueTypeOK, Put
<1>3. CASE Remove(f)
  BY <1>3 DEF Remove, QueueTypeOK, Drop, State
<1>4. CASE Take(f)
  BY <1>4 DEF Take, QueueTypeOK, Put, State
<1>5. CASE Quarantine(f)
  BY <1>5 DEF Quarantine, QueueTypeOK, Put, Drop, State
<1>6. CASE PutBack(f)
  BY <1>6 DEF PutBack, QueueTypeOK, Put, State
<1>7. CASE UNCHANGED queueVars
  BY <1>7 DEF queueVars, QueueTypeOK
<1> QED
  BY <1>1, <1>2, <1>3, <1>4, <1>5, <1>6, <1>7

\* The file an enqueue writes.
LEMMA NewFileType ==
    ASSUME TypeOK, NEW t \in Task
    PROVE  NewFile(t) \in File
  BY DEF TypeOK, NewFile, File

\* What a failed run leaves to write: the same task, one attempt later, and not dated before
\* the present unless it keeps its date.
LEMMA FailedFile ==
    ASSUME NEW f \in File, now \in Nat
    PROVE  /\ Failed(f) \in File
           /\ Failed(f).id = f.id
           /\ Failed(f).attempt = f.attempt + 1
           /\ Failed(f).attempt < MaxAttempts => Failed(f).at >= now
<1> DEFINE n == f.attempt + 1
<1>1. n \in Nat \ {0}
  BY DEF File
<1>2. CASE n >= MaxAttempts
  <2>1. Failed(f) = [f EXCEPT !.attempt = n]
    BY <1>2 DEF Failed
  <2> QED
    BY <1>1, <1>2, <2>1, DaemonAssumption DEF File
<1>3. CASE ~(n >= MaxAttempts)
  <2>1. Failed(f) = [f EXCEPT !.attempt = n, !.at = RetryAt(n)]
    BY <1>3 DEF Failed
  <2>2. n \in 1..MaxAttempts
    BY <1>1, <1>3, DaemonAssumption
  <2>3. RetryAt(n) \in Nat /\ RetryAt(n) >= now
    <3>1. Delay(n) \in Nat
      BY <2>2, DaemonAssumption
    <3> QED
      BY <3>1 DEF RetryAt
  <2> QED
    BY <1>1, <2>1, <2>3 DEF File
<1> QED
  BY <1>2, <1>3

LEMMA NextTypeInv == TypeInv /\ [Next]_vars => TypeInv'
<1> SUFFICES ASSUME TypeInv, [Next]_vars PROVE TypeInv'
  OBVIOUS
<1>0. TypeOK /\ HandsOK /\ QueueTypeOK
  BY DEF TypeInv, TypeOK
<1> USE DEF TypeInv, HandsOK, Running, WPC, Busy, Mode, Submit
<1>1. ASSUME NEW t \in Task, EnqueueStep(t) PROVE TypeInv'
  <2>1. NewFile(t) \in File /\ "pending" \in State
    BY <1>0, NewFileType DEF State
  <2>2. CASE EnqueueCheck(t)
    <3>1. QueueTypeOK'
      BY <1>0, <2>1, <2>2, QueueTypes DEF EnqueueCheck
    <3> QED
      BY <1>0, <2>2, <3>1 DEF EnqueueCheck, TypeOK, daemonVars, workerVars, historyVars, boundVars
  <2>3. CASE EnqueueWrite(t)
    <3>1. QueueTypeOK'
      BY <1>0, <2>1, <2>3, QueueTypes DEF EnqueueWrite
    <3> QED
      BY <1>0, <2>3, <3>1 DEF EnqueueWrite, TypeOK, daemonVars, workerVars, historyVars, boundVars
  <2>4. CASE EnqueuePublish(t)
    <3>1. QueueTypeOK'
      BY <1>0, <2>1, <2>4, QueueTypes DEF EnqueuePublish
    <3> QED
      BY <1>0, <2>4, <3>1 DEF EnqueuePublish, TypeOK, daemonVars, workerVars, historyVars, boundVars
  <2>5. CASE EnqueueFails(t)
    <3>1. QueueTypeOK'
      BY <1>0, <2>1, <2>5, QueueTypes DEF EnqueueFails
    <3>2. clean' \in BOOLEAN
      BY <2>5, Zenon DEF EnqueueFails
    <3>3. TypeOK'
      BY <1>0, <2>5, <3>1, <3>2 DEF EnqueueFails, TypeOK, daemonVars, workerVars, historyVars
    <3> QED
      BY <1>0, <2>5, <3>3 DEF EnqueueFails, workerVars
  <2> QED
    BY <1>1, <2>2, <2>3, <2>4, <2>5 DEF EnqueueStep
<1>2. ASSUME NEW w \in Worker, WorkerStep(w) PROVE TypeInv'
  <2>1. CASE CheckContext(w)
    <3>1. QueueTypeOK'
      BY <1>0, <2>1 DEF CheckContext, queueVars, QueueTypeOK
    <3> QED
      BY <1>0, <2>1, <3>1 DEF CheckContext, Goto, TypeOK, daemonVars, submitVars, historyVars, boundVars
  <2>2. CASE Claim(w)
    <3>1. PICK f \in dir["pending"] : Take(f) /\ held' = [held EXCEPT ![w] = f]
      BY <2>2 DEF Claim
    <3>2. f \in File
      BY <1>0 DEF QueueTypeOK, State
    <3>3. QueueTypeOK'
      BY <1>0, <3>1, <3>2, QueueTypes DEF State
    <3> QED
      BY <1>0, <2>2, <3>1, <3>2, <3>3
         DEF Claim, Goto, TypeOK, daemonVars, submitVars, historyVars, boundVars
  <2>3. CASE Reject(w)
    <3>1. held[w] \in File
      BY <1>0, <2>3 DEF Reject, Rejected
    <3>2. QueueTypeOK'
      BY <1>0, <2>3, <3>1, QueueTypes DEF Reject, State
    <3> QED
      BY <1>0, <2>3, <3>2
         DEF Reject, Rejected, Goto, TypeOK, daemonVars, submitVars, historyVars
  <2>4. CASE ClaimNothing(w)
    <3>1. QueueTypeOK'
      BY <1>0, <2>4 DEF ClaimNothing, queueVars, QueueTypeOK
    <3> QED
      BY <1>0, <2>4, <3>1 DEF ClaimNothing, Goto, TypeOK, daemonVars, submitVars, historyVars, boundVars
  <2>5. CASE RunEnds(w)
    <3>1. held[w] \in File /\ now \in Nat
      BY <1>0, <2>5 DEF RunEnds, RunSucceeds, RunFails, RunCancelled, HandOver, TypeOK
    <3>2. QueueTypeOK'
      BY <1>0, <2>5 DEF RunEnds, RunSucceeds, RunFails, RunCancelled, HandOver, queueVars, QueueTypeOK
    <3>3. CASE RunSucceeds(w)
      BY <1>0, <3>1, <3>2, <3>3
         DEF RunSucceeds, HandOver, Goto, TypeOK, State, File, daemonVars, submitVars, boundVars
    <3>4. CASE RunFails(w)
      BY <1>0, <3>1, <3>2, <3>4, FailedFile
         DEF RunFails, HandOver, Goto, TypeOK, State, File, daemonVars, submitVars, boundVars
    <3>5. CASE RunCancelled(w)
      BY <1>0, <3>1, <3>2, <3>5
         DEF RunCancelled, HandOver, Goto, TypeOK, State, File, daemonVars, submitVars, historyVars,
             boundVars
    <3> QED
      BY <2>5, <3>3, <3>4, <3>5 DEF RunEnds
  <2>6. CASE Write(w)
    <3>1. QueueTypeOK'
      BY <1>0, <2>6, QueueTypes DEF Write, TypeOK
    <3> QED
      BY <1>0, <2>6, <3>1 DEF Write, Goto, TypeOK, daemonVars, submitVars, historyVars, boundVars
  <2>7. CASE Publish(w)
    <3>1. QueueTypeOK'
      BY <1>0, <2>7, QueueTypes DEF Publish, TypeOK
    <3> QED
      BY <1>0, <2>7, <3>1 DEF Publish, Goto, TypeOK, daemonVars, submitVars, historyVars, boundVars
  <2>8. CASE Unlink(w)
    <3>1. QueueTypeOK'
      BY <1>0, <2>8, QueueTypes DEF Unlink, TypeOK
    <3> QED
      BY <1>0, <2>8, <3>1
         DEF Unlink, PutDown, Goto, TypeOK, State, daemonVars, submitVars, historyVars, boundVars
  <2> QED
    BY <1>2, <2>1, <2>2, <2>3, <2>4, <2>5, <2>6, <2>7, <2>8 DEF WorkerStep
<1>3. ASSUME NEW w \in Worker, ClaimFails(w) PROVE TypeInv'
  <2>1. QueueTypeOK'
    <3>1. CASE UNCHANGED queueVars
      BY <1>0, <3>1 DEF queueVars, QueueTypeOK
    <3>2. ASSUME NEW f \in dir["pending"], Take(f) PROVE QueueTypeOK'
      BY <1>0, <3>2, QueueTypes DEF QueueTypeOK, State
    <3> QED
      BY <1>3, <3>1, <3>2 DEF ClaimFails
  <2>2. clean' \in BOOLEAN
    BY <1>3, Zenon DEF ClaimFails
  <2>3. TypeOK'
    BY <1>0, <1>3, <2>1, <2>2 DEF ClaimFails, Goto, TypeOK, daemonVars, submitVars, historyVars
  <2> QED
    BY <1>0, <1>3, <2>3 DEF ClaimFails, Goto, TypeOK
<1>4. ASSUME NEW w \in Worker, StepFails(w) PROVE TypeInv'
  <2>1. QueueTypeOK'
    <3>1. CASE UNCHANGED queueVars
      BY <1>0, <3>1 DEF queueVars, QueueTypeOK
    <3>2. CASE wpc[w] = "write" /\ Stage(goal[w], next[w])
      BY <1>0, <3>2, QueueTypes DEF TypeOK
    <3> QED
      BY <1>4, <3>1, <3>2 DEF StepFails
  <2>2. clean' \in BOOLEAN
    BY <1>4, Zenon DEF StepFails
  <2>3. TypeOK'
    BY <1>0, <1>4, <2>1, <2>2
       DEF StepFails, PutDown, Goto, TypeOK, State, daemonVars, submitVars, historyVars
  <2> QED
    BY <1>0, <1>4, <2>3 DEF StepFails, PutDown, Goto, TypeOK
<1>5. ASSUME NEW w \in Worker, RejectFails(w) PROVE TypeInv'
  <2>1. QueueTypeOK'
    BY <1>0, <1>5 DEF RejectFails, queueVars, QueueTypeOK
  <2>2. clean' \in BOOLEAN
    BY <1>5, Zenon DEF RejectFails
  <2>3. TypeOK'
    BY <1>0, <1>5, <2>1, <2>2
       DEF RejectFails, Rejected, Goto, TypeOK, daemonVars, submitVars, historyVars
  <2> QED
    BY <1>0, <1>5, <2>3 DEF RejectFails, Rejected, Goto, TypeOK
<1>6. ASSUME Stop \/ Return \/ Crash \/ Restart PROVE TypeInv'
  <2>1. QueueTypeOK'
    BY <1>0, <1>6 DEF Stop, Return, Crash, Die, Restart, queueVars, QueueTypeOK
  <2>2. CASE Stop
    BY <1>0, <2>1, <2>2 DEF Stop, TypeOK, submitVars, workerVars, historyVars
  <2>3. CASE Restart
    <3>1. clean' \in BOOLEAN
      BY <2>3, Zenon DEF Restart
    <3>2. TypeOK'
      BY <1>0, <2>1, <2>3, <3>1 DEF Restart, TypeOK, submitVars, workerVars, historyVars
    <3> QED
      BY <1>0, <2>3, <3>2 DEF Restart, workerVars
  <2>4. ASSUME Die, crashes' \in Nat PROVE TypeInv'
    <3>1. TypeOK'
      BY <1>0, <2>1, <2>4 DEF Die, TypeOK, State, historyVars
    <3> QED
      BY <2>4, <3>1 DEF Die
  <2>5. CASE Return \/ Crash
    BY <1>0, <2>4, <2>5 DEF Return, Crash, TypeOK
  <2> QED
    BY <1>6, <2>2, <2>3, <2>5
<1>7. ASSUME RecoverOne PROVE TypeInv'
  <2>1. PICK f \in dir["running"] : PutBack(f)
    BY <1>7 DEF RecoverOne
  <2>2. QueueTypeOK'
    BY <1>0, <2>1, QueueTypes DEF QueueTypeOK, State
  <2> QED
    BY <1>0, <1>7, <2>2
       DEF RecoverOne, TypeOK, daemonVars, submitVars, workerVars, historyVars, boundVars
<1>8. ASSUME RecoverDone \/ RecoverFails PROVE TypeInv'
  <2>1. QueueTypeOK'
    BY <1>0, <1>8 DEF RecoverDone, RecoverFails, StartWorkers, queueVars, QueueTypeOK
  <2>2. clean' \in BOOLEAN
    BY <1>0, <1>8, Zenon DEF RecoverDone, RecoverFails, TypeOK
  <2>3. TypeOK'
    BY <1>0, <1>8, <2>1, <2>2
       DEF RecoverDone, RecoverFails, StartWorkers, TypeOK, submitVars, historyVars
  <2> QED
    BY <1>0, <1>8, <2>3 DEF RecoverDone, RecoverFails, StartWorkers
<1>9. ASSUME Tick PROVE TypeInv'
  <2>1. QueueTypeOK'
    BY <1>0, <1>9 DEF Tick, queueVars, QueueTypeOK
  <2> QED
    BY <1>0, <1>9, <2>1 DEF Tick, TypeOK, submitVars, workerVars, historyVars, boundVars
<1>10. ASSUME UNCHANGED vars PROVE TypeInv'
  <2>1. QueueTypeOK'
    BY <1>0, <1>10 DEF vars, queueVars, QueueTypeOK
  <2> QED
    BY <1>0, <1>10, <2>1
       DEF vars, TypeOK, daemonVars, submitVars, workerVars, historyVars, boundVars
<1> QED
  BY <1>1, <1>2, <1>3, <1>4, <1>6, <1>7, <1>8, <1>9, <1>10, <1>5 DEF Next, Recovery

\* Every reachable state is well typed: names carry dates on or after the epoch, whatever a
\* retry computes, and a worker between a claim and a remove always has its file in hand.
THEOREM TypeCorrect == Spec => []TypeOK
<1>1. Init => TypeInv
  BY InitTypeInv
<1>2. TypeInv /\ [Next]_vars => TypeInv'
  BY NextTypeInv
<1>3. TypeInv => TypeOK
  BY DEF TypeInv
<1> QED
  BY <1>1, <1>2, <1>3, PTL DEF Spec
-----------------------------------------------------------------------------
(***************************************************************************)
(* Orphans.  NoOrphan is inductive by itself, given the types.             *)
(***************************************************************************)
LEMMA NoOrphanStep == TypeInv /\ NoOrphan /\ [Next]_vars => NoOrphan'
<1> SUFFICES ASSUME TypeInv, NoOrphan, [Next]_vars,
                    mode' \in {"up", "stopping"}, clean',
                    NEW f \in dir'["running"]
             PROVE  \E w \in Worker : Running(w)' /\ SameName(held'[w], f)
  BY DEF NoOrphan
<1>0. TypeOK /\ HandsOK /\ dir \in [State -> SUBSET File]
  BY DEF TypeInv, TypeOK, QueueTypeOK
<1> USE DEF Running, Busy, SameName
<1>1. ASSUME NEW t \in Task, EnqueueStep(t) PROVE \E w \in Worker : Running(w)' /\ SameName(held'[w], f)
  <2>1. dir'["running"] = dir["running"] /\ UNCHANGED <<mode, wpc, held>>
    BY <1>0, <1>1
       DEF EnqueueStep, EnqueueCheck, EnqueueWrite, EnqueuePublish, EnqueueFails, Stage, Land,
           queueVars, daemonVars, workerVars, State
  <2>2. clean
    BY <1>1 DEF EnqueueStep, EnqueueCheck, EnqueueWrite, EnqueuePublish, EnqueueFails, boundVars
  <2> QED
    BY <2>1, <2>2 DEF NoOrphan
<1>2. ASSUME NEW v \in Worker, Claim(v) PROVE \E w \in Worker : Running(w)' /\ SameName(held'[w], f)
  <2>1. PICK g \in dir["pending"] :
          /\ Take(g)
          /\ held' = [held EXCEPT ![v] = g]
          /\ Goto(v, IF g.id \in Damaged THEN "reject" ELSE "run")
    BY <1>2 DEF Claim
  <2>2. held'[v] = g /\ wpc'[v] \in Busy
    BY <1>0, <2>1 DEF Goto, TypeOK
  <2>3. CASE SameName(g, f)
    BY <2>2, <2>3
  <2>4. CASE ~SameName(g, f)
    <3>1. f \in dir["running"]
      BY <1>0, <2>1, <2>4 DEF Take, Put, State
    <3>2. wpc[v] = "scan" /\ mode' = mode /\ clean' = clean
      BY <1>2 DEF Claim, daemonVars, boundVars
    <3>3. PICK w \in Worker : Running(w) /\ SameName(held[w], f)
      BY <3>1, <3>2 DEF NoOrphan
    <3>4. w # v /\ held'[w] = held[w] /\ wpc'[w] = wpc[w]
      BY <1>0, <2>1, <3>2, <3>3 DEF Goto, TypeOK
    <3> QED
      BY <3>3, <3>4
  <2> QED
    BY <2>3, <2>4
<1>3. ASSUME NEW v \in Worker, Unlink(v) \/ Reject(v)
      PROVE  \E w \in Worker : Running(w)' /\ SameName(held'[w], f)
  <2>1. f \in dir["running"] /\ ~SameName(f, held[v])
    BY <1>0, <1>3 DEF Unlink, Remove, Reject, Quarantine, Drop, State
  <2>2. UNCHANGED <<mode, clean>>
    BY <1>3 DEF Unlink, Reject, Rejected, daemonVars, boundVars
  <2>3. PICK w \in Worker : Running(w) /\ SameName(held[w], f)
    BY <2>1, <2>2 DEF NoOrphan
  <2>4. w # v
    BY <2>1, <2>3
  <2>5. held'[w] = held[w] /\ wpc'[w] = wpc[w]
    BY <1>0, <1>3, <2>4 DEF Unlink, PutDown, Reject, Rejected, Goto, TypeOK
  <2> QED
    BY <2>3, <2>5
<1>4. ASSUME NEW v \in Worker,
             \/ CheckContext(v) \/ ClaimNothing(v) \/ RunEnds(v) \/ Write(v) \/ Publish(v)
      PROVE  \E w \in Worker : Running(w)' /\ SameName(held'[w], f)
  <2>1. UNCHANGED <<mode, clean, held>>
    BY <1>4 DEF CheckContext, ClaimNothing, RunEnds, RunSucceeds, RunFails, RunCancelled, HandOver,
                Write, Publish, daemonVars, boundVars
  <2>2. dir'["running"] = dir["running"]
    BY <1>0, <1>4
       DEF CheckContext, ClaimNothing, RunEnds, RunSucceeds, RunFails, RunCancelled, HandOver,
           Write, Publish, Stage, Land, HandsOK, queueVars, State
  <2>3. \A w \in Worker : Running(w) => Running(w)'
    BY <1>0, <1>4
       DEF CheckContext, ClaimNothing, RunEnds, RunSucceeds, RunFails, RunCancelled, HandOver,
           Write, Publish, Goto, TypeOK
  <2> QED
    BY <2>1, <2>2, <2>3 DEF NoOrphan
<1>5. CASE Stop \/ Tick \/ UNCHANGED vars
  BY <1>5 DEF Stop, Tick, vars, queueVars, daemonVars, workerVars, boundVars, NoOrphan
<1>6. CASE RecoverDone
  BY <1>6 DEF RecoverDone, StartWorkers, queueVars
<1>7. CASE RecoverOne \/ Return \/ Crash \/ Restart
  BY <1>0, <1>7 DEF RecoverOne, Return, Crash, Die, Restart, daemonVars
<1>8. CASE RecoverFails \/ \E w \in Worker : ClaimFails(w) \/ RejectFails(w) \/ StepFails(w)
  BY <1>8 DEF RecoverFails, ClaimFails, RejectFails, StepFails
<1> QED
  BY <1>1, <1>2, <1>3, <1>4, <1>5, <1>6, <1>7, <1>8 DEF Next, WorkerStep, Recovery

\* While the process runs and no I/O error has hit it, no file lies in running/ that no worker
\* holds: nobody's task waits for a restart, for any number of workers and tasks.
THEOREM NobodyOrphaned == Spec => []NoOrphan
<1>1. Init => TypeInv /\ NoOrphan
  BY InitTypeInv DEF Init, NoOrphan
<1>2. TypeInv /\ NoOrphan /\ [Next]_vars => (TypeInv /\ NoOrphan)'
  BY NextTypeInv, NoOrphanStep
<1> QED
  BY <1>1, <1>2, PTL DEF Spec
-----------------------------------------------------------------------------
(***************************************************************************)
(* What is on record.  OutcomeHonest is not inductive: the file a worker   *)
(* is about to publish must be honest too, and so must the attempts        *)
(* written in every live file, which survive restarts.                     *)
(***************************************************************************)
Known(f) ==
    /\ f.id \in Accepted \cup Damaged
    /\ f.attempt <= errors[f.id]

Publishing(w) == wpc[w] \in {"write", "publish", "unlink"}

HandsKnown ==
    \A w \in Worker :
        /\ Running(w) => Known(held[w]) /\ (held[w].id \in Damaged <=> wpc[w] = "reject")
        /\ Publishing(w) =>
              /\ Known(next[w])
              /\ goal[w] = "done" => next[w].id \in succeeded
              /\ goal[w] = "failed" => next[w].attempt >= MaxAttempts

LedgerInv ==
    /\ \A t \in Damaged : sub[t] = "abandoned"
    /\ \A f \in dir["pending"] \cup dir["running"] : Known(f)
    /\ HandsKnown
    /\ OutcomeHonest
-----------------------------------------------------------------------------
(***************************************************************************)
(* Durability.  A worker removes the file it claimed only when an outcome  *)
(* is on record or a LATER copy of the task is live; dates only grow, so   *)
(* that the remove of one worker never takes the copy another relies on.   *)
(***************************************************************************)
Later(f) == \E g \in LiveCopies(f.id) : g.at > f.at

Superseded(f) == OutcomeCopies(f.id) # {} \/ Later(f)

DurableInv ==
    /\ NothingLost
    /\ \A w \in Worker :
          /\ Publishing(w) /\ goal[w] = "pending" => next[w].at > held[w].at
          /\ wpc[w] = "unlink" => Superseded(held[w])
-----------------------------------------------------------------------------
\* What a step can do to the directories.
LEMMA DirEffect ==
    ASSUME [Next]_vars
    PROVE  \/ UNCHANGED dir
           \/ \E t \in Task : EnqueuePublish(t)
           \/ \E f \in dir["pending"] : Take(f)
           \/ \E f \in dir["running"] : PutBack(f)
           \/ \E w \in Worker : Reject(w) \/ Publish(w) \/ Unlink(w)
<1>1. ASSUME NEW t \in Task, EnqueueCheck(t) \/ EnqueueWrite(t) \/ EnqueueFails(t) PROVE UNCHANGED dir
  BY <1>1 DEF EnqueueCheck, EnqueueWrite, EnqueueFails, Stage, queueVars
<1>2. ASSUME NEW w \in Worker, CheckContext(w) \/ ClaimNothing(w) \/ RunEnds(w) \/ Write(w)
                               \/ RejectFails(w) \/ StepFails(w)
      PROVE  UNCHANGED dir
  BY <1>2 DEF CheckContext, ClaimNothing, RunEnds, RunSucceeds, RunFails, RunCancelled, HandOver,
              Write, RejectFails, StepFails, Stage, queueVars
<1>3. ASSUME NEW w \in Worker, Claim(w) \/ ClaimFails(w)
      PROVE  UNCHANGED dir \/ \E f \in dir["pending"] : Take(f)
  BY <1>3 DEF Claim, ClaimFails, queueVars
<1>4. CASE Stop \/ Return \/ Crash \/ Restart \/ RecoverDone \/ RecoverFails \/ Tick \/ UNCHANGED vars
  BY <1>4 DEF Stop, Return, Crash, Die, Restart, RecoverDone, RecoverFails, StartWorkers, Tick, vars,
              queueVars
<1>5. CASE RecoverOne
  BY <1>5 DEF RecoverOne
<1> QED
  BY <1>1, <1>2, <1>3, <1>4, <1>5 DEF Next, EnqueueStep, WorkerStep, Recovery

\* What a step can do to one worker.
LEMMA WorkerEffect ==
    ASSUME TypeOK, [Next]_vars, NEW w \in Worker
    PROVE  \/ /\ wpc'[w] = wpc[w] /\ held'[w] = held[w]
              /\ next'[w] = next[w] /\ goal'[w] = goal[w]
           \/ wpc'[w] \notin Busy
           \/ Claim(w) \/ RunEnds(w) \/ Write(w) \/ Publish(w)
<1> USE DEF TypeOK, Goto, Busy
<1>1. ASSUME NEW v \in Worker, WorkerStep(v), v # w
      PROVE  wpc'[w] = wpc[w] /\ held'[w] = held[w] /\ next'[w] = next[w] /\ goal'[w] = goal[w]
  BY <1>1 DEF WorkerStep, CheckContext, Claim, Reject, Rejected, ClaimNothing, RunEnds, RunSucceeds,
              RunFails, RunCancelled, HandOver, Write, Publish, Unlink, PutDown
<1>2. ASSUME CheckContext(w) \/ ClaimNothing(w) \/ Reject(w) \/ Unlink(w) PROVE wpc'[w] \notin Busy
  BY <1>2 DEF CheckContext, ClaimNothing, Reject, Rejected, Unlink, PutDown
<1>3. ASSUME NEW v \in Worker, ClaimFails(v) \/ RejectFails(v) \/ StepFails(v)
      PROVE  \/ wpc'[w] \notin Busy
             \/ /\ wpc'[w] = wpc[w] /\ held'[w] = held[w]
                /\ next'[w] = next[w] /\ goal'[w] = goal[w]
  BY <1>3 DEF ClaimFails, RejectFails, Rejected, StepFails, PutDown
<1>4. ASSUME Return \/ Crash \/ RecoverDone \/ RecoverFails PROVE wpc'[w] \notin Busy
  BY <1>4 DEF Return, Crash, Die, RecoverDone, RecoverFails, StartWorkers
<1>5. ASSUME \/ Stop \/ Restart \/ RecoverOne \/ Tick \/ UNCHANGED vars
             \/ \E t \in Task : EnqueueStep(t)
      PROVE  UNCHANGED workerVars
  BY <1>5 DEF Stop, Restart, RecoverOne, Tick, vars, EnqueueStep, EnqueueCheck, EnqueueWrite,
              EnqueuePublish, EnqueueFails
<1> QED
  BY <1>1, <1>2, <1>3, <1>4, <1>5 DEF Next, WorkerStep, Recovery, workerVars

\* The history only grows, so what is known of a file stays known.
LEMMA KnownStays ==
    ASSUME TypeInv, \A t \in Damaged : sub[t] = "abandoned", [Next]_vars
    PROVE  /\ \A t \in Damaged : sub'[t] = "abandoned"
           /\ Accepted \subseteq Accepted'
           /\ succeeded \subseteq succeeded'
           /\ \A t \in Task : errors[t] <= errors'[t]
           /\ \A f \in File : Known(f) => Known(f)'
<1>0. TypeOK /\ HandsOK
  BY DEF TypeInv
<1> USE QueueAssumption
<1>1. (\A t \in Damaged : sub'[t] = "abandoned") /\ Accepted \subseteq Accepted'
  <2>1. ASSUME NEW t \in Task, EnqueueStep(t)
        PROVE  /\ sub[t] # "abandoned" /\ sub[t] # "accepted"
               /\ \A u \in Task \ {t} : sub'[u] = sub[u]
    BY <1>0, <2>1
       DEF EnqueueStep, EnqueueCheck, EnqueueWrite, EnqueuePublish, EnqueueFails, TypeOK
  <2>2. CASE \E t \in Task : EnqueueStep(t)
    BY <2>1, <2>2 DEF Accepted
  <2>3. CASE Return \/ Crash
    BY <2>3 DEF Return, Crash, Die, Accepted
  <2>4. ASSUME NEW w \in Worker, WorkerStep(w) \/ ClaimFails(w) \/ RejectFails(w) \/ StepFails(w)
        PROVE  UNCHANGED sub
    BY <2>4 DEF WorkerStep, CheckContext, Claim, Reject, Rejected, ClaimNothing, RunEnds, RunSucceeds,
                RunFails, RunCancelled, HandOver, Write, Publish, Unlink, ClaimFails, RejectFails,
                StepFails, submitVars
  <2>5. CASE Stop \/ Restart \/ RecoverOne \/ RecoverDone \/ RecoverFails \/ Tick \/ UNCHANGED vars
    BY <2>5 DEF Stop, Restart, RecoverOne, RecoverDone, RecoverFails, StartWorkers, Tick, vars,
                submitVars, Accepted
  <2> QED
    BY <2>2, <2>3, <2>4, <2>5 DEF Next, Recovery, Accepted
<1>2. succeeded \subseteq succeeded' /\ \A t \in Task : errors[t] <= errors'[t]
  <2>1. CASE \E w \in Worker : RunSucceeds(w) \/ RunFails(w)
    <3>1. PICK w \in Worker : RunSucceeds(w) \/ RunFails(w)
      BY <2>1
    <3> QED
      BY <1>0, <3>1 DEF RunSucceeds, RunFails, TypeOK
  <2>2. CASE ~\E w \in Worker : RunSucceeds(w) \/ RunFails(w)
    <3>1. UNCHANGED historyVars
      BY <2>2
         DEF Next, vars, EnqueueStep, EnqueueCheck, EnqueueWrite, EnqueuePublish, EnqueueFails,
             WorkerStep, CheckContext, Claim, Reject, Rejected, ClaimNothing, RunEnds, RunCancelled,
             Write, Publish, Unlink, ClaimFails, RejectFails, StepFails, Stop, Return, Crash, Die,
             Restart, Recovery, RecoverOne, RecoverDone, RecoverFails, StartWorkers, Tick
    <3> QED
      BY <1>0, <3>1 DEF historyVars, TypeOK
  <2> QED
    BY <2>1, <2>2
<1>3. ASSUME NEW f \in File, Known(f) PROVE Known(f)'
  <2>1. f.id \in Task /\ f.attempt \in Nat /\ errors[f.id] \in Nat /\ errors[f.id] <= errors'[f.id]
    BY <1>0, <1>2 DEF File, TypeOK
  <2>2. TypeOK'
    BY NextTypeInv DEF TypeInv
  <2>3. errors'[f.id] \in Nat
    BY <2>1, <2>2 DEF TypeOK
  <2> QED
    BY <1>1, <1>3, <2>1, <2>3 DEF Known
<1> QED
  BY <1>1, <1>2, <1>3

LEMMA FilesKnown ==
    ASSUME TypeInv, LedgerInv, [Next]_vars, NEW f \in dir'["pending"] \cup dir'["running"]
    PROVE  Known(f)'
<1>0. TypeOK /\ HandsOK /\ dir \in [State -> SUBSET File] /\ TypeOK'
  BY NextTypeInv DEF TypeInv, TypeOK, QueueTypeOK
<1>1. \A g \in File : Known(g) => Known(g)'
  BY KnownStays DEF LedgerInv
<1>2. CASE f \in dir["pending"] \cup dir["running"]
  BY <1>0, <1>1, <1>2 DEF LedgerInv, State
<1>3. ASSUME NEW t \in Task, EnqueuePublish(t) PROVE f \in dir["pending"] \cup dir["running"] \/ Known(f)'
  <2>1. f \in dir["pending"] \cup dir["running"] \/ f = NewFile(t)
    BY <1>0, <1>3 DEF EnqueuePublish, Land, Put, State
  <2>2. t \in Accepted' /\ errors'[t] \in Nat
    BY <1>0, <1>3 DEF EnqueuePublish, Accepted, TypeOK
  <2>3. NewFile(t).id = t /\ NewFile(t).attempt = 0
    BY DEF NewFile
  <2>4. f = NewFile(t) => Known(f)'
    BY <2>2, <2>3 DEF Known
  <2> QED
    BY <2>1, <2>4
<1>4. ASSUME NEW g \in dir["pending"], Take(g) PROVE f \in dir["pending"] \cup dir["running"]
  BY <1>0, <1>4 DEF Take, Put, State
<1>5. ASSUME NEW g \in dir["running"], PutBack(g) PROVE f \in dir["pending"] \cup dir["running"]
  BY <1>0, <1>5 DEF PutBack, Put, State
<1>6. ASSUME NEW w \in Worker, Reject(w) \/ Unlink(w) PROVE f \in dir["pending"] \cup dir["running"]
  BY <1>0, <1>6 DEF Reject, Unlink, Quarantine, Remove, Drop, State
<1>7. ASSUME NEW w \in Worker, Publish(w) PROVE f \in dir["pending"] \cup dir["running"] \/ Known(f)'
  <2>1. f \in dir["pending"] \cup dir["running"] \/ f = next[w]
    BY <1>0, <1>7 DEF Publish, Land, Put, HandsOK, State
  <2>2. next[w] \in File /\ Known(next[w])
    BY <1>0, <1>7 DEF Publish, HandsOK, LedgerInv, HandsKnown, Publishing
  <2> QED
    BY <1>1, <2>1, <2>2
<1> QED
  BY <1>2, <1>3, <1>4, <1>5, <1>6, <1>7, DirEffect

LEMMA HandsStayKnown ==
    ASSUME TypeInv, LedgerInv, [Next]_vars
    PROVE  HandsKnown'
<1>0. TypeOK /\ HandsOK /\ HandsKnown /\ TypeOK' /\ HandsOK'
  BY NextTypeInv DEF TypeInv, LedgerInv
<1>1. /\ succeeded \subseteq succeeded'
      /\ \A g \in File : Known(g) => Known(g)'
  BY KnownStays DEF LedgerInv
<1> DEFINE OK(w) == /\ Running(w) => Known(held[w]) /\ (held[w].id \in Damaged <=> wpc[w] = "reject")
                    /\ Publishing(w) =>
                          /\ Known(next[w])
                          /\ goal[w] = "done" => next[w].id \in succeeded
                          /\ goal[w] = "failed" => next[w].attempt >= MaxAttempts
<1> SUFFICES ASSUME NEW w \in Worker PROVE OK(w)'
  BY DEF HandsKnown
<1>2. OK(w)
  BY <1>0 DEF HandsKnown
<1> USE DEF Running, Busy, Publishing
<1>3. CASE wpc'[w] = wpc[w] /\ held'[w] = held[w] /\ next'[w] = next[w] /\ goal'[w] = goal[w]
  BY <1>0, <1>1, <1>2, <1>3 DEF HandsOK
<1>4. CASE wpc'[w] \notin Busy
  BY <1>4
<1>5. CASE Claim(w)
  <2>1. PICK f \in dir["pending"] :
          /\ held' = [held EXCEPT ![w] = f]
          /\ Goto(w, IF f.id \in Damaged THEN "reject" ELSE "run")
    BY <1>5 DEF Claim
  <2>2. f \in File /\ Known(f)
    BY <1>0 DEF TypeOK, QueueTypeOK, LedgerInv, State
  <2>3. held'[w] = f /\ wpc'[w] = IF f.id \in Damaged THEN "reject" ELSE "run"
    BY <1>0, <2>1 DEF TypeOK, Goto
  <2>4. Known(f)'
    BY <1>1, <2>2
  <2> QED
    BY <2>3, <2>4
<1>6. CASE Write(w) \/ Publish(w)
  <2>1. /\ UNCHANGED <<held, next, goal>>
        /\ wpc[w] \in {"write", "publish"}
        /\ wpc'[w] \in {"publish", "unlink"}
    BY <1>0, <1>6 DEF Write, Publish, Goto, TypeOK
  <2> QED
    BY <1>0, <1>1, <1>2, <2>1 DEF HandsOK
<1>7. CASE RunEnds(w)
  <2>1. /\ held[w] \in File /\ Known(held[w]) /\ Known(held[w])'
        /\ held[w].id \notin Damaged
        /\ held' = held /\ wpc'[w] = "write"
    BY <1>0, <1>1, <1>2, <1>7
       DEF RunEnds, RunSucceeds, RunFails, RunCancelled, HandOver, Goto, HandsOK, TypeOK
  <2>2. CASE RunSucceeds(w)
    <3>1. next'[w] = held[w] /\ goal'[w] = "done" /\ held[w].id \in succeeded'
      BY <1>0, <2>2 DEF RunSucceeds, HandOver, TypeOK
    <3> QED
      BY <2>1, <3>1
  <2>3. CASE RunCancelled(w)
    <3>1. /\ next'[w].id = held[w].id /\ next'[w].attempt = held[w].attempt
          /\ goal'[w] = "pending"
      BY <1>0, <2>1, <2>3 DEF RunCancelled, HandOver, TypeOK, File
    <3> QED
      BY <2>1, <3>1 DEF Known
  <2>4. CASE RunFails(w)
    <3> DEFINE f == Failed(held[w])
    <3>1. /\ next'[w] = f
          /\ goal'[w] = IF f.attempt >= MaxAttempts THEN "failed" ELSE "pending"
          /\ errors' = [errors EXCEPT ![f.id] = @ + 1]
      BY <1>0, <2>4 DEF RunFails, HandOver, TypeOK
    <3>2. /\ f.id = held[w].id
          /\ f.attempt = held[w].attempt + 1
      BY <1>0, <2>1, FailedFile DEF TypeOK
    <3>3. held[w].attempt \in Nat /\ held[w].id \in Task
      BY <2>1 DEF File
    <3>4. f.attempt <= errors'[f.id]
      BY <1>0, <2>1, <3>1, <3>2, <3>3 DEF Known, TypeOK
    <3>5. Known(next[w])'
      BY <2>1, <3>1, <3>2, <3>4 DEF Known
    <3>6. goal'[w] = "failed" => next'[w].attempt >= MaxAttempts
      BY <3>1
    <3> QED
      BY <2>1, <3>1, <3>5, <3>6
  <2> QED
    BY <1>7, <2>2, <2>3, <2>4 DEF RunEnds
<1> QED
  BY <1>0, <1>3, <1>4, <1>5, <1>6, <1>7, WorkerEffect

LEMMA LedgerStep == TypeInv /\ LedgerInv /\ [Next]_vars => LedgerInv'
<1> SUFFICES ASSUME TypeInv, LedgerInv, [Next]_vars PROVE LedgerInv'
  OBVIOUS
<1>0. TypeOK /\ HandsOK /\ HandsKnown /\ dir \in [State -> SUBSET File] /\ OutcomeHonest /\ TypeOK'
  BY NextTypeInv DEF TypeInv, TypeOK, QueueTypeOK, LedgerInv
<1>1. /\ \A t \in Damaged : sub'[t] = "abandoned"
      /\ succeeded \subseteq succeeded'
      /\ \A t \in Task : errors[t] <= errors'[t]
  BY KnownStays DEF LedgerInv
<1>2. ASSUME NEW f \in dir'["done"] PROVE f.id \in succeeded'
  <2>1. ASSUME f \in dir["done"] PROVE f.id \in succeeded'
    BY <1>0, <1>1, <2>1 DEF OutcomeHonest
  <2>2. CASE dir'["done"] = dir["done"]
    BY <2>1, <2>2
  <2>3. ASSUME NEW w \in Worker, Publish(w) PROVE f.id \in succeeded'
    <3>1. f \in dir["done"] \/ (goal[w] = "done" /\ f = next[w])
      <4>1. goal[w] \in State /\ dir' = [dir EXCEPT ![goal[w]] = Put(@, next[w])]
        BY <1>0, <2>3 DEF Publish, Land, TypeOK
      <4>2. CASE goal[w] = "done"
        BY <1>0, <4>1, <4>2 DEF Put
      <4>3. CASE goal[w] # "done"
        BY <1>0, <4>1, <4>3 DEF State
      <4> QED
        BY <4>2, <4>3
    <3>2. goal[w] = "done" => next[w].id \in succeeded
      BY <1>0, <2>3 DEF Publish, HandsKnown, Publishing
    <3> QED
      BY <1>1, <2>1, <3>1, <3>2
  <2>4. ASSUME NEW w \in Worker, Reject(w) \/ Unlink(w) PROVE dir'["done"] = dir["done"]
    BY <1>0, <2>4 DEF Reject, Unlink, Quarantine, Remove, State
  <2>5. ASSUME \/ \E t \in Task : EnqueuePublish(t)
               \/ \E g \in dir["pending"] : Take(g)
               \/ \E g \in dir["running"] : PutBack(g)
        PROVE  dir'["done"] = dir["done"]
    BY <1>0, <2>5 DEF EnqueuePublish, Land, Take, PutBack, State
  <2> QED
    BY <2>2, <2>3, <2>4, <2>5, DirEffect
<1>3. ASSUME NEW f \in dir'["failed"] PROVE f.id \in Damaged \/ errors'[f.id] >= MaxAttempts
  <2>0. f \in File /\ errors[f.id] \in Nat /\ errors'[f.id] \in Nat /\ MaxAttempts \in Nat
    BY <1>0, DaemonAssumption DEF TypeOK, QueueTypeOK, State, File
  <2>1. ASSUME f \in dir["failed"] PROVE f.id \in Damaged \/ errors'[f.id] >= MaxAttempts
    <3>1. f.id \in Damaged \/ errors[f.id] >= MaxAttempts
      BY <1>0, <2>1 DEF OutcomeHonest
    <3>2. errors[f.id] <= errors'[f.id]
      BY <1>1, <2>0 DEF File
    <3> QED
      BY <2>0, <3>1, <3>2
  <2>2. CASE dir'["failed"] = dir["failed"]
    BY <2>1, <2>2
  <2>3. ASSUME NEW w \in Worker, Publish(w) PROVE f.id \in Damaged \/ errors'[f.id] >= MaxAttempts
    <3>1. f \in dir["failed"] \/ (goal[w] = "failed" /\ f = next[w])
      <4>1. goal[w] \in State /\ dir' = [dir EXCEPT ![goal[w]] = Put(@, next[w])]
        BY <1>0, <2>3 DEF Publish, Land, TypeOK
      <4>2. CASE goal[w] = "failed"
        BY <1>0, <4>1, <4>2 DEF Put
      <4>3. CASE goal[w] # "failed"
        BY <1>0, <4>1, <4>3 DEF State
      <4> QED
        BY <4>2, <4>3
    <3>2. goal[w] = "failed" => Known(next[w]) /\ next[w].attempt >= MaxAttempts
      BY <1>0, <2>3 DEF Publish, HandsKnown, Publishing
    <3>3. goal[w] = "failed" /\ f = next[w] => errors[f.id] >= MaxAttempts
      BY <2>0, <3>2 DEF Known, File
    <3>4. errors[f.id] <= errors'[f.id]
      BY <1>1, <2>0 DEF File
    <3> QED
      BY <2>0, <2>1, <3>1, <3>3, <3>4
  <2>4. ASSUME NEW w \in Worker, Reject(w) PROVE f \in dir["failed"] \/ f.id \in Damaged
    <3>1. f \in dir["failed"] \/ f = held[w]
      BY <1>0, <2>4 DEF Reject, Quarantine, Put, State
    <3>2. held[w].id \in Damaged
      BY <1>0, <2>4 DEF Reject, Rejected, HandsKnown, Running, Busy
    <3> QED
      BY <3>1, <3>2
  <2>5. ASSUME \/ \E t \in Task : EnqueuePublish(t)
               \/ \E g \in dir["pending"] : Take(g)
               \/ \E g \in dir["running"] : PutBack(g)
               \/ \E w \in Worker : Unlink(w)
        PROVE  dir'["failed"] = dir["failed"]
    BY <1>0, <2>5 DEF EnqueuePublish, Land, Take, PutBack, Unlink, Remove, State
  <2> QED
    BY <2>1, <2>2, <2>3, <2>4, <2>5, DirEffect
<1>4. \A f \in dir'["pending"] \cup dir'["running"] : Known(f)'
  BY FilesKnown
<1>5. HandsKnown'
  BY HandsStayKnown
<1> QED
  BY <1>1, <1>2, <1>3, <1>4, <1>5 DEF LedgerInv, OutcomeHonest

LEMMA InitLedger == Init => LedgerInv
<1> SUFFICES ASSUME Init PROVE LedgerInv
  OBVIOUS
<1>1. \A t \in Damaged : sub[t] = "abandoned"
  BY QueueAssumption DEF Init
<1>2. \A f \in dir["pending"] \cup dir["running"] : Known(f)
  BY QueueAssumption DEF Init, QueueInit, State, Known
<1>3. HandsKnown
  BY DEF Init, HandsKnown, Running, Busy, Publishing
<1>4. OutcomeHonest
  BY DEF Init, QueueInit, State, OutcomeHonest
<1> QED
  BY <1>1, <1>2, <1>3, <1>4 DEF LedgerInv

\* done/ names only tasks that succeeded, failed/ only tasks that used up their attempts (or
\* cannot be read), through every crash, duplicate and recovery: the attempts on disk never
\* run ahead of the failures that happened.
THEOREM RecordsAreHonest == Spec => []OutcomeHonest
<1>1. Init => TypeInv /\ LedgerInv
  BY InitTypeInv, InitLedger
<1>2. TypeInv /\ LedgerInv /\ [Next]_vars => (TypeInv /\ LedgerInv)'
  BY NextTypeInv, LedgerStep
<1>3. LedgerInv => OutcomeHonest
  BY DEF LedgerInv
<1> QED
  BY <1>1, <1>2, <1>3, PTL DEF Spec
-----------------------------------------------------------------------------
(***************************************************************************)
(* Every step but the remove leaves each task at least as well kept as it  *)
(* was: its outcomes stay, and a live copy is followed by an outcome or by *)
(* a live copy not dated earlier.                                          *)
(***************************************************************************)
Keeps ==
    \A t \in Task :
        /\ OutcomeCopies(t) # {} => OutcomeCopies(t)' # {}
        /\ \A f \in LiveCopies(t) :
              OutcomeCopies(t)' # {} \/ \E g \in LiveCopies(t)' : g.at >= f.at

\* A rename onto a directory leaves a file of every name that was there.
LEMMA PutKeepsNames ==
    ASSUME NEW files, NEW f, NEW g \in files
    PROVE  \E h \in Put(files, f) : SameName(h, g)
  BY DEF Put, SameName

LEMMA FileOpsKeep ==
    ASSUME QueueTypeOK, NEW f \in File, NEW s \in {"pending", "done", "failed"},
           \/ Land(s, f)
           \/ f \in dir["pending"] /\ Take(f)
           \/ f \in dir["running"] /\ PutBack(f)
           \/ Quarantine(f)
           \/ UNCHANGED dir
    PROVE  Keeps
<1> SUFFICES ASSUME NEW t \in Task
             PROVE  /\ OutcomeCopies(t) # {} => OutcomeCopies(t)' # {}
                    /\ \A g \in LiveCopies(t) :
                          OutcomeCopies(t)' # {} \/ \E h \in LiveCopies(t)' : h.at >= g.at
  BY DEF Keeps
<1>0. dir \in [State -> SUBSET File]
  BY DEF QueueTypeOK
<1>1. \A d \in {"done", "failed"} : \A g \in dir[d] : \E h \in dir'[d] : SameName(h, g)
  BY <1>0, PutKeepsNames DEF Land, Take, PutBack, Quarantine, State, SameName
<1>2. OutcomeCopies(t) # {} => OutcomeCopies(t)' # {}
  BY <1>1 DEF OutcomeCopies, SameName
<1>3. ASSUME NEW g \in dir["pending"] \cup dir["running"]
      PROVE  \/ \E h \in dir'["pending"] \cup dir'["running"] : SameName(h, g)
             \/ \E h \in dir'["failed"] : SameName(h, g)
  <2>1. CASE Land(s, f)
    BY <1>0, <2>1, PutKeepsNames DEF Land, State, SameName
  <2>2. CASE f \in dir["pending"] /\ Take(f)
    BY <1>0, <2>2 DEF Take, State, SameName, Put
  <2>3. CASE f \in dir["running"] /\ PutBack(f)
    BY <1>0, <2>3 DEF PutBack, State, SameName, Put
  <2>4. CASE Quarantine(f)
    BY <1>0, <2>4 DEF Quarantine, State, SameName, Put, Drop
  <2>5. CASE UNCHANGED dir
    BY <2>5 DEF SameName
  <2> QED
    BY <2>1, <2>2, <2>3, <2>4, <2>5
<1>4. ASSUME NEW g \in LiveCopies(t)
      PROVE  OutcomeCopies(t)' # {} \/ \E h \in LiveCopies(t)' : h.at >= g.at
  <2>1. g \in dir["pending"] \cup dir["running"] /\ g.id = t /\ g.at \in Nat
    BY <1>0 DEF LiveCopies, State, File
  <2> QED
    BY <1>3, <2>1 DEF LiveCopies, OutcomeCopies, SameName
<1> QED
  BY <1>2, <1>4

\* Seen from a task that is kept, nothing gets worse.
LEMMA KeptStays ==
    ASSUME QueueTypeOK, QueueTypeOK', Keeps
    PROVE  /\ \A t \in Task : LiveCopies(t) \cup OutcomeCopies(t) # {} =>
                 (LiveCopies(t) \cup OutcomeCopies(t))' # {}
           /\ \A f \in File : Superseded(f) => Superseded(f)'
<1>1. ASSUME NEW t \in Task, LiveCopies(t) \cup OutcomeCopies(t) # {}
      PROVE  (LiveCopies(t) \cup OutcomeCopies(t))' # {}
  BY <1>1 DEF Keeps
<1>2. ASSUME NEW f \in File, Superseded(f) PROVE Superseded(f)'
  <2>1. f.id \in Task /\ f.at \in Nat
    BY DEF File
  <2>2. CASE OutcomeCopies(f.id) # {}
    BY <2>1, <2>2 DEF Keeps, Superseded
  <2>3. CASE Later(f)
    <3>1. PICK g \in LiveCopies(f.id) : g.at > f.at
      BY <2>3 DEF Later
    <3>2. OutcomeCopies(f.id)' # {} \/ \E h \in LiveCopies(f.id)' : h.at >= g.at
      BY <2>1 DEF Keeps
    <3>3. g.at \in Nat /\ \A h \in LiveCopies(f.id)' : h.at \in Nat
      BY DEF LiveCopies, QueueTypeOK, State, File
    <3> QED
      BY <2>1, <3>1, <3>2, <3>3 DEF Superseded, Later
  <2> QED
    BY <1>2, <2>2, <2>3 DEF Superseded
<1> QED
  BY <1>1, <1>2

LEMMA NewlyAccepted ==
    ASSUME TypeOK, [Next]_vars, NEW t \in Accepted'
    PROVE  t \in Accepted \/ EnqueuePublish(t)
<1> USE DEF TypeOK, Accepted
<1>1. ASSUME NEW u \in Task, EnqueueStep(u) PROVE t \in Accepted \/ EnqueuePublish(t)
  BY <1>1 DEF EnqueueStep, EnqueueCheck, EnqueueWrite, EnqueuePublish, EnqueueFails
<1>2. CASE Return \/ Crash
  BY <1>2 DEF Return, Crash, Die
<1>3. CASE ~(Return \/ Crash) /\ ~\E u \in Task : EnqueueStep(u)
  BY <1>3 DEF Next, vars, WorkerStep, CheckContext, Claim, Reject, Rejected, ClaimNothing, RunEnds,
              RunSucceeds, RunFails, RunCancelled, HandOver, Write, Publish, Unlink, ClaimFails,
              RejectFails, StepFails, Stop, Restart, Recovery, RecoverOne, RecoverDone,
              RecoverFails, StartWorkers, Tick, submitVars
<1> QED
  BY <1>1, <1>2, <1>3

\* All steps but the remove.
LEMMA MostStepsKeep ==
    ASSUME TypeInv, [Next]_vars, \A w \in Worker : ~Unlink(w)
    PROVE  Keeps
<1>0. QueueTypeOK /\ HandsOK /\ TypeOK /\ dir \in [State -> SUBSET File]
  BY DEF TypeInv, TypeOK, QueueTypeOK
<1>1. CASE UNCHANGED dir
  <2>1. \A t \in Task : \A f \in LiveCopies(t) : f.at \in Nat
    BY <1>0 DEF LiveCopies, State, File
  <2> QED
    BY <1>1, <2>1 DEF Keeps, LiveCopies, OutcomeCopies
<1>2. ASSUME NEW t \in Task, EnqueuePublish(t) PROVE Keeps
  BY <1>0, <1>2, NewFileType, FileOpsKeep DEF EnqueuePublish
<1>3. ASSUME NEW f \in dir["pending"], Take(f) PROVE Keeps
  BY <1>0, <1>3, FileOpsKeep DEF State
<1>4. ASSUME NEW f \in dir["running"], PutBack(f) PROVE Keeps
  BY <1>0, <1>4, FileOpsKeep DEF State
<1>5. ASSUME NEW w \in Worker, Reject(w) PROVE Keeps
  BY <1>0, <1>5, FileOpsKeep DEF Reject, Rejected, HandsOK, Running, Busy
<1>6. ASSUME NEW w \in Worker, Publish(w) PROVE Keeps
  BY <1>0, <1>6, FileOpsKeep DEF Publish, HandsOK
<1> QED
  BY <1>1, <1>2, <1>3, <1>4, <1>5, <1>6, DirEffect

\* The remove takes a file that is superseded, and whatever was superseded stays so.
LEMMA RemoveKeeps ==
    ASSUME QueueTypeOK, NEW f \in File, Superseded(f), Remove(f)
    PROVE  /\ \A t \in Task : LiveCopies(t) \cup OutcomeCopies(t) # {} =>
                 (LiveCopies(t) \cup OutcomeCopies(t))' # {}
           /\ \A g \in File : Superseded(g) => Superseded(g)'
<1>0. /\ dir \in [State -> SUBSET File]
      /\ dir' = [dir EXCEPT !["running"] = Drop(@, f)]
      /\ f.id \in Task /\ f.at \in Nat
  BY DEF Remove, QueueTypeOK, File
<1>1. \A t \in Task : OutcomeCopies(t)' = OutcomeCopies(t)
  BY <1>0 DEF OutcomeCopies, State
<1>2. \A t \in Task : \A h \in LiveCopies(t) : h \in LiveCopies(t)' \/ SameName(h, f)
  BY <1>0 DEF LiveCopies, Drop, SameName, State
<1>3. OutcomeCopies(f.id) # {} \/ \E h \in LiveCopies(f.id)' : h.at > f.at
  <2>1. CASE OutcomeCopies(f.id) # {}
    BY <2>1
  <2>2. CASE Later(f)
    <3>1. PICK h \in LiveCopies(f.id) : h.at > f.at
      BY <2>2 DEF Later
    <3>2. h.at # f.at
      BY <1>0, <3>1 DEF LiveCopies, State, File
    <3> QED
      BY <1>0, <1>2, <3>1, <3>2 DEF SameName
  <2> QED
    BY <2>1, <2>2 DEF Superseded
<1>4. ASSUME NEW t \in Task, LiveCopies(t) \cup OutcomeCopies(t) # {}
      PROVE  (LiveCopies(t) \cup OutcomeCopies(t))' # {}
  BY <1>1, <1>2, <1>3, <1>4 DEF SameName, LiveCopies
<1>5. ASSUME NEW g \in File, Superseded(g) PROVE Superseded(g)'
  <2>1. g.id \in Task /\ g.at \in Nat
    BY DEF File
  <2>2. CASE OutcomeCopies(g.id) # {}
    BY <1>1, <2>1, <2>2 DEF Superseded
  <2>3. CASE Later(g)
    <3>1. PICK h \in LiveCopies(g.id) : h.at > g.at
      BY <2>3 DEF Later
    <3>2. CASE h \in LiveCopies(g.id)'
      BY <3>1, <3>2 DEF Superseded, Later
    <3>3. CASE SameName(h, f)
      <4>1. f.id = g.id /\ f.at > g.at
        BY <3>1, <3>3 DEF SameName, LiveCopies
      <4>2. CASE OutcomeCopies(f.id) # {}
        BY <1>1, <2>1, <4>1, <4>2 DEF Superseded
      <4>3. ASSUME NEW k \in LiveCopies(f.id)', k.at > f.at PROVE Superseded(g)'
        <5>1. k.at \in Nat
          BY <1>0, <4>3 DEF LiveCopies, Drop, State, File
        <5> QED
          BY <1>0, <2>1, <4>1, <4>3, <5>1 DEF Superseded, Later
      <4> QED
        BY <1>3, <4>2, <4>3
    <3> QED
      BY <1>2, <2>1, <3>1, <3>2, <3>3
  <2> QED
    BY <1>5, <2>2, <2>3 DEF Superseded
<1> QED
  BY <1>4, <1>5

LEMMA DurableStep ==
    ASSUME MinRun > 0, TypeInv, DurableInv, [Next]_vars
    PROVE  DurableInv'
<1>0. TypeOK /\ HandsOK /\ QueueTypeOK /\ QueueTypeOK'
  BY NextTypeInv DEF TypeInv, TypeOK
<1>1. /\ \A t \in Task : LiveCopies(t) \cup OutcomeCopies(t) # {} =>
              (LiveCopies(t) \cup OutcomeCopies(t))' # {}
      /\ \A f \in File : Superseded(f) => Superseded(f)'
  <2>1. CASE \A w \in Worker : ~Unlink(w)
    BY <1>0, <2>1, MostStepsKeep, KeptStays
  <2>2. ASSUME NEW w \in Worker, Unlink(w)
        PROVE  Remove(held[w]) /\ held[w] \in File /\ Superseded(held[w])
    BY <1>0, <2>2 DEF Unlink, DurableInv, HandsOK, Running, Busy
  <2> QED
    BY <1>0, <2>1, <2>2, RemoveKeeps
<1>2. ASSUME NEW t \in Accepted' PROVE (LiveCopies(t) \cup OutcomeCopies(t))' # {}
  <2>1. CASE t \in Accepted
    BY <1>1, <2>1 DEF DurableInv, NothingLost, Accepted
  <2>2. CASE EnqueuePublish(t)
    <3>1. t \in Task /\ NewFile(t).id = t
      BY DEF Accepted, NewFile
    <3>2. NewFile(t) \in dir'["pending"]
      BY <1>0, <2>2 DEF EnqueuePublish, Land, Put, QueueTypeOK, State
    <3> QED
      BY <3>1, <3>2 DEF LiveCopies
  <2> QED
    BY <1>0, <2>1, <2>2, NewlyAccepted
<1>3. ASSUME NEW w \in Worker, Publishing(w)', goal'[w] = "pending"
      PROVE  next'[w].at > held'[w].at
  <2>1. CASE /\ wpc'[w] = wpc[w] /\ held'[w] = held[w]
             /\ next'[w] = next[w] /\ goal'[w] = goal[w]
    BY <1>3, <2>1 DEF DurableInv, Publishing
  <2>2. CASE Write(w) \/ Publish(w)
    BY <1>3, <2>2 DEF Write, Publish, DurableInv, Publishing
  <2>3. CASE RunEnds(w)
    <3>1. held[w] \in File /\ held[w].at + MinRun <= now /\ held' = held /\ now \in Nat
      BY <1>0, <2>3 DEF RunEnds, RunSucceeds, RunFails, RunCancelled, HandOver, HandsOK, Running,
                        Busy, TypeOK
    <3>2. next'[w].at >= now /\ next'[w].at \in Nat
      <4>1. ~RunSucceeds(w)
        BY <1>0, <1>3 DEF RunSucceeds, HandOver, TypeOK
      <4>2. CASE RunCancelled(w)
        <5>1. next'[w] = [held[w] EXCEPT !.at = now]
          BY <1>0, <4>2 DEF RunCancelled, HandOver, TypeOK
        <5> QED
          BY <3>1, <5>1 DEF File
      <4>3. CASE RunFails(w)
        <5>1. /\ next'[w] = Failed(held[w])
              /\ goal'[w] = IF Failed(held[w]).attempt >= MaxAttempts THEN "failed" ELSE "pending"
          BY <1>0, <4>3 DEF RunFails, HandOver, TypeOK
        <5>2. Failed(held[w]) \in File /\ Failed(held[w]).attempt \in Nat
          BY <3>1, FailedFile DEF File
        <5>3. Failed(held[w]).attempt < MaxAttempts
          BY <1>3, <5>1, <5>2, DaemonAssumption
        <5> QED
          BY <3>1, <5>1, <5>2, <5>3, FailedFile DEF File
      <4> QED
        BY <2>3, <4>1, <4>2, <4>3 DEF RunEnds
    <3> QED
      BY <3>1, <3>2, DaemonAssumption DEF File
  <2>4. CASE wpc'[w] \notin Busy \/ Claim(w)
    BY <1>0, <1>3, <2>4 DEF Claim, Goto, Publishing, Busy, TypeOK
  <2> QED
    BY <1>0, <2>1, <2>2, <2>3, <2>4, WorkerEffect
<1>4. ASSUME NEW w \in Worker, wpc'[w] = "unlink" PROVE Superseded(held[w])' 
  <2>1. CASE wpc'[w] = wpc[w] /\ held'[w] = held[w]
    <3>1. Superseded(held[w]) /\ held[w] \in File
      BY <1>0, <1>4, <2>1 DEF DurableInv, HandsOK, Running, Busy
    <3> QED
      BY <1>1, <2>1, <3>1
  <2>2. CASE Publish(w)
    <3>1. /\ held' = held
          /\ held[w] \in File /\ next[w] \in File /\ next[w].id = held[w].id
          /\ goal[w] \in {"pending", "done", "failed"}
          /\ goal[w] = "pending" => next[w].at > held[w].at
      BY <1>0, <2>2 DEF Publish, HandsOK, Running, Busy, DurableInv, Publishing
    <3>2. next[w] \in dir'[goal[w]]
      BY <1>0, <2>2, <3>1 DEF Publish, Land, Put, QueueTypeOK, State
    <3>3. CASE goal[w] = "pending"
      BY <3>1, <3>2, <3>3 DEF Superseded, Later, LiveCopies
    <3>4. CASE goal[w] \in {"done", "failed"}
      BY <3>1, <3>2, <3>4 DEF Superseded, OutcomeCopies
    <3> QED
      BY <3>1, <3>3, <3>4
  <2>3. CASE wpc'[w] \notin Busy \/ Claim(w) \/ RunEnds(w) \/ Write(w)
    BY <1>0, <1>4, <2>3 DEF Claim, RunEnds, RunSucceeds, RunFails, RunCancelled, HandOver, Write,
                            Goto, Busy, TypeOK
  <2> QED
    BY <1>0, <2>1, <2>2, <2>3, WorkerEffect
<1> QED
  BY <1>2, <1>3, <1>4 DEF DurableInv, NothingLost

LEMMA InitDurable == Init => DurableInv
  BY DEF Init, DurableInv, NothingLost, Accepted, Publishing

\* If a run takes at least one unit of the clock the file names are made of (so that a retry
\* never takes the name of the file it replaces), no accepted task is ever lost, whatever
\* the process dies of and wherever.
THEOREM NothingIsLost == ASSUME MinRun > 0 PROVE Spec => []NothingLost
<1>1. Init => TypeInv /\ DurableInv
  BY InitTypeInv, InitDurable
<1>2. TypeInv /\ DurableInv /\ [Next]_vars => (TypeInv /\ DurableInv)'
  BY NextTypeInv, DurableStep
<1>3. DurableInv => NothingLost
  BY DEF DurableInv
<1> QED
  BY <1>1, <1>2, <1>3, PTL DEF Spec
-----------------------------------------------------------------------------
(***************************************************************************)
(* Refinement: every step of the daemon is a step of the at-least-once     *)
(* queue (module TaskQueue), or none.                                      *)
(***************************************************************************)
Stutters == UNCHANGED <<Accepted, LiveTasks, Outcomes, succeeded>>

LEMMA DirSame ==
    ASSUME UNCHANGED dir
    PROVE  UNCHANGED <<LiveTasks, Outcomes>>
  BY DEF LiveTasks, Outcomes, LiveCopies

\* Only a publication accepts, only a run that ends well succeeds.
LEMMA PromiseFrame ==
    ASSUME TypeInv, LedgerInv, [Next]_vars
    PROVE  /\ (\A t \in Task : ~EnqueuePublish(t)) => Accepted' = Accepted
           /\ (\A w \in Worker : ~RunSucceeds(w)) => succeeded' = succeeded
<1>1. ASSUME \A t \in Task : ~EnqueuePublish(t) PROVE Accepted' \subseteq Accepted
  BY <1>1, NewlyAccepted DEF Accepted, TypeInv
<1>2. ASSUME \A w \in Worker : ~RunSucceeds(w) PROVE succeeded' = succeeded
  BY <1>2
     DEF Next, vars, EnqueueStep, EnqueueCheck, EnqueueWrite, EnqueuePublish, EnqueueFails,
         WorkerStep, CheckContext, Claim, Reject, Rejected, ClaimNothing, RunEnds, RunFails,
         RunCancelled, Write, Publish, Unlink, ClaimFails, RejectFails, StepFails, Stop, Return,
         Crash, Die, Restart, Recovery, RecoverOne, RecoverDone, RecoverFails, StartWorkers, Tick,
         historyVars
<1>3. Accepted \subseteq Accepted'
  BY KnownStays DEF LedgerInv
<1> QED
  BY <1>1, <1>2, <1>3

LEMMA MovesStutter ==
    ASSUME QueueTypeOK, NEW f \in File,
           \/ f \in dir["pending"] /\ Take(f)
           \/ f \in dir["running"] /\ PutBack(f)
           \/ f.id \in Damaged /\ Quarantine(f)
    PROVE  UNCHANGED <<LiveTasks, Outcomes>>
<1>0. dir \in [State -> SUBSET File]
  BY DEF QueueTypeOK
<1> USE DEF Readable
<1>1. ASSUME NEW t \in Readable PROVE (LiveCopies(t) # {}) <=> (LiveCopies(t)' # {})
  <2>1. CASE f \in dir["pending"] /\ Take(f)
    BY <1>0, <2>1 DEF Take, Put, SameName, LiveCopies, State
  <2>2. CASE f \in dir["running"] /\ PutBack(f)
    BY <1>0, <2>2 DEF PutBack, Put, SameName, LiveCopies, State
  <2>3. CASE f.id \in Damaged /\ Quarantine(f)
    BY <1>0, <2>3 DEF Quarantine, Drop, SameName, LiveCopies, State
  <2> QED
    BY <2>1, <2>2, <2>3
<1>2. ASSUME NEW t \in Readable, NEW s \in {"done", "failed"}
      PROVE  (\E g \in dir[s] : g.id = t) <=> (\E g \in dir'[s] : g.id = t)
  <2>1. CASE (f \in dir["pending"] /\ Take(f)) \/ (f \in dir["running"] /\ PutBack(f))
    BY <1>0, <2>1 DEF Take, PutBack, State
  <2>2. CASE f.id \in Damaged /\ Quarantine(f)
    BY <1>0, <2>2 DEF Quarantine, Put, SameName, State
  <2> QED
    BY <2>1, <2>2
<1>3. LiveTasks' = LiveTasks
  BY <1>1 DEF LiveTasks
<1>4. Outcomes' = Outcomes
  BY <1>2 DEF Outcomes
<1> QED
  BY <1>3, <1>4

LEMMA LandLive ==
    ASSUME QueueTypeOK, NEW f \in File, f.id \in Readable, Land("pending", f)
    PROVE  LiveTasks' = LiveTasks \cup {f.id} /\ Outcomes' = Outcomes
<1>0. dir \in [State -> SUBSET File] /\ dir' = [dir EXCEPT !["pending"] = Put(@, f)]
  BY DEF QueueTypeOK, Land
<1>1. ASSUME NEW t \in Readable PROVE (LiveCopies(t)' # {}) <=> (LiveCopies(t) # {} \/ t = f.id)
  BY <1>0 DEF LiveCopies, Put, SameName, State
<1>2. Outcomes' = Outcomes
  BY <1>0 DEF Outcomes, State
<1> QED
  BY <1>1, <1>2 DEF LiveTasks

LEMMA LandOutcome ==
    ASSUME QueueTypeOK, NEW f \in File, f.id \in Readable, NEW s \in {"done", "failed"}, Land(s, f)
    PROVE  LiveTasks' = LiveTasks /\ Outcomes' = [Outcomes EXCEPT ![f.id] = @ \cup {s}]
<1>0. dir \in [State -> SUBSET File] /\ dir' = [dir EXCEPT ![s] = Put(@, f)]
  BY DEF QueueTypeOK, Land
<1>1. LiveTasks' = LiveTasks
  BY <1>0 DEF LiveTasks, LiveCopies, State
<1>2. ASSUME NEW t \in Readable, NEW o \in {"done", "failed"}
      PROVE  (\E g \in dir'[o] : g.id = t) <=> ((\E g \in dir[o] : g.id = t) \/ (o = s /\ t = f.id))
  BY <1>0 DEF Put, SameName, State
<1>3. Outcomes' = [Outcomes EXCEPT ![f.id] = @ \cup {s}]
  <2>1. ASSUME NEW t \in Readable
        PROVE  Outcomes'[t] = IF t = f.id THEN Outcomes[t] \cup {s} ELSE Outcomes[t]
    BY <1>2 DEF Outcomes
  <2>2. /\ Outcomes = [t \in Readable |-> Outcomes[t]]
        /\ Outcomes' = [t \in Readable |-> Outcomes'[t]]
    BY DEF Outcomes
  <2> QED
    BY <2>1, <2>2
<1> QED
  BY <1>1, <1>3

LEMMA RemoveRetires ==
    ASSUME QueueTypeOK, NEW f \in File, f.id \in Readable, Superseded(f), Remove(f)
    PROVE  /\ Outcomes' = Outcomes
           /\ \/ LiveTasks' = LiveTasks
              \/ Outcomes[f.id] # {} /\ LiveTasks' = LiveTasks \ {f.id}
<1>0. dir \in [State -> SUBSET File] /\ dir' = [dir EXCEPT !["running"] = Drop(@, f)]
  BY DEF QueueTypeOK, Remove
<1>1. Outcomes' = Outcomes
  BY <1>0 DEF Outcomes, State
<1>2. ASSUME NEW t \in Readable, t # f.id PROVE (LiveCopies(t)' # {}) <=> (LiveCopies(t) # {})
  BY <1>0, <1>2 DEF LiveCopies, Drop, SameName, State
<1>3. LiveCopies(f.id)' \subseteq LiveCopies(f.id)
  BY <1>0 DEF LiveCopies, Drop, State
<1>4. CASE LiveCopies(f.id)' # {}
  BY <1>1, <1>2, <1>3, <1>4 DEF LiveTasks
<1>5. CASE LiveCopies(f.id)' = {}
  <2>1. OutcomeCopies(f.id) # {}
    <3>1. ASSUME NEW h \in LiveCopies(f.id), h.at > f.at PROVE h \in LiveCopies(f.id)'
      <4>1. h.at # f.at
        BY <1>0, <3>1 DEF LiveCopies, State, File
      <4> QED
        BY <1>0, <3>1, <4>1 DEF LiveCopies, Drop, SameName, State
    <3> QED
      BY <1>5, <3>1 DEF Superseded, Later
  <2>2. Outcomes[f.id] # {}
    BY <2>1 DEF OutcomeCopies, Outcomes
  <2>3. LiveTasks' = LiveTasks \ {f.id}
    BY <1>2, <1>5 DEF LiveTasks
  <2> QED
    BY <1>1, <2>2, <2>3
<1> QED
  BY <1>4, <1>5

LEMMA PromiseStep ==
    ASSUME TypeInv, LedgerInv, DurableInv, [Next]_vars
    PROVE  [Promise!Next]_(Promise!vars)
<1>0. TypeOK /\ HandsOK /\ HandsKnown /\ QueueTypeOK
  BY DEF TypeInv, TypeOK, LedgerInv
<1> DEFINE Goal == [Promise!Next]_(Promise!vars)
<1>1. Stutters => Goal
  BY DEF Stutters, Promise!vars
<1>2. ASSUME NEW t \in Task, EnqueuePublish(t) PROVE Goal
  <2>1. t \in Readable /\ t \notin Accepted
    BY <1>2 DEF EnqueuePublish, LedgerInv, Readable, Accepted
  <2>2. NewFile(t) \in File /\ NewFile(t).id = t
    BY <1>0, NewFileType DEF NewFile
  <2>3. Accepted' = Accepted \cup {t} /\ succeeded' = succeeded
    BY <1>0, <1>2 DEF EnqueuePublish, Accepted, TypeOK, historyVars
  <2>4. LiveTasks' = LiveTasks \cup {t} /\ Outcomes' = Outcomes
    BY <1>0, <1>2, <2>1, <2>2, LandLive DEF EnqueuePublish
  <2>5. Promise!Accept(t)
    BY <2>1, <2>3, <2>4 DEF Promise!Accept
  <2> QED
    BY <2>1, <2>5 DEF Promise!Next
<1>3. ASSUME NEW w \in Worker, Running(w), wpc[w] # "reject"
      PROVE  held[w] \in File /\ held[w].id \in Readable /\ held[w].id \in Accepted
  BY <1>0, <1>3 DEF HandsOK, HandsKnown, Known, Readable, File
<1>4. ASSUME NEW w \in Worker, RunSucceeds(w) PROVE Goal
  <2>1. held[w].id \in Readable /\ held[w].id \in Accepted
    BY <1>3, <1>4 DEF RunSucceeds, HandOver, Running, Busy
  <2>2. UNCHANGED <<Accepted, LiveTasks, Outcomes>>
    BY <1>4, DirSame DEF RunSucceeds, HandOver, queueVars, submitVars, Accepted
  <2>3. Promise!Succeed(held[w].id)
    BY <1>4, <2>1, <2>2 DEF Promise!Succeed, RunSucceeds
  <2> QED
    BY <2>1, <2>3 DEF Promise!Next
<1>5. CASE (\A t \in Task : ~EnqueuePublish(t)) /\ \A w \in Worker : ~RunSucceeds(w)
  <2>0. UNCHANGED <<Accepted, succeeded>>
    BY <1>5, PromiseFrame
  <2>1. CASE UNCHANGED dir
    BY <1>1, <2>0, <2>1, DirSame DEF Stutters
  <2>2. ASSUME NEW f \in dir["pending"], Take(f) PROVE Goal
    BY <1>0, <1>1, <2>0, <2>2, MovesStutter DEF Stutters, QueueTypeOK, State
  <2>3. ASSUME NEW f \in dir["running"], PutBack(f) PROVE Goal
    BY <1>0, <1>1, <2>0, <2>3, MovesStutter DEF Stutters, QueueTypeOK, State
  <2>4. ASSUME NEW w \in Worker, Reject(w) PROVE Goal
    <3>1. held[w] \in File /\ held[w].id \in Damaged /\ Quarantine(held[w])
      BY <1>0, <2>4 DEF Reject, Rejected, HandsOK, HandsKnown, Running, Busy
    <3> QED
      BY <1>0, <1>1, <2>0, <3>1, MovesStutter DEF Stutters
  <2>5. ASSUME NEW w \in Worker, Publish(w) PROVE Goal
    <3>1. /\ next[w] \in File /\ next[w].id \in Readable /\ next[w].id \in Accepted
          /\ goal[w] \in {"pending", "done", "failed"}
          /\ goal[w] = "done" => next[w].id \in succeeded
          /\ Land(goal[w], next[w])
      BY <1>0, <1>3, <2>5 DEF Publish, HandsOK, HandsKnown, Publishing, Running, Busy
    <3>2. CASE goal[w] = "pending"
      <4>1. Promise!Requeue(next[w].id)
        BY <1>0, <2>0, <3>1, <3>2, LandLive DEF Promise!Requeue
      <4> QED
        BY <3>1, <4>1 DEF Promise!Next
    <3>3. CASE goal[w] \in {"done", "failed"}
      <4>1. Promise!Record(next[w].id, goal[w])
        BY <1>0, <2>0, <3>1, <3>3, LandOutcome DEF Promise!Record
      <4> QED
        BY <3>1, <3>3, <4>1 DEF Promise!Next, Promise!Outcome
    <3> QED
      BY <3>1, <3>2, <3>3
  <2>6. ASSUME NEW w \in Worker, Unlink(w) PROVE Goal
    <3>1. held[w] \in File /\ held[w].id \in Readable /\ Superseded(held[w]) /\ Remove(held[w])
      BY <1>3, <2>6 DEF Unlink, Running, Busy, DurableInv
    <3>2. CASE LiveTasks' = LiveTasks
      BY <1>0, <1>1, <2>0, <3>1, <3>2, RemoveRetires DEF Stutters
    <3>3. CASE LiveTasks' # LiveTasks
      <4>1. Promise!Retire(held[w].id)
        BY <1>0, <2>0, <3>1, <3>3, RemoveRetires DEF Promise!Retire
      <4> QED
        BY <3>1, <4>1 DEF Promise!Next
    <3> QED
      BY <3>2, <3>3
  <2> QED
    BY <1>5, <2>1, <2>2, <2>3, <2>4, <2>5, <2>6, DirEffect
<1> QED
  BY <1>2, <1>4, <1>5

LEMMA PromiseInit == Init => Promise!Init
<1> SUFFICES ASSUME Init PROVE Promise!Init
  OBVIOUS
<1>1. Accepted = {} /\ succeeded = {}
  BY DEF Init, Accepted
<1>2. LiveTasks = {}
  BY DEF Init, QueueInit, State, LiveTasks, LiveCopies, Readable
<1>3. Outcomes = [t \in Readable |-> {}]
  BY DEF Init, QueueInit, State, Outcomes
<1> QED
  BY <1>1, <1>2, <1>3 DEF Promise!Init

\* Under the same hypothesis the directories implement the at-least-once queue: a task leaves
\* the live ones only with an outcome on record, and "done" is recorded only of a success.
THEOREM QueueKeepsItsPromise == ASSUME MinRun > 0 PROVE Spec => AtLeastOnce
<1>1. Init => TypeInv /\ LedgerInv /\ DurableInv /\ Promise!Init
  BY InitTypeInv, InitLedger, InitDurable, PromiseInit
<1>2. TypeInv /\ LedgerInv /\ DurableInv /\ [Next]_vars => (TypeInv /\ LedgerInv /\ DurableInv)'
  BY NextTypeInv, LedgerStep, DurableStep
<1>3. TypeInv /\ LedgerInv /\ DurableInv /\ [Next]_vars => [Promise!Next]_(Promise!vars)
  BY PromiseStep
<1> QED
  BY <1>1, <1>2, <1>3, PTL DEF Spec, AtLeastOnce, Promise!Spec
=============================================================================
