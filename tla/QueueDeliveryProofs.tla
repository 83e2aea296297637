------------------------ MODULE QueueDeliveryProofs ------------------------
(***************************************************************************)
(* Theorems about QueueDaemon while no process dies and no I/O error hits  *)
(* it, for any tasks, workers and bounds: a task is run by one worker at a *)
(* time, not after its outcome, and fails at most MaxAttempts times,       *)
(* through any number of retries, shutdowns and restarts.                  *)
(***************************************************************************)
EXTENDS QueueDaemonProofs

\* A worker between the claim of a file and the publication of what follows.
Holds(w) == wpc[w] \in {"reject", "run", "write", "publish"}

\* A task has one file in pending/, or one worker, or an outcome.
OneCopy ==
    /\ \A f, g \in dir["pending"] : f.id = g.id => f = g
    /\ \A f \in dir["pending"] : OutcomeCopies(f.id) = {}
    /\ \A w \in Worker : Holds(w) =>
          /\ OutcomeCopies(held[w].id) = {}
          /\ \A f \in dir["pending"] : f.id # held[w].id
          /\ \A v \in Worker \ {w} : Holds(v) => held[v].id # held[w].id

\* The attempts written in that file, or in the worker's hands, are the failures so far.
AttemptsCounted ==
    /\ \A f \in dir["pending"] : errors[f.id] = f.attempt /\ f.attempt < MaxAttempts
    /\ \A w \in Worker : wpc[w] \in {"reject", "run"} =>
          errors[held[w].id] = held[w].attempt /\ held[w].attempt < MaxAttempts
    /\ \A w \in Worker : wpc[w] \in {"write", "publish"} =>
          /\ errors[held[w].id] = next[w].attempt
          /\ goal[w] = "pending" => next[w].attempt < MaxAttempts
    /\ \A t \in Task : errors[t] <= MaxAttempts

\* Nothing has happened to a task on its way into the queue.
Untouched ==
    \A t \in Task : sub[t] \in {"new", "write", "publish"} => OutcomeCopies(t) = {} /\ errors[t] = 0

\* A process starts on an empty running/: the last one returned when its workers were done.
AtRest ==
    /\ clean
    /\ mode \in {"recovering", "down"} => dir["running"] = {} /\ \A w \in Worker : wpc[w] = "exit"

OnceInv == crashes = 0 /\ faults = 0 => OneCopy /\ AttemptsCounted /\ Untouched /\ AtRest
-----------------------------------------------------------------------------
LEMMA InitOnce == Init => OnceInv
<1> SUFFICES ASSUME Init PROVE OnceInv
  OBVIOUS
<1>1. /\ dir["running"] = {} /\ dir["done"] = {} /\ dir["failed"] = {}
      /\ dir["pending"] = {[id |-> t, at |-> 0, attempt |-> 0] : t \in Damaged}
  BY DEF Init, QueueInit, State
<1>2. OneCopy
  BY <1>1 DEF OneCopy, OutcomeCopies, Holds, Init
<1>3. AttemptsCounted
  BY <1>1, QueueAssumption, DaemonAssumption DEF AttemptsCounted, Init
<1>4. Untouched
  BY <1>1 DEF Untouched, OutcomeCopies, Init
<1>5. AtRest
  BY <1>1 DEF AtRest, Init
<1> QED
  BY <1>2, <1>3, <1>4, <1>5 DEF OnceInv

\* Deaths and errors are counted, and never forgotten.
LEMMA CountsStay ==
    ASSUME TypeOK, [Next]_vars, crashes' = 0, faults' = 0
    PROVE  crashes = 0 /\ faults = 0
<1>1. crashes' = crashes \/ crashes' = crashes + 1
  BY DEF Next, vars, boundVars, EnqueueStep, EnqueueCheck, EnqueueWrite, EnqueuePublish, EnqueueFails,
         WorkerStep, CheckContext, Claim, Reject, Rejected, ClaimNothing, RunEnds, RunSucceeds, RunFails,
         RunCancelled, HandOver, Write, Publish, Unlink, ClaimFails, RejectFails, StepFails, Stop,
         Return, Crash, Restart, Recovery, RecoverOne, RecoverDone, RecoverFails, StartWorkers, Tick
<1>2. faults' = faults \/ faults' = faults + 1
  BY DEF Next, vars, boundVars, EnqueueStep, EnqueueCheck, EnqueueWrite, EnqueuePublish, EnqueueFails,
         WorkerStep, CheckContext, Claim, Reject, Rejected, ClaimNothing, RunEnds, RunSucceeds, RunFails,
         RunCancelled, HandOver, Write, Publish, Unlink, ClaimFails, RejectFails, StepFails, Stop,
         Return, Crash, Die, Restart, Recovery, RecoverOne, RecoverDone, RecoverFails, StartWorkers, Tick
<1> QED
  BY <1>1, <1>2 DEF TypeOK

\* What OneCopy and AttemptsCounted say does not depend on running/, nor on workers that
\* stop holding their task.
LEMMA HoldingFrame ==
    ASSUME TypeInv, OneCopy, AttemptsCounted,
           dir'["pending"] = dir["pending"], dir'["done"] = dir["done"], dir'["failed"] = dir["failed"],
           errors' = errors,
           \A w \in Worker : Holds(w)' =>
              /\ held'[w] = held[w]
              /\ \/ wpc[w] \in {"reject", "run"} /\ wpc'[w] \in {"reject", "run"}
                 \/ /\ wpc[w] \in {"write", "publish"} /\ wpc'[w] \in {"write", "publish"}
                    /\ next'[w] = next[w] /\ goal'[w] = goal[w]
    PROVE  OneCopy' /\ AttemptsCounted'
<1>1. \A w \in Worker : Holds(w)' => Holds(w) /\ held'[w] = held[w]
  BY DEF Holds
<1>2. \A t : OutcomeCopies(t)' = OutcomeCopies(t)
  BY DEF OutcomeCopies
<1>3. OneCopy'
  BY <1>1, <1>2 DEF OneCopy
<1>4. AttemptsCounted'
  BY DEF AttemptsCounted, Holds
<1> QED
  BY <1>3, <1>4

LEMMA OnceStep == TypeInv /\ LedgerInv /\ NoOrphan /\ OnceInv /\ [Next]_vars => OnceInv'
<1> SUFFICES ASSUME TypeInv, LedgerInv, NoOrphan, OnceInv, [Next]_vars, crashes' = 0, faults' = 0
             PROVE  OneCopy' /\ AttemptsCounted' /\ Untouched' /\ AtRest'
  BY DEF OnceInv
<1>0. /\ TypeOK /\ HandsOK /\ HandsKnown /\ dir \in [State -> SUBSET File] /\ TypeOK' /\ TypeInv'
      /\ crashes = 0 /\ faults = 0
  BY NextTypeInv, CountsStay DEF TypeInv, TypeOK, QueueTypeOK, LedgerInv
<1>1. OneCopy /\ AttemptsCounted /\ Untouched /\ AtRest
  BY <1>0 DEF OnceInv
<1>2. ASSUME NEW t \in Task, EnqueueCheck(t) \/ EnqueueWrite(t)
      PROVE  OneCopy' /\ AttemptsCounted' /\ Untouched' /\ AtRest'
  <2>1. dir' = dir /\ UNCHANGED <<errors, wpc, held, next, goal, mode, clean>>
    BY <1>2 DEF EnqueueCheck, EnqueueWrite, Stage, queueVars, daemonVars, workerVars, historyVars,
                boundVars
  <2>2. OneCopy' /\ AttemptsCounted'
    BY <1>0, <1>1, <2>1, HoldingFrame DEF Holds
  <2>3. Untouched'
    BY <1>0, <1>1, <1>2, <2>1 DEF Untouched, OutcomeCopies, EnqueueCheck, EnqueueWrite, TypeOK
  <2> QED
    BY <1>1, <2>1, <2>2, <2>3 DEF AtRest
<1>3. ASSUME NEW t \in Task, EnqueuePublish(t)
      PROVE  OneCopy' /\ AttemptsCounted' /\ Untouched' /\ AtRest'
  <2> DEFINE n == NewFile(t)
  <2>1. /\ n.id = t /\ n.attempt = 0 /\ dir'["pending"] = Put(dir["pending"], n)
        /\ \A s \in State \ {"pending"} : dir'[s] = dir[s]
        /\ UNCHANGED <<errors, wpc, held, next, goal, mode, clean>>
    BY <1>0, <1>3
       DEF EnqueuePublish, Land, NewFile, State, daemonVars, workerVars, historyVars, boundVars
  <2>2. t \notin Accepted /\ t \notin Damaged
    BY <1>3 DEF EnqueuePublish, Accepted, LedgerInv
  <2>3. /\ \A f \in dir["pending"] : f.id # t
        /\ \A w \in Worker : Holds(w) => held[w].id # t
    BY <1>0, <2>2 DEF LedgerInv, Known, HandsKnown, Holds, Running, Busy
  <2>4. OutcomeCopies(t) = {} /\ errors[t] = 0
    BY <1>1, <1>3 DEF Untouched, EnqueuePublish
  <2>5. /\ \A f \in dir'["pending"] : f \in dir["pending"] \/ f = n
        /\ \A u : OutcomeCopies(u)' = OutcomeCopies(u)
        /\ \A w \in Worker : Holds(w)' <=> Holds(w)
    BY <2>1 DEF Put, OutcomeCopies, State, Holds
  <2> HIDE DEF n
  <2>6. OneCopy'
    <3>1. \A f, g \in dir'["pending"] : f.id = g.id => f = g
      BY <1>1, <2>1, <2>3, <2>5 DEF OneCopy
    <3>2. \A f \in dir'["pending"] : OutcomeCopies(f.id)' = {}
      BY <1>1, <2>1, <2>4, <2>5 DEF OneCopy
    <3>3. ASSUME NEW w \in Worker, Holds(w)'
          PROVE  /\ OutcomeCopies(held[w].id)' = {}
                 /\ \A f \in dir'["pending"] : f.id # held'[w].id
                 /\ \A v \in Worker \ {w} : Holds(v)' => held'[v].id # held'[w].id
      BY <1>1, <2>1, <2>3, <2>5, <3>3 DEF OneCopy
    <3> QED
      BY <3>1, <3>2, <3>3 DEF OneCopy
  <2>7. AttemptsCounted'
    BY <1>1, <2>1, <2>4, <2>5, DaemonAssumption DEF AttemptsCounted
  <2>8. Untouched'
    BY <1>0, <1>1, <1>3, <2>1, <2>5 DEF Untouched, EnqueuePublish, TypeOK
  <2> QED
    BY <1>1, <2>1, <2>6, <2>7, <2>8 DEF AtRest, State
<1>4. ASSUME NEW w \in Worker, CheckContext(w) \/ ClaimNothing(w) \/ Write(w)
      PROVE  OneCopy' /\ AttemptsCounted' /\ Untouched' /\ AtRest'
  <2>1. dir' = dir /\ UNCHANGED <<errors, sub, held, next, goal, mode, clean>>
    BY <1>4 DEF CheckContext, ClaimNothing, Write, Stage, queueVars, daemonVars, submitVars,
                historyVars, boundVars
  <2>2. \A v \in Worker : wpc'[v] = wpc[v] \/ (wpc[v] = "write" /\ wpc'[v] = "publish")
                          \/ wpc'[v] \in {"exit", "scan", "idle"}
    BY <1>0, <1>4 DEF CheckContext, ClaimNothing, Write, Goto, TypeOK
  <2>3. OneCopy' /\ AttemptsCounted'
    BY <1>0, <1>1, <2>1, <2>2, HoldingFrame DEF Holds
  <2>4. Untouched'
    BY <1>1, <2>1 DEF Untouched, OutcomeCopies
  <2>5. wpc[w] # "exit"
    BY <1>4 DEF CheckContext, ClaimNothing, Write
  <2> QED
    BY <1>1, <2>1, <2>3, <2>4, <2>5 DEF AtRest
<1>5. ASSUME NEW w \in Worker, Claim(w)
      PROVE  OneCopy' /\ AttemptsCounted' /\ Untouched' /\ AtRest'
  <2>1. PICK f \in dir["pending"] :
          /\ Take(f)
          /\ held' = [held EXCEPT ![w] = f]
          /\ Goto(w, IF f.id \in Damaged THEN "reject" ELSE "run")
    BY <1>5 DEF Claim
  <2>2. /\ dir'["pending"] = dir["pending"] \ {f}
        /\ dir'["done"] = dir["done"] /\ dir'["failed"] = dir["failed"]
        /\ UNCHANGED <<errors, sub, next, goal, mode, clean>>
        /\ wpc[w] = "scan"
    BY <1>0, <1>5, <2>1 DEF Claim, Take, State, daemonVars, submitVars, historyVars, boundVars
  <2>3. /\ held'[w] = f /\ wpc'[w] \in {"reject", "run"}
        /\ \A v \in Worker \ {w} : held'[v] = held[v] /\ wpc'[v] = wpc[v]
    BY <1>0, <2>1 DEF Goto, TypeOK
  <2>4. \A u : OutcomeCopies(u)' = OutcomeCopies(u)
    BY <2>2 DEF OutcomeCopies
  <2>5. OneCopy'
    BY <1>1, <2>2, <2>3, <2>4 DEF OneCopy, Holds
  <2>6. AttemptsCounted'
    BY <1>1, <2>2, <2>3 DEF AttemptsCounted
  <2>7. Untouched'
    BY <1>1, <2>2, <2>4 DEF Untouched
  <2> QED
    BY <1>1, <2>2, <2>5, <2>6, <2>7 DEF AtRest
<1>6. ASSUME NEW w \in Worker, Reject(w)
      PROVE  OneCopy' /\ AttemptsCounted' /\ Untouched' /\ AtRest'
  <2> DEFINE u == held[w].id
  <2>1. /\ dir'["pending"] = dir["pending"] /\ dir'["done"] = dir["done"]
        /\ dir'["failed"] = Put(dir["failed"], held[w])
        /\ UNCHANGED <<errors, sub, next, goal, mode, clean>>
        /\ wpc[w] = "reject" /\ wpc'[w] = "scan"
        /\ \A v \in Worker \ {w} : held'[v] = held[v] /\ wpc'[v] = wpc[v]
    BY <1>0, <1>6
       DEF Reject, Rejected, Quarantine, Goto, TypeOK, State, daemonVars, submitVars, historyVars
  <2>2. u \in Task /\ held[w] \in File
    BY <1>0, <2>1 DEF HandsOK, Running, Busy, File
  <2>3. \A t : t # u => (OutcomeCopies(t) = {} => OutcomeCopies(t)' = {})
    BY <2>1 DEF OutcomeCopies, Put
  <2>4. /\ \A f \in dir["pending"] : f.id # u
        /\ \A v \in Worker \ {w} : Holds(v) => held[v].id # u
    BY <1>1, <2>1 DEF OneCopy, Holds
  <2>5. sub[u] \notin {"new", "write", "publish"}
    BY <1>0, <2>1, <2>2 DEF HandsKnown, Known, Running, Busy, Accepted, LedgerInv
  <2> HIDE DEF u
  <2>6. OneCopy'
    BY <1>1, <2>1, <2>3, <2>4 DEF OneCopy, Holds
  <2>7. AttemptsCounted'
    BY <1>1, <2>1 DEF AttemptsCounted
  <2>8. Untouched'
    BY <1>1, <2>1, <2>3, <2>5 DEF Untouched
  <2> QED
    BY <1>1, <2>1, <2>6, <2>7, <2>8 DEF AtRest
<1>7. ASSUME NEW w \in Worker, RunEnds(w)
      PROVE  OneCopy' /\ AttemptsCounted' /\ Untouched' /\ AtRest'
  <2> DEFINE u == held[w].id
  <2>1. /\ dir' = dir /\ UNCHANGED <<sub, held, mode, clean>>
        /\ wpc[w] = "run" /\ wpc'[w] = "write"
        /\ \A v \in Worker \ {w} : wpc'[v] = wpc[v] /\ next'[v] = next[v] /\ goal'[v] = goal[v]
    BY <1>0, <1>7
       DEF RunEnds, RunSucceeds, RunFails, RunCancelled, HandOver, Goto, TypeOK, queueVars, daemonVars,
           submitVars, boundVars
  <2>2. held[w] \in File /\ u \in Task /\ now \in Nat /\ MaxAttempts \in Nat
    BY <1>0, <2>1, DaemonAssumption DEF HandsOK, Running, Busy, File, TypeOK
  <2>3. errors[u] = held[w].attempt /\ held[w].attempt < MaxAttempts /\ errors[u] \in Nat
    BY <1>0, <1>1, <2>1, <2>2 DEF AttemptsCounted, TypeOK
  <2>4. /\ \A f \in dir["pending"] : f.id # u
        /\ \A v \in Worker \ {w} : Holds(v) => held[v].id # u
    BY <1>1, <2>1 DEF OneCopy, Holds
  <2>5. sub[u] \notin {"new", "write", "publish"}
    BY <1>0, <2>1, <2>2 DEF HandsKnown, Known, Running, Busy, Accepted, LedgerInv
  <2>6. /\ errors'[u] = next'[w].attempt
        /\ goal'[w] = "pending" => next'[w].attempt < MaxAttempts
        /\ errors'[u] <= MaxAttempts
        /\ \A t \in Task \ {u} : errors'[t] = errors[t]
    <3>1. CASE RunSucceeds(w)
      BY <1>0, <2>2, <2>3, <3>1 DEF RunSucceeds, HandOver, TypeOK
    <3>2. CASE RunFails(w)
      <4> DEFINE f == Failed(held[w])
      <4>1. f.id = u /\ f.attempt = held[w].attempt + 1
        BY <2>2, FailedFile
      <4>2. /\ errors' = [errors EXCEPT ![u] = @ + 1] /\ next'[w] = f
            /\ goal'[w] = IF f.attempt >= MaxAttempts THEN "failed" ELSE "pending"
        BY <1>0, <3>2, <4>1 DEF RunFails, HandOver, TypeOK
      <4> HIDE DEF f
      <4>3. errors'[u] = errors[u] + 1 /\ \A t \in Task \ {u} : errors'[t] = errors[t]
        BY <1>0, <2>2, <4>2 DEF TypeOK
      <4>4. held[w].attempt \in Nat
        BY <2>2 DEF File
      <4> QED
        BY <2>2, <2>3, <4>1, <4>2, <4>3, <4>4
    <3>3. CASE RunCancelled(w)
      BY <1>0, <2>2, <2>3, <3>3 DEF RunCancelled, HandOver, TypeOK, File, historyVars
    <3> QED
      BY <1>7, <3>1, <3>2, <3>3 DEF RunEnds
  <2>7. \A t : OutcomeCopies(t)' = OutcomeCopies(t)
    BY <2>1 DEF OutcomeCopies
  <2>8. \A v \in Worker : Running(v) => held[v].id \in Task
    BY <1>0 DEF HandsOK, File
  <2> HIDE DEF u
  <2>9. OneCopy'
    BY <1>1, <2>1, <2>7 DEF OneCopy, Holds
  <2>10. AttemptsCounted'
    <3>1. \A f \in dir["pending"] : f.id \in Task
      BY <1>0 DEF State, File
    <3>2. \A f \in dir'["pending"] : errors'[f.id] = f.attempt /\ f.attempt < MaxAttempts
      BY <1>1, <2>1, <2>4, <2>6, <3>1 DEF AttemptsCounted
    <3>3. ASSUME NEW v \in Worker, wpc'[v] \in {"reject", "run"}
          PROVE  errors'[held'[v].id] = held'[v].attempt /\ held'[v].attempt < MaxAttempts
      BY <1>1, <2>1, <2>4, <2>6, <2>8, <3>3 DEF AttemptsCounted, Holds, Running, Busy
    <3>4. ASSUME NEW v \in Worker, wpc'[v] \in {"write", "publish"}, v # w
          PROVE  /\ errors'[held'[v].id] = next'[v].attempt
                 /\ goal'[v] = "pending" => next'[v].attempt < MaxAttempts
      BY <1>1, <2>1, <2>4, <2>6, <2>8, <3>4 DEF AttemptsCounted, Holds, Running, Busy
    <3>5. \A t \in Task : errors'[t] <= MaxAttempts
      BY <1>1, <2>6 DEF AttemptsCounted
    <3> QED
      BY <2>1, <2>6, <3>2, <3>3, <3>4, <3>5 DEF AttemptsCounted, u
  <2>11. Untouched'
    BY <1>1, <2>1, <2>5, <2>6, <2>7 DEF Untouched
  <2> QED
    BY <1>1, <2>1, <2>9, <2>10, <2>11 DEF AtRest
<1>8. ASSUME NEW w \in Worker, Publish(w)
      PROVE  OneCopy' /\ AttemptsCounted' /\ Untouched' /\ AtRest'
  <2> DEFINE u == held[w].id
             n == next[w]
  <2>1. /\ dir' = [dir EXCEPT ![goal[w]] = Put(@, n)]
        /\ UNCHANGED <<errors, sub, held, next, goal, mode, clean>>
        /\ wpc[w] = "publish" /\ wpc'[w] = "unlink"
        /\ \A v \in Worker \ {w} : wpc'[v] = wpc[v]
    BY <1>0, <1>8
       DEF Publish, Land, Goto, TypeOK, daemonVars, submitVars, historyVars, boundVars
  <2>2. n \in File /\ n.id = u /\ u \in Task /\ goal[w] \in {"pending", "done", "failed"}
    BY <1>0, <2>1 DEF HandsOK, File
  <2>3. /\ errors[u] = n.attempt /\ (goal[w] = "pending" => n.attempt < MaxAttempts)
        /\ OutcomeCopies(u) = {}
        /\ \A f \in dir["pending"] : f.id # u
        /\ \A v \in Worker \ {w} : Holds(v) => held[v].id # u
    BY <1>1, <2>1 DEF AttemptsCounted, OneCopy, Holds
  <2>4. sub[u] \notin {"new", "write", "publish"}
    BY <1>0, <2>1, <2>2 DEF HandsKnown, Known, Running, Busy, Accepted, LedgerInv
  <2>5. \A t : t # u => (OutcomeCopies(t) = {} => OutcomeCopies(t)' = {})
    BY <1>0, <2>1, <2>2 DEF OutcomeCopies, Put, State
  <2>6. /\ goal[w] = "pending" => /\ OutcomeCopies(u)' = {}
                                  /\ \A f \in dir'["pending"] : f \in dir["pending"] \/ f = n
        /\ goal[w] # "pending" => dir'["pending"] = dir["pending"]
    BY <1>0, <2>1, <2>2, <2>3 DEF OutcomeCopies, Put, State
  <2>7. mode \notin {"recovering", "down"}
    BY <1>1, <2>1 DEF AtRest
  <2>11. u' = u
    BY <2>1
  <2> HIDE DEF u, n
  <2>8. OneCopy'
    <3>1. \A f, g \in dir'["pending"] : f.id = g.id => f = g
      BY <1>1, <2>2, <2>3, <2>6 DEF OneCopy
    <3>2. ASSUME NEW f \in dir'["pending"] PROVE OutcomeCopies(f.id)' = {}
      <4>1. CASE f.id = u
        BY <2>2, <2>3, <2>6, <2>11, <3>2, <4>1
      <4>2. CASE f.id # u
        BY <1>1, <2>2, <2>5, <2>6, <3>2, <4>2 DEF OneCopy
      <4> QED
        BY <4>1, <4>2
    <3>3. ASSUME NEW v \in Worker, Holds(v)'
          PROVE  /\ OutcomeCopies(held[v].id)' = {}
                 /\ \A f \in dir'["pending"] : f.id # held'[v].id
                 /\ \A x \in Worker \ {v} : Holds(x)' => held'[x].id # held'[v].id
      <4>1. v # w /\ Holds(v) /\ held[v].id # u
        BY <2>1, <2>3, <3>3 DEF Holds
      <4>2. /\ OutcomeCopies(held[v].id) = {}
            /\ \A f \in dir["pending"] : f.id # held[v].id
            /\ \A x \in Worker \ {v} : Holds(x) => held[x].id # held[v].id
        BY <1>1, <4>1 DEF OneCopy
      <4>3. \A x \in Worker : Holds(x)' => Holds(x)
        BY <2>1 DEF Holds
      <4> QED
        BY <2>1, <2>2, <2>5, <2>6, <4>1, <4>2, <4>3
    <3> QED
      BY <3>1, <3>2, <3>3 DEF OneCopy
  <2>9. AttemptsCounted'
    <3>1. \A f \in dir'["pending"] : errors[f.id] = f.attempt /\ f.attempt < MaxAttempts
      BY <1>1, <2>2, <2>3, <2>6 DEF AttemptsCounted
    <3> QED
      BY <1>1, <2>1, <3>1 DEF AttemptsCounted
  <2>10. Untouched'
    BY <1>1, <2>1, <2>4, <2>5 DEF Untouched
  <2> QED
    BY <1>1, <2>1, <2>7, <2>8, <2>9, <2>10 DEF AtRest
<1>9. ASSUME NEW w \in Worker, Unlink(w)
      PROVE  OneCopy' /\ AttemptsCounted' /\ Untouched' /\ AtRest'
  <2>1. /\ dir'["pending"] = dir["pending"]
        /\ dir'["done"] = dir["done"] /\ dir'["failed"] = dir["failed"]
        /\ UNCHANGED <<errors, sub, mode, clean>>
        /\ wpc[w] = "unlink" /\ wpc'[w] = "idle"
        /\ \A v \in Worker \ {w} : /\ wpc'[v] = wpc[v] /\ held'[v] = held[v]
                                   /\ next'[v] = next[v] /\ goal'[v] = goal[v]
    BY <1>0, <1>9
       DEF Unlink, Remove, PutDown, Goto, TypeOK, State, daemonVars, submitVars, historyVars, boundVars
  <2>2. OneCopy' /\ AttemptsCounted'
    BY <1>0, <1>1, <2>1, HoldingFrame DEF Holds
  <2>3. Untouched'
    BY <1>1, <2>1 DEF Untouched, OutcomeCopies
  <2> QED
    BY <1>1, <2>1, <2>2, <2>3 DEF AtRest
<1>10. CASE Return
  <2>1. /\ dir' = dir /\ errors' = errors /\ clean' = clean
        /\ mode \in {"up", "stopping"} /\ \A w \in Worker : wpc[w] = "exit" /\ wpc'[w] = "exit"
        /\ \A t \in Task : sub'[t] = sub[t] \/ sub'[t] = "abandoned"
    BY <1>10 DEF Return, Die, queueVars, historyVars
  <2>2. dir["running"] = {}
    BY <1>1, <2>1 DEF NoOrphan, AtRest, Running, Busy
  <2>3. OneCopy' /\ AttemptsCounted'
    BY <1>0, <1>1, <2>1, HoldingFrame DEF Holds
  <2>4. Untouched'
    BY <1>1, <2>1 DEF Untouched, OutcomeCopies
  <2> QED
    BY <1>1, <2>1, <2>2, <2>3, <2>4 DEF AtRest
<1>11. CASE Stop \/ Restart \/ RecoverDone \/ Tick \/ UNCHANGED vars
  <2>1. dir' = dir /\ UNCHANGED <<errors, sub, held, next, goal>>
    BY <1>11 DEF Stop, Restart, RecoverDone, StartWorkers, Tick, vars, queueVars, submitVars,
                 workerVars, historyVars
  <2>2. wpc' = wpc \/ \A w \in Worker : wpc'[w] = "idle"
    BY <1>11 DEF Stop, Restart, RecoverDone, StartWorkers, Tick, vars, workerVars
  <2>3. OneCopy' /\ AttemptsCounted'
    BY <1>0, <1>1, <2>1, <2>2, HoldingFrame DEF Holds
  <2>4. Untouched'
    BY <1>1, <2>1 DEF Untouched, OutcomeCopies
  <2>5. AtRest'
    <3>1. CASE Stop
      BY <1>1, <2>1, <3>1 DEF AtRest, Stop
    <3>2. CASE Restart
      BY <1>1, <2>1, <3>2 DEF AtRest, Restart, workerVars
    <3>3. CASE RecoverDone
      BY <1>1, <2>1, <3>3 DEF AtRest, RecoverDone, StartWorkers
    <3>4. CASE Tick \/ UNCHANGED vars
      BY <1>1, <2>1, <3>4 DEF AtRest, Tick, vars, workerVars, boundVars, daemonVars
    <3> QED
      BY <1>11, <3>1, <3>2, <3>3, <3>4
  <2> QED
    BY <2>3, <2>4, <2>5
<1>12. ASSUME RecoverOne PROVE FALSE
  BY <1>1, <1>12 DEF RecoverOne, AtRest
<1>13. ASSUME Crash PROVE FALSE
  BY <1>0, <1>13 DEF Crash
<1>14. ASSUME \/ \E t \in Task : EnqueueFails(t)
              \/ \E w \in Worker : ClaimFails(w) \/ RejectFails(w) \/ StepFails(w)
              \/ RecoverFails
       PROVE  FALSE
  BY <1>0, <1>14 DEF EnqueueFails, ClaimFails, RejectFails, StepFails, RecoverFails
<1> QED
  BY <1>2, <1>3, <1>4, <1>5, <1>6, <1>7, <1>8, <1>9, <1>10, <1>11, <1>12, <1>13, <1>14
     DEF Next, EnqueueStep, WorkerStep, Recovery

\* As long as no process dies and no I/O error hits the queue, a task is in the hands of one
\* worker at a time and is not run again once its outcome is recorded, for any number of
\* workers, tasks, retries and graceful shutdowns.
THEOREM TaskIsDeliveredOnce == Spec => []DeliveredOnce
<1>1. Init => TypeInv /\ LedgerInv /\ NoOrphan /\ OnceInv
  BY InitTypeInv, InitLedger, InitOnce DEF Init, NoOrphan
<1>2. TypeInv /\ LedgerInv /\ NoOrphan /\ OnceInv /\ [Next]_vars
        => (TypeInv /\ LedgerInv /\ NoOrphan /\ OnceInv)'
  BY NextTypeInv, LedgerStep, NoOrphanStep, OnceStep
<1>3. OnceInv => DeliveredOnce
  BY DEF OnceInv, OneCopy, Holds, DeliveredOnce
<1> QED
  BY <1>1, <1>2, <1>3, PTL DEF Spec

\* And it has at most MaxAttempts failing runs: the count that travels through the names, the
\* workers' hands and the restarts is the number of its failures, neither less nor more.
THEOREM RetriesAreBounded == Spec => []RetryBudget
<1>1. Init => TypeInv /\ LedgerInv /\ NoOrphan /\ OnceInv
  BY InitTypeInv, InitLedger, InitOnce DEF Init, NoOrphan
<1>2. TypeInv /\ LedgerInv /\ NoOrphan /\ OnceInv /\ [Next]_vars
        => (TypeInv /\ LedgerInv /\ NoOrphan /\ OnceInv)'
  BY NextTypeInv, LedgerStep, NoOrphanStep, OnceStep
<1>3. OnceInv => RetryBudget
  BY DEF OnceInv, AttemptsCounted, RetryBudget
<1> QED
  BY <1>1, <1>2, <1>3, PTL DEF Spec
=============================================================================
