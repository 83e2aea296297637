--------------------------- MODULE TriggersProofs ---------------------------
(***************************************************************************)
(* Theorems about Triggers and Manifest, for any manifests, calendars,     *)
(* machines and bounds: where a task is once it has been accepted, what a  *)
(* manifest that was validated may still be refused for, and when a daily  *)
(* trigger is served.                                                      *)
(***************************************************************************)
EXTENDS Triggers, SequenceTheorems, FiniteSetTheorems, TLAPS

TaskType == [trigger : Trigger, attempt : Nat]

IsConfig(c) == c = [file |-> c.file, urls |-> c.urls, env |-> c.env, unusable |-> c.unusable]

\* The manifest is one of those given, the worker has one task at most.
TypeInv ==
    /\ \E x \in Instances : manifest = x.manifest
    /\ IsConfig(machine)
    /\ queue \in Seq(TaskType) /\ held \in Seq(TaskType) /\ Len(held) <= 1
    /\ accepted \in Nat /\ decided \in Nat /\ lost \in Nat /\ deaths \in Nat

\* A process that has come past LoadManifest has a manifest that was read and validated,
\* and one that was refused with such a manifest knows why.
Accepted == Readable(manifest) /\ Valid(manifest)

StageInv ==
    /\ stage \in {"off", "loaded", "built", "wired", "up", "panicked", "refused"}
    /\ stage \in {"loaded", "built", "wired", "up", "panicked"} => Accepted
    /\ stage = "refused" /\ Accepted =>
         \/ BuildProblems(machine, manifest) # {}
         \/ DaemonProblems(machine, manifest) # {}
         \/ manifest.triggers = <<>>
    /\ stage = "panicked" =>
         \/ \E i \in Trigger : T(i).type = "every" /\ T(i).every = "zero"
         \/ Listens(manifest) /\ ~RoutesServed(manifest)

-----------------------------------------------------------------------------
(* Sequences of tasks.                                                     *)

LEMMA RemoveAtProperties ==
    ASSUME NEW S, NEW s \in Seq(S), NEW i \in DOMAIN s
    PROVE  RemoveAt(s, i) \in Seq(S) /\ Len(RemoveAt(s, i)) = Len(s) - 1
<1>1. Len(s) \in Nat /\ i \in 1..Len(s)
  BY LenProperties
<1>2. /\ SubSeq(s, 1, i - 1) \in Seq(S)
      /\ Len(SubSeq(s, 1, i - 1)) = i - 1
  <2>1. \A j \in 1..(i - 1) : s[j] \in S
    BY <1>1, ElementOfSeq
  <2> QED
    BY <1>1, <2>1, SubSeqProperties
<1>3. /\ SubSeq(s, i + 1, Len(s)) \in Seq(S)
      /\ Len(SubSeq(s, i + 1, Len(s))) = Len(s) - i
  <2>1. \A j \in (i + 1)..Len(s) : s[j] \in S
    BY <1>1, ElementOfSeq
  <2> QED
    BY <1>1, <2>1, SubSeqProperties
<1>4. \A s1, s2 \in Seq(S) : s1 \o s2 \in Seq(S) /\ Len(s1 \o s2) = Len(s1) + Len(s2)
  BY ConcatProperties
<1>5. i \in Int /\ Len(s) \in Int /\ (i - 1) + (Len(s) - i) = Len(s) - 1
  BY <1>1
<1> QED
  BY <1>1, <1>2, <1>3, <1>4, <1>5, Zenon DEF RemoveAt

\* A task that is put at the end of the queue is a task, and counts.
LEMMA QueueGrows ==
    ASSUME TypeInv, NEW t \in TaskType
    PROVE  Append(queue, t) \in Seq(TaskType) /\ Len(Append(queue, t)) = Len(queue) + 1
BY AppendProperties DEF TypeInv

LEMMA SingleTask ==
    ASSUME NEW t \in TaskType
    PROVE  <<t>> \in Seq(TaskType) /\ Len(<<t>>) = 1
OBVIOUS

\* What a worker holds is one task, or nothing.
LEMMA HeldTask ==
    ASSUME TypeInv
    PROVE  /\ held # <<>> => held[1] \in TaskType /\ Len(held) = 1
           /\ held = <<>> => Len(held) = 0
           /\ Len(queue) \in Nat /\ Len(held) \in Nat
<1>1. Len(queue) \in Nat /\ Len(held) \in Nat
  BY LenProperties DEF TypeInv
<1>2. held # <<>> => Len(held) = 1
  <2>1. held \in Seq(TaskType) /\ Len(held) <= 1
    BY DEF TypeInv
  <2>2. held # <<>> => Len(held) \in Nat \ {0}
    BY <2>1, EmptySeq, Zenon
  <2>3. \A n \in Nat \ {0} : n <= 1 => n = 1
    OBVIOUS
  <2> QED
    BY <2>1, <2>2, <2>3, Zenon
<1>3. held # <<>> => held[1] \in TaskType
  BY <1>2, ElementOfSeq DEF TypeInv
<1>4. held = <<>> => Len(held) = 0
  BY EmptySeq
<1> QED
  BY <1>1, <1>2, <1>3, <1>4

LEMMA MaxPendingIsInt ==
    ASSUME TypeInv
    PROVE  MaxPending(manifest) \in Int
BY InstancesAssumption DEF TypeInv, MaxPending

-----------------------------------------------------------------------------
(* Where a task is.                                                        *)

PlaceInv == TypeInv /\ AcceptedIsInOnePlace

\* Steps that do not touch the tasks.
LEMMA PlaceFrame ==
    ASSUME PlaceInv, IsConfig(machine'),
           UNCHANGED <<manifest, tasks, deaths>>
    PROVE  PlaceInv'
<1>1. TaskType' = TaskType
  BY DEF TaskType, Trigger
<1>2. TypeInv'
  BY <1>1 DEF PlaceInv, TypeInv, tasks
<1>3. AcceptedIsInOnePlace'
  BY DEF PlaceInv, AcceptedIsInOnePlace, Durable, MaxPending, tasks
<1> QED
  BY <1>2, <1>3 DEF PlaceInv

LEMMA PlaceHandIn ==
    ASSUME PlaceInv, NEW i \in Trigger, HandIn(i), UNCHANGED <<manifest, machine, deaths>>
    PROVE  PlaceInv'
<1>1. TaskType' = TaskType
  BY DEF TaskType, Trigger
<1>2. TypeInv
  BY DEF PlaceInv
<1>3. CASE Full
  BY <1>3, <1>2, PlaceFrame DEF HandIn, tasks, TypeInv
<1>4. CASE ~Full
  <2>1. queue' = Append(queue, Task(i, 0)) /\ accepted' = accepted + 1 /\ UNCHANGED <<held, decided, lost>>
    BY <1>4 DEF HandIn
  <2>2. Task(i, 0) \in TaskType
    BY DEF Task, TaskType
  <2>3. queue' \in Seq(TaskType) /\ Len(queue') = Len(queue) + 1
    BY <1>2, <2>1, <2>2, QueueGrows
  <2>4. TypeInv'
    BY <1>1, <1>2, <2>1, <2>3 DEF TypeInv
  <2>5. Len(queue) \in Nat /\ Len(held) \in Nat /\ MaxPending(manifest) \in Int
    BY <1>2, HeldTask, MaxPendingIsInt
  <2>6. MaxPending(manifest)' = MaxPending(manifest) /\ Durable' = Durable
    BY DEF MaxPending, Durable
  <2>7. accepted \in Nat /\ decided \in Nat /\ lost \in Nat
    BY <1>2 DEF TypeInv
  <2>8. AcceptedIsInOnePlace'
    BY <2>1, <2>3, <2>5, <2>6, <2>7 DEF PlaceInv, AcceptedIsInOnePlace
  <2> QED
    BY <2>4, <2>8 DEF PlaceInv
<1> QED
  BY <1>3, <1>4

LEMMA PlaceRecover ==
    ASSUME PlaceInv, Recover
    PROVE  PlaceInv'
<1>1. TaskType' = TaskType
  BY DEF TaskType, Trigger, Recover, config
<1>2. TypeInv /\ queue \in Seq(TaskType) /\ held \in Seq(TaskType)
  BY DEF PlaceInv, TypeInv
<1>3. queue' = held \o queue /\ held' = <<>>
  BY DEF Recover
<1>4. UNCHANGED <<manifest, machine, accepted, decided, lost, deaths>>
  BY DEF Recover, config, history
<1>5. queue' \in Seq(TaskType) /\ Len(queue') = Len(held) + Len(queue)
  BY <1>2, <1>3, ConcatProperties
<1>6. held' \in Seq(TaskType) /\ Len(held') = 0
  BY <1>3, EmptySeq
<1>7. TypeInv'
  BY <1>1, <1>2, <1>4, <1>5, <1>6 DEF TypeInv
<1>8. Len(queue) \in Nat /\ Len(held) \in Nat
  BY <1>2, HeldTask
<1>9. MaxPending(manifest)' = MaxPending(manifest) /\ Durable' = Durable
  BY <1>4 DEF MaxPending, Durable
<1>10. AcceptedIsInOnePlace'
  BY <1>4, <1>5, <1>6, <1>8, <1>9 DEF PlaceInv, AcceptedIsInOnePlace
<1> QED
  BY <1>7, <1>10 DEF PlaceInv

LEMMA PlaceClaim ==
    ASSUME PlaceInv, NEW i \in DOMAIN queue, Claim(i)
    PROVE  PlaceInv'
<1>1. TaskType' = TaskType
  BY DEF TaskType, Trigger, Claim, config
<1>2. TypeInv /\ queue \in Seq(TaskType)
  BY DEF PlaceInv, TypeInv
<1>3. held = <<>> /\ held' = <<queue[i]>> /\ queue' = RemoveAt(queue, i)
  BY DEF Claim, Taken
<1>4. UNCHANGED <<manifest, machine, accepted, decided, lost, deaths>>
  BY DEF Claim, config, history
<1>5. queue' \in Seq(TaskType) /\ Len(queue') = Len(queue) - 1
  BY <1>2, <1>3, RemoveAtProperties
<1>6. queue[i] \in TaskType
  BY <1>2, LenProperties, ElementOfSeq
<1>7. held' \in Seq(TaskType) /\ Len(held') = 1
  BY <1>3, <1>6, SingleTask
<1>8. TypeInv'
  BY <1>1, <1>2, <1>4, <1>5, <1>7 DEF TypeInv
<1>9. Len(queue) \in Nat /\ Len(held) = 0
  BY <1>2, <1>3, HeldTask
<1>10. MaxPending(manifest)' = MaxPending(manifest) /\ Durable' = Durable
  BY <1>4 DEF MaxPending, Durable
<1>11. accepted \in Nat /\ decided \in Nat /\ lost \in Nat
  BY <1>2 DEF TypeInv
<1>12. AcceptedIsInOnePlace'
  BY <1>4, <1>5, <1>7, <1>9, <1>10, <1>11 DEF PlaceInv, AcceptedIsInOnePlace
<1> QED
  BY <1>8, <1>12 DEF PlaceInv

\* The task of the worker is decided, lost or back in the queue.
LEMMA PlaceRun ==
    ASSUME PlaceInv, RunSucceeds \/ RunFails
    PROVE  PlaceInv'
<1>1. UNCHANGED <<manifest, machine, accepted, deaths>>
  BY DEF RunSucceeds, RunFails, config, history
<1>2. TaskType' = TaskType /\ MaxPending(manifest)' = MaxPending(manifest) /\ Durable' = Durable
  BY <1>1 DEF TaskType, Trigger, MaxPending, Durable
<1>3. TypeInv /\ queue \in Seq(TaskType) /\ accepted \in Nat /\ decided \in Nat /\ lost \in Nat /\ deaths \in Nat
  BY DEF PlaceInv, TypeInv
<1>4. held # <<>> /\ held' = <<>>
  BY DEF RunSucceeds, RunFails
<1>5. held[1] \in TaskType /\ Len(held) = 1 /\ Len(queue) \in Nat
  BY <1>3, <1>4, HeldTask
<1>6. held' \in Seq(TaskType) /\ Len(held') = 0
  BY <1>4, EmptySeq
<1>7. MaxPending(manifest) \in Int
  BY <1>3, MaxPendingIsInt
<1> DEFINE t == [held[1] EXCEPT !.attempt = @ + 1]
<1>8. t \in TaskType
  BY <1>5 DEF TaskType
<1>9. \/ decided' = decided + 1 /\ UNCHANGED <<queue, lost>>
      \/ ~Durable /\ Full /\ lost' = lost + 1 /\ UNCHANGED <<queue, decided>>
      \/ queue' = Append(queue, t) /\ UNCHANGED <<decided, lost>>
  BY DEF RunSucceeds, RunFails
<1> HIDE DEF t
<1>10. CASE decided' = decided + 1 /\ UNCHANGED <<queue, lost>>
  <2>1. TypeInv'
    BY <1>1, <1>2, <1>3, <1>6, <1>10 DEF TypeInv
  <2>2. AcceptedIsInOnePlace'
    BY <1>1, <1>2, <1>3, <1>5, <1>6, <1>7, <1>10 DEF PlaceInv, AcceptedIsInOnePlace
  <2> QED
    BY <2>1, <2>2 DEF PlaceInv
<1>11. CASE ~Durable /\ Full /\ lost' = lost + 1 /\ UNCHANGED <<queue, decided>>
  <2>1. TypeInv'
    BY <1>1, <1>2, <1>3, <1>6, <1>11 DEF TypeInv
  <2>2. accepted > MaxPending(manifest)
    BY <1>3, <1>5, <1>7, <1>11 DEF Full, PlaceInv, AcceptedIsInOnePlace
  <2>3. AcceptedIsInOnePlace'
    BY <1>1, <1>2, <1>3, <1>5, <1>6, <1>7, <1>11, <2>2 DEF PlaceInv, AcceptedIsInOnePlace
  <2> QED
    BY <2>1, <2>3 DEF PlaceInv
<1>12. CASE queue' = Append(queue, t) /\ UNCHANGED <<decided, lost>>
  <2>1. queue' \in Seq(TaskType) /\ Len(queue') = Len(queue) + 1
    BY <1>3, <1>8, <1>12, QueueGrows
  <2>2. TypeInv'
    BY <1>1, <1>2, <1>3, <1>6, <1>12, <2>1 DEF TypeInv
  <2>3. AcceptedIsInOnePlace'
    BY <1>1, <1>2, <1>3, <1>5, <1>6, <1>7, <1>12, <2>1 DEF PlaceInv, AcceptedIsInOnePlace
  <2> QED
    BY <2>2, <2>3 DEF PlaceInv
<1> QED
  BY <1>9, <1>10, <1>11, <1>12

\* A death takes the tasks with it unless scheduler.path is set.
LEMMA PlaceDie ==
    ASSUME PlaceInv, Die
    PROVE  PlaceInv'
<1>1. UNCHANGED <<manifest, machine, accepted, decided>> /\ deaths' = deaths + 1
  BY DEF Die, config
<1>2. TaskType' = TaskType /\ MaxPending(manifest)' = MaxPending(manifest) /\ Durable' = Durable
  BY <1>1 DEF TaskType, Trigger, MaxPending, Durable
<1>3. TypeInv /\ accepted \in Nat /\ decided \in Nat /\ lost \in Nat /\ deaths \in Nat
  BY DEF PlaceInv, TypeInv
<1>4. Len(queue) \in Nat /\ Len(held) \in Nat /\ MaxPending(manifest) \in Int
  BY <1>3, HeldTask, MaxPendingIsInt
<1>5. CASE Durable
  <2>1. UNCHANGED <<queue, held, lost>>
    BY <1>5 DEF Die
  <2>2. TypeInv'
    BY <1>1, <1>2, <1>3, <2>1 DEF TypeInv
  <2>3. AcceptedIsInOnePlace'
    BY <1>1, <1>2, <1>3, <1>4, <1>5, <2>1 DEF PlaceInv, AcceptedIsInOnePlace
  <2> QED
    BY <2>2, <2>3 DEF PlaceInv
<1>6. CASE ~Durable
  <2>1. queue' = <<>> /\ held' = <<>> /\ lost' = lost + Len(queue) + Len(held)
    BY <1>6 DEF Die
  <2>2. queue' \in Seq(TaskType) /\ held' \in Seq(TaskType) /\ Len(queue') = 0 /\ Len(held') = 0
    BY <2>1, EmptySeq
  <2>3. TypeInv'
    BY <1>1, <1>2, <1>3, <1>4, <2>1, <2>2 DEF TypeInv
  <2>4. AcceptedIsInOnePlace'
    BY <1>1, <1>2, <1>3, <1>4, <1>6, <2>1, <2>2 DEF PlaceInv, AcceptedIsInOnePlace
  <2> QED
    BY <2>3, <2>4 DEF PlaceInv
<1> QED
  BY <1>5, <1>6

LEMMA PlaceInit == Init => PlaceInv
<1> SUFFICES ASSUME Init PROVE PlaceInv
  OBVIOUS
<1>1. queue = <<>> /\ held = <<>> /\ accepted = 0 /\ decided = 0 /\ lost = 0 /\ deaths = 0
  BY DEF Init
<1>2. queue \in Seq(TaskType) /\ held \in Seq(TaskType) /\ Len(queue) = 0 /\ Len(held) = 0
  BY <1>1, EmptySeq
<1>3. \E x \in Instances : manifest = x.manifest /\ machine = x.machine
  BY DEF Init
<1>4. TypeInv
  <2>1. IsConfig(machine)
    BY <1>3, InstancesAssumption DEF IsConfig
  <2> QED
    BY <1>1, <1>2, <1>3, <2>1 DEF TypeInv
<1>5. AcceptedIsInOnePlace
  BY <1>1, <1>2 DEF AcceptedIsInOnePlace
<1> QED
  BY <1>4, <1>5 DEF PlaceInv

LEMMA PlaceNext == PlaceInv /\ [Next]_vars => PlaceInv'
<1> SUFFICES ASSUME PlaceInv, [Next]_vars PROVE PlaceInv'
  OBVIOUS
<1> DEFINE Idle == /\ IsConfig(machine')
                   /\ UNCHANGED <<manifest, tasks, deaths>>
<1>1. IsConfig(machine)
  BY DEF PlaceInv, TypeInv
<1>2. ASSUME Idle PROVE PlaceInv'
  BY <1>2, PlaceFrame
<1>3. CASE LoadManifest
  BY <1>1, <1>2, <1>3 DEF LoadManifest, config, history
<1>4. CASE Build
  <2>1. machine' = [machine EXCEPT !.file = IF @ = "absent" THEN "ollama" ELSE @]
    BY <1>4 DEF Build, Written
  <2>2. IsConfig(machine')
    BY <1>1, <2>1 DEF IsConfig
  <2> QED
    BY <1>2, <1>4, <2>2 DEF Build, history
<1>5. CASE BuildDaemon
  BY <1>1, <1>2, <1>5 DEF BuildDaemon, config, history
<1>6. CASE Recover
  BY <1>6, PlaceRecover
<1>7. CASE CatchUp
  <2>1. step \in Trigger /\ UNCHANGED <<manifest, machine, deaths>>
    BY <1>7 DEF CatchUp, config
  <2>2. CASE HandIn(step)
    BY <2>1, <2>2, PlaceHandIn
  <2>3. CASE UNCHANGED tasks
    BY <1>1, <1>2, <2>1, <2>3
  <2> QED
    BY <1>7, <2>2, <2>3 DEF CatchUp
<1>8. CASE CatchUpMark
  BY <1>1, <1>2, <1>8 DEF CatchUpMark, config, history
<1>9. ASSUME NEW i \in Trigger, Arm(i) PROVE PlaceInv'
  BY <1>1, <1>2, <1>9 DEF Arm, config, history
<1>10. ASSUME NEW i \in Trigger, Fire(i) PROVE PlaceInv'
  BY <1>10, PlaceHandIn DEF Fire, config
<1>11. ASSUME NEW i \in Trigger, Mark(i) PROVE PlaceInv'
  BY <1>1, <1>2, <1>11 DEF Mark, config, history
<1>12. ASSUME NEW i \in Trigger, Post(i) PROVE PlaceInv'
  <2>1. UNCHANGED <<manifest, machine, deaths>>
    BY <1>12 DEF Post, config
  <2>2. CASE HandIn(i)
    BY <2>1, <2>2, PlaceHandIn
  <2>3. CASE UNCHANGED tasks
    BY <1>1, <1>2, <2>1, <2>3
  <2> QED
    BY <1>12, <2>2, <2>3 DEF Post
<1>13. ASSUME NEW i \in DOMAIN queue, Claim(i) PROVE PlaceInv'
  BY <1>13, PlaceClaim
<1>14. CASE RunSucceeds \/ RunFails
  BY <1>14, PlaceRun
<1>15. CASE Tick
  BY <1>1, <1>2, <1>15 DEF Tick, config
<1>16. CASE Die
  BY <1>16, PlaceDie
<1>17. CASE UNCHANGED vars
  BY <1>1, <1>2, <1>17 DEF vars, config, history
<1>18. CASE Listen
  BY <1>1, <1>2, <1>18 DEF Listen, config, history
<1> QED
  BY <1>3, <1>4, <1>5, <1>6, <1>7, <1>8, <1>9, <1>10, <1>11, <1>12, <1>13, <1>14, <1>15, <1>16, <1>17, <1>18
     DEF Next

\* An accepted task waits, is held by the worker, decided or lost, and is counted once;
\* with scheduler.path it is never lost, and without it only by a death or by a retry
\* that meets a full queue, which a queue that never had more tasks than fit cannot be.
THEOREM TasksAreInOnePlace == Spec => []AcceptedIsInOnePlace
<1>1. Init => PlaceInv
  BY PlaceInit
<1>2. PlaceInv /\ [Next]_vars => PlaceInv'
  BY PlaceNext
<1>3. PlaceInv => AcceptedIsInOnePlace
  BY DEF PlaceInv
<1> QED
  BY <1>1, <1>2, <1>3, PTL DEF Spec

-----------------------------------------------------------------------------
(* What is validated, built and started.                                   *)

\* Validate looks at all that Build may refuse, but the machine and its disk.
LEMMA ValidatedBuilds ==
    ASSUME NEW m, NEW c, Valid(m)
    PROVE  BuildProblems(c, m) \subseteq {"config", "client", "server", "disk"}
<1>1. m.toolTimeout # "" => Parses(m.toolTimeout)
  BY DEF Valid, LimitsValid
<1>2. \A t \in Elems(m.tools) : ToolBuilds(t)
  BY DEF Valid, ToolsValid, ToolBuilds
<1>3. m.journal.enabled => JournalKnown(m.journal)
  BY DEF Valid, JournalValid, JournalKnown
<1> QED
  BY <1>1, <1>2, <1>3 DEF BuildProblems, Problem

\* And at all that BuildDaemon may refuse, but the disk, the tokens and the intervals.
LEMMA ValidatedRuns ==
    ASSUME NEW m, NEW c, Valid(m)
    PROVE  DaemonProblems(c, m) \subseteq {"disk", "every", "token"}
<1>1. m.backoff # "" => Parses(m.backoff)
  BY DEF Valid, LimitsValid
<1>2. ASSUME NEW t \in Elems(m.triggers)
      PROVE  t.type \in {"every", "daily", "webhook"} /\ (t.type = "daily" => t.at \in Hour)
  BY DEF Valid, TriggersValid
<1> QED
  BY <1>1, <1>2 DEF DaemonProblems, Problem

LEMMA OllamaNeedsNothing ==
    ASSUME NEW m, NEW c, "client" \in BuildProblems(c, m)
    PROVE  m.provider # "ollama"
<1>1. ~ClientReady(c, Provider(c, m))
  BY DEF BuildProblems, Problem
<1> QED
  BY <1>1 DEF ClientReady, Provider

\* The defaults that Load writes change nothing of what Build says.
LEMMA DefaultsChangeNothing ==
    ASSUME NEW m, NEW c, IsConfig(c)
    PROVE  /\ BuildProblems(Written(c), m) = BuildProblems(c, m)
           /\ DaemonProblems(Written(c), m) = DaemonProblems(c, m)
<1>1. /\ Written(c).urls = c.urls /\ Written(c).env = c.env /\ Written(c).unusable = c.unusable
      /\ Written(c).file = IF c.file = "absent" THEN "ollama" ELSE c.file
      /\ IsConfig(Written(c))
  BY DEF IsConfig, Written
<1>2. Written(Written(c)).file = Written(c).file
  BY <1>1 DEF IsConfig, Written
<1>3. Provider(Written(c), m) = Provider(c, m)
  BY <1>1, <1>2 DEF Provider, FromEnvironment
<1>4. \A p : ClientReady(Written(c), p) <=> ClientReady(c, p)
  BY <1>1 DEF ClientReady
<1>5. Written(c).file = "unreadable" <=> c.file = "unreadable"
  BY <1>1
<1>6. (\A j : JournalOpens(Written(c), j) <=> JournalOpens(c, j)) /\ (QueueOpens(Written(c), m) <=> QueueOpens(c, m))
  BY <1>1 DEF JournalOpens, QueueOpens
<1>7. BuildProblems(Written(c), m) = BuildProblems(c, m)
  BY <1>3, <1>4, <1>5, <1>6 DEF BuildProblems
<1>8. DaemonProblems(Written(c), m) = DaemonProblems(c, m)
  BY <1>6 DEF DaemonProblems
<1> QED
  BY <1>7, <1>8

\* The mux refuses a validated route only if it cannot parse it, or if another one that
\* is written differently matches the same requests.
LEMMA RoutesRefused ==
    ASSUME NEW m, Valid(m), ~RoutesServed(m)
    PROVE  \/ \E i \in Hooks(m) : Path(m.triggers[i]) = "malformed"
           \/ \E i, j \in Hooks(m) : /\ Path(m.triggers[i]) # Path(m.triggers[j])
                                     /\ Clash(Path(m.triggers[i]), Path(m.triggers[j]))
<1>1. \A i \in Hooks(m) : Path(m.triggers[i]) # "relative"
  BY DEF Valid, TriggersValid, Hooks, Elems
<1>2. \A i, j \in Hooks(m) : i # j => Path(m.triggers[i]) # Path(m.triggers[j])
  BY DEF Valid, TriggersValid, RoutesUnique
<1> QED
  BY <1>1, <1>2 DEF RoutesServed

LEMMA IndicesAreFinite == \A n \in Nat : IsFiniteSet(1..n)
BY FS_Interval

LEMMA OneAtMost == \A n \in Nat : n # 0 /\ n <= 1 => n = 1
OBVIOUS

\* A validated webhook with an address is on the one address there is.
LEMMA OneListener ==
    ASSUME NEW m, Valid(m), m.triggers \in Seq(TriggerSpec),
           NEW i \in DOMAIN m.triggers, m.triggers[i].type = "webhook", m.triggers[i].addr # ""
    PROVE  m.triggers[i].addr \in Addrs(m) /\ Cardinality(Addrs(m)) = 1
<1>1. m.triggers[i].addr \in Addrs(m)
  BY DEF Addrs, Hooks
<1>2. IsFiniteSet(Hooks(m))
  <2>1. DOMAIN m.triggers = 1..Len(m.triggers) /\ Len(m.triggers) \in Nat
    BY LenProperties
  <2>2. IsFiniteSet(1..Len(m.triggers))
    BY <2>1, IndicesAreFinite, Zenon
  <2> QED
    BY <2>1, <2>2, FS_Subset DEF Hooks
<1>3. IsFiniteSet(Addrs(m))
  <2> DEFINE A == {m.triggers[j].addr : j \in Hooks(m)}
         f == [j \in Hooks(m) |-> m.triggers[j].addr]
  <2>1. f \in Surjection(Hooks(m), A)
    BY DEF Surjection
  <2> HIDE DEF f
  <2>2. IsFiniteSet(A)
    BY <1>2, <2>1, FS_Surjection, Zenon
  <2> QED
    BY <2>2, FS_Subset DEF Addrs
<1>4. Cardinality(Addrs(m)) \in Nat /\ Cardinality(Addrs(m)) # 0
  BY <1>1, <1>3, FS_EmptySet, FS_CardinalityType
<1>5. Cardinality(Addrs(m)) <= 1
  BY DEF Valid, TriggersValid
<1> QED
  BY <1>1, <1>4, <1>5, OneAtMost, Zenon

\* Triggers that have a name and one identity are one trigger.
LEMMA NamedIdentity ==
    ASSUME NEW m, Valid(m), NEW i \in DOMAIN m.triggers, NEW j \in DOMAIN m.triggers,
           m.triggers[i].name # "", TriggerId(m.triggers[i]) = TriggerId(m.triggers[j])
    PROVE  i = j
<1>1. TriggerId(m.triggers[i]) = <<m.triggers[i].name>>
  BY DEF TriggerId
<1>2. m.triggers[j].name # ""
  BY <1>1 DEF TriggerId
<1>3. TriggerId(m.triggers[j]) = <<m.triggers[j].name>>
  BY <1>2 DEF TriggerId
<1>4. m.triggers[i].name = m.triggers[j].name
  <2>1. \A x : <<x>>[1] = x
    OBVIOUS
  <2> QED
    BY <1>1, <1>3, <2>1, Zenon
<1> QED
  BY <1>4 DEF Valid, TriggersValid, NamesUnique

\* Steps that leave the process where it is, or stop it.
LEMMA StageFrame ==
    ASSUME StageInv, UNCHANGED <<manifest, machine>>, stage' = stage \/ (stage' = "off" /\ stage = "up")
    PROVE  StageInv'
<1>1. /\ Accepted' = Accepted /\ Trigger' = Trigger /\ \A i : T(i)' = T(i)
      /\ BuildProblems(machine, manifest)' = BuildProblems(machine, manifest)
      /\ DaemonProblems(machine, manifest)' = DaemonProblems(machine, manifest)
  BY DEF Accepted, Trigger, T
<1>2. CASE stage' = stage
  BY <1>1, <1>2 DEF StageInv
<1>3. CASE stage' = "off"
  BY <1>1, <1>3 DEF StageInv
<1> QED
  BY <1>2, <1>3

LEMMA StageStart ==
    ASSUME PlaceInv, StageInv, LoadManifest \/ Build \/ BuildDaemon \/ Recover
    PROVE  StageInv'
<1>1. manifest' = manifest
  BY DEF LoadManifest, Build, BuildDaemon, Recover, config
<1>2. Accepted' = Accepted
  BY <1>1 DEF Accepted
<1>3. CASE LoadManifest
  <2>1. stage' = IF Accepted THEN "loaded" ELSE "refused"
    BY <1>3 DEF LoadManifest, Accepted
  <2> QED
    BY <1>2, <2>1 DEF StageInv
<1>4. CASE Build
  <2>1. BuildProblems(machine, manifest)' = BuildProblems(machine, manifest)
    <3>1. IsConfig(machine) /\ machine' = Written(machine)
      BY <1>4 DEF PlaceInv, TypeInv, Build
    <3> QED
      BY <1>1, <3>1, DefaultsChangeNothing
  <2>2. Accepted
    BY <1>4 DEF Build, StageInv
  <2>3. stage' = IF BuildProblems(machine, manifest) = {} THEN "built" ELSE "refused"
    BY <1>4 DEF Build
  <2> QED
    BY <1>2, <2>1, <2>2, <2>3 DEF StageInv
<1>5. CASE BuildDaemon
  <2>1. Accepted
    BY <1>5 DEF BuildDaemon, StageInv
  <2>2. stage' = IF manifest.triggers # <<>> /\ DaemonProblems(machine, manifest) = {} THEN "wired" ELSE "refused"
    BY <1>5 DEF BuildDaemon
  <2>3. DaemonProblems(machine, manifest)' = DaemonProblems(machine, manifest)
    BY <1>5 DEF BuildDaemon, config
  <2> QED
    BY <1>1, <1>2, <2>1, <2>2, <2>3 DEF StageInv
<1>6. CASE Recover
  <2>1. Accepted /\ stage' = "up"
    BY <1>6 DEF Recover, StageInv
  <2> QED
    BY <1>2, <2>1 DEF StageInv
<1> QED
  BY <1>3, <1>4, <1>5, <1>6

LEMMA StageArm ==
    ASSUME StageInv, NEW i \in Trigger, Arm(i)
    PROVE  StageInv'
<1>1. UNCHANGED <<manifest, machine>>
  BY DEF Arm, config
<1>2. stage = "up" /\ stage' = IF T(i).type = "every" /\ T(i).every = "zero" THEN "panicked" ELSE stage
  BY DEF Arm, Started
<1>3. CASE T(i).type = "every" /\ T(i).every = "zero"
  <2>1. stage' = "panicked"
    BY <1>2, <1>3
  <2>2. Accepted' /\ i \in Trigger' /\ T(i)'.type = "every" /\ T(i)'.every = "zero"
    BY <1>1, <1>2, <1>3 DEF StageInv, Accepted, Trigger, T
  <2> QED
    BY <2>1, <2>2 DEF StageInv
<1>4. CASE stage' = stage
  BY <1>1, <1>4, StageFrame
<1> QED
  BY <1>2, <1>3, <1>4

LEMMA StageListen ==
    ASSUME StageInv, Listen
    PROVE  StageInv'
<1>1. UNCHANGED <<manifest, machine>> /\ stage = "up"
  BY DEF Listen, Started, config
<1>2. CASE RoutesServed(manifest)
  <2>1. stage' = stage
    BY <1>2 DEF Listen
  <2> QED
    BY <1>1, <2>1, StageFrame
<1>3. CASE ~RoutesServed(manifest)
  <2>1. stage' = "panicked" /\ Listens(manifest)
    BY <1>3 DEF Listen
  <2>2. Accepted' /\ Listens(manifest)' /\ ~RoutesServed(manifest)'
    BY <1>1, <1>3, <2>1 DEF StageInv, Accepted
  <2> QED
    BY <2>1, <2>2 DEF StageInv
<1> QED
  BY <1>2, <1>3

LEMMA StageNext == PlaceInv /\ StageInv /\ [Next]_vars => StageInv'
<1> SUFFICES ASSUME PlaceInv, StageInv, [Next]_vars PROVE StageInv'
  OBVIOUS
<1>1. CASE LoadManifest \/ Build \/ BuildDaemon \/ Recover
  BY <1>1, StageStart
<1>2. ASSUME NEW i \in Trigger, Arm(i) PROVE StageInv'
  BY <1>2, StageArm
<1>3. CASE CatchUp \/ CatchUpMark \/ RunSucceeds \/ RunFails \/ Tick \/ Die \/ UNCHANGED vars
  <2>1. UNCHANGED <<manifest, machine>> /\ (stage' = stage \/ (stage' = "off" /\ stage = "up"))
    BY <1>3 DEF CatchUp, CatchUpMark, RunSucceeds, RunFails, Tick, Die, vars, config
  <2> QED
    BY <2>1, StageFrame
<1>4. ASSUME NEW i \in Trigger, Fire(i) \/ Mark(i) \/ Post(i) PROVE StageInv'
  <2>1. UNCHANGED <<manifest, machine, stage>>
    BY <1>4 DEF Fire, Mark, Post, config
  <2> QED
    BY <2>1, StageFrame
<1>5. ASSUME NEW i \in DOMAIN queue, Claim(i) PROVE StageInv'
  <2>1. UNCHANGED <<manifest, machine, stage>>
    BY <1>5 DEF Claim, config
  <2> QED
    BY <2>1, StageFrame
<1> QED
  BY <1>1, <1>2, <1>3, <1>4, <1>5, StageListen DEF Next

LEMMA StageMeansStarted ==
    ASSUME PlaceInv, StageInv
    PROVE  ValidatedStarts
<1>1. CASE stage = "refused" /\ Accepted
  <2>1. /\ BuildProblems(machine, manifest) \subseteq {"config", "client", "server", "disk"}
        /\ DaemonProblems(machine, manifest) \subseteq {"disk", "every", "token"}
    BY <1>1, ValidatedBuilds, ValidatedRuns DEF Accepted
  <2>2. BuildProblems(machine, manifest) \cup DaemonProblems(machine, manifest) = {} => manifest.triggers = <<>>
    BY <1>1 DEF StageInv
  <2> QED
    BY <1>1, <2>1, <2>2, OllamaNeedsNothing DEF ValidatedStarts
<1>2. CASE stage = "panicked"
  <2>1. Valid(manifest)
    BY <1>2 DEF StageInv, Accepted
  <2>2. CASE \E i \in Trigger : T(i).type = "every" /\ T(i).every = "zero"
    BY <1>2, <2>2 DEF ValidatedStarts
  <2>3. CASE Listens(manifest) /\ ~RoutesServed(manifest)
    BY <1>2, <2>1, <2>3, RoutesRefused DEF ValidatedStarts, T
  <2> QED
    BY <1>2, <2>2, <2>3 DEF StageInv
<1>3. CASE stage = "up"
  <2>1. Valid(manifest)
    BY <1>3 DEF StageInv, Accepted
  <2>2. manifest.triggers \in Seq(TriggerSpec)
    BY InstancesAssumption DEF PlaceInv, TypeInv
  <2>3. ASSUME NEW i \in Trigger, NEW j \in Trigger,
               T(i).type = "webhook", T(j).type = "webhook", Path(T(i)) = Path(T(j))
        PROVE  i = j
    BY <2>1, <2>3 DEF Valid, TriggersValid, RoutesUnique, Hooks, Trigger, T
  <2>4. ASSUME NEW i \in Trigger, NEW j \in Trigger, T(i).name # "", TriggerId(T(i)) = TriggerId(T(j))
        PROVE  i = j
    BY <2>1, <2>4, NamedIdentity DEF Trigger, T
  <2>5. ASSUME NEW i \in Trigger, T(i).type = "webhook", T(i).addr # ""
        PROVE  T(i).addr \in Addrs(manifest) /\ Cardinality(Addrs(manifest)) = 1
    BY <2>1, <2>2, <2>5, OneListener DEF Trigger, T
  <2>6. ASSUME NEW s \in Elems(manifest.subagents) PROVE "delegate" \in Declared(manifest)
    <3>1. DOMAIN <<>> = {}
      OBVIOUS
    <3>2. manifest.subagents # <<>>
      BY <2>6, <3>1, Zenon DEF Elems
    <3> QED
      BY <2>1, <3>2 DEF Valid, SubagentsValid
  <2> QED
    BY <1>3, <2>3, <2>4, <2>5, <2>6 DEF ValidatedStarts
<1>4. CASE stage \notin {"refused", "panicked", "up"} \/ (stage = "refused" /\ ~Accepted)
  BY <1>4 DEF ValidatedStarts, Accepted
<1> QED
  BY <1>1, <1>2, <1>3, <1>4

\* A manifest that validate lets through is refused afterwards only for what it cannot
\* know or does not look at, and its daemon panics only for an interval of zero or for
\* routes that are written differently and that the mux still refuses; one that is up
\* has one route and one identity for each of its triggers, and one address.
THEOREM ValidManifestsStart == Spec => []ValidatedStarts
<1>1. Init => PlaceInv /\ StageInv
  BY PlaceInit DEF Init, StageInv
<1>2. PlaceInv /\ StageInv /\ [Next]_vars => PlaceInv' /\ StageInv'
  BY PlaceNext, StageNext
<1>3. PlaceInv /\ StageInv => ValidatedStarts
  BY StageMeansStarted
<1> QED
  BY <1>1, <1>2, <1>3, PTL DEF Spec

-----------------------------------------------------------------------------
(* What a CHOOSE of the calendar finds.                                    *)

\* A set of natural numbers that has a member has a least one.
LEMMA LeastExists ==
    ASSUME NEW S \in SUBSET Nat, S # {}
    PROVE  \E m \in S : \A n \in S : m <= n
<1> DEFINE Below(m) == {n \in S : n <= m}
           B == {Below(m) : m \in S}
<1>1. \A m \in S : Below(m) \in FiniteSubsetsOf(Nat)
  <2> SUFFICES ASSUME NEW m \in S PROVE IsFiniteSet(Below(m)) /\ Below(m) \in SUBSET Nat
    BY DEF FiniteSubsetsOf
  <2> QED
    BY FS_BoundedSetOfNaturals
<1>2. B \subseteq FiniteSubsetsOf(Nat) /\ B # {}
  BY <1>1
<1>3. IsWellFoundedOn(StrictSubsetOrdering(Nat), FiniteSubsetsOf(Nat))
  BY FS_StrictSubsetOrderingWellFounded
<1>4. PICK x \in B : \A y \in B : ~(<<y, x>> \in StrictSubsetOrdering(Nat))
  <2> HIDE DEF B
  <2> QED
    BY <1>2, <1>3, WFMin
<1>5. PICK m \in S : x = Below(m)
  OBVIOUS
<1>6. ASSUME NEW n \in S, ~(m <= n) PROVE FALSE
  <2>1. n \in Nat /\ m \in Nat /\ n < m
    BY <1>6
  <2>2. Below(n) \subseteq Below(m) /\ m \notin Below(n) /\ m \in Below(m)
    <3>1. \A k \in Nat : k <= n => k <= m
      BY <2>1
    <3>2. Below(n) \subseteq Below(m)
      BY <3>1
    <3> QED
      BY <2>1, <3>2
  <2>3. Below(n) \in SUBSET Nat /\ Below(m) \in SUBSET Nat /\ Below(n) # Below(m)
    BY <2>2
  <2>4. <<Below(n), Below(m)>> \in StrictSubsetOrdering(Nat)
    <3> HIDE DEF Below
    <3> QED
      BY <2>2, <2>3 DEF StrictSubsetOrdering
  <2> QED
    BY <1>4, <1>5, <2>4
<1> QED
  BY <1>6

-----------------------------------------------------------------------------
(* The calendar: days begin one after the other, and every hour is in one. *)

DaysType == Seq(Seq(Int) \ {<<>>})

LEMMA LabelsType ==
    ASSUME days \in DaysType
    PROVE  \A d : Labels(d) \in Seq(Int) /\ Len(Labels(d)) \in Nat \ {0} /\ DOMAIN Labels(d) = 1..Len(Labels(d))
<1> SUFFICES ASSUME NEW d PROVE Labels(d) \in Seq(Int) \ {<<>>}
  BY EmptySeq
<1>1. Plain \in Seq(Int) \ {<<>>}
  BY DEF Plain
<1>2. CASE d \in DOMAIN days
  BY <1>2 DEF Labels, DaysType
<1> QED
  BY <1>1, <1>2 DEF Labels

\* The recursion of Begins has a solution, however many days there are.
Counts(f, m) == f = [d \in 0..m |-> IF d = 0 THEN 1 - Len(Plain) ELSE f[d - 1] + Len(Labels(d - 1))]

LEMMA CountsExists == \A m \in Nat : \E f : Counts(f, m)
<1> DEFINE S == {m \in Nat : ~\E f : Counts(f, m)}
<1> SUFFICES ASSUME S # {} PROVE FALSE
  OBVIOUS
<1>1. PICK m \in S : \A n \in S : m <= n
  <2>1. S \in SUBSET Nat
    OBVIOUS
  <2> HIDE DEF S
  <2> QED
    BY <2>1, LeastExists
<1>2. CASE m = 0
  <2>1. Counts([d \in 0..0 |-> 1 - Len(Plain)], 0)
    BY DEF Counts
  <2> QED
    BY <1>2, <2>1
<1>3. CASE m # 0
  <2>1. m - 1 \in Nat /\ m - 1 \notin S
    BY <1>1, <1>3
  <2>2. PICK f : Counts(f, m - 1)
    BY <2>1
  <2> DEFINE g == [d \in 0..m |-> IF d = m THEN f[m - 1] + Len(Labels(m - 1)) ELSE f[d]]
  <2>3. ASSUME NEW d \in 0..m
        PROVE  g[d] = IF d = 0 THEN 1 - Len(Plain) ELSE g[d - 1] + Len(Labels(d - 1))
    <3>1. CASE d = m
      <4>1. d # 0 /\ d - 1 \in 0..m /\ d - 1 # m
        BY <1>3, <3>1
      <4> QED
        BY <3>1, <4>1
    <3>2. CASE d # m
      <4>1. d \in 0..(m - 1)
        BY <3>2
      <4>2. f[d] = IF d = 0 THEN 1 - Len(Plain) ELSE f[d - 1] + Len(Labels(d - 1))
        BY <2>2, <4>1 DEF Counts
      <4>3. d # 0 => d - 1 \in 0..m /\ d - 1 # m
        BY <4>1
      <4> QED
        BY <3>2, <4>2, <4>3
    <3> QED
      BY <3>1, <3>2
  <2>4. Counts(g, m)
    <3>1. g = [d \in 0..m |-> g[d]]
      OBVIOUS
    <3> HIDE DEF g
    <3> QED
      BY <2>3, <3>1 DEF Counts
  <2> QED
    BY <1>1, <2>4
<1> QED
  BY <1>2, <1>3

Days == 0..(Len(days) + 2)

\* How a day begins where the one before ends.
LEMMA BeginsStep ==
    ASSUME days \in DaysType
    PROVE  /\ Begins[0] = -2 /\ Begins[1] = 1
           /\ \A d \in 0..(Len(days) + 1) : Begins[d + 1] = Begins[d] + Len(Labels(d))
<1>1. Len(days) \in Nat
  BY DEF DaysType
<1>2. PICK m \in Nat : m = Len(days) + 2
  BY <1>1
<1>3. Counts(Begins, m)
  <2>1. Begins = CHOOSE f : Counts(f, m)
    BY <1>2 DEF Begins, Counts
  <2> QED
    BY <2>1, CountsExists
<1>4. /\ Begins[0] = 1 - Len(Plain)
      /\ \A d \in 0..(Len(days) + 1) : Begins[d + 1] = Begins[d] + Len(Labels(d))
  <2>1. Begins[0] = 1 - Len(Plain)
    BY <1>2, <1>3 DEF Counts
  <2>2. ASSUME NEW d \in 0..(Len(days) + 1) PROVE Begins[d + 1] = Begins[d] + Len(Labels(d))
    <3>1. d + 1 \in 0..m /\ d + 1 # 0 /\ (d + 1) - 1 = d
      BY <1>1, <1>2
    <3> QED
      BY <1>3, <3>1 DEF Counts
  <2> QED
    BY <2>1, <2>2
<1>5. Len(Plain) = 3 /\ Labels(0) = Plain
  BY DEF Plain, Labels, DaysType
<1>6. 0 \in 0..(Len(days) + 1) /\ 0 + 1 = 1
  BY <1>1
<1>7. Begins[0] = -2
  BY <1>4, <1>5
<1>8. Begins[0 + 1] = Begins[0] + Len(Labels(0))
  BY <1>4, <1>6
<1>9. Begins[1] = 1
  <2>1. Len(Labels(0)) = 3
    BY <1>5
  <2>2. Begins[1] = Begins[0] + Len(Labels(0))
    BY <1>6, <1>8
  <2> QED
    BY <1>7, <2>1, <2>2
<1> QED
  BY <1>4, <1>7, <1>9

LEMMA BeginsAreHours ==
    ASSUME days \in DaysType
    PROVE  \A d \in Days : Begins[d] \in Int
<1>1. Len(days) \in Nat
  BY DEF DaysType
<1> DEFINE S == {d \in Days : Begins[d] \notin Int}
<1> SUFFICES ASSUME S # {} PROVE FALSE
  OBVIOUS
<1>2. PICK m \in S : \A n \in S : m <= n
  <2>1. S \in SUBSET Nat
    BY <1>1 DEF Days
  <2> HIDE DEF S
  <2> QED
    BY <2>1, LeastExists
<1>3. m # 0
  BY <1>2, BeginsStep
<1>4. m - 1 \in 0..(Len(days) + 1) /\ (m - 1) + 1 = m /\ m - 1 \in Days /\ ~(m <= m - 1)
  BY <1>1, <1>2, <1>3 DEF Days
<1>5. Begins[m - 1] \in Int
  BY <1>2, <1>4
<1>6. Begins[m] = Begins[m - 1] + Len(Labels(m - 1)) /\ Len(Labels(m - 1)) \in Nat
  BY <1>4, BeginsStep, LabelsType
<1> QED
  BY <1>2, <1>5, <1>6

\* Days follow each other.
LEMMA BeginsGrow ==
    ASSUME days \in DaysType, NEW d \in Days, NEW e \in Days, d < e
    PROVE  Begins[d + 1] <= Begins[e] /\ Begins[d] < Begins[e]
<1>1. Len(days) \in Nat
  BY DEF DaysType
<1>2. Begins[d + 1] = Begins[d] + Len(Labels(d)) /\ Len(Labels(d)) \in Nat \ {0} /\ d + 1 \in Days /\ d \in Nat /\ e \in Nat
  BY <1>1, BeginsStep, LabelsType DEF Days
<1> DEFINE S == {n \in Days : n > d /\ ~(Begins[d + 1] <= Begins[n])}
<1>3. S = {}
  <2> SUFFICES ASSUME S # {} PROVE FALSE
    OBVIOUS
  <2>1. PICK m \in S : \A n \in S : m <= n
    <3>1. S \in SUBSET Nat
      BY <1>1 DEF Days
    <3> HIDE DEF S
    <3> QED
      BY <3>1, LeastExists
  <2>2. m # d + 1
    BY <1>2, <2>1, BeginsAreHours
  <2>3. m - 1 \in 0..(Len(days) + 1) /\ (m - 1) + 1 = m /\ m - 1 \in Days /\ m - 1 > d /\ ~(m <= m - 1)
    BY <1>1, <1>2, <2>1, <2>2 DEF Days
  <2>4. Begins[d + 1] <= Begins[m - 1]
    BY <2>1, <2>3
  <2>5. Begins[m] = Begins[m - 1] + Len(Labels(m - 1)) /\ Len(Labels(m - 1)) \in Nat
    BY <2>3, BeginsStep, LabelsType
  <2>6. Begins[d + 1] \in Int /\ Begins[m - 1] \in Int
    BY <1>2, <2>3, BeginsAreHours
  <2> QED
    BY <2>1, <2>4, <2>5, <2>6
<1>4. Begins[d + 1] <= Begins[e]
  BY <1>2, <1>3
<1>5. Begins[d] \in Int /\ Begins[e] \in Int
  BY BeginsAreHours
<1> QED
  BY <1>2, <1>4, <1>5

\* Every hour is in a day.
LEMMA DayOf ==
    ASSUME days \in DaysType, NEW t \in Int, Begins[0] <= t, t < Begins[Len(days) + 2]
    PROVE  /\ Day(t) \in 0..(Len(days) + 1)
           /\ Begins[Day(t)] <= t /\ t < Begins[Day(t) + 1]
<1>1. Len(days) \in Nat
  BY DEF DaysType
<1> DEFINE S == {d \in Days : t < Begins[d]}
<1>2. PICK m \in S : \A n \in S : m <= n
  <2>1. S \in SUBSET Nat /\ Len(days) + 2 \in S
    BY <1>1 DEF Days
  <2> HIDE DEF S
  <2> QED
    BY <2>1, LeastExists
<1>3. m # 0
  BY <1>2, BeginsStep
<1>4. m - 1 \in 0..(Len(days) + 1) /\ (m - 1) + 1 = m /\ m - 1 \in Days /\ ~(m <= m - 1)
  BY <1>1, <1>2, <1>3 DEF Days
<1>5. Begins[m - 1] <= t /\ t < Begins[(m - 1) + 1]
  BY <1>2, <1>4, BeginsAreHours
<1>6. \E d \in 0..(Len(days) + 1) : Begins[d] <= t /\ t < Begins[d + 1]
  BY <1>4, <1>5
<1> QED
  BY <1>6 DEF Day

-----------------------------------------------------------------------------
(* When a daily trigger is due.                                            *)

\* A set of hours between two others has a first and a last.
LEMMA Ends ==
    ASSUME NEW S \in SUBSET Int, S # {}, NEW lo \in Int, NEW hi \in Int, \A x \in S : lo <= x /\ x <= hi
    PROVE  /\ Earliest(S) \in S /\ \A y \in S : Earliest(S) <= y
           /\ Latest(S) \in S /\ \A y \in S : y <= Latest(S)
<1>1. \E x \in S : \A y \in S : x <= y
  <2> DEFINE R == {n \in Nat : lo + n \in S}
  <2>1. PICK z \in S : TRUE
    OBVIOUS
  <2>2. z \in Int /\ z - lo \in Nat /\ lo + (z - lo) = z
    BY <2>1
  <2>3. R \in SUBSET Nat /\ z - lo \in R
    BY <2>1, <2>2
  <2>4. PICK m \in R : \A n \in R : m <= n
    <3> HIDE DEF R
    <3> QED
      BY <2>3, LeastExists
  <2>5. ASSUME NEW y \in S PROVE lo + m <= y
    <3>1. y \in Int /\ y - lo \in Nat /\ lo + (y - lo) = y
      OBVIOUS
    <3>2. m <= y - lo
      BY <2>4, <3>1
    <3> QED
      BY <2>4, <3>1, <3>2
  <2>6. lo + m \in S
    BY <2>4
  <2> QED
    BY <2>5, <2>6
<1>2. \E x \in S : \A y \in S : x >= y
  <2> DEFINE R == {n \in Nat : hi - n \in S}
  <2>1. PICK z \in S : TRUE
    OBVIOUS
  <2>2. z \in Int /\ hi - z \in Nat /\ hi - (hi - z) = z
    BY <2>1
  <2>3. R \in SUBSET Nat /\ hi - z \in R
    BY <2>1, <2>2
  <2>4. PICK m \in R : \A n \in R : m <= n
    <3> HIDE DEF R
    <3> QED
      BY <2>3, LeastExists
  <2>5. ASSUME NEW y \in S PROVE hi - m >= y
    <3>1. y \in Int /\ hi - y \in Nat /\ hi - (hi - y) = y
      OBVIOUS
    <3>2. m <= hi - y
      BY <2>4, <3>1
    <3> QED
      BY <2>4, <3>1, <3>2
  <2>6. hi - m \in S
    BY <2>4
  <2> QED
    BY <2>5, <2>6
<1>3. Earliest(S) \in S /\ \A y \in S : Earliest(S) <= y
  BY <1>1 DEF Earliest
<1>4. Latest(S) \in S /\ \A y \in S : Latest(S) >= y
  BY <1>2 DEF Latest
<1>5. \A y \in S : y <= Latest(S)
  BY <1>4
<1> QED
  BY <1>3, <1>4, <1>5

\* The clock of day d starts no later than h, and ends no earlier.
Has(d, h) == Labels(d)[1] <= h /\ h <= Labels(d)[Len(Labels(d))]

\* An hour that such a day lacks has an hour on each side of it.
LEMMA CandidatesInDay ==
    ASSUME days \in DaysType, NEW d \in Days, NEW h \in Int, Has(d, h)
    PROVE  /\ Candidates(d, h) # {} /\ Candidates(d, h) \in SUBSET Int
           /\ \A t \in Candidates(d, h) : Begins[d] <= t /\ t <= Begins[d] + Len(Labels(d)) - 1
<1> DEFINE L     == Labels(d)
           shown == {i \in DOMAIN L : L[i] = h}
           less  == {i \in DOMAIN L : L[i] < h}
           gap   == Cardinality(less)
           at    == IF shown # {} THEN shown ELSE {gap, gap + 1}
<1>1. /\ L \in Seq(Int) /\ Len(L) \in Nat \ {0} /\ DOMAIN L = 1..Len(L) /\ Begins[d] \in Int
      /\ 1 \in DOMAIN L /\ Len(L) \in DOMAIN L /\ \A i \in DOMAIN L : L[i] \in Int
  BY LabelsType, BeginsAreHours
<1>2. Candidates(d, h) = {Begins[d] + i - 1 : i \in at}
  BY DEF Candidates
<1>3. at # {} /\ at \subseteq 1..Len(L)
  <2>1. CASE shown # {}
    BY <1>1, <2>1
  <2>2. CASE shown = {}
    <3>1. L[1] < h /\ h < L[Len(L)] /\ L[1] \in Int /\ L[Len(L)] \in Int
      BY <1>1, <2>2 DEF Has
    <3>2. {1} \subseteq less /\ less \subseteq 1..(Len(L) - 1)
      <4>1. Len(L) \notin less /\ 1 \in less
        <5>1. 1 \in less
          BY <1>1, <3>1
        <5>2. ASSUME L[Len(L)] < h PROVE FALSE
          <6> HIDE DEF L
          <6> QED
            BY <3>1, <5>2
        <5> QED
          BY <5>1, <5>2
      <4>2. less \subseteq 1..Len(L)
        <5>1. less \subseteq DOMAIN L
          OBVIOUS
        <5> HIDE DEF less, L
        <5> QED
          BY <1>1, <5>1
      <4> HIDE DEF less, L
      <4>3. \A i \in 1..Len(L) : i # Len(L) => i \in 1..(Len(L) - 1)
        <5>1. \A n \in Nat : \A i \in 1..n : i # n => i \in 1..(n - 1)
          OBVIOUS
        <5>2. Len(L) \in Nat
          BY <1>1
        <5> QED
          BY <5>1, <5>2, Zenon
      <4> QED
        BY <4>1, <4>2, <4>3
    <3> HIDE DEF less, L
    <3>3. IsFiniteSet(1..(Len(L) - 1)) /\ Cardinality(1..(Len(L) - 1)) = Len(L) - 1
      <4>1. 1 \in Int /\ Len(L) - 1 \in Int
        BY <1>1
      <4>2. /\ IsFiniteSet(1..(Len(L) - 1))
            /\ Cardinality(1..(Len(L) - 1)) = IF 1 > Len(L) - 1 THEN 0 ELSE (Len(L) - 1) - 1 + 1
        BY <4>1, FS_Interval
      <4> QED
        BY <1>1, <4>2
    <3>4. IsFiniteSet(less) /\ Cardinality(less) <= Len(L) - 1
      BY <3>2, <3>3, FS_Subset
    <3>5. Cardinality({1}) <= Cardinality(less) /\ Cardinality({1}) = 1
      BY <3>2, <3>4, FS_Subset, FS_Singleton
    <3>6. gap \in Nat /\ 1 <= gap /\ gap <= Len(L) - 1
      BY <3>4, <3>5, FS_CardinalityType
    <3> QED
      BY <1>1, <2>2, <3>6
  <2> QED
    BY <2>1, <2>2
<1> HIDE DEF at, L
<1>4. \A i \in at : Begins[d] + i - 1 \in Int /\ Begins[d] <= Begins[d] + i - 1 /\ Begins[d] + i - 1 <= Begins[d] + Len(L) - 1
  BY <1>1, <1>3
<1> QED
  BY <1>2, <1>3, <1>4 DEF L

LEMMA OccurrenceInDay ==
    ASSUME days \in DaysType, NEW d \in Days, NEW h \in Int, Has(d, h)
    PROVE  /\ OccurrenceOn(d, h) \in Candidates(d, h) /\ OccurrenceOn(d, h) \in Int
           /\ Earliest(Candidates(d, h)) <= OccurrenceOn(d, h) /\ OccurrenceOn(d, h) <= Latest(Candidates(d, h))
           /\ Earliest(Candidates(d, h)) \in Int /\ Latest(Candidates(d, h)) \in Int
           /\ Begins[d] <= OccurrenceOn(d, h) /\ OccurrenceOn(d, h) < Begins[d] + Len(Labels(d))
<1> DEFINE C == Candidates(d, h)
<1>1. /\ C # {} /\ C \in SUBSET Int
      /\ \A t \in C : Begins[d] <= t /\ t <= Begins[d] + Len(Labels(d)) - 1
  BY CandidatesInDay
<1>2. Begins[d] \in Int /\ Len(Labels(d)) \in Nat
  BY LabelsType, BeginsAreHours
<1>3. OccurrenceOn(d, h) = Earliest(C) \/ OccurrenceOn(d, h) = Latest(C)
  BY DEF OccurrenceOn
<1> HIDE DEF C
<1>4. PICK lo \in Int, hi \in Int : lo = Begins[d] /\ hi = Begins[d] + Len(Labels(d)) - 1
  BY <1>2
<1>5. /\ Earliest(C) \in C /\ \A y \in C : Earliest(C) <= y
      /\ Latest(C) \in C /\ \A y \in C : y <= Latest(C)
  BY <1>1, <1>4, Ends
<1>6. OccurrenceOn(d, h) \in C
  BY <1>3, <1>5
<1>7. /\ OccurrenceOn(d, h) \in Int /\ Begins[d] <= OccurrenceOn(d, h)
      /\ OccurrenceOn(d, h) <= Begins[d] + Len(Labels(d)) - 1
  BY <1>1, <1>6
<1> QED
  BY <1>1, <1>2, <1>5, <1>6, <1>7 DEF C

\* Every day has the hour h, or hours on both sides of it.
Spans(h) == \A d \in Days : Has(d, h)

LEMMA OccurrencesGrow ==
    ASSUME days \in DaysType, NEW h \in Int, Spans(h)
    PROVE  /\ \A d \in Days : OccurrenceOn(d, h) \in Int /\ Begins[d] \in Int /\ Begins[d] <= OccurrenceOn(d, h)
           /\ \A d \in 0..(Len(days) + 1) :
                d \in Days /\ d + 1 \in Days /\ OccurrenceOn(d, h) < Begins[d + 1]
           /\ \A d, e \in Days : d < e => OccurrenceOn(d, h) < Begins[e] /\ OccurrenceOn(d, h) < OccurrenceOn(e, h)
<1>1. Len(days) \in Nat
  BY DEF DaysType
<1>2. \A d \in 0..(Len(days) + 1) : d \in Days /\ d + 1 \in Days
  BY <1>1 DEF Days
<1>3. \A d \in Days : /\ OccurrenceOn(d, h) \in Int /\ Begins[d] \in Int /\ Begins[d] <= OccurrenceOn(d, h)
                      /\ OccurrenceOn(d, h) < Begins[d] + Len(Labels(d))
  BY OccurrenceInDay, BeginsAreHours DEF Spans
<1>4. \A d \in 0..(Len(days) + 1) : OccurrenceOn(d, h) < Begins[d + 1]
  BY <1>2, <1>3, BeginsStep
<1>5. ASSUME NEW d \in Days, NEW e \in Days, d < e
      PROVE  OccurrenceOn(d, h) < Begins[e] /\ OccurrenceOn(d, h) < OccurrenceOn(e, h)
  <2>1. d \in 0..(Len(days) + 1)
    BY <1>1, <1>5 DEF Days
  <2>2. Begins[d + 1] <= Begins[e] /\ Begins[d + 1] \in Int
    BY <1>2, <1>3, <1>5, <2>1, BeginsGrow
  <2> QED
    BY <1>3, <1>4, <2>1, <2>2
<1> QED
  BY <1>2, <1>3, <1>4, <1>5

\* The day of an hour of the instance.
LEMMA Today ==
    ASSUME days \in DaysType, NEW t \in 1..End
    PROVE  /\ Day(t) \in Days /\ Day(t) + 1 \in Days /\ Day(t) - 1 \in Days /\ Day(t) \in Int /\ t \in Int
           /\ Begins[Day(t)] <= t /\ t < Begins[Day(t) + 1]
<1>1. Len(days) \in Nat
  BY DEF DaysType
<1>2. 0 \in Days /\ 1 \in Days /\ Len(days) + 1 \in Days /\ Len(days) + 2 \in Days
  BY <1>1 DEF Days
<1>3. Begins[0] = -2 /\ Begins[1] = 1
  BY BeginsStep
<1>4. End \in Int /\ Begins[Len(days) + 2] \in Int /\ End < Begins[Len(days) + 2]
  <2>1. Len(days) + 1 < Len(days) + 2
    BY <1>1
  <2> QED
    BY <1>2, <2>1, BeginsAreHours, BeginsGrow DEF End
<1>5. t \in Int /\ Begins[0] <= t /\ t < Begins[Len(days) + 2]
  BY <1>3, <1>4
<1>6. Day(t) \in 0..(Len(days) + 1) /\ Begins[Day(t)] <= t /\ t < Begins[Day(t) + 1]
  BY <1>5, DayOf
<1>7. Day(t) # 0
  <2> SUFFICES ASSUME Day(t) = 0 PROVE FALSE
    OBVIOUS
  <2>1. t < Begins[0 + 1] /\ 0 + 1 = 1
    BY <1>6
  <2> QED
    BY <1>3, <2>1
<1>8. Day(t) \in Days /\ Day(t) + 1 \in Days /\ Day(t) - 1 \in Days /\ Day(t) \in Int
  <2>1. PICK d \in 0..(Len(days) + 1) : d = Day(t)
    BY <1>6
  <2> QED
    BY <1>1, <1>7, <2>1 DEF Days
<1> QED
  BY <1>5, <1>6, <1>8

\* The next occurrence is the first that is later, the previous one the last that is not.
LEMMA NextIsFirst ==
    ASSUME days \in DaysType, NEW h \in Int, Spans(h), NEW t \in 1..End
    PROVE  /\ NextOccurrence(t, h) \in Int /\ NextOccurrence(t, h) > t
           /\ \E e \in Days : NextOccurrence(t, h) = OccurrenceOn(e, h)
           /\ \A e \in Days : OccurrenceOn(e, h) > t => NextOccurrence(t, h) <= OccurrenceOn(e, h)
<1>1. PICK d \in Days : d = Day(t) /\ d \in Int /\ d + 1 \in Days /\ t \in Int /\ Begins[d] <= t /\ t < Begins[d + 1]
  BY Today
<1>2. /\ \A e \in Days : OccurrenceOn(e, h) \in Int /\ Begins[e] \in Int /\ Begins[e] <= OccurrenceOn(e, h)
      /\ \A e, f \in Days : e < f => OccurrenceOn(e, h) < Begins[f] /\ OccurrenceOn(e, h) < OccurrenceOn(f, h)
  BY OccurrencesGrow
<1>3. \A e \in Days : e \in Int
  BY DEF Days
<1>4. \A e \in Days : OccurrenceOn(e, h) > t => d <= e
  BY <1>1, <1>2, <1>3
<1>5. CASE OccurrenceOn(d, h) > t
  <2>1. NextOccurrence(t, h) = OccurrenceOn(d, h)
    BY <1>1, <1>5 DEF NextOccurrence
  <2>2. \A e \in Days : OccurrenceOn(e, h) > t => OccurrenceOn(d, h) <= OccurrenceOn(e, h)
    BY <1>1, <1>2, <1>3, <1>4
  <2> QED
    BY <1>1, <1>2, <1>5, <2>1, <2>2
<1>6. CASE ~(OccurrenceOn(d, h) > t)
  <2>1. NextOccurrence(t, h) = OccurrenceOn(d + 1, h)
    BY <1>1, <1>6 DEF NextOccurrence
  <2>2. \A e \in Days : OccurrenceOn(e, h) > t => e = d + 1 \/ d + 1 < e
    BY <1>1, <1>3, <1>4, <1>6
  <2>3. \A e \in Days : OccurrenceOn(e, h) > t => OccurrenceOn(d + 1, h) <= OccurrenceOn(e, h)
    BY <1>1, <1>2, <2>2
  <2>4. OccurrenceOn(d + 1, h) \in Int /\ OccurrenceOn(d + 1, h) > t
    BY <1>1, <1>2
  <2> QED
    BY <1>1, <2>1, <2>3, <2>4
<1> QED
  BY <1>5, <1>6

LEMMA PreviousIsLast ==
    ASSUME days \in DaysType, NEW h \in Int, Spans(h), NEW t \in 1..End
    PROVE  /\ PreviousOccurrence(t, h) \in Int /\ PreviousOccurrence(t, h) <= t
           /\ \E e \in Days : PreviousOccurrence(t, h) = OccurrenceOn(e, h)
           /\ \A e \in Days : OccurrenceOn(e, h) <= t => OccurrenceOn(e, h) <= PreviousOccurrence(t, h)
<1>1. PICK d \in Days : /\ d = Day(t) /\ d \in Int /\ d + 1 \in Days /\ d - 1 \in Days
                        /\ t \in Int /\ Begins[d] <= t /\ t < Begins[d + 1]
  BY Today
<1>2. /\ \A e \in Days : OccurrenceOn(e, h) \in Int /\ Begins[e] \in Int /\ Begins[e] <= OccurrenceOn(e, h)
      /\ \A e, f \in Days : e < f => OccurrenceOn(e, h) < Begins[f] /\ OccurrenceOn(e, h) < OccurrenceOn(f, h)
  BY OccurrencesGrow
<1>3. \A e \in Days : e \in Int
  BY DEF Days
<1>4. \A e \in Days : OccurrenceOn(e, h) <= t => e <= d
  <2> SUFFICES ASSUME NEW e \in Days, OccurrenceOn(e, h) <= t, d < e PROVE FALSE
    BY <1>1, <1>3
  <2>1. Begins[d + 1] <= Begins[e]
    BY <1>1, BeginsGrow
  <2> QED
    BY <1>1, <1>2, <2>1
<1>5. CASE ~(OccurrenceOn(d, h) > t)
  <2>1. PreviousOccurrence(t, h) = OccurrenceOn(d, h)
    BY <1>1, <1>5 DEF PreviousOccurrence
  <2>2. \A e \in Days : OccurrenceOn(e, h) <= t => OccurrenceOn(e, h) <= OccurrenceOn(d, h)
    BY <1>1, <1>2, <1>3, <1>4
  <2> QED
    BY <1>1, <1>2, <1>5, <2>1, <2>2
<1>6. CASE OccurrenceOn(d, h) > t
  <2>1. PreviousOccurrence(t, h) = OccurrenceOn(d - 1, h)
    BY <1>1, <1>6 DEF PreviousOccurrence
  <2>2. \A e \in Days : OccurrenceOn(e, h) <= t => e = d - 1 \/ e < d - 1
    BY <1>1, <1>2, <1>3, <1>4, <1>6
  <2>3. \A e \in Days : OccurrenceOn(e, h) <= t => OccurrenceOn(e, h) <= OccurrenceOn(d - 1, h)
    BY <1>1, <1>2, <2>2
  <2>4. OccurrenceOn(d - 1, h) \in Int /\ OccurrenceOn(d - 1, h) <= t
    <3>1. d - 1 < d
      BY <1>1
    <3>2. OccurrenceOn(d - 1, h) < Begins[d]
      BY <1>1, <1>2, <3>1
    <3> QED
      BY <1>1, <1>2, <3>2
  <2> QED
    BY <1>1, <2>1, <2>3, <2>4
<1> QED
  BY <1>5, <1>6

\* A step that keeps the manifest and the days keeps the calendar.
LEMMA SameCalendar ==
    ASSUME UNCHANGED <<manifest, days, pick>>
    PROVE  /\ Begins' = Begins /\ Days' = Days /\ End' = End
           /\ \A d : Labels(d)' = Labels(d)
           /\ \A d, h : OccurrenceOn(d, h)' = OccurrenceOn(d, h)
           /\ \A t, h : NextOccurrence(t, h)' = NextOccurrence(t, h)
<1>1. \A d : Labels(d)' = Labels(d)
  BY DEF Labels
<1>2. Begins' = Begins
  BY <1>1 DEF Begins
<1>3. \A d, h : Candidates(d, h)' = Candidates(d, h)
  BY <1>1, <1>2 DEF Candidates
<1>4. \A d, h : OccurrenceOn(d, h)' = OccurrenceOn(d, h)
  <2> SUFFICES ASSUME NEW d, NEW h PROVE OccurrenceOn(d, h)' = OccurrenceOn(d, h)
    OBVIOUS
  <2>1. pick' = pick /\ Candidates(d, h)' = Candidates(d, h)
    BY <1>3
  <2>2. Earliest(Candidates(d, h))' = Earliest(Candidates(d, h)) /\ Latest(Candidates(d, h))' = Latest(Candidates(d, h))
    BY <2>1 DEF Earliest, Latest
  <2> QED
    BY <2>1, <2>2 DEF OccurrenceOn
<1>5. \A t : Day(t)' = Day(t)
  BY <1>2 DEF Day
<1>6. \A t, h : NextOccurrence(t, h)' = NextOccurrence(t, h)
  BY <1>4, <1>5 DEF NextOccurrence
<1> QED
  BY <1>1, <1>2, <1>4, <1>6 DEF Days, End

-----------------------------------------------------------------------------
(* How often a trigger was handed over.                                    *)

Count(s, from, to) == Cardinality({n \in DOMAIN s : from <= s[n] /\ s[n] <= to})

LEMMA CountType ==
    ASSUME NEW s \in Seq(Int), NEW from, NEW to
    PROVE  /\ IsFiniteSet({n \in DOMAIN s : from <= s[n] /\ s[n] <= to})
           /\ Count(s, from, to) \in Nat
<1> DEFINE S == {n \in DOMAIN s : from <= s[n] /\ s[n] <= to}
<1>1. Len(s) \in Nat /\ DOMAIN s = 1..Len(s)
  BY LenProperties
<1>2. IsFiniteSet(1..Len(s))
  BY <1>1, FS_Interval
<1>3. S \subseteq 1..Len(s)
  BY <1>1
<1>4. IsFiniteSet(S)
  BY <1>2, <1>3, FS_Subset
<1> QED
  BY <1>4, FS_CardinalityType DEF Count

LEMMA CountNone ==
    ASSUME NEW s \in Seq(Int), NEW from, NEW to, \A n \in DOMAIN s : ~(from <= s[n] /\ s[n] <= to)
    PROVE  Count(s, from, to) = 0
<1>1. {n \in DOMAIN s : from <= s[n] /\ s[n] <= to} = {}
  OBVIOUS
<1> QED
  BY <1>1, FS_EmptySet DEF Count

LEMMA CountSome ==
    ASSUME NEW s \in Seq(Int), NEW from, NEW to, NEW n \in DOMAIN s, from <= s[n], s[n] <= to
    PROVE  Count(s, from, to) >= 1
<1> DEFINE S == {m \in DOMAIN s : from <= s[m] /\ s[m] <= to}
<1>1. IsFiniteSet(S) /\ Count(s, from, to) = Cardinality(S)
  BY CountType DEF Count
<1>2. S # {}
  OBVIOUS
<1> HIDE DEF S
<1>3. Cardinality(S) \in Nat /\ Cardinality(S) # 0
  BY <1>1, <1>2, FS_CardinalityType, FS_EmptySet
<1> QED
  BY <1>1, <1>3

LEMMA CountAppend ==
    ASSUME NEW s \in Seq(Int), NEW x \in Int, NEW from, NEW to
    PROVE  Count(Append(s, x), from, to) = Count(s, from, to) + IF from <= x /\ x <= to THEN 1 ELSE 0
<1> DEFINE S == {n \in DOMAIN s : from <= s[n] /\ s[n] <= to}
           s1 == Append(s, x)
           S1 == {n \in DOMAIN s1 : from <= s1[n] /\ s1[n] <= to}
<1>1. /\ Len(s) \in Nat /\ DOMAIN s = 1..Len(s) /\ DOMAIN s1 = 1..(Len(s) + 1)
      /\ s1[Len(s) + 1] = x /\ \A n \in 1..Len(s) : s1[n] = s[n]
  BY LenProperties, AppendProperties
<1>2. PICK k \in Nat : k = Len(s)
  BY <1>1
<1>3. IsFiniteSet(S) /\ Cardinality(S) \in Nat
  BY CountType DEF Count
<1> HIDE DEF s1
<1>4. 1..(k + 1) = (1..k) \cup {k + 1} /\ k + 1 \notin 1..k
  BY <1>2
<1>5. S1 = IF from <= x /\ x <= to THEN S \cup {k + 1} ELSE S
  BY <1>1, <1>2, <1>4
<1>6. k + 1 \notin S
  BY <1>1, <1>2, <1>4
<1> HIDE DEF S, S1
<1>7. Cardinality(S \cup {k + 1}) = Cardinality(S) + 1
  BY <1>3, <1>6, FS_AddElement
<1>8. Cardinality(S1) = Cardinality(S) + IF from <= x /\ x <= to THEN 1 ELSE 0
  BY <1>3, <1>5, <1>7
<1> QED
  BY <1>8 DEF Count, s1, S, S1

-----------------------------------------------------------------------------
(* Occurrences are served: what is true of the clocks, and then of each    *)
(* daily trigger.                                                          *)

Occ(i, d) == OccurrenceOn(d, T(i).at)

\* The hour of a daily trigger is in every day or between two hours of it: no day lacks
\* its first or its last hours.
HoursInDays == \A i \in Dailies : Spans(T(i).at)

HereInv == \E x \in Instances : manifest = x.manifest /\ days = x.days

LEMMA SameManifest ==
    ASSUME UNCHANGED <<manifest, days, pick>>
    PROVE  /\ Trigger' = Trigger /\ Dailies' = Dailies /\ Days' = Days /\ Len(days)' = Len(days)
           /\ Len(manifest.triggers)' = Len(manifest.triggers)
           /\ \A i : T(i)' = T(i) /\ OwnId(i)' = OwnId(i)
           /\ \A d : Begins[d]' = Begins[d]
           /\ \A i, d : Occ(i, d)' = Occ(i, d)
           /\ HoursInDays' = HoursInDays /\ HereInv' = HereInv /\ Durable' = Durable /\ End' = End
<1>1. \A i : T(i)' = T(i)
  BY DEF T
<1>2. Trigger' = Trigger
  BY DEF Trigger
<1>3. Dailies' = Dailies
  BY <1>1, <1>2 DEF Dailies
<1>4. \A i : OwnId(i)' = OwnId(i)
  BY <1>1, <1>2 DEF OwnId, TriggerId
<1>5. \A i, d : Occ(i, d)' = Occ(i, d)
  <2> SUFFICES ASSUME NEW i, NEW d PROVE Occ(i, d)' = Occ(i, d)
    OBVIOUS
  <2>1. \A h : OccurrenceOn(d, h)' = OccurrenceOn(d, h)
    BY SameCalendar
  <2>2. (T(i).at)' = T(i).at
    BY <1>1
  <2> QED
    BY <2>1, <2>2 DEF Occ
<1>6. HoursInDays' = HoursInDays
  <2>1. \A d : Labels(d)' = Labels(d)
    BY SameCalendar
  <2>2. \A d, h : Has(d, h)' = Has(d, h)
    BY <2>1 DEF Has
  <2>3. Days' = Days
    BY SameCalendar
  <2>4. \A h : Spans(h)' = Spans(h)
    BY <2>2, <2>3 DEF Spans
  <2> QED
    BY <1>1, <1>3, <2>4 DEF HoursInDays
<1>7. HereInv' = HereInv
  BY DEF HereInv
<1>8. \A d : Begins[d]' = Begins[d]
  BY SameCalendar
<1> QED
  BY <1>1, <1>2, <1>3, <1>4, <1>5, <1>6, <1>7, <1>8, SameCalendar DEF Durable

LEMMA StepKeepsManifest == [Next]_vars => UNCHANGED <<manifest, days, pick>>
<1> SUFFICES ASSUME [Next]_vars PROVE UNCHANGED <<manifest, days, pick>>
  OBVIOUS
<1> USE DEF config
<1>1. CASE LoadManifest \/ Build \/ BuildDaemon \/ Recover \/ CatchUp \/ CatchUpMark \/ Listen
  BY <1>1 DEF LoadManifest, Build, BuildDaemon, Recover, CatchUp, CatchUpMark, Listen
<1>2. ASSUME NEW i \in Trigger, Arm(i) \/ Fire(i) \/ Mark(i) \/ Post(i)
      PROVE  UNCHANGED <<manifest, days, pick>>
  BY <1>2 DEF Arm, Fire, Mark, Post
<1>3. CASE RunSucceeds \/ RunFails \/ Tick \/ Die
  BY <1>3 DEF RunSucceeds, RunFails, Tick, Die
<1>4. ASSUME NEW i \in DOMAIN queue, Claim(i) PROVE UNCHANGED <<manifest, days, pick>>
  BY <1>4 DEF Claim
<1>5. CASE UNCHANGED vars
  BY <1>5 DEF vars
<1> QED
  BY <1>1, <1>2, <1>3, <1>4, <1>5 DEF Next

LEMMA Here ==
    ASSUME HereInv
    PROVE  /\ days \in DaysType /\ Len(days) \in Nat
           /\ Len(manifest.triggers) \in Nat /\ Trigger = 1..Len(manifest.triggers) /\ \A i \in Trigger : T(i).at \in Int
           /\ \A i \in Dailies : i \in Trigger /\ Timed(i) /\ T(i).type = "daily"
<1>1. PICK x \in Instances : manifest = x.manifest /\ days = x.days
  BY DEF HereInv
<1>2. days \in DaysType /\ manifest.triggers \in Seq(TriggerSpec)
  BY <1>1, CalendarAssumption, InstancesAssumption DEF DaysType
<1>3. Len(days) \in Nat /\ Len(manifest.triggers) \in Nat /\ Trigger = 1..Len(manifest.triggers)
  BY <1>2, LenProperties DEF DaysType, Trigger
<1>4. \A i \in Trigger : T(i) \in TriggerSpec
  BY <1>2, <1>3, ElementOfSeq DEF T
<1>5. \A i \in Trigger : T(i).at \in Int
  BY <1>4 DEF TriggerSpec
<1> QED
  BY <1>2, <1>3, <1>5 DEF Dailies, Timed

\* The occurrences of a daily trigger, one after the other.
LEMMA OccFacts ==
    ASSUME HereInv, HoursInDays, NEW i \in Dailies
    PROVE  /\ \A d \in Days : d \in Int /\ Occ(i, d) \in Int /\ Begins[d] \in Int /\ Begins[d] <= Occ(i, d)
           /\ \A d \in 0..(Len(days) + 1) : d \in Days /\ d + 1 \in Days /\ Occ(i, d) < Begins[d + 1]
           /\ \A d, e \in Days : d < e => /\ Occ(i, d) < Begins[e] /\ Occ(i, d) < Occ(i, e)
                                       /\ Begins[d + 1] <= Begins[e]
<1>1. days \in DaysType /\ T(i).at \in Int /\ Spans(T(i).at)
  BY Here DEF HoursInDays
<1>2. \A d \in Days : d \in Int
  BY DEF Days
<1>3. PICK h \in Int : h = T(i).at
  BY <1>1
<1>4. Spans(h)
  BY <1>1, <1>3
<1>5. \A d, e \in Days : d < e => Begins[d + 1] <= Begins[e]
  BY <1>1, BeginsGrow
<1> QED
  BY <1>1, <1>2, <1>3, <1>4, <1>5, OccurrencesGrow DEF Occ

\* A timer is ahead of the hour it was set at, and is the first occurrence after it.
Ahead(i) ==
    timer[i] # 0 =>
        /\ armedAt[i] <= now
        /\ \E e \in Days : timer[i] = Occ(i, e)
        /\ \A e \in Days : Occ(i, e) > armedAt[i] => timer[i] <= Occ(i, e)
        /\ \A n \in DOMAIN served[i] : served[i][n] <= armedAt[i]

ClockInv ==
    /\ now \in 1..End /\ step \in Nat /\ since \in Nat /\ since <= now /\ owing \in BOOLEAN
    /\ timer \in [Trigger -> Int] /\ armedAt \in [Trigger -> Nat] /\ marking \in [Trigger -> BOOLEAN]
    /\ served \in [Trigger -> Seq(Int)] /\ unsure \in [Trigger -> Nat]
    /\ \A id \in DOMAIN last : last[id] \in Int
    /\ stage \notin {"up", "panicked"} => since = 0 /\ step = 0 /\ owing = FALSE
    /\ owing => step \in Trigger
    /\ since # 0 => step > Len(manifest.triggers)
    /\ \A i \in Trigger :
        /\ \A n \in DOMAIN served[i] : served[i][n] <= now
        /\ timer[i] # 0 \/ marking[i] => stage \in {"up", "panicked"} /\ step > Len(manifest.triggers)
    /\ TimersAreAhead
    /\ \A i \in Dailies : Ahead(i)

LEMMA HandInServes ==
    ASSUME ClockInv, HereInv, NEW i \in Trigger, HandIn(i)
    PROVE  /\ served' \in [Trigger -> Seq(Int)]
           /\ served'[i] = Append(served[i], now)
           /\ \A j \in Trigger : j # i => served'[j] = served[j]
           /\ \A j \in Trigger : \A n \in DOMAIN served[j] : n \in DOMAIN served'[j] /\ served'[j][n] = served[j][n]
           /\ \E n \in DOMAIN served'[i] : served'[i][n] = now
           /\ \A n \in DOMAIN served'[i] : served'[i][n] = now \/ (n \in DOMAIN served[i] /\ served'[i][n] = served[i][n])
           /\ \A j \in Trigger : \A n \in DOMAIN served'[j] : served'[j][n] <= now
<1>1. End \in Int /\ now \in Int
  <2>1. days \in DaysType /\ Len(days) + 1 \in Days
    BY Here DEF Days
  <2> QED
    BY <2>1, BeginsAreHours DEF ClockInv, End
<1>2. served \in [Trigger -> Seq(Int)] /\ served' = [served EXCEPT ![i] = Append(@, now)]
  BY DEF ClockInv, HandIn
<1>3. served[i] \in Seq(Int) /\ Append(served[i], now) \in Seq(Int)
  BY <1>1, <1>2, AppendProperties
<1>4. served' \in [Trigger -> Seq(Int)] /\ served'[i] = Append(served[i], now) /\ \A j \in Trigger : j # i => served'[j] = served[j]
  BY <1>2, <1>3
<1>5. PICK s \in Seq(Int) : s = served[i]
  BY <1>3
<1>6. PICK r \in Seq(Int) : r = Append(s, now)
  BY <1>3, <1>5
<1>7. /\ Len(s) \in Nat /\ DOMAIN s = 1..Len(s) /\ DOMAIN r = 1..(Len(s) + 1)
      /\ r[Len(s) + 1] = now /\ \A n \in 1..Len(s) : r[n] = s[n]
  BY <1>1, <1>6, LenProperties, AppendProperties
<1>8. /\ \A n \in DOMAIN s : n \in DOMAIN r /\ r[n] = s[n]
      /\ Len(s) + 1 \in DOMAIN r
      /\ \A n \in DOMAIN r : r[n] = now \/ (n \in DOMAIN s /\ r[n] = s[n])
  <2>1. \A k \in Nat : /\ k + 1 \in 1..(k + 1)
                       /\ \A n \in 1..k : n \in 1..(k + 1)
                       /\ \A n \in 1..(k + 1) : n = k + 1 \/ n \in 1..k
    OBVIOUS
  <2> QED
    BY <1>7, <2>1
<1>9. \A j \in Trigger : \A n \in DOMAIN served[j] : served[j][n] <= now
  BY DEF ClockInv
<1>10. \A n \in DOMAIN r : r[n] <= now
  <2>1. \A n \in DOMAIN s : s[n] <= now
    BY <1>5, <1>9
  <2> QED
    BY <1>1, <1>8, <2>1
<1>11. \A j \in Trigger : \A n \in DOMAIN served'[j] : served'[j][n] <= now
  <2> SUFFICES ASSUME NEW j \in Trigger PROVE \A n \in DOMAIN served'[j] : served'[j][n] <= now
    OBVIOUS
  <2>1. CASE j = i
    BY <1>4, <1>5, <1>6, <1>10, <2>1
  <2>2. CASE j # i
    BY <1>4, <1>9, <2>2
  <2> QED
    BY <2>1, <2>2
<1> QED
  BY <1>4, <1>5, <1>6, <1>7, <1>8, <1>11

\* Steps that leave the timers, and what was handed over, alone.
LEMMA ClockFrame ==
    ASSUME HereInv, ClockInv,
           UNCHANGED <<manifest, days, pick, now, since, timer, armedAt, marking, served, unsure>>,
           step' \in Nat, owing' \in BOOLEAN,
           \A id \in DOMAIN last' : last'[id] \in Int,
           stage' \notin {"up", "panicked"} => since = 0 /\ step' = 0 /\ owing' = FALSE,
           owing' => step' \in Trigger,
           since # 0 => step' > Len(manifest.triggers),
           \A i \in Trigger : timer[i] # 0 \/ marking[i] => stage' \in {"up", "panicked"} /\ step' > Len(manifest.triggers)
    PROVE  ClockInv'
<1>1. /\ Trigger' = Trigger /\ Dailies' = Dailies /\ Days' = Days /\ End' = End
      /\ Len(manifest.triggers)' = Len(manifest.triggers)
      /\ \A i, d : Occ(i, d)' = Occ(i, d)
  BY SameManifest
<1>2. TimersAreAhead'
  BY <1>1 DEF ClockInv, TimersAreAhead
<1>3. \A i \in Dailies' : Ahead(i)'
  <2> SUFFICES ASSUME NEW i \in Dailies PROVE Ahead(i)'
    BY <1>1
  <2>1. Ahead(i)
    BY DEF ClockInv
  <2> QED
    BY <1>1, <2>1 DEF Ahead
<1> QED
  BY <1>1, <1>2, <1>3 DEF ClockInv

LEMMA NowIsHour ==
    ASSUME HereInv, ClockInv
    PROVE  now \in Int /\ now >= 1 /\ End \in Int
<1>1. days \in DaysType /\ Len(days) + 1 \in Days
  BY Here DEF Days
<1> QED
  BY <1>1, BeginsAreHours DEF ClockInv, End

\* While catchUp looks at a trigger no timer is set.
LEMMA NoTimerYet ==
    ASSUME HereInv, ClockInv, step \in Trigger
    PROVE  since = 0 /\ \A i \in Trigger : timer[i] = 0 /\ ~marking[i]
<1>1. step \in 1..Len(manifest.triggers) /\ Len(manifest.triggers) \in Nat
  BY Here
<1>2. ~(step > Len(manifest.triggers))
  BY <1>1
<1> QED
  BY <1>2 DEF ClockInv

LEMMA ClockCatchUp ==
    ASSUME HereInv, ClockInv, CatchUp
    PROVE  ClockInv'
<1>1. /\ UNCHANGED <<manifest, days, pick, now, stage, since, timer, armedAt, marking, unsure, last>>
      /\ stage = "up" /\ step \in Trigger /\ owing = FALSE
  BY DEF CatchUp, config, ClockInv
<1>2. since = 0 /\ \A i \in Trigger : timer[i] = 0 /\ ~marking[i]
  BY <1>1, NoTimerYet
<1>3. CASE step' = step + 1 /\ UNCHANGED <<owing, tasks, served>>
  <2>1. step' \in Nat
    BY <1>3 DEF ClockInv
  <2>2. \A id \in DOMAIN last' : last'[id] \in Int
    BY <1>1 DEF ClockInv
  <2> QED
    BY <1>1, <1>2, <1>3, <2>1, <2>2, ClockFrame
<1>4. CASE HandIn(step) /\ owing' = TRUE /\ UNCHANGED step
  <2>1. /\ Trigger' = Trigger /\ Dailies' = Dailies /\ End' = End
        /\ Len(manifest.triggers)' = Len(manifest.triggers)
    BY <1>1, SameManifest
  <2>2. /\ served' \in [Trigger -> Seq(Int)]
        /\ \A j \in Trigger : j # step => served'[j] = served[j]
        /\ \A j \in Trigger : \A n \in DOMAIN served'[j] : served'[j][n] <= now
    BY <1>1, <1>4, HandInServes
  <2>3. TimersAreAhead'
    BY <1>1, <1>2, <2>1 DEF TimersAreAhead
  <2>4. \A i \in Dailies : Ahead(i)'
    BY <1>1, <1>2, Here DEF Ahead
  <2> QED
    BY <1>1, <1>2, <1>4, <2>1, <2>2, <2>3, <2>4 DEF ClockInv
<1> QED
  BY <1>3, <1>4 DEF CatchUp

LEMMA ClockArm ==
    ASSUME HereInv, HoursInDays, ClockInv, NEW i \in Trigger, Arm(i)
    PROVE  ClockInv'
<1>1. /\ UNCHANGED <<manifest, days, pick, now, step, owing, marking, last, served, unsure>>
      /\ stage = "up" /\ step > Len(manifest.triggers) /\ Timed(i) /\ timer[i] = 0 /\ ~marking[i]
      /\ timer' = [timer EXCEPT ![i] = IF T(i).type = "every" THEN now + Every ELSE NextOccurrence(now, T(i).at)]
      /\ armedAt' = [armedAt EXCEPT ![i] = now]
      /\ since' = IF since = 0 /\ AllArmed(timer') THEN now ELSE since
      /\ stage' \in {"up", "panicked"}
  BY DEF Arm, Started, config, history
<1>2. /\ Trigger' = Trigger /\ Dailies' = Dailies /\ Days' = Days /\ End' = End
      /\ Len(manifest.triggers)' = Len(manifest.triggers)
      /\ \A j, d : Occ(j, d)' = Occ(j, d)
  BY <1>1, SameManifest
<1>3. now \in Int /\ now >= 1 /\ now \in 1..End
  BY NowIsHour DEF ClockInv
<1> DEFINE N == IF T(i).type = "every" THEN now + Every ELSE NextOccurrence(now, T(i).at)
<1>4. /\ N \in Int /\ N > now
      /\ i \in Dailies => /\ \E e \in Days : N = Occ(i, e)
                          /\ \A e \in Days : Occ(i, e) > now => N <= Occ(i, e)
  <2>1. CASE T(i).type = "every"
    <3>1. i \notin Dailies
      BY <2>1, Here
    <3> QED
      BY <1>3, <2>1, <3>1, CalendarAssumption
  <2>2. CASE T(i).type # "every"
    <3>1. i \in Dailies
      BY <1>1, <2>2 DEF Timed, Dailies
    <3>2. days \in DaysType /\ T(i).at \in Int /\ Spans(T(i).at) /\ N = NextOccurrence(now, T(i).at)
      BY <2>2, <3>1, Here DEF HoursInDays
    <3> HIDE DEF N
    <3>3. PICK h \in Int : h = T(i).at
      BY <3>2
    <3> QED
      BY <1>3, <3>2, <3>3, NextIsFirst DEF Occ
  <2> QED
    BY <2>1, <2>2
<1>5. timer' = [timer EXCEPT ![i] = N]
  BY <1>1
<1> HIDE DEF N
<1>6. timer' \in [Trigger -> Int] /\ timer'[i] = N /\ \A j \in Trigger : j # i => timer'[j] = timer[j]
  BY <1>4, <1>5 DEF ClockInv
<1>7. armedAt' \in [Trigger -> Nat] /\ armedAt'[i] = now /\ \A j \in Trigger : j # i => armedAt'[j] = armedAt[j]
  BY <1>1, <1>3 DEF ClockInv
<1>8. TimersAreAhead'
  BY <1>2, <1>4, <1>6, <1>7 DEF ClockInv, TimersAreAhead
<1>9. ASSUME NEW j \in Dailies PROVE Ahead(j)'
  <2>1. j \in Trigger /\ Ahead(j)
    BY Here DEF ClockInv
  <2>2. CASE j = i
    <3>1. \A n \in DOMAIN served[i] : served[i][n] <= now
      BY DEF ClockInv
    <3>2. Days' = Days /\ served' = served /\ now' = now
      BY <1>1, <1>2
    <3>3. armedAt'[i] <= now
      BY <1>3, <1>7
    <3>4. /\ \E e \in Days : timer'[i] = Occ(i, e)'
          /\ \A e \in Days : Occ(i, e)' > armedAt'[i] => timer'[i] <= Occ(i, e)'
      BY <1>2, <1>4, <1>6, <1>7, <2>2
    <3> QED
      BY <1>7, <2>2, <3>1, <3>2, <3>3, <3>4 DEF Ahead
  <2>3. CASE j # i
    BY <1>1, <1>2, <1>6, <1>7, <2>1, <2>3 DEF Ahead
  <2> QED
    BY <2>2, <2>3
<1>10. since' \in Nat /\ since' <= now
  BY <1>1, <1>3 DEF ClockInv
<1>11. \A j \in Trigger : \A n \in DOMAIN served[j] : served[j][n] <= now
  BY DEF ClockInv
<1> QED
  BY <1>1, <1>2, <1>6, <1>7, <1>8, <1>9, <1>10, <1>11 DEF ClockInv

LEMMA ClockFire ==
    ASSUME HereInv, HoursInDays, ClockInv, NEW i \in Trigger, Fire(i)
    PROVE  ClockInv'
<1>1. /\ UNCHANGED <<manifest, days, pick, now, stage, step, owing, armedAt, since, last, unsure>>
      /\ stage = "up" /\ step > Len(manifest.triggers) /\ timer[i] # 0 /\ timer[i] <= now /\ HandIn(i)
      /\ marking' = [marking EXCEPT ![i] = TRUE]
      /\ timer' = [timer EXCEPT ![i] = IF T(i).type = "every" THEN @ + Every ELSE 0]
  BY DEF Fire, Started, config
<1>2. /\ Trigger' = Trigger /\ Dailies' = Dailies /\ Days' = Days /\ End' = End
      /\ Len(manifest.triggers)' = Len(manifest.triggers)
      /\ \A j, d : Occ(j, d)' = Occ(j, d)
  BY <1>1, SameManifest
<1>3. /\ served' \in [Trigger -> Seq(Int)]
      /\ \A j \in Trigger : j # i => served'[j] = served[j]
      /\ \A j \in Trigger : \A n \in DOMAIN served'[j] : served'[j][n] <= now
  BY <1>1, HandInServes
<1>4. /\ timer' \in [Trigger -> Int] /\ \A j \in Trigger : j # i => timer'[j] = timer[j]
      /\ timer'[i] # 0 => timer'[i] = timer[i] + Every
      /\ i \in Dailies => timer'[i] = 0
  <2>1. timer \in [Trigger -> Int] /\ Every \in Nat
    BY CalendarAssumption DEF ClockInv
  <2>2. i \in Dailies => T(i).type # "every"
    BY Here
  <2> QED
    BY <1>1, <2>1, <2>2
<1>5. marking' \in [Trigger -> BOOLEAN]
  BY <1>1 DEF ClockInv
<1>6. TimersAreAhead'
  <2>1. \A j \in Trigger : timer[j] # 0 => timer[j] > armedAt[j]
    BY DEF ClockInv, TimersAreAhead
  <2>2. timer[i] \in Int /\ armedAt[i] \in Nat /\ Every \in Nat
    BY CalendarAssumption DEF ClockInv
  <2>3. timer[i] + Every > armedAt[i]
    BY <1>1, <2>1, <2>2
  <2>4. \A j \in Trigger : timer'[j] # 0 => timer'[j] > armedAt[j]
    BY <1>4, <2>1, <2>3
  <2> QED
    BY <1>1, <1>2, <2>4 DEF TimersAreAhead
<1>7. ASSUME NEW j \in Dailies PROVE Ahead(j)'
  <2>1. j \in Trigger /\ Ahead(j)
    BY Here DEF ClockInv
  <2>2. CASE j = i
    BY <1>4, <2>2 DEF Ahead
  <2>3. CASE j # i
    BY <1>1, <1>2, <1>3, <1>4, <2>1, <2>3 DEF Ahead
  <2> QED
    BY <2>2, <2>3
<1> QED
  BY <1>1, <1>2, <1>3, <1>4, <1>5, <1>6, <1>7 DEF ClockInv

LEMMA ClockPost ==
    ASSUME HereInv, ClockInv, NEW i \in Trigger, HandIn(i), i \notin Dailies,
           UNCHANGED <<manifest, days, pick, now, stage, step, owing, since, timer, armedAt, marking, last, unsure>>
    PROVE  ClockInv'
<1>1. /\ Trigger' = Trigger /\ Dailies' = Dailies /\ Days' = Days /\ End' = End
      /\ Len(manifest.triggers)' = Len(manifest.triggers)
      /\ \A j, d : Occ(j, d)' = Occ(j, d)
  BY SameManifest
<1>2. /\ served' \in [Trigger -> Seq(Int)]
      /\ \A j \in Trigger : j # i => served'[j] = served[j]
      /\ \A j \in Trigger : \A n \in DOMAIN served'[j] : served'[j][n] <= now
  BY HandInServes
<1>3. TimersAreAhead'
  BY <1>1 DEF ClockInv, TimersAreAhead
<1>4. ASSUME NEW j \in Dailies PROVE Ahead(j)'
  <2>1. j \in Trigger /\ Ahead(j) /\ j # i
    BY Here DEF ClockInv
  <2> QED
    BY <1>1, <1>2, <2>1 DEF Ahead
<1> QED
  BY <1>1, <1>2, <1>3, <1>4 DEF ClockInv

LEMMA ClockTick ==
    ASSUME HereInv, ClockInv, Tick
    PROVE  ClockInv'
<1>1. /\ UNCHANGED <<manifest, days, pick, stage, step, owing, since, timer, armedAt, marking, last, served, unsure>>
      /\ now < End /\ now' = now + 1
  BY DEF Tick, config, clocks
<1>2. /\ Trigger' = Trigger /\ Dailies' = Dailies /\ Days' = Days /\ End' = End
      /\ Len(manifest.triggers)' = Len(manifest.triggers)
      /\ \A j, d : Occ(j, d)' = Occ(j, d)
  BY <1>1, SameManifest
<1>3. now \in Int /\ now >= 1 /\ End \in Int
  BY NowIsHour
<1>4. now' \in 1..End /\ since <= now'
  BY <1>1, <1>3 DEF ClockInv
<1>5. \A j \in Trigger : \A n \in DOMAIN served[j] : served[j][n] <= now'
  <2> SUFFICES ASSUME NEW j \in Trigger, NEW n \in DOMAIN served[j] PROVE served[j][n] <= now'
    OBVIOUS
  <2>1. served[j] \in Seq(Int) /\ served[j][n] <= now
    BY DEF ClockInv
  <2>2. served[j][n] \in Int
    BY <2>1, LenProperties, ElementOfSeq
  <2> QED
    BY <1>1, <1>3, <2>1, <2>2
<1>6. TimersAreAhead'
  BY <1>1, <1>2 DEF ClockInv, TimersAreAhead
<1>7. ASSUME NEW j \in Dailies PROVE Ahead(j)'
  <2>1. j \in Trigger /\ Ahead(j) /\ armedAt[j] \in Nat
    BY Here DEF ClockInv
  <2>2. armedAt[j] <= now => armedAt[j] <= now'
    BY <1>1, <1>3, <2>1
  <2> QED
    BY <1>1, <1>2, <2>1, <2>2 DEF Ahead
<1> QED
  BY <1>1, <1>2, <1>4, <1>5, <1>6, <1>7 DEF ClockInv

LEMMA ClockDie ==
    ASSUME HereInv, ClockInv, Die
    PROVE  ClockInv'
<1>1. /\ UNCHANGED <<manifest, days, pick, now, last, served>>
      /\ stage' = "off" /\ step' = 0 /\ owing' = FALSE /\ since' = 0
      /\ timer' = [i \in Trigger |-> 0] /\ armedAt' = timer' /\ marking' = [i \in Trigger |-> FALSE]
      /\ unsure' = [i \in Trigger |->
           IF ~Durable \/ marking[i] \/ (owing /\ step = i) THEN unsure[i] + 1 ELSE unsure[i]]
  BY DEF Die, config
<1>2. /\ Trigger' = Trigger /\ Dailies' = Dailies /\ End' = End
      /\ Len(manifest.triggers)' = Len(manifest.triggers)
  BY <1>1, SameManifest
<1>3. now \in Int /\ now >= 1
  BY NowIsHour
<1>4. \A i \in Trigger : unsure'[i] \in Nat
  BY <1>1 DEF ClockInv
<1>5. unsure' \in [Trigger -> Nat]
  BY <1>1, <1>4
<1>6. timer' \in [Trigger -> Int] /\ armedAt' \in [Trigger -> Nat] /\ marking' \in [Trigger -> BOOLEAN]
  BY <1>1
<1>7. TimersAreAhead' /\ \A j \in Dailies : Ahead(j)'
  BY <1>1, <1>2, Here DEF TimersAreAhead, Ahead
<1>8. \A i \in Trigger : timer'[i] = 0 /\ ~marking'[i]
  BY <1>1
<1>9. now' \in 1..End' /\ step' \in Nat /\ since' \in Nat /\ since' <= now'
  BY <1>1, <1>2, <1>3 DEF ClockInv
<1>10. owing' \in BOOLEAN /\ ~owing' /\ ~(since' # 0)
  BY <1>1, Zenon
<1>11. /\ served' \in [Trigger -> Seq(Int)]
       /\ \A id \in DOMAIN last' : last'[id] \in Int
       /\ \A i \in Trigger : \A n \in DOMAIN served'[i] : served'[i][n] <= now'
  <2>1. /\ served \in [Trigger -> Seq(Int)]
        /\ \A id \in DOMAIN last : last[id] \in Int
        /\ \A i \in Trigger : \A n \in DOMAIN served[i] : served[i][n] <= now
    BY DEF ClockInv
  <2> QED
    BY <1>1, <2>1
<1> QED
  BY <1>1, <1>2, <1>5, <1>6, <1>7, <1>8, <1>9, <1>10, <1>11 DEF ClockInv

\* What is recorded is the hour.
LEMMA Recorded ==
    ASSUME HereInv, ClockInv, NEW i \in Trigger, Record(i)
    PROVE  /\ DOMAIN last' = DOMAIN last \cup {TriggerId(T(i))} /\ last'[TriggerId(T(i))] = now
           /\ \A id : id # TriggerId(T(i)) => (id \in DOMAIN last' <=> id \in DOMAIN last)
           /\ \A id \in DOMAIN last : id # TriggerId(T(i)) => last'[id] = last[id]
           /\ \A id \in DOMAIN last' : last'[id] \in Int
<1>1. now \in Int
  BY NowIsHour
<1>2. \A id \in DOMAIN last : last[id] \in Int
  BY DEF ClockInv
<1> QED
  BY <1>1, <1>2 DEF Record

LEMMA ClockInit == Init => HereInv /\ ClockInv
<1> SUFFICES ASSUME Init PROVE HereInv /\ ClockInv
  OBVIOUS
<1>1. HereInv
  BY DEF Init, HereInv
<1>2. /\ now = 1 /\ stage = "off" /\ step = 0 /\ owing = FALSE /\ since = 0
      /\ timer = [i \in Trigger |-> 0] /\ armedAt = timer /\ marking = [i \in Trigger |-> FALSE]
      /\ last = <<>> /\ served = [i \in Trigger |-> <<>>] /\ unsure = timer
  BY DEF Init
<1>3. now \in 1..End
  <2>1. days \in DaysType /\ Len(days) \in Nat /\ 1 \in Days /\ Len(days) + 1 \in Days
    BY <1>1, Here DEF Days
  <2>2. Begins[1] = 1
    BY <2>1, BeginsStep
  <2>3. CASE Len(days) = 0
    <3>1. End = 1
      BY <2>2, <2>3 DEF End
    <3> QED
      BY <1>2, <3>1
  <2>4. CASE Len(days) # 0
    <3>1. 1 < Len(days) + 1
      BY <2>1, <2>4
    <3>2. End \in Int /\ Begins[1] < End
      BY <2>1, <3>1, BeginsGrow, BeginsAreHours DEF End
    <3> QED
      BY <1>2, <2>2, <3>2
  <2> QED
    BY <2>3, <2>4
<1>4. timer \in [Trigger -> Int] /\ armedAt \in [Trigger -> Nat] /\ marking \in [Trigger -> BOOLEAN] /\ unsure \in [Trigger -> Nat]
  BY <1>2
<1>5. <<>> \in Seq(Int) /\ DOMAIN <<>> = {}
  OBVIOUS
<1>6. served \in [Trigger -> Seq(Int)] /\ \A i \in Trigger : DOMAIN served[i] = {}
  BY <1>2, <1>5
<1>7. \A i \in Trigger : timer[i] = 0 /\ ~marking[i]
  BY <1>2
<1>8. TimersAreAhead
  BY <1>7 DEF TimersAreAhead
<1>9. \A i \in Dailies : Ahead(i)
  BY <1>1, <1>7, Here DEF Ahead
<1>10. \A id \in DOMAIN last : last[id] \in Int
  BY <1>2
<1>11. /\ step \in Nat /\ since \in Nat /\ since <= now
       /\ owing \in BOOLEAN /\ ~(since # 0) /\ ~owing
  <2>1. step \in Nat /\ since \in Nat /\ since <= now
    BY <1>2
  <2>2. owing \in BOOLEAN /\ ~(since # 0) /\ ~owing
    BY <1>2, Zenon
  <2> QED
    BY <2>1, <2>2
<1>12. \A i \in Trigger : \A n \in DOMAIN served[i] : served[i][n] <= now
  BY <1>6
<1>13. stage \notin {"up", "panicked"} => since = 0 /\ step = 0 /\ owing = FALSE
  BY <1>2
<1>14. \A i \in Trigger : timer[i] # 0 \/ marking[i] => stage \in {"up", "panicked"} /\ step > Len(manifest.triggers)
  BY <1>7
<1>15. ClockInv
  BY <1>3, <1>4, <1>6, <1>8, <1>9, <1>10, <1>11, <1>12, <1>13, <1>14 DEF ClockInv
<1> QED
  BY <1>1, <1>15

LEMMA ClockNext ==
    ASSUME HereInv, HoursInDays, ClockInv, [Next]_vars
    PROVE  ClockInv'
<1>1. UNCHANGED <<manifest, days, pick>> /\ Len(manifest.triggers) \in Nat /\ Trigger = 1..Len(manifest.triggers)
  BY StepKeepsManifest, Here
<1>2. /\ step \in Nat /\ owing \in BOOLEAN /\ \A id \in DOMAIN last : last[id] \in Int
      /\ stage \notin {"up", "panicked"} => since = 0 /\ step = 0 /\ owing = FALSE
      /\ owing => step \in Trigger
      /\ since # 0 => step > Len(manifest.triggers)
      /\ \A i \in Trigger : timer[i] # 0 \/ marking[i] => stage \in {"up", "panicked"} /\ step > Len(manifest.triggers)
  BY DEF ClockInv
<1> DEFINE Still == UNCHANGED <<now, since, timer, armedAt, marking, served, unsure>>
<1>3. CASE LoadManifest
  <2>1. UNCHANGED <<step, owing, last>> /\ Still /\ stage = "off"
    BY <1>3 DEF LoadManifest, clocks, history
  <2> QED
    BY <1>1, <1>2, <2>1, ClockFrame
<1>4. CASE Build
  <2>1. UNCHANGED <<step, owing, last>> /\ Still /\ stage = "loaded"
    BY <1>4 DEF Build, clocks, history
  <2> QED
    BY <1>1, <1>2, <2>1, ClockFrame
<1>5. CASE BuildDaemon
  <2>1. UNCHANGED <<step, owing>> /\ Still /\ stage = "built" /\ last' = IF Durable THEN last ELSE <<>>
    BY <1>5 DEF BuildDaemon, clocks, history
  <2>2. \A id \in DOMAIN last' : last'[id] \in Int
    BY <1>2, <2>1
  <2> QED
    BY <1>1, <1>2, <2>1, <2>2, ClockFrame
<1>6. CASE Recover
  <2>1. UNCHANGED <<owing, last>> /\ Still /\ stage = "wired" /\ stage' = "up" /\ step' = 1
    BY <1>6 DEF Recover, history
  <2>2. owing' = FALSE /\ since = 0 /\ \A i \in Trigger : timer[i] = 0 /\ ~marking[i]
    BY <1>2, <2>1
  <2> QED
    BY <1>1, <1>2, <2>1, <2>2, ClockFrame
<1>7. CASE CatchUp
  BY <1>7, ClockCatchUp
<1>8. CASE CatchUpMark
  <2>1. Still /\ stage = "up" /\ UNCHANGED stage /\ owing /\ owing' = FALSE /\ step' = step + 1 /\ Record(step)
    BY <1>8 DEF CatchUpMark, history
  <2>2. step \in Trigger
    BY <1>2, <2>1
  <2>3. \A id \in DOMAIN last' : last'[id] \in Int
    BY <2>1, <2>2, Recorded
  <2>4. since = 0 /\ \A i \in Trigger : timer[i] = 0 /\ ~marking[i]
    BY <2>2, NoTimerYet
  <2>5. step' \in Nat
    BY <1>2, <2>1
  <2>6. stage' \in {"up", "panicked"} /\ owing' \in BOOLEAN /\ ~owing'
    BY <2>1, Zenon
  <2> QED
    BY <1>1, <2>1, <2>3, <2>4, <2>5, <2>6, ClockFrame
<1>9. ASSUME NEW i \in Trigger, Arm(i) PROVE ClockInv'
  BY <1>9, ClockArm
<1>10. ASSUME NEW i \in Trigger, Fire(i) PROVE ClockInv'
  BY <1>10, ClockFire
<1>11. ASSUME NEW i \in Trigger, Mark(i) PROVE ClockInv'
  <2>1. /\ UNCHANGED <<manifest, days, pick, now, stage, step, owing, since, timer, armedAt, served, unsure>>
        /\ Record(i) /\ marking' = [marking EXCEPT ![i] = FALSE]
    BY <1>11 DEF Mark, config, history
  <2>2. \A id \in DOMAIN last' : last'[id] \in Int
    BY <2>1, Recorded
  <2>3. /\ Trigger' = Trigger /\ Dailies' = Dailies /\ Days' = Days /\ End' = End
        /\ Len(manifest.triggers)' = Len(manifest.triggers)
        /\ \A j, d : Occ(j, d)' = Occ(j, d)
    BY <1>1, SameManifest
  <2>4. marking' \in [Trigger -> BOOLEAN] /\ \A j \in Trigger : marking'[j] => marking[j]
    BY <2>1 DEF ClockInv
  <2>5. TimersAreAhead'
    BY <2>1, <2>3 DEF ClockInv, TimersAreAhead
  <2>6. ASSUME NEW j \in Dailies PROVE Ahead(j)'
    <3>1. Ahead(j)
      BY DEF ClockInv
    <3> QED
      BY <2>1, <2>3, <3>1 DEF Ahead
  <2> QED
    BY <2>1, <2>2, <2>3, <2>4, <2>5, <2>6 DEF ClockInv
<1>12. ASSUME NEW i \in Trigger, Post(i) PROVE ClockInv'
  <2>1. /\ UNCHANGED <<now, stage, step, owing, since, timer, armedAt, marking, last, unsure>>
        /\ T(i).type = "webhook" /\ (HandIn(i) \/ UNCHANGED served)
    BY <1>12 DEF Post, clocks
  <2>2. i \notin Dailies
    BY <2>1, Here
  <2>3. CASE HandIn(i)
    BY <1>1, <2>1, <2>2, <2>3, ClockPost
  <2>4. CASE UNCHANGED served
    BY <1>1, <1>2, <2>1, <2>4, ClockFrame
  <2> QED
    BY <2>1, <2>3, <2>4
<1>13. ASSUME UNCHANGED <<stage, step, owing, last>>, Still PROVE ClockInv'
  BY <1>1, <1>2, <1>13, ClockFrame
<1>14. ASSUME NEW i \in DOMAIN queue, Claim(i) PROVE ClockInv'
  BY <1>13, <1>14 DEF Claim, clocks, history
<1>15. CASE RunSucceeds \/ RunFails
  BY <1>13, <1>15 DEF RunSucceeds, RunFails, clocks, history
<1>16. CASE Tick
  BY <1>16, ClockTick
<1>17. CASE Die
  BY <1>17, ClockDie
<1>18. CASE UNCHANGED vars
  BY <1>13, <1>18 DEF vars, clocks, history
<1>19. CASE Listen
  <2>1. UNCHANGED <<step, owing, last>> /\ Still /\ stage = "up" /\ stage' \in {"up", "panicked"}
    BY <1>19 DEF Listen, Started, clocks, history
  <2> QED
    BY <1>1, <1>2, <2>1, ClockFrame
<1> QED
  BY <1>3, <1>4, <1>5, <1>6, <1>7, <1>8, <1>9, <1>10, <1>11, <1>12, <1>14, <1>15, <1>16, <1>17, <1>18, <1>19
     DEF Next

\* When trigger i wakes at the earliest, and whether its occurrence of day d is past.
Wake(i)     == IF timer[i] # 0 THEN timer[i] ELSE now + 1
Fired(i, d) == IF Occ(i, d) < Wake(i) THEN 1 ELSE 0

\* In a day that began after the last trigger was armed, what was handed over is the
\* occurrence, once it is past.
Timely(i) ==
    since # 0 =>
        /\ timer[i] # 0 => timer[i] >= now \/ now = since
        /\ \A d \in 0..(Len(days) + 1) : since < Begins[d] =>
             /\ Count(served[i], Begins[d], Begins[d + 1] - 1) = Fired(i, d)
             /\ Count(served[i], Occ(i, d), Occ(i, d)) = Fired(i, d)

DayInv == \A i \in Dailies : Timely(i)

\* A step that changes neither the hour nor the timer of a trigger nor what it handed over.
LEMMA TimelyFrame ==
    ASSUME NEW i \in Dailies, Timely(i), UNCHANGED <<manifest, days, pick, now, since>>,
           timer'[i] = timer[i], served'[i] = served[i]
    PROVE  Timely(i)'
<1>1. /\ Len(days)' = Len(days) /\ \A d : Begins[d]' = Begins[d] 
      /\ \A j, d : Occ(j, d)' = Occ(j, d)
  BY SameManifest
<1>2. \A d : Fired(i, d)' = Fired(i, d)
  BY <1>1 DEF Fired, Wake
<1>3. \A d : /\ Count(served[i], Begins[d], Begins[d + 1] - 1)' = Count(served[i], Begins[d], Begins[d + 1] - 1)
             /\ Count(served[i], Occ(i, d), Occ(i, d))' = Count(served[i], Occ(i, d), Occ(i, d))
  BY <1>1
<1> QED
  BY <1>1, <1>2, <1>3 DEF Timely

\* The last goroutine is armed: nothing was handed over in a day to come.
LEMMA TimelyStart ==
    ASSUME HereInv, HoursInDays, ClockInv, ClockInv', NEW i \in Dailies,
           UNCHANGED <<manifest, days, pick, now, served>>, since' = now, timer'[i] # 0
    PROVE  Timely(i)'
<1>1. /\ Len(days)' = Len(days) /\ \A d : Begins[d]' = Begins[d]
      /\ Trigger' = Trigger /\ Dailies' = Dailies /\ Days' = Days
      /\ \A j, d : Occ(j, d)' = Occ(j, d)
  BY SameManifest
<1>2. now \in Int /\ served[i] \in Seq(Int) /\ timer'[i] \in Int /\ armedAt'[i] \in Nat /\ Ahead(i)'
  BY <1>1, NowIsHour, Here DEF ClockInv
<1>3. ASSUME NEW d \in 0..(Len(days) + 1), now < Begins[d]
      PROVE  /\ Count(served[i], Begins[d], Begins[d + 1] - 1) = 0
             /\ Count(served[i], Occ(i, d), Occ(i, d)) = 0
             /\ Fired(i, d)' = 0
  <2>1. d \in Days /\ Begins[d] \in Int /\ Occ(i, d) \in Int /\ Begins[d] <= Occ(i, d)
    BY OccFacts
  <2>2. \A n \in DOMAIN served[i] : served[i][n] \in Int /\ served[i][n] <= now
    BY <1>2, LenProperties, ElementOfSeq, Here DEF ClockInv
  <2>3. \A n \in DOMAIN served[i] : ~(Begins[d] <= served[i][n]) /\ ~(Occ(i, d) <= served[i][n])
    BY <1>2, <1>3, <2>1, <2>2
  <2>4. armedAt'[i] <= now /\ (Occ(i, d) > armedAt'[i] => timer'[i] <= Occ(i, d))
    BY <1>1, <1>2, <2>1 DEF Ahead
  <2>5. ~(Occ(i, d) < timer'[i])
    BY <1>2, <1>3, <2>1, <2>4
  <2>6. Fired(i, d)' = 0
    BY <1>1, <2>5 DEF Fired, Wake
  <2> QED
    BY <1>2, <2>3, <2>6, CountNone
<1>4. \A d : /\ Count(served[i], Begins[d], Begins[d + 1] - 1)' = Count(served[i], Begins[d], Begins[d + 1] - 1)
             /\ Count(served[i], Occ(i, d), Occ(i, d))' = Count(served[i], Occ(i, d), Occ(i, d))
  BY <1>1
<1> QED
  BY <1>1, <1>3, <1>4 DEF Timely

\* It is armed again: for the first occurrence after the hour.
LEMMA TimelyArm ==
    ASSUME HereInv, HoursInDays, ClockInv, ClockInv', NEW i \in Dailies, Timely(i), since # 0, Arm(i)
    PROVE  Timely(i)'
<1>1. /\ UNCHANGED <<manifest, days, pick, now, since, served>> /\ timer[i] = 0 /\ i \in Trigger
      /\ armedAt' = [armedAt EXCEPT ![i] = now]
  BY Here DEF Arm, config, history
<1>2. /\ Len(days)' = Len(days) /\ \A d : Begins[d]' = Begins[d]
      /\ Trigger' = Trigger /\ Dailies' = Dailies /\ Days' = Days
      /\ \A j, d : Occ(j, d)' = Occ(j, d)
  BY <1>1, SameManifest
<1>3. now \in Int /\ timer'[i] \in Int /\ armedAt'[i] = now
  BY <1>1, <1>2, NowIsHour DEF ClockInv
<1>4. /\ timer'[i] # 0 => timer'[i] > now
      /\ timer'[i] # 0 => \A d \in Days : Occ(i, d) > now => timer'[i] <= Occ(i, d)
  <2>1. TimersAreAhead' /\ Ahead(i)'
    BY <1>2 DEF ClockInv
  <2>2. timer'[i] # 0 => timer'[i] > armedAt'[i]
    BY <1>1, <1>2, <2>1 DEF TimersAreAhead
  <2>3. timer'[i] # 0 => \A d \in Days : Occ(i, d) > armedAt'[i] => timer'[i] <= Occ(i, d)
    BY <1>2, <2>1 DEF Ahead
  <2> QED
    BY <1>3, <2>2, <2>3
<1>5. ASSUME NEW d \in 0..(Len(days) + 1) PROVE Fired(i, d)' = Fired(i, d)
  <2>1. d \in Days /\ Occ(i, d) \in Int
    BY OccFacts
  <2>2. Wake(i) = now + 1 /\ (Wake(i)' = now + 1 \/ (timer'[i] # 0 /\ Wake(i)' = timer'[i]))
    BY <1>1 DEF Wake
  <2>3. Occ(i, d) < Wake(i) <=> Occ(i, d) < Wake(i)'
    BY <1>3, <1>4, <2>1, <2>2
  <2> QED
    BY <1>2, <2>3 DEF Fired
<1>6. \A d : /\ Count(served[i], Begins[d], Begins[d + 1] - 1)' = Count(served[i], Begins[d], Begins[d + 1] - 1)
             /\ Count(served[i], Occ(i, d), Occ(i, d))' = Count(served[i], Occ(i, d), Occ(i, d))
  BY <1>1, <1>2
<1>7. timer'[i] # 0 => timer'[i] >= now
  BY <1>3, <1>4
<1> QED
  BY <1>1, <1>2, <1>5, <1>6, <1>7 DEF Timely

LEMMA TimelyFire ==
    ASSUME HereInv, HoursInDays, ClockInv, NEW i \in Dailies, Timely(i), Fire(i)
    PROVE  Timely(i)'
<1>1. /\ UNCHANGED <<manifest, days, pick, now, since>> /\ i \in Trigger
      /\ timer[i] # 0 /\ timer[i] <= now /\ HandIn(i)
      /\ timer' = [timer EXCEPT ![i] = IF T(i).type = "every" THEN @ + Every ELSE 0]
  BY Here DEF Fire, config
<1>2. /\ Len(days)' = Len(days) /\ \A d : Begins[d]' = Begins[d]
      /\ \A j, d : Occ(j, d)' = Occ(j, d)
  BY <1>1, SameManifest
<1>3. served'[i] = Append(served[i], now) /\ served[i] \in Seq(Int) /\ now \in Int /\ timer[i] \in Int
  BY <1>1, HandInServes, NowIsHour DEF ClockInv
<1>4. timer'[i] = 0
  <2>1. T(i).type # "every"
    BY Here
  <2> QED
    BY <1>1, <2>1 DEF ClockInv
<1>5. PICK e \in Days : timer[i] = Occ(i, e)
  BY <1>1 DEF ClockInv, Ahead
<1>6. ASSUME NEW d \in 0..(Len(days) + 1), since # 0, since < Begins[d]
      PROVE  /\ Count(served'[i], Begins[d], Begins[d + 1] - 1) = Fired(i, d)'
             /\ Count(served'[i], Occ(i, d), Occ(i, d)) = Fired(i, d)'
  <2>1. /\ Count(served[i], Begins[d], Begins[d + 1] - 1) = Fired(i, d)
        /\ Count(served[i], Occ(i, d), Occ(i, d)) = Fired(i, d)
        /\ timer[i] >= now \/ now = since
    BY <1>1, <1>6 DEF Timely
  <2>2. /\ Count(served'[i], Begins[d], Begins[d + 1] - 1)
             = Fired(i, d) + IF Begins[d] <= now /\ now <= Begins[d + 1] - 1 THEN 1 ELSE 0
        /\ Count(served'[i], Occ(i, d), Occ(i, d))
             = Fired(i, d) + IF Occ(i, d) <= now /\ now <= Occ(i, d) THEN 1 ELSE 0
    BY <1>3, <2>1, CountAppend
  <2>3. /\ d \in Days /\ d + 1 \in Days /\ d \in Int /\ e \in Int
        /\ Occ(i, d) \in Int /\ Occ(i, e) \in Int /\ Begins[d] \in Int /\ Begins[d + 1] \in Int /\ Begins[e] \in Int
        /\ Begins[d] <= Occ(i, d) /\ Begins[e] <= Occ(i, e) /\ Occ(i, d) < Begins[d + 1]
    BY OccFacts
  <2>4. /\ Fired(i, d) = IF Occ(i, d) < Occ(i, e) THEN 1 ELSE 0
        /\ Fired(i, d)' = IF Occ(i, d) < now + 1 THEN 1 ELSE 0
    BY <1>1, <1>2, <1>4, <1>5 DEF Fired, Wake
  <2>5. CASE now = since
    BY <1>1, <1>3, <1>5, <1>6, <2>2, <2>3, <2>4, <2>5
  <2>6. CASE timer[i] >= now
    <3>1. now = Occ(i, e)
      BY <1>1, <1>3, <1>5, <2>6
    <3>2. CASE d = e
      BY <2>2, <2>3, <2>4, <3>1, <3>2
    <3>3. CASE d < e
      <4>1. Begins[d + 1] <= Begins[e] /\ Occ(i, d) < Occ(i, e)
        BY <2>3, <3>3, OccFacts
      <4> QED
        BY <2>2, <2>3, <2>4, <3>1, <4>1
    <3>4. CASE e < d
      <4>1. Occ(i, e) < Begins[d] /\ Occ(i, e) < Occ(i, d)
        BY <2>3, <3>4, OccFacts
      <4> QED
        BY <2>2, <2>3, <2>4, <3>1, <4>1
    <3> QED
      BY <2>3, <3>2, <3>3, <3>4
  <2> QED
    BY <2>1, <2>5, <2>6
<1> QED
  BY <1>1, <1>2, <1>4, <1>6 DEF Timely

\* Time passes only when every timer is ahead.
LEMMA TickFacts ==
    ASSUME HereInv, ClockInv, Tick
    PROVE  /\ UNCHANGED <<manifest, days, pick, stage, step, owing, since, timer, armedAt, marking, last, served, unsure>>
           /\ now' = now + 1
           /\ \/ stage = "off" /\ UNCHANGED slipped /\ ~owing /\ \A i \in Trigger : ~marking[i]
              \/ Settled /\ UNCHANGED slipped /\ ~owing
              \/ stage = "up" /\ since = 0 /\ slipped' = slipped \cup {now'}
<1>1. /\ UNCHANGED <<manifest, days, pick, stage, step, owing, since, timer, armedAt, marking, last, served, unsure>>
      /\ now' = now + 1
      /\ stage = "off" \/ Settled \/ Starting
      /\ slipped' = IF Starting /\ ~Settled THEN slipped \cup {now'} ELSE slipped
  BY DEF Tick, config, clocks
<1>2. CASE stage = "off"
  <2>1. ~Starting /\ ~owing /\ \A i \in Trigger : ~marking[i]
    BY <1>2 DEF Starting, ClockInv
  <2> QED
    BY <1>1, <1>2, <2>1
<1>3. CASE Settled
  <2>1. ~owing
    <3>1. step > Len(manifest.triggers)
      BY <1>3 DEF Settled, Started
    <3>2. step \notin Trigger
      BY <3>1, Here
    <3> QED
      BY <3>2 DEF ClockInv
  <2> QED
    BY <1>1, <1>3, <2>1
<1>4. CASE Starting /\ ~Settled
  BY <1>1, <1>4 DEF Starting
<1> QED
  BY <1>1, <1>2, <1>3, <1>4

LEMMA TimelyTick ==
    ASSUME HereInv, ClockInv, NEW i \in Dailies, Timely(i), Tick
    PROVE  Timely(i)'
<1>1. UNCHANGED <<manifest, days, pick, since, timer, served>> /\ now' = now + 1
  BY TickFacts
<1> SUFFICES ASSUME since # 0 PROVE Timely(i)'
  BY <1>1 DEF Timely
<1>2. timer[i] > now
  <2>1. stage # "off" /\ Timed(i) /\ i \in Trigger
    BY Here DEF ClockInv
  <2>2. Settled
    BY <2>1, TickFacts
  <2> QED
    BY <2>1, <2>2 DEF Settled
<1>3. now \in Int /\ now >= 1 /\ timer[i] \in Int
  BY NowIsHour, Here DEF ClockInv
<1>4. timer[i] # 0 /\ timer[i] >= now'
  BY <1>1, <1>2, <1>3
<1>5. /\ Len(days)' = Len(days) /\ \A d : Begins[d]' = Begins[d] 
      /\ \A j, d : Occ(j, d)' = Occ(j, d)
  BY <1>1, SameManifest
<1>6. \A d : Fired(i, d)' = Fired(i, d)
  BY <1>1, <1>4, <1>5 DEF Fired, Wake
<1>7. \A d : /\ Count(served[i], Begins[d], Begins[d + 1] - 1)' = Count(served[i], Begins[d], Begins[d + 1] - 1)
             /\ Count(served[i], Occ(i, d), Occ(i, d))' = Count(served[i], Occ(i, d), Occ(i, d))
  BY <1>1, <1>5
<1> QED
  BY <1>1, <1>4, <1>5, <1>6, <1>7 DEF Timely

LEMMA DayNext ==
    ASSUME HereInv, HoursInDays, ClockInv, ClockInv', DayInv, [Next]_vars
    PROVE  DayInv'
<1>1. UNCHANGED <<manifest, days, pick>> /\ Dailies' = Dailies
  BY StepKeepsManifest, SameManifest
<1> SUFFICES ASSUME NEW i \in Dailies PROVE Timely(i)'
  BY <1>1 DEF DayInv
<1>2. Timely(i) /\ i \in Trigger
  BY Here DEF DayInv
<1>3. ASSUME UNCHANGED <<now, since>>, timer'[i] = timer[i], served'[i] = served[i] PROVE Timely(i)'
  BY <1>1, <1>2, <1>3, TimelyFrame
<1>4. CASE LoadManifest \/ Build \/ BuildDaemon \/ Recover \/ CatchUpMark \/ Listen
  BY <1>3, <1>4 DEF LoadManifest, Build, BuildDaemon, Recover, CatchUpMark, Listen, clocks, history
<1>5. CASE CatchUp
  <2>1. since = 0
    BY <1>5, NoTimerYet DEF CatchUp
  <2>2. since' = since
    BY <1>5 DEF CatchUp
  <2> QED
    BY <2>1, <2>2 DEF Timely
<1>6. ASSUME NEW j \in Trigger, Arm(j) PROVE Timely(i)'
  <2>1. UNCHANGED <<now, served>> /\ since' = IF since = 0 /\ AllArmed(timer') THEN now ELSE since
    BY <1>6 DEF Arm, history
  <2>2. CASE since = 0 /\ AllArmed(timer')
    <3>1. timer'[i] # 0
      BY <1>2, <2>2, Here DEF AllArmed
    <3> QED
      BY <1>1, <2>1, <2>2, <3>1, TimelyStart
  <2>3. CASE since = 0 /\ ~AllArmed(timer')
    BY <2>1, <2>3 DEF Timely
  <2>4. CASE since # 0 /\ j = i
    BY <1>2, <1>6, <2>4, TimelyArm
  <2>5. CASE since # 0 /\ j # i
    <3>1. timer'[i] = timer[i]
      BY <1>2, <1>6, <2>5 DEF Arm, ClockInv
    <3> QED
      BY <1>3, <2>1, <2>5, <3>1
  <2> QED
    BY <2>2, <2>3, <2>4, <2>5
<1>7. ASSUME NEW j \in Trigger, Fire(j) PROVE Timely(i)'
  <2>1. CASE j = i
    BY <1>2, <1>7, <2>1, TimelyFire
  <2>2. CASE j # i
    <3>1. UNCHANGED <<now, since>> /\ timer'[i] = timer[i]
      BY <1>2, <1>7, <2>2 DEF Fire, ClockInv
    <3>2. served'[i] = served[i]
      BY <1>2, <1>7, <2>2, HandInServes DEF Fire
    <3> QED
      BY <1>3, <3>1, <3>2
  <2> QED
    BY <2>1, <2>2
<1>8. ASSUME NEW j \in Trigger, Mark(j) PROVE Timely(i)'
  BY <1>3, <1>8 DEF Mark, history
<1>9. ASSUME NEW j \in Trigger, Post(j) PROVE Timely(i)'
  <2>1. UNCHANGED <<now, since, timer>> /\ (HandIn(j) \/ UNCHANGED served) /\ T(j).type = "webhook"
    BY <1>9 DEF Post, clocks
  <2>2. j # i
    BY <2>1, Here
  <2>3. HandIn(j) => served'[i] = served[i]
    BY <1>2, <2>2, HandInServes
  <2> QED
    BY <1>3, <2>1, <2>3
<1>10. ASSUME NEW j \in DOMAIN queue, Claim(j) PROVE Timely(i)'
  BY <1>3, <1>10 DEF Claim, clocks, history
<1>11. CASE RunSucceeds \/ RunFails
  BY <1>3, <1>11 DEF RunSucceeds, RunFails, clocks, history
<1>12. CASE Tick
  BY <1>2, <1>12, TimelyTick
<1>13. CASE Die
  BY <1>13 DEF Die, Timely
<1>14. CASE UNCHANGED vars
  BY <1>3, <1>14 DEF vars, clocks, history
<1> QED
  BY <1>4, <1>5, <1>6, <1>7, <1>8, <1>9, <1>10, <1>11, <1>12, <1>13, <1>14 DEF Next

LEMMA DayProved ==
    ASSUME HereInv, HoursInDays, ClockInv, DayInv
    PROVE  OncePerDay
<1> SUFFICES ASSUME NEW i \in Dailies, NEW d \in DOMAIN days, since # 0, since < Begins[d], Begins[d + 1] <= now
             PROVE  /\ Handed(i, Begins[d], Begins[d + 1] - 1) = 1
                    /\ \E t \in Candidates(d, T(i).at) : Handed(i, t, t) = 1
  BY DEF OncePerDay
<1>1. days \in DaysType /\ Len(days) \in Nat /\ i \in Trigger /\ T(i).at \in Int /\ Spans(T(i).at)
  BY Here DEF HoursInDays
<1>2. d \in 0..(Len(days) + 1)
  <2>1. d \in 1..Len(days)
    BY <1>1, LenProperties DEF DaysType
  <2> QED
    BY <1>1, <2>1
<1>3. /\ d \in Days /\ d + 1 \in Days /\ Begins[d] \in Int /\ Begins[d + 1] \in Int /\ Occ(i, d) \in Int
      /\ Begins[d] <= Occ(i, d) /\ Occ(i, d) < Begins[d + 1]
  BY <1>2, OccFacts
<1>4. now \in Int /\ since \in Nat /\ timer[i] \in Int
  BY <1>1, NowIsHour DEF ClockInv
<1>5. now # since
  BY <1>3, <1>4
<1>6. Occ(i, d) < Wake(i)
  BY <1>3, <1>4, <1>5 DEF DayInv, Timely, Wake
<1>7. Fired(i, d) = 1
  BY <1>6 DEF Fired
<1>8. /\ Count(served[i], Begins[d], Begins[d + 1] - 1) = 1
      /\ Count(served[i], Occ(i, d), Occ(i, d)) = 1
  BY <1>2, <1>7 DEF DayInv, Timely
<1>9. \A from, to : Handed(i, from, to) = Count(served[i], from, to)
  BY DEF Handed, Count
<1>10. Occ(i, d) \in Candidates(d, T(i).at)
  <2>1. PICK h \in Int : h = T(i).at
    BY <1>1
  <2> QED
    BY <1>1, <1>3, <2>1, OccurrenceInDay DEF Occ, Spans
<1> QED
  BY <1>8, <1>9, <1>10

\* Trigger i was handed over at an hour since which only hours of a start have passed.
Reached(i, t) == \E n \in DOMAIN served[i] : \A u \in (served[i][n] + 1)..t : u \in slipped
Covered(i, d) == Occ(i, d) \in slipped \/ \E n \in DOMAIN served[i] : Occ(i, d) <= served[i][n]

\* The record of a trigger with catch_up says only what was handed over, and once catchUp
\* has looked at it every occurrence that is past was handed over or is about to be.
Kept(i) ==
    T(i).catchUp /\ OwnId(i) =>
        /\ TriggerId(T(i)) \in DOMAIN last => Reached(i, last[TriggerId(T(i))])
        /\ marking[i] \/ (owing /\ step = i) => Reached(i, now)
        /\ stage = "up" /\ step > i =>
             \A d \in Days : Occ(i, d) <= now => Covered(i, d) \/ (timer[i] # 0 /\ timer[i] <= Occ(i, d))

MissInv == \A i \in Dailies : Kept(i)

\* What was handed over stays handed over.
LEMMA ReachedStays ==
    ASSUME UNCHANGED <<manifest, days, pick>>, NEW i, slipped \subseteq slipped',
           \A n \in DOMAIN served[i] : n \in DOMAIN served'[i] /\ served'[i][n] = served[i][n]
    PROVE  /\ \A t : Reached(i, t) => \E n \in DOMAIN served'[i] : \A u \in (served'[i][n] + 1)..t : u \in slipped'
           /\ \A d : Covered(i, d) => Covered(i, d)'
<1>1. \A d : Occ(i, d)' = Occ(i, d)
  BY SameManifest
<1>2. ASSUME NEW t, Reached(i, t) PROVE \E n \in DOMAIN served'[i] : \A u \in (served'[i][n] + 1)..t : u \in slipped'
  BY <1>2 DEF Reached
<1>3. ASSUME NEW d, Covered(i, d) PROVE Covered(i, d)'
  BY <1>1, <1>3 DEF Covered
<1> QED
  BY <1>2, <1>3

LEMMA KeptFrame ==
    ASSUME NEW i \in Dailies, Kept(i), UNCHANGED <<manifest, days, pick, now, slipped>>,
           \A n \in DOMAIN served[i] : n \in DOMAIN served'[i] /\ served'[i][n] = served[i][n],
           OwnId(i) /\ TriggerId(T(i)) \in DOMAIN last' =>
               TriggerId(T(i)) \in DOMAIN last /\ last'[TriggerId(T(i))] = last[TriggerId(T(i))],
           marking'[i] \/ (owing' /\ step' = i) => marking[i] \/ (owing /\ step = i),
           stage' = "up" /\ step' > i => stage = "up" /\ step > i /\ timer'[i] = timer[i]
    PROVE  Kept(i)'
<1>1. /\ T(i)' = T(i) /\ OwnId(i)' = OwnId(i) /\ TriggerId(T(i))' = TriggerId(T(i)) /\ Days' = Days
      /\ \A d : Occ(i, d)' = Occ(i, d)
  BY SameManifest
<1> SUFFICES ASSUME T(i).catchUp, OwnId(i) PROVE Kept(i)'
  BY <1>1 DEF Kept
<1>2. /\ \A t : Reached(i, t) => \E n \in DOMAIN served'[i] : \A u \in (served'[i][n] + 1)..t : u \in slipped'
      /\ \A d : Covered(i, d) => Covered(i, d)'
  BY ReachedStays
<1>3. TriggerId(T(i)) \in DOMAIN last' => Reached(i, last[TriggerId(T(i))])'
  BY <1>1, <1>2 DEF Kept, Reached
<1>4. marking'[i] \/ (owing' /\ step' = i) => Reached(i, now)'
  BY <1>2 DEF Kept, Reached
<1>5. ASSUME stage' = "up", step' > i, NEW d \in Days, Occ(i, d) <= now
      PROVE  Covered(i, d)' \/ (timer'[i] # 0 /\ timer'[i] <= Occ(i, d))
  BY <1>2, <1>5 DEF Kept
<1> QED
  BY <1>1, <1>3, <1>4, <1>5 DEF Kept

\* A trigger that catchUp finds served, and passes over.
LEMMA KeptSkip ==
    ASSUME HereInv, HoursInDays, ClockInv, NEW i \in Dailies, Kept(i), T(i).catchUp, ~Missed(i),
           UNCHANGED <<manifest, days, pick, now, slipped, served, last, marking, owing>>, ~owing
    PROVE  Kept(i)'
<1>1. /\ T(i)' = T(i) /\ OwnId(i)' = OwnId(i) /\ TriggerId(T(i))' = TriggerId(T(i)) /\ Days' = Days
      /\ \A d : Occ(i, d)' = Occ(i, d)
  BY SameManifest
<1> SUFFICES ASSUME OwnId(i) PROVE Kept(i)'
  BY <1>1 DEF Kept
<1> DEFINE id == TriggerId(T(i))
<1>2. id \in DOMAIN last /\ ~(last[id] < PreviousOccurrence(now, T(i).at)) /\ last[id] \in Int
  BY DEF Missed, ClockInv
<1>3. Reached(i, last[id])
  BY <1>2 DEF Kept
<1> HIDE DEF id
<1>4. PICK p \in Int : p = PreviousOccurrence(now, T(i).at) /\ \A d \in Days : Occ(i, d) <= now => Occ(i, d) <= p
  <2>1. days \in DaysType /\ T(i).at \in Int /\ Spans(T(i).at) /\ now \in 1..End
    BY Here DEF HoursInDays, ClockInv
  <2>2. PICK h \in Int : h = T(i).at
    BY <2>1
  <2> QED
    BY <2>1, <2>2, PreviousIsLast DEF Occ
<1>5. ASSUME NEW d \in Days, Occ(i, d) <= now PROVE Covered(i, d)
  <2>1. Occ(i, d) \in Int /\ Occ(i, d) <= last[id]
    BY <1>2, <1>4, <1>5, OccFacts
  <2>2. PICK n \in DOMAIN served[i] : \A u \in (served[i][n] + 1)..last[id] : u \in slipped
    BY <1>3 DEF Reached
  <2>3. served[i][n] \in Int
    BY Here, LenProperties, ElementOfSeq DEF ClockInv
  <2>4. CASE Occ(i, d) <= served[i][n]
    BY <2>4 DEF Covered
  <2>5. CASE ~(Occ(i, d) <= served[i][n])
    <3>1. Occ(i, d) \in (served[i][n] + 1)..last[id]
      BY <1>2, <2>1, <2>3, <2>5
    <3> QED
      BY <2>2, <3>1 DEF Covered
  <2> QED
    BY <2>4, <2>5
<1>6. /\ \A t : Reached(i, t) => \E n \in DOMAIN served'[i] : \A u \in (served'[i][n] + 1)..t : u \in slipped'
      /\ \A d : Covered(i, d) => Covered(i, d)'
  BY ReachedStays
<1>7. TriggerId(T(i)) \in DOMAIN last' => Reached(i, last[TriggerId(T(i))])'
  BY <1>1, <1>6 DEF Kept, Reached
<1>8. marking'[i] \/ (owing' /\ step' = i) => Reached(i, now)'
  BY <1>6 DEF Kept, Reached
<1> QED
  BY <1>1, <1>5, <1>6, <1>7, <1>8 DEF Kept

\* A trigger that is handed over now.
LEMMA KeptHandIn ==
    ASSUME HereInv, HoursInDays, ClockInv, NEW i \in Dailies, Kept(i), HandIn(i),
           UNCHANGED <<manifest, days, pick, now, slipped, last>>
    PROVE  Kept(i)'
<1>1. /\ T(i)' = T(i) /\ OwnId(i)' = OwnId(i) /\ TriggerId(T(i))' = TriggerId(T(i)) /\ Days' = Days
      /\ \A d : Occ(i, d)' = Occ(i, d)
  BY SameManifest
<1>2. now \in Int /\ i \in Trigger
  BY NowIsHour, Here
<1>3. /\ \A n \in DOMAIN served[i] : n \in DOMAIN served'[i] /\ served'[i][n] = served[i][n]
      /\ \E n \in DOMAIN served'[i] : served'[i][n] = now
  BY <1>2, HandInServes
<1>4. \A t : Reached(i, t) => \E n \in DOMAIN served'[i] : \A u \in (served'[i][n] + 1)..t : u \in slipped'
  BY <1>3, ReachedStays
<1>5. TriggerId(T(i)) \in DOMAIN last' /\ T(i).catchUp /\ OwnId(i) => Reached(i, last[TriggerId(T(i))])'
  BY <1>1, <1>4 DEF Kept, Reached
<1>6. Reached(i, now)'
  <2>1. (now + 1)..now = {}
    BY <1>2
  <2> QED
    BY <1>3, <2>1 DEF Reached
<1>7. \A d \in Days : Occ(i, d) <= now => Covered(i, d)'
  BY <1>1, <1>3 DEF Covered
<1> QED
  BY <1>1, <1>5, <1>6, <1>7 DEF Kept

\* A trigger that was handed over at this hour, or at one since which only hours of a
\* start have passed, is recorded.
LEMMA KeptRecord ==
    ASSUME HereInv, HoursInDays, ClockInv, NEW i \in Dailies, Kept(i), Record(i), marking[i] \/ (owing /\ step = i),
           UNCHANGED <<manifest, days, pick, now, slipped, served>>
    PROVE  Kept(i)'
<1>1. /\ T(i)' = T(i) /\ OwnId(i)' = OwnId(i) /\ TriggerId(T(i))' = TriggerId(T(i)) /\ Days' = Days
      /\ \A d : Occ(i, d)' = Occ(i, d)
  BY SameManifest
<1> SUFFICES ASSUME T(i).catchUp, OwnId(i) PROVE Kept(i)'
  BY <1>1 DEF Kept
<1>2. now \in Int /\ i \in Trigger
  BY NowIsHour, Here
<1>3. Reached(i, now)
  BY DEF Kept
<1>4. last'[TriggerId(T(i))] = now
  BY <1>2, Recorded
<1>5. Reached(i, now)' /\ Reached(i, last[TriggerId(T(i))])'
  BY <1>1, <1>3, <1>4 DEF Reached
<1>6. ASSUME NEW d \in Days, Occ(i, d) <= now PROVE Covered(i, d)'
  <2>1. Occ(i, d) \in Int
    BY OccFacts
  <2>2. PICK n \in DOMAIN served[i] : \A u \in (served[i][n] + 1)..now : u \in slipped
    BY <1>3 DEF Reached
  <2>3. served[i][n] \in Int
    BY <1>2, LenProperties, ElementOfSeq DEF ClockInv
  <2>4. CASE Occ(i, d) <= served[i][n]
    BY <1>1, <2>4 DEF Covered
  <2>5. CASE ~(Occ(i, d) <= served[i][n])
    <3>1. Occ(i, d) \in (served[i][n] + 1)..now
      BY <1>2, <1>6, <2>1, <2>3, <2>5
    <3> QED
      BY <1>1, <2>2, <3>1 DEF Covered
  <2> QED
    BY <2>4, <2>5
<1> QED
  BY <1>1, <1>5, <1>6 DEF Kept

LEMMA KeptTick ==
    ASSUME HereInv, HoursInDays, ClockInv, NEW i \in Dailies, Kept(i), Tick
    PROVE  Kept(i)'
<1>1. /\ UNCHANGED <<manifest, days, pick, stage, step, owing, since, timer, armedAt, marking, last, served, unsure>>
      /\ now' = now + 1 /\ slipped \subseteq slipped'
      /\ \/ stage = "off" /\ ~owing /\ \A j \in Trigger : ~marking[j]
         \/ Settled /\ ~owing
         \/ stage = "up" /\ now' \in slipped'
  BY TickFacts
<1>2. /\ T(i)' = T(i) /\ OwnId(i)' = OwnId(i) /\ TriggerId(T(i))' = TriggerId(T(i)) /\ Days' = Days
      /\ \A d : Occ(i, d)' = Occ(i, d)
  BY <1>1, SameManifest
<1> SUFFICES ASSUME T(i).catchUp, OwnId(i) PROVE Kept(i)'
  BY <1>2 DEF Kept
<1>3. now \in Int /\ now >= 1 /\ i \in Trigger /\ Timed(i) /\ timer[i] \in Int /\ armedAt[i] \in Nat
  BY NowIsHour, Here DEF ClockInv
<1>4. /\ \A t : Reached(i, t) => \E n \in DOMAIN served'[i] : \A u \in (served'[i][n] + 1)..t : u \in slipped'
      /\ \A d : Covered(i, d) => Covered(i, d)'
  BY <1>1, ReachedStays
<1>5. TriggerId(T(i)) \in DOMAIN last' => Reached(i, last[TriggerId(T(i))])'
  BY <1>1, <1>2, <1>4 DEF Kept, Reached
<1>6. ASSUME marking[i] \/ (owing /\ step = i) PROVE Reached(i, now)'
  <2>1. now' \in slipped'
    BY <1>1, <1>3, <1>6 DEF Settled
  <2>2. PICK n \in DOMAIN served[i] : \A u \in (served[i][n] + 1)..now : u \in slipped
    BY <1>6 DEF Kept, Reached
  <2>3. served[i][n] \in Int
    BY <1>3, LenProperties, ElementOfSeq DEF ClockInv
  <2>4. \A u \in (served[i][n] + 1)..now' : u = now' \/ u \in (served[i][n] + 1)..now
    BY <1>1, <1>3, <2>3
  <2> QED
    BY <1>1, <2>1, <2>2, <2>4 DEF Reached
<1>7. ASSUME stage = "up", step > i, NEW d \in Days, Occ(i, d) <= now'
      PROVE  Covered(i, d)' \/ (timer[i] # 0 /\ timer[i] <= Occ(i, d))
  <2>1. Occ(i, d) \in Int
    BY OccFacts
  <2>2. CASE Occ(i, d) <= now
    BY <1>4, <1>7, <2>2 DEF Kept
  <2>3. CASE ~(Occ(i, d) <= now)
    <3>1. Occ(i, d) = now' /\ Occ(i, d) > now
      BY <1>1, <1>3, <1>7, <2>1, <2>3
    <3>2. CASE now' \in slipped'
      BY <1>2, <3>1, <3>2 DEF Covered
    <3>3. CASE Settled
      <4>1. timer[i] > now
        BY <1>3, <3>3 DEF Settled
      <4>2. timer[i] # 0
        BY <1>3, <4>1
      <4>3. Ahead(i)
        BY DEF ClockInv
      <4>4. armedAt[i] <= now /\ (Occ(i, d) > armedAt[i] => timer[i] <= Occ(i, d))
        BY <4>2, <4>3 DEF Ahead
      <4> QED
        BY <1>3, <2>1, <3>1, <4>2, <4>4
    <3> QED
      BY <1>1, <1>7, <3>2, <3>3
  <2> QED
    BY <2>2, <2>3
<1> QED
  BY <1>1, <1>2, <1>5, <1>6, <1>7 DEF Kept

LEMMA KeptArm ==
    ASSUME NEW i \in Dailies, Kept(i), Arm(i)
    PROVE  Kept(i)'
<1>1. UNCHANGED <<manifest, days, pick, now, slipped, served, last, marking, step, owing>> /\ timer[i] = 0 /\ stage = "up"
  BY DEF Arm, Started, config, history
<1>2. /\ T(i)' = T(i) /\ OwnId(i)' = OwnId(i) /\ TriggerId(T(i))' = TriggerId(T(i)) /\ Days' = Days
      /\ \A d : Occ(i, d)' = Occ(i, d)
  BY <1>1, SameManifest
<1>3. /\ \A t : Reached(i, t) => \E n \in DOMAIN served'[i] : \A u \in (served'[i][n] + 1)..t : u \in slipped'
      /\ \A d : Covered(i, d) => Covered(i, d)'
  BY <1>1, ReachedStays
<1> SUFFICES ASSUME T(i).catchUp, OwnId(i) PROVE Kept(i)'
  BY <1>2 DEF Kept
<1>4. TriggerId(T(i)) \in DOMAIN last' => Reached(i, last[TriggerId(T(i))])'
  BY <1>1, <1>2, <1>3 DEF Kept, Reached
<1>5. marking'[i] \/ (owing' /\ step' = i) => Reached(i, now)'
  BY <1>1, <1>3 DEF Kept, Reached
<1>6. step > i => \A d \in Days : Occ(i, d) <= now => Covered(i, d)'
  BY <1>1, <1>3 DEF Kept
<1> QED
  BY <1>1, <1>2, <1>4, <1>5, <1>6 DEF Kept

LEMMA MissNext ==
    ASSUME HereInv, HoursInDays, ClockInv, MissInv, [Next]_vars
    PROVE  MissInv'
<1>1. UNCHANGED <<manifest, days, pick>> /\ Dailies' = Dailies
  BY StepKeepsManifest, SameManifest
<1> SUFFICES ASSUME NEW i \in Dailies PROVE Kept(i)'
  BY <1>1 DEF MissInv
<1>2. Kept(i) /\ i \in Trigger /\ T(i).type = "daily" /\ Trigger = 1..Len(manifest.triggers) /\ step \in Nat
  BY Here DEF MissInv, ClockInv
<1> DEFINE More == \A n \in DOMAIN served[i] : n \in DOMAIN served'[i] /\ served'[i][n] = served[i][n]
           Same == last' = last /\ UNCHANGED <<now, slipped, served, marking, owing>>
<1>3. ASSUME NEW j \in Trigger, HandIn(j) PROVE More
  BY <1>2, <1>3, HandInServes
<1>4. CASE LoadManifest \/ Build
  BY <1>1, <1>2, <1>4, KeptFrame DEF LoadManifest, Build, clocks, history
<1>5. CASE BuildDaemon
  <2>1. UNCHANGED <<now, slipped, served, marking, owing, step>> /\ last' = (IF Durable THEN last ELSE <<>>) /\ stage' # "up"
    BY <1>5 DEF BuildDaemon, clocks, history
  <2> QED
    BY <1>1, <1>2, <2>1, KeptFrame
<1>6. CASE Recover
  <2>1. Same /\ step' = 1 /\ stage = "wired"
    BY <1>6 DEF Recover, history
  <2>2. ~(step' > i)
    BY <1>2, <2>1
  <2>3. ~owing
    BY <2>1 DEF ClockInv
  <2> QED
    BY <1>1, <1>2, <2>1, <2>2, <2>3, KeptFrame
<1>7. CASE CatchUp
  <2>1. /\ UNCHANGED <<now, stage, timer, marking, last, slipped>> /\ step \in Trigger /\ stage = "up" /\ ~owing
        /\ IF T(step).type = "daily" /\ T(step).catchUp /\ Missed(step)
             THEN HandIn(step) /\ owing' = TRUE /\ UNCHANGED step
             ELSE step' = step + 1 /\ UNCHANGED <<owing, served>>
    BY <1>7 DEF CatchUp
  <2>2. CASE HandIn(step) /\ owing' = TRUE /\ UNCHANGED step
    <3>1. CASE step = i
      BY <1>1, <1>2, <2>1, <2>2, <3>1, KeptHandIn
    <3>2. CASE step # i
      BY <1>1, <1>2, <1>3, <2>1, <2>2, <3>2, KeptFrame
    <3> QED
      BY <3>1, <3>2
  <2>3. CASE step' = step + 1 /\ UNCHANGED <<owing, served>>
    <3>1. CASE step = i
      <4>1. CASE T(i).catchUp
        <5>1. ~Missed(i) \/ HandIn(i)
          BY <1>2, <2>1, <3>1, <4>1
        <5>2. CASE ~Missed(i)
          BY <1>1, <1>2, <2>1, <2>3, <4>1, <5>2, KeptSkip
        <5>3. CASE HandIn(i)
          BY <1>1, <1>2, <2>1, <5>3, KeptHandIn
        <5> QED
          BY <5>1, <5>2, <5>3
      <4>2. CASE ~T(i).catchUp
        <5>1. T(i)' = T(i)
          BY <1>1, SameManifest
        <5> QED
          BY <4>2, <5>1 DEF Kept
      <4> QED
        BY <4>1, <4>2
    <3>2. CASE step # i
      <4>1. step' > i => step > i
        BY <1>2, <2>3, <3>2
      <4> QED
        BY <1>1, <1>2, <2>1, <2>3, <4>1, KeptFrame
    <3> QED
      BY <3>1, <3>2
  <2> QED
    BY <2>1, <2>2, <2>3
<1>8. ASSUME NEW j \in Trigger, Record(j), j # i, OwnId(i)
      PROVE  TriggerId(T(i)) \in DOMAIN last' =>
               TriggerId(T(i)) \in DOMAIN last /\ last'[TriggerId(T(i))] = last[TriggerId(T(i))]
  <2>1. TriggerId(T(i)) # TriggerId(T(j))
    BY <1>8 DEF OwnId
  <2> QED
    BY <1>8, <2>1, Recorded
<1>9. CASE CatchUpMark
  <2>1. /\ UNCHANGED <<now, stage, timer, marking, slipped, served>> /\ stage = "up" /\ step \in Trigger /\ owing
        /\ Record(step) /\ step' = step + 1
    BY <1>9 DEF CatchUpMark, history, ClockInv
  <2>2. owing' = FALSE
    BY <1>9 DEF CatchUpMark
  <2>3. CASE step = i
    BY <1>1, <1>2, <2>1, <2>3, KeptRecord
  <2>4. CASE step # i
    <3>1. step' > i => step > i
      BY <1>2, <2>1, <2>4
    <3> QED
      BY <1>1, <1>2, <1>8, <2>1, <2>2, <2>4, <3>1, KeptFrame
  <2> QED
    BY <2>3, <2>4
<1>10. ASSUME NEW j \in Trigger, Arm(j) PROVE Kept(i)'
  <2>1. CASE j = i
    BY <1>2, <1>10, <2>1, KeptArm
  <2>2. CASE j # i
    <3>1. Same /\ UNCHANGED step /\ stage = "up" /\ timer'[i] = timer[i]
      BY <1>2, <1>10, <2>2 DEF Arm, Started, history, ClockInv
    <3> QED
      BY <1>1, <1>2, <3>1, KeptFrame
  <2> QED
    BY <2>1, <2>2
<1>11. ASSUME NEW j \in Trigger, Fire(j) PROVE Kept(i)'
  <2>1. /\ UNCHANGED <<now, stage, step, owing, last, slipped>> /\ HandIn(j)
        /\ marking' = [marking EXCEPT ![j] = TRUE]
    BY <1>11 DEF Fire
  <2>2. CASE j = i
    BY <1>1, <1>2, <2>1, <2>2, KeptHandIn
  <2>3. CASE j # i
    <3>1. marking'[i] = marking[i] /\ timer'[i] = timer[i]
      BY <1>2, <1>11, <2>3 DEF Fire, ClockInv
    <3> QED
      BY <1>1, <1>2, <1>3, <2>1, <3>1, KeptFrame
  <2> QED
    BY <2>2, <2>3
<1>12. ASSUME NEW j \in Trigger, Mark(j) PROVE Kept(i)'
  <2>1. /\ UNCHANGED <<now, stage, step, owing, timer, slipped, served>> /\ Record(j) /\ marking[j]
        /\ marking' = [marking EXCEPT ![j] = FALSE]
    BY <1>12 DEF Mark, history
  <2>2. CASE j = i
    BY <1>1, <1>2, <2>1, <2>2, KeptRecord
  <2>3. CASE j # i
    <3>1. marking'[i] = marking[i]
      BY <1>2, <2>1, <2>3 DEF ClockInv
    <3> QED
      BY <1>1, <1>2, <1>8, <2>1, <2>3, <3>1, KeptFrame
  <2> QED
    BY <2>2, <2>3
<1>13. ASSUME NEW j \in Trigger, Post(j) PROVE Kept(i)'
  <2>1. /\ UNCHANGED <<now, stage, step, owing, timer, marking, last, slipped>> /\ (HandIn(j) \/ UNCHANGED served)
    BY <1>13 DEF Post, clocks
  <2>2. More
    BY <1>3, <1>13, <2>1
  <2> QED
    BY <1>1, <1>2, <2>1, <2>2, KeptFrame
<1>14. ASSUME Same, UNCHANGED <<stage, step, timer>> PROVE Kept(i)'
  BY <1>1, <1>2, <1>14, KeptFrame
<1>15. ASSUME NEW j \in DOMAIN queue, Claim(j) PROVE Kept(i)'
  BY <1>14, <1>15 DEF Claim, clocks, history
<1>16. CASE RunSucceeds \/ RunFails
  BY <1>14, <1>16 DEF RunSucceeds, RunFails, clocks, history
<1>17. CASE Tick
  BY <1>2, <1>17, KeptTick
<1>18. CASE Die
  <2>1. UNCHANGED <<now, slipped, served, last>> /\ stage' = "off" /\ owing' = FALSE /\ marking' = [j \in Trigger |-> FALSE]
    BY <1>18 DEF Die
  <2>2. ~marking'[i]
    BY <1>2, <2>1
  <2> QED
    BY <1>1, <1>2, <2>1, <2>2, KeptFrame
<1>19. CASE UNCHANGED vars
  BY <1>14, <1>19 DEF vars, clocks, history
<1>20. CASE Listen
  <2>1. Same /\ UNCHANGED <<step, timer>> /\ stage = "up"
    BY <1>20 DEF Listen, Started, clocks, history
  <2> QED
    BY <1>1, <1>2, <2>1, KeptFrame
<1> QED
  BY <1>4, <1>5, <1>6, <1>7, <1>9, <1>10, <1>11, <1>12, <1>13, <1>15, <1>16, <1>17, <1>18, <1>19, <1>20 DEF Next

LEMMA MissProved ==
    ASSUME HereInv, HoursInDays, ClockInv, MissInv
    PROVE  MissedIsServed
<1> SUFFICES ASSUME NEW i \in Dailies, NEW d \in DOMAIN days, Settled, T(i).catchUp, OwnId(i),
                    Latest(Candidates(d, T(i).at)) <= now
             PROVE  \/ Handed(i, Earliest(Candidates(d, T(i).at)), now) >= 1
                    \/ Candidates(d, T(i).at) \cap slipped # {}
  BY DEF MissedIsServed
<1>1. days \in DaysType /\ Len(days) \in Nat /\ i \in Trigger /\ Timed(i) /\ T(i).at \in Int /\ Spans(T(i).at)
  BY Here DEF HoursInDays
<1>2. d \in Days
  <2>1. d \in 1..Len(days)
    BY <1>1, LenProperties DEF DaysType
  <2> QED
    BY <1>1, <2>1 DEF Days
<1>3. PICK h \in Int : h = T(i).at /\ Spans(h)
  BY <1>1
<1>4. /\ Occ(i, d) \in Candidates(d, h) /\ Occ(i, d) \in Int
      /\ Earliest(Candidates(d, h)) <= Occ(i, d) /\ Occ(i, d) <= Latest(Candidates(d, h))
      /\ Earliest(Candidates(d, h)) \in Int /\ Latest(Candidates(d, h)) \in Int
  BY <1>1, <1>2, <1>3, OccurrenceInDay DEF Occ, Spans
<1>5. now \in Int /\ served[i] \in Seq(Int) /\ timer[i] \in Int /\ step \in Nat /\ i \in Nat /\ Len(manifest.triggers) \in Nat
  BY <1>1, NowIsHour, Here DEF ClockInv
<1>6. Occ(i, d) <= now
  BY <1>3, <1>4, <1>5
<1>7. stage = "up" /\ step > Len(manifest.triggers) /\ timer[i] > now
  BY <1>1 DEF Settled, Started
<1>8. step > i
  BY <1>1, <1>5, <1>7, Here
<1>9. Covered(i, d)
  <2>1. Covered(i, d) \/ timer[i] <= Occ(i, d)
    BY <1>2, <1>6, <1>7, <1>8 DEF MissInv, Kept
  <2> QED
    BY <1>4, <1>5, <1>6, <1>7, <2>1
<1>10. CASE Occ(i, d) \in slipped
  BY <1>3, <1>4, <1>10
<1>11. CASE \E n \in DOMAIN served[i] : Occ(i, d) <= served[i][n]
  <2>1. PICK n \in DOMAIN served[i] : Occ(i, d) <= served[i][n]
    BY <1>11
  <2>2. served[i][n] \in Int /\ served[i][n] <= now
    BY <1>1, <1>5, LenProperties, ElementOfSeq DEF ClockInv
  <2>3. Earliest(Candidates(d, h)) <= served[i][n]
    BY <1>4, <2>1, <2>2
  <2>4. Count(served[i], Earliest(Candidates(d, h)), now) >= 1
    BY <1>5, <2>2, <2>3, CountSome
  <2> QED
    BY <1>3, <2>4 DEF Handed, Count
<1> QED
  BY <1>9, <1>10, <1>11 DEF Covered

\* How often a trigger was handed over for the occurrence of day d, and whether the
\* record says that it was, or is about to.
Period(i, d) == Count(served[i], Occ(i, d), Occ(i, d + 1) - 1)
Sure(i, d) ==
    \/ TriggerId(T(i)) \in DOMAIN last /\ last[TriggerId(T(i))] >= Occ(i, d)
    \/ marking[i]
    \/ owing /\ step = i

\* At most once, and once more for each death that made the record stale; not even once
\* more if the record does not say so, or is yet to be emptied.
Once(i) ==
    \A d \in 0..(Len(days) + 1) :
        /\ Period(i, d) <= 1 + unsure[i]
        /\ ~Sure(i, d) => Period(i, d) <= unsure[i]
        /\ ~Durable /\ stage \notin {"wired", "up", "panicked"} => Period(i, d) <= unsure[i]

TwiceInv == \A i \in Dailies : Once(i)

LEMMA PeriodType ==
    ASSUME HereInv, HoursInDays, ClockInv, NEW i \in Dailies
    PROVE  /\ i \in Trigger /\ served[i] \in Seq(Int) /\ unsure[i] \in Nat /\ now \in Int
           /\ \A d \in 0..(Len(days) + 1) :
                /\ d \in Days /\ d + 1 \in Days /\ d \in Int
                /\ Occ(i, d) \in Int /\ Occ(i, d + 1) \in Int /\ Occ(i, d) < Occ(i, d + 1)
                /\ Period(i, d) \in Nat
                /\ now < Occ(i, d) => Period(i, d) = 0
<1>1. i \in Trigger /\ served[i] \in Seq(Int) /\ unsure[i] \in Nat /\ now \in Int
  BY Here, NowIsHour DEF ClockInv
<1>2. ASSUME NEW d \in 0..(Len(days) + 1)
      PROVE  /\ d \in Days /\ d + 1 \in Days /\ d \in Int
             /\ Occ(i, d) \in Int /\ Occ(i, d + 1) \in Int /\ Occ(i, d) < Occ(i, d + 1)
             /\ Period(i, d) \in Nat
             /\ now < Occ(i, d) => Period(i, d) = 0
  <2>1. d \in Days /\ d + 1 \in Days /\ d \in Int /\ Occ(i, d) \in Int /\ Occ(i, d + 1) \in Int
    BY OccFacts
  <2>2. Occ(i, d) < Occ(i, d + 1)
    <3>1. d < d + 1
      BY <2>1
    <3> QED
      BY <2>1, <3>1, OccFacts
  <2>3. Period(i, d) \in Nat
    BY <1>1, CountType DEF Period
  <2>4. ASSUME now < Occ(i, d) PROVE Period(i, d) = 0
    <3>1. \A n \in DOMAIN served[i] : served[i][n] \in Int /\ served[i][n] <= now
      BY <1>1, LenProperties, ElementOfSeq DEF ClockInv
    <3>2. \A n \in DOMAIN served[i] : ~(Occ(i, d) <= served[i][n])
      BY <1>1, <2>1, <2>4, <3>1
    <3> QED
      BY <1>1, <3>2, CountNone DEF Period
  <2> QED
    BY <2>1, <2>2, <2>3, <2>4
<1> QED
  BY <1>1, <1>2

\* A step that hands nothing over, and keeps the record or makes it say more.
LEMMA OnceFrame ==
    ASSUME NEW i \in Dailies, Once(i), UNCHANGED <<manifest, days, pick>>,
           served'[i] = served[i], unsure'[i] = unsure[i],
           \A d \in 0..(Len(days) + 1) : Sure(i, d) => Sure(i, d)' \/ Period(i, d) <= unsure[i],
           ~Durable /\ stage' \notin {"wired", "up", "panicked"} => stage \notin {"wired", "up", "panicked"}
    PROVE  Once(i)'
<1>1. Len(days)' = Len(days) /\ Durable' = Durable /\ \A j, d : Occ(j, d)' = Occ(j, d)
  BY SameManifest
<1>2. \A d : Period(i, d)' = Period(i, d)
  BY <1>1 DEF Period
<1> QED
  BY <1>1, <1>2 DEF Once

LEMMA OnceHandIn ==
    ASSUME HereInv, HoursInDays, ClockInv, NEW i \in Dailies, Once(i), HandIn(i),
           UNCHANGED <<manifest, days, pick>>, unsure'[i] = unsure[i], stage' = "up",
           marking'[i] \/ (owing' /\ step' = i),
           \A d \in 0..(Len(days) + 1) : Occ(i, d) <= now /\ now < Occ(i, d + 1) => Period(i, d) <= unsure[i]
    PROVE  Once(i)'
<1>1. Len(days)' = Len(days) /\ \A j, d : Occ(j, d)' = Occ(j, d)
  BY SameManifest
<1> SUFFICES ASSUME NEW d \in 0..(Len(days) + 1)
             PROVE  Period(i, d)' <= 1 + unsure[i] /\ Sure(i, d)'
  BY <1>1 DEF Once
<1>2. Sure(i, d)'
  BY DEF Sure
<1>3. /\ i \in Trigger /\ served[i] \in Seq(Int) /\ unsure[i] \in Nat /\ now \in Int
      /\ Occ(i, d) \in Int /\ Occ(i, d + 1) \in Int /\ Period(i, d) \in Nat
  BY PeriodType
<1>4. served'[i] = Append(served[i], now)
  BY <1>3, HandInServes
<1>5. Period(i, d)' = Count(served'[i], Occ(i, d), Occ(i, d + 1) - 1)
  BY <1>1 DEF Period
<1>6. Period(i, d)' = Period(i, d) + IF Occ(i, d) <= now /\ now <= Occ(i, d + 1) - 1 THEN 1 ELSE 0
  BY <1>3, <1>4, <1>5, CountAppend DEF Period
<1>7. Period(i, d) <= 1 + unsure[i]
  BY DEF Once
<1>8. Period(i, d)' <= 1 + unsure[i]
  <2>1. CASE Occ(i, d) <= now /\ now <= Occ(i, d + 1) - 1
    <3>1. now < Occ(i, d + 1)
      BY <1>3, <2>1
    <3>2. Period(i, d) <= unsure[i]
      BY <2>1, <3>1
    <3> QED
      BY <1>3, <1>6, <2>1, <3>2
  <2>2. CASE ~(Occ(i, d) <= now /\ now <= Occ(i, d + 1) - 1)
    BY <1>3, <1>6, <1>7, <2>2
  <2> QED
    BY <2>1, <2>2
<1> QED
  BY <1>2, <1>8

\* catchUp hands over only what the record does not say.
LEMMA OnceCatchUp ==
    ASSUME HereInv, HoursInDays, ClockInv, NEW i \in Dailies, Once(i), Missed(i), ~marking[i], ~owing,
           NEW d \in 0..(Len(days) + 1), Occ(i, d) <= now, now < Occ(i, d + 1)
    PROVE  Period(i, d) <= unsure[i]
<1>1. days \in DaysType /\ T(i).at \in Int /\ Spans(T(i).at) /\ now \in 1..End
  BY Here DEF HoursInDays, ClockInv
<1>2. PICK h \in Int : h = T(i).at
  BY <1>1
<1>3. PICK p \in Int : p = PreviousOccurrence(now, T(i).at) /\ p <= now /\ \E e \in Days : p = Occ(i, e)
  BY <1>1, <1>2, PreviousIsLast DEF Occ
<1>4. PICK e \in Days : p = Occ(i, e)
  BY <1>3
<1>5. /\ d \in Days /\ d + 1 \in Days /\ d \in Int /\ e \in Int /\ now \in Int
      /\ Occ(i, d) \in Int /\ Occ(i, d + 1) \in Int /\ Occ(i, e) \in Int
  BY PeriodType, OccFacts
<1>6. p <= Occ(i, d)
  <2>1. CASE e = d
    BY <1>4, <1>5, <2>1
  <2>2. CASE e < d
    BY <1>4, <1>5, <2>2, OccFacts
  <2>3. CASE e = d + 1
    BY <1>3, <1>4, <1>5, <2>3
  <2>4. CASE d + 1 < e
    <3>1. Occ(i, d + 1) < Occ(i, e)
      BY <1>5, <2>4, OccFacts
    <3> QED
      BY <1>3, <1>4, <1>5, <3>1
  <2>5. e = d \/ e < d \/ e = d + 1 \/ d + 1 < e
    BY <1>5
  <2> QED
    BY <2>1, <2>2, <2>3, <2>4, <2>5
<1>7. ASSUME TriggerId(T(i)) \in DOMAIN last PROVE ~(last[TriggerId(T(i))] >= Occ(i, d))
  <2>1. last[TriggerId(T(i))] \in Int /\ last[TriggerId(T(i))] < p
    BY <1>3, <1>7 DEF Missed, ClockInv
  <2> QED
    BY <1>5, <1>6, <2>1
<1>8. ~Sure(i, d)
  BY <1>7 DEF Sure
<1> QED
  BY <1>8 DEF Once

\* A timer wakes for an occurrence for which nothing was handed over.
LEMMA OnceFire ==
    ASSUME HereInv, HoursInDays, ClockInv, NEW i \in Dailies, timer[i] # 0, timer[i] <= now,
           NEW d \in 0..(Len(days) + 1), now < Occ(i, d + 1)
    PROVE  Period(i, d) = 0
<1>1. Ahead(i) /\ served[i] \in Seq(Int) /\ armedAt[i] \in Nat /\ timer[i] \in Int /\ timer[i] > armedAt[i]
  BY Here DEF ClockInv, TimersAreAhead
<1>2. PICK e \in Days : timer[i] = Occ(i, e)
  BY <1>1 DEF Ahead
<1>3. /\ d \in Days /\ d + 1 \in Days /\ d \in Int /\ e \in Int /\ now \in Int
      /\ Occ(i, d) \in Int /\ Occ(i, d + 1) \in Int /\ Occ(i, e) \in Int
  BY PeriodType, OccFacts
<1>4. timer[i] <= Occ(i, d)
  <2>1. CASE e = d
    BY <1>2, <1>3, <2>1
  <2>2. CASE e < d
    BY <1>2, <1>3, <2>2, OccFacts
  <2>3. CASE e = d + 1
    BY <1>2, <1>3, <2>3
  <2>4. CASE d + 1 < e
    <3>1. Occ(i, d + 1) < Occ(i, e)
      BY <1>3, <2>4, OccFacts
    <3> QED
      BY <1>2, <1>3, <3>1
  <2>5. e = d \/ e < d \/ e = d + 1 \/ d + 1 < e
    BY <1>3
  <2> QED
    BY <2>1, <2>2, <2>3, <2>4, <2>5
<1>5. \A n \in DOMAIN served[i] : served[i][n] \in Int /\ served[i][n] <= armedAt[i]
  BY <1>1, LenProperties, ElementOfSeq DEF Ahead
<1>6. \A n \in DOMAIN served[i] : ~(Occ(i, d) <= served[i][n])
  BY <1>1, <1>3, <1>4, <1>5
<1> QED
  BY <1>1, <1>6, CountNone DEF Period

LEMMA OnceDie ==
    ASSUME HereInv, HoursInDays, ClockInv, NEW i \in Dailies, Once(i), Die
    PROVE  Once(i)'
<1>1. /\ UNCHANGED <<manifest, days, pick, last, served>>
      /\ unsure' = [j \in Trigger |->
           IF ~Durable \/ marking[j] \/ (owing /\ step = j) THEN unsure[j] + 1 ELSE unsure[j]]
  BY DEF Die, config
<1>2. /\ Len(days)' = Len(days) /\ Durable' = Durable /\ T(i)' = T(i) /\ TriggerId(T(i))' = TriggerId(T(i))
      /\ \A j, d : Occ(j, d)' = Occ(j, d)
  BY <1>1, SameManifest
<1>3. \A d : Period(i, d)' = Period(i, d)
  BY <1>1, <1>2 DEF Period
<1>4. i \in Trigger /\ unsure[i] \in Nat
  BY PeriodType
<1>5. CASE ~Durable \/ marking[i] \/ (owing /\ step = i)
  <2>1. unsure'[i] = unsure[i] + 1
    BY <1>1, <1>4, <1>5
  <2>2. ASSUME NEW d \in 0..(Len(days) + 1)
        PROVE  Period(i, d)' <= 1 + unsure'[i] /\ Period(i, d)' <= unsure'[i]
    <3>1. Period(i, d) \in Nat /\ Period(i, d) <= 1 + unsure[i]
      BY PeriodType DEF Once
    <3> QED
      BY <1>3, <1>4, <2>1, <3>1
  <2> QED
    BY <1>2, <2>2 DEF Once
<1>6. CASE ~(~Durable \/ marking[i] \/ (owing /\ step = i))
  <2>1. unsure'[i] = unsure[i] /\ Durable
    BY <1>1, <1>4, <1>6
  <2>2. \A d : Sure(i, d) => Sure(i, d)'
    BY <1>1, <1>2, <1>6 DEF Sure
  <2> QED
    BY <1>1, <2>1, <2>2, OnceFrame
<1> QED
  BY <1>5, <1>6

\* The hour is recorded: that it was handed over, if an occurrence is past.
LEMMA OnceRecord ==
    ASSUME HereInv, HoursInDays, ClockInv, NEW i \in Dailies, Once(i), NEW j \in Trigger, Record(j),
           UNCHANGED <<manifest, days, pick, stage, served, unsure>>,
           j # i => (marking[i] \/ (owing /\ step = i) => marking'[i] \/ (owing' /\ step' = i))
    PROVE  Once(i)'
<1>1. /\ T(i)' = T(i) /\ TriggerId(T(i))' = TriggerId(T(i))
      /\ \A d : Occ(i, d)' = Occ(i, d)
  BY SameManifest
<1>2. ASSUME NEW d \in 0..(Len(days) + 1), Sure(i, d) PROVE Sure(i, d)' \/ Period(i, d) <= unsure[i]
  <2>1. CASE TriggerId(T(i)) = TriggerId(T(j))
    <3>1. TriggerId(T(i)) \in DOMAIN last' /\ last'[TriggerId(T(i))] = now
      BY <2>1, Recorded
    <3>2. CASE now < Occ(i, d)
      BY <3>2, PeriodType
    <3>3. CASE ~(now < Occ(i, d))
      <4>1. last'[TriggerId(T(i))] >= Occ(i, d)
        BY <3>1, <3>3, PeriodType
      <4> QED
        BY <1>1, <3>1, <4>1 DEF Sure
    <3> QED
      BY <3>2, <3>3
  <2>2. CASE TriggerId(T(i)) # TriggerId(T(j))
    <3>1. TriggerId(T(i)) \in DOMAIN last =>
            TriggerId(T(i)) \in DOMAIN last' /\ last'[TriggerId(T(i))] = last[TriggerId(T(i))]
      BY <2>2, Recorded
    <3>2. j # i
      BY <2>2
    <3> QED
      BY <1>1, <1>2, <3>1, <3>2 DEF Sure
  <2> QED
    BY <2>1, <2>2
<1> QED
  BY <1>2, OnceFrame

LEMMA TwiceNext ==
    ASSUME HereInv, HoursInDays, ClockInv, TwiceInv, [Next]_vars
    PROVE  TwiceInv'
<1>1. UNCHANGED <<manifest, days, pick>> /\ Dailies' = Dailies
  BY StepKeepsManifest, SameManifest
<1> SUFFICES ASSUME NEW i \in Dailies PROVE Once(i)'
  BY <1>1 DEF TwiceInv
<1>2. /\ Once(i) /\ i \in Trigger /\ T(i).type = "daily" /\ step \in Nat
      /\ unsure[i] \in Nat /\ \A d \in 0..(Len(days) + 1) : Period(i, d) \in Nat
  BY Here, PeriodType DEF TwiceInv, ClockInv
<1>3. T(i)' = T(i) /\ TriggerId(T(i))' = TriggerId(T(i)) /\ \A d : Occ(i, d)' = Occ(i, d)
  BY <1>1, SameManifest
<1>4. ASSUME served'[i] = served[i], UNCHANGED <<last, unsure>>,
             marking[i] \/ (owing /\ step = i) => marking'[i] \/ (owing' /\ step' = i),
             stage' \notin {"wired", "up", "panicked"} => stage \notin {"wired", "up", "panicked"}
      PROVE  Once(i)'
  <2>1. \A d : Sure(i, d) => Sure(i, d)'
    BY <1>3, <1>4 DEF Sure
  <2> QED
    BY <1>1, <1>2, <1>4, <2>1, OnceFrame
<1>5. CASE LoadManifest \/ Build
  BY <1>4, <1>5 DEF LoadManifest, Build, clocks, history
<1>6. CASE BuildDaemon
  <2>1. UNCHANGED <<served, unsure, marking, owing, step>> /\ stage = "built" /\ last' = IF Durable THEN last ELSE <<>>
    BY <1>6 DEF BuildDaemon, clocks, history
  <2>2. CASE Durable
    BY <1>4, <2>1, <2>2
  <2>3. CASE ~Durable
    <3>1. \A d \in 0..(Len(days) + 1) : Period(i, d) <= unsure[i]
      BY <1>2, <2>1, <2>3 DEF Once
    <3> QED
      BY <1>1, <1>2, <2>1, <3>1, OnceFrame
  <2> QED
    BY <2>2, <2>3
<1>7. CASE Recover
  <2>1. UNCHANGED <<served, unsure, last, marking, owing>> /\ stage = "wired" /\ stage' = "up"
    BY <1>7 DEF Recover, history
  <2>2. ~owing
    BY <2>1 DEF ClockInv
  <2> QED
    BY <1>4, <2>1, <2>2
<1>8. CASE CatchUp
  <2>1. /\ UNCHANGED <<marking, last, unsure>> /\ step \in Trigger /\ stage = "up" /\ stage' = "up" /\ ~owing
        /\ IF T(step).type = "daily" /\ T(step).catchUp /\ Missed(step)
             THEN HandIn(step) /\ owing' = TRUE /\ UNCHANGED step
             ELSE step' = step + 1 /\ UNCHANGED <<owing, served>>
    BY <1>8 DEF CatchUp
  <2>2. CASE HandIn(step) /\ owing' = TRUE /\ UNCHANGED step /\ Missed(step)
    <3>1. CASE step = i
      <4>1. ~marking[i]
        BY <1>2, <2>1, NoTimerYet
      <4>2. \A d \in 0..(Len(days) + 1) : Occ(i, d) <= now /\ now < Occ(i, d + 1) => Period(i, d) <= unsure[i]
        BY <1>2, <2>1, <2>2, <3>1, <4>1, OnceCatchUp
      <4> QED
        BY <1>1, <1>2, <2>1, <2>2, <3>1, <4>2, OnceHandIn
    <3>2. CASE step # i
      <4>1. served'[i] = served[i]
        BY <1>2, <2>1, <2>2, <3>2, HandInServes
      <4> QED
        BY <1>4, <2>1, <3>2, <4>1
    <3> QED
      BY <3>1, <3>2
  <2>3. CASE step' = step + 1 /\ UNCHANGED <<owing, served>>
    BY <1>4, <2>1, <2>3
  <2> QED
    BY <2>1, <2>2, <2>3
<1>9. CASE CatchUpMark
  <2>1. UNCHANGED <<stage, served, unsure, marking>> /\ Record(step) /\ step \in Trigger
    BY <1>9 DEF CatchUpMark, history, ClockInv
  <2> QED
    BY <1>1, <1>2, <2>1, OnceRecord
<1>10. ASSUME NEW j \in Trigger, Arm(j) PROVE Once(i)'
  <2>1. UNCHANGED <<served, last, unsure, marking, owing, step>> /\ stage' \in {"up", "panicked"}
    BY <1>10 DEF Arm, Started, history
  <2> QED
    BY <1>4, <2>1
<1>11. ASSUME NEW j \in Trigger, Fire(j) PROVE Once(i)'
  <2>1. /\ UNCHANGED <<stage, step, owing, last, unsure>> /\ HandIn(j) /\ stage = "up" /\ timer[j] # 0 /\ timer[j] <= now
        /\ marking' = [marking EXCEPT ![j] = TRUE] /\ marking \in [Trigger -> BOOLEAN]
    BY <1>11 DEF Fire, Started, ClockInv
  <2>2. CASE j = i
    <3>1. marking'[i]
      BY <1>2, <2>1, <2>2
    <3>2. \A d \in 0..(Len(days) + 1) : Occ(i, d) <= now /\ now < Occ(i, d + 1) => Period(i, d) <= unsure[i]
      BY <1>2, <2>1, <2>2, OnceFire
    <3> QED
      BY <1>1, <1>2, <2>1, <2>2, <3>1, <3>2, OnceHandIn
  <2>3. CASE j # i
    <3>1. served'[i] = served[i] /\ marking'[i] = marking[i]
      BY <1>2, <2>1, <2>3, HandInServes
    <3> QED
      BY <1>4, <2>1, <3>1
  <2> QED
    BY <2>2, <2>3
<1>12. ASSUME NEW j \in Trigger, Mark(j) PROVE Once(i)'
  <2>1. /\ UNCHANGED <<stage, step, owing, served, unsure>> /\ Record(j)
        /\ marking' = [marking EXCEPT ![j] = FALSE] /\ marking \in [Trigger -> BOOLEAN]
    BY <1>12 DEF Mark, history, ClockInv
  <2>2. j # i => marking'[i] = marking[i]
    BY <1>2, <2>1
  <2> QED
    BY <1>1, <1>2, <2>1, <2>2, OnceRecord
<1>13. ASSUME NEW j \in Trigger, Post(j) PROVE Once(i)'
  <2>1. /\ UNCHANGED <<stage, step, owing, marking, last, unsure>> /\ (HandIn(j) \/ UNCHANGED served) /\ T(j).type = "webhook"
    BY <1>13 DEF Post, clocks
  <2>2. j # i
    BY <1>2, <2>1
  <2>3. served'[i] = served[i]
    BY <1>2, <2>1, <2>2, HandInServes
  <2> QED
    BY <1>4, <2>1, <2>3
<1>14. ASSUME UNCHANGED <<stage, step, owing, marking, last, unsure, served>> PROVE Once(i)'
  BY <1>4, <1>14
<1>15. ASSUME NEW j \in DOMAIN queue, Claim(j) PROVE Once(i)'
  BY <1>14, <1>15 DEF Claim, clocks, history
<1>16. CASE RunSucceeds \/ RunFails
  BY <1>14, <1>16 DEF RunSucceeds, RunFails, clocks, history
<1>17. CASE Tick
  BY <1>14, <1>17, TickFacts
<1>18. CASE Die
  BY <1>2, <1>18, OnceDie
<1>19. CASE UNCHANGED vars
  BY <1>14, <1>19 DEF vars, clocks, history
<1>20. CASE Listen
  <2>1. UNCHANGED <<step, owing, marking, last, unsure, served>> /\ stage' \in {"up", "panicked"}
    BY <1>20 DEF Listen, Started, clocks, history
  <2> QED
    BY <1>4, <2>1
<1> QED
  BY <1>5, <1>6, <1>7, <1>8, <1>9, <1>10, <1>11, <1>12, <1>13, <1>15, <1>16, <1>17, <1>18, <1>19, <1>20 DEF Next

LEMMA TwiceProved ==
    ASSUME HereInv, TwiceInv
    PROVE  NotServedTwice
<1> SUFFICES ASSUME NEW i \in Dailies, NEW d \in DOMAIN days
             PROVE  Handed(i, OccurrenceOn(d, T(i).at), OccurrenceOn(d + 1, T(i).at) - 1) <= 1 + unsure[i]
  BY DEF NotServedTwice
<1>1. d \in 0..(Len(days) + 1)
  <2>1. Len(days) \in Nat /\ d \in 1..Len(days)
    BY Here, LenProperties DEF DaysType
  <2> QED
    BY <2>1
<1>2. Period(i, d) <= 1 + unsure[i]
  BY <1>1 DEF TwiceInv, Once
<1> QED
  BY <1>2 DEF Period, Handed, Count, Occ

\* The invariant behind OccurrencesServed.
ScheduleInv == HereInv /\ (HoursInDays => ClockInv /\ DayInv /\ MissInv /\ TwiceInv)

LEMMA ScheduleInit == Init => ScheduleInv
<1> SUFFICES ASSUME Init PROVE ScheduleInv
  OBVIOUS
<1>1. HereInv /\ ClockInv
  BY ClockInit
<1>2. stage = "off" /\ since = 0 /\ owing = FALSE /\ marking = [i \in Trigger |-> FALSE]
      /\ last = <<>> /\ served = [i \in Trigger |-> <<>>] /\ unsure = [i \in Trigger |-> 0]
  BY DEF Init
<1>3. DayInv
  BY <1>2 DEF DayInv, Timely
<1>4. ASSUME NEW i \in Dailies PROVE Kept(i)
  <2>1. i \in Trigger /\ TriggerId(T(i)) \notin DOMAIN last
    BY <1>1, <1>2, Here
  <2>2. ~marking[i] /\ ~owing /\ stage # "up"
    BY <1>2, <2>1
  <2> QED
    BY <2>1, <2>2 DEF Kept
<1>5. ASSUME HoursInDays, NEW i \in Dailies PROVE Once(i)
  <2>1. i \in Trigger /\ served[i] = <<>> /\ unsure[i] = 0 /\ <<>> \in Seq(Int) /\ DOMAIN <<>> = {}
    BY <1>1, <1>2, Here
  <2>2. \A d : Period(i, d) = 0
    BY <2>1, CountNone DEF Period
  <2> QED
    BY <2>1, <2>2 DEF Once
<1> QED
  BY <1>1, <1>3, <1>4, <1>5 DEF ScheduleInv, MissInv, TwiceInv

LEMMA ScheduleNext == ScheduleInv /\ [Next]_vars => ScheduleInv'
<1> SUFFICES ASSUME ScheduleInv, [Next]_vars PROVE ScheduleInv'
  OBVIOUS
<1>1. HereInv /\ HereInv' /\ HoursInDays' = HoursInDays
  BY StepKeepsManifest, SameManifest DEF ScheduleInv
<1>2. ASSUME HoursInDays PROVE ClockInv' /\ DayInv' /\ MissInv' /\ TwiceInv'
  <2>1. ClockInv /\ DayInv /\ MissInv /\ TwiceInv
    BY <1>2 DEF ScheduleInv
  <2>2. ClockInv'
    BY <1>1, <1>2, <2>1, ClockNext
  <2> QED
    BY <1>1, <1>2, <2>1, <2>2, DayNext, MissNext, TwiceNext
<1> QED
  BY <1>1, <1>2 DEF ScheduleInv

\* Where no day lacks the hours around that of a daily trigger: a day that the daemon
\* lives through has one run, at its hour; what was missed is served after a restart; and
\* nothing is served twice but for the deaths that made the record stale.
THEOREM OccurrencesAreServed == Spec => [](HoursInDays => OccurrencesServed)
<1>1. ScheduleInv => (HoursInDays => OccurrencesServed)
  BY DayProved, MissProved, TwiceProved DEF ScheduleInv, OccurrencesServed
<1> QED
  BY <1>1, ScheduleInit, ScheduleNext, PTL DEF Spec

\* There a timer is set for an hour to come.
THEOREM TimersRunAhead == Spec => [](HoursInDays => TimersAreAhead)
<1>1. ScheduleInv => (HoursInDays => TimersAreAhead)
  BY DEF ScheduleInv, ClockInv
<1> QED
  BY <1>1, ScheduleInit, ScheduleNext, PTL DEF Spec
=============================================================================
