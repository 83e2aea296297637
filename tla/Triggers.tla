------------------------------ MODULE Triggers ------------------------------
(***************************************************************************)
(* `mani run` without a task: the manifest is read, validated and built,   *)
(* and the daemon of src/app/daemon.go starts its daily, `every` and       *)
(* webhook triggers, over days that daylight saving makes longer or        *)
(* shorter, with deaths and restarts.  With scheduler.path the queue and   *)
(* the record of the last firings survive a death, without it they do not  *)
(* (InMemoryQueue, src/app/queue.go).                                      *)
(*                                                                         *)
(* Time is counted in hours: 1 is the first hour of the first day, and a   *)
(* day is the sequence of what the clock shows.  What the daemon does at   *)
(* an hour takes less than one, except while it starts.                    *)
(***************************************************************************)
EXTENDS Manifest, SequencesExt

CONSTANTS
    Instances,      \* set of [manifest, days, machine]
    Every,          \* hours of an `every` that is "ok"
    MaxDeaths, MaxPosts,
    MaxSlips        \* how often an hour may pass while the daemon starts

\* The types of the Go structs (TriggerSpec, SchedulerSpec, config.Config).
TriggerSpec == [type : STRING, name : STRING, every : STRING, at : Int, prompt : STRING, memory : STRING,
                addr : STRING, path : STRING, token : STRING, catchUp : BOOLEAN]

ASSUME InstancesAssumption ==
    \A x \in Instances :
        /\ x.manifest.triggers \in Seq(TriggerSpec)
        /\ x.manifest.maxPending \in Int /\ x.manifest.maxAttempts \in Int
        /\ x.machine \in [file : STRING, urls : SUBSET STRING, env : STRING, unusable : SUBSET {"journal", "queue"}]

\* A day shows something, and time passes between two turns of a ticker.
ASSUME CalendarAssumption ==
    /\ \A x \in Instances : x.days \in Seq(Seq(Int) \ {<<>>})
    /\ Every \in Nat \ {0}

VARIABLES
    manifest, days,
    machine,    \* its configuration: see Manifest
    pick,       \* what time.Date makes of an hour that comes twice or never
    now,
    stage,      \* how far the process is
    listener,   \* the webhook's server: "none", "open", or "failed" if it got no address
    step,       \* the trigger that catchUp looks at
    owing,      \* it has been enqueued and is not marked yet
    timer,      \* per trigger, when its goroutine wakes (0: not armed)
    armedAt,    \* and when it was told so
    marking,    \* per trigger, fired and not marked yet
    since,      \* when the last goroutine was armed (0: starting)
    last,       \* triggerState.Last
    queue, held,            \* tasks that wait; the task of the worker
    served,                 \* history: per trigger, when its tasks were handed to the queue
    accepted, decided, lost,\* history: tasks taken, done or failed, dropped
    unsure,                 \* history: per trigger, deaths that made its record stale
    slipped,                \* history: hours that began while the daemon was starting
    deaths, posts

config  == <<manifest, days, pick, machine>>
clocks  == <<step, owing, timer, armedAt, marking, since>>
tasks   == <<queue, held, accepted, decided, lost>>
history == <<served, unsure, slipped, deaths, posts>>
vars    == <<config, now, stage, listener, clocks, last, tasks, history>>

Trigger == DOMAIN manifest.triggers
T(i)    == manifest.triggers[i]
Durable == manifest.path
Full    == Len(queue) >= MaxPending(manifest)

-----------------------------------------------------------------------------
(* The calendar.  Days before and after those of the instance are plain.   *)

Plain     == <<0, 1, 2>>
Labels(d) == IF d \in DOMAIN days THEN days[d] ELSE Plain
Begins[d \in 0..(Len(days) + 2)] ==
    IF d = 0 THEN 1 - Len(Plain) ELSE Begins[d - 1] + Len(Labels(d - 1))
Day(t)    == CHOOSE d \in 0..(Len(days) + 1) : Begins[d] <= t /\ t < Begins[d + 1]
End       == Begins[Len(days) + 1]

Earliest(S) == CHOOSE x \in S : \A y \in S : x <= y
Latest(S)   == CHOOSE x \in S : \A y \in S : x >= y

\* When the clock shows h on day d, or, if it never does, the hours around the gap.
Candidates(d, h) ==
    LET shown == {i \in DOMAIN Labels(d) : Labels(d)[i] = h}
        gap   == Cardinality({i \in DOMAIN Labels(d) : Labels(d)[i] < h})
    IN  {Begins[d] + i - 1 : i \in IF shown # {} THEN shown ELSE {gap, gap + 1}}

OccurrenceOn(d, h) ==
    IF pick = "early" THEN Earliest(Candidates(d, h)) ELSE Latest(Candidates(d, h))

\* Mutant: a day has as many hours as any other.
MutantNextOccurrence(t, h) ==
    LET today == OccurrenceOn(Day(t), h) IN IF today > t THEN today ELSE today + Len(Plain)

NextOccurrence(t, h) ==
    LET today == OccurrenceOn(Day(t), h) IN IF today > t THEN today ELSE OccurrenceOn(Day(t) + 1, h)

PreviousOccurrence(t, h) ==
    LET today == OccurrenceOn(Day(t), h) IN IF today > t THEN OccurrenceOn(Day(t) - 1, h) ELSE today

-----------------------------------------------------------------------------
Init ==
    /\ \E x \in Instances : manifest = x.manifest /\ days = x.days /\ machine = x.machine
    /\ pick \in {"early", "late"}
    /\ now = 1 /\ stage = "off" /\ listener = "none"
    /\ step = 0 /\ owing = FALSE /\ since = 0
    /\ timer = [i \in Trigger |-> 0] /\ armedAt = timer
    /\ marking = [i \in Trigger |-> FALSE]
    /\ last = <<>> /\ queue = <<>> /\ held = <<>>
    /\ served = [i \in Trigger |-> <<>>] /\ unsure = timer
    /\ accepted = 0 /\ decided = 0 /\ lost = 0
    /\ slipped = {} /\ deaths = 0 /\ posts = 0

LoadManifest ==
    /\ stage = "off"
    /\ stage' = IF Readable(manifest) /\ Valid(manifest) THEN "loaded" ELSE "refused"
    /\ UNCHANGED <<config, now, listener, clocks, last, tasks, history>>

Build ==
    /\ stage = "loaded"
    /\ machine' = Written(machine)
    /\ stage' = IF BuildProblems(machine, manifest) = {} THEN "built" ELSE "refused"
    /\ UNCHANGED <<manifest, days, pick, now, listener, clocks, last, tasks, history>>

\* The record of the last firings is read, or starts empty in memory.
BuildDaemon ==
    /\ stage = "built"
    /\ stage' = IF manifest.triggers # <<>> /\ DaemonProblems(machine, manifest) = {} THEN "wired" ELSE "refused"
    /\ last' = IF Durable THEN last ELSE <<>>
    /\ UNCHANGED <<config, now, listener, clocks, tasks, history>>

\* Daemon.Run first puts the task of a dead worker back.
Recover ==
    /\ stage = "wired" /\ stage' = "up"
    /\ queue' = held \o queue /\ held' = <<>>
    /\ step' = 1
    /\ UNCHANGED <<config, now, listener, owing, timer, armedAt, marking, since, last, accepted, decided, lost, history>>

-----------------------------------------------------------------------------
(* Triggers.                                                               *)

Task(i, attempt) == [trigger |-> i, attempt |-> attempt]

\* A full queue refuses; cron and daily triggers only log it.
HandIn(i) ==
    /\ served' = [served EXCEPT ![i] = Append(@, now)]
    /\ IF Full THEN UNCHANGED <<queue, accepted>>
               ELSE queue' = Append(queue, Task(i, 0)) /\ accepted' = accepted + 1
    /\ UNCHANGED <<held, decided, lost>>

Record(i) == last' = [id \in DOMAIN last \cup {TriggerId(T(i))} |-> IF id = TriggerId(T(i)) THEN now ELSE last[id]]

Missed(i) ==
    \/ TriggerId(T(i)) \notin DOMAIN last
    \/ last[TriggerId(T(i))] < PreviousOccurrence(now, T(i).at)

\* catchUp looks at one trigger after the other; what it enqueues it marks at once.
CatchUp ==
    /\ stage = "up" /\ step \in Trigger /\ ~owing
    /\ IF T(step).type = "daily" /\ T(step).catchUp /\ Missed(step)
         THEN HandIn(step) /\ owing' = TRUE /\ UNCHANGED step
         ELSE step' = step + 1 /\ UNCHANGED <<owing, tasks, served>>
    /\ UNCHANGED <<config, now, stage, listener, timer, armedAt, marking, since, last, unsure, slipped, deaths, posts>>

CatchUpMark ==
    /\ stage = "up" /\ owing
    /\ Record(step) /\ owing' = FALSE /\ step' = step + 1
    /\ UNCHANGED <<config, now, stage, listener, timer, armedAt, marking, since, tasks, history>>

Timed(i)  == T(i).type \in {"every", "daily"}
Started   == stage = "up" /\ step > Len(manifest.triggers)
AllArmed(f) == \A i \in Trigger : Timed(i) => f[i] # 0

\* The goroutine of a trigger sets its timer; a ticker refuses an interval of zero.
Arm(i) ==
    /\ Started /\ Timed(i) /\ timer[i] = 0 /\ ~marking[i]
    /\ timer' = [timer EXCEPT ![i] = IF T(i).type = "every" THEN now + Every ELSE NextOccurrence(now, T(i).at)]
    /\ armedAt' = [armedAt EXCEPT ![i] = now]
    /\ since' = IF since = 0 /\ AllArmed(timer') THEN now ELSE since
    /\ stage' = IF T(i).type = "every" /\ T(i).every = "zero" THEN "panicked" ELSE stage
    /\ UNCHANGED <<config, now, listener, step, owing, marking, last, tasks, history>>

Fire(i) ==
    /\ Started /\ timer[i] # 0 /\ timer[i] <= now /\ ~marking[i]
    /\ HandIn(i) /\ marking' = [marking EXCEPT ![i] = TRUE]
    /\ timer' = [timer EXCEPT ![i] = IF T(i).type = "every" THEN @ + Every ELSE 0]
    /\ UNCHANGED <<config, now, stage, listener, step, owing, armedAt, since, last, unsure, slipped, deaths, posts>>

Mark(i) ==
    /\ stage = "up" /\ marking[i] /\ Record(i)
    /\ marking' = [marking EXCEPT ![i] = FALSE]
    /\ UNCHANGED <<config, now, stage, listener, step, owing, timer, armedAt, since, tasks, history>>

\* The goroutine of the webhooks registers the routes, which may panic, and listens; if
\* the address is taken or wrong it says so in the log and the daemon goes on without.
Listen ==
    /\ Started /\ Listens(manifest) /\ listener = "none"
    /\ IF RoutesServed(manifest) THEN listener' \in {"open", "failed"} /\ UNCHANGED stage
                                 ELSE stage' = "panicked" /\ UNCHANGED listener
    /\ UNCHANGED <<config, now, clocks, last, tasks, history>>

\* A request with the token of its route: 202, or 503, or 400 if it says nothing.
Post(i) ==
    /\ Started /\ T(i).type = "webhook" /\ listener = "open" /\ posts < MaxPosts
    /\ posts' = posts + 1
    /\ \E body \in {"", "text"} : IF Prompts(T(i), body) THEN HandIn(i) ELSE UNCHANGED <<tasks, served>>
    /\ UNCHANGED <<config, now, stage, listener, clocks, last, unsure, slipped, deaths>>

-----------------------------------------------------------------------------
(* The worker.                                                             *)

\* Mutant: the task that is claimed stays in the queue.
MutantTaken(i) == queue

Taken(i) == RemoveAt(queue, i)

\* The first task that is due: a retry may not be yet.
Claim(i) ==
    /\ stage = "up" /\ held = <<>> /\ i \in DOMAIN queue
    /\ \A j \in 1..(i - 1) : queue[j].attempt > 0
    /\ held' = <<queue[i]>> /\ queue' = Taken(i)
    /\ UNCHANGED <<config, now, stage, listener, clocks, last, accepted, decided, lost, history>>

RunSucceeds ==
    /\ stage = "up" /\ held # <<>> /\ held' = <<>> /\ decided' = decided + 1
    /\ UNCHANGED <<config, now, stage, listener, clocks, last, queue, accepted, lost, history>>

\* Retry in memory is an Enqueue, which a full queue refuses.
RunFails ==
    /\ stage = "up" /\ held # <<>> /\ held' = <<>>
    /\ LET t == [held[1] EXCEPT !.attempt = @ + 1]
       IN  IF t.attempt >= MaxAttempts(manifest) THEN decided' = decided + 1 /\ UNCHANGED <<queue, lost>>
           ELSE IF ~Durable /\ Full THEN lost' = lost + 1 /\ UNCHANGED <<queue, decided>>
           ELSE queue' = Append(queue, t) /\ UNCHANGED <<decided, lost>>
    /\ UNCHANGED <<config, now, stage, listener, clocks, last, accepted, history>>

-----------------------------------------------------------------------------
Starting == stage = "up" /\ since = 0
Settled  == Started /\ (since # 0 \/ ~\E i \in Trigger : Timed(i))
                    /\ \A i \in Trigger : ~marking[i] /\ (Timed(i) => timer[i] > now)

\* An hour passes.
Tick ==
    /\ now < End
    /\ stage = "off" \/ Settled \/ (Starting /\ Cardinality(slipped) < MaxSlips)
    /\ now' = now + 1
    /\ slipped' = IF Starting /\ ~Settled THEN slipped \cup {now'} ELSE slipped
    /\ UNCHANGED <<config, stage, listener, clocks, last, tasks, served, unsure, deaths, posts>>

\* The process is stopped or killed.
Die ==
    /\ stage = "up" /\ deaths < MaxDeaths /\ deaths' = deaths + 1
    /\ stage' = "off" /\ listener' = "none" /\ step' = 0 /\ owing' = FALSE /\ since' = 0
    /\ timer' = [i \in Trigger |-> 0] /\ armedAt' = timer' /\ marking' = [i \in Trigger |-> FALSE]
    /\ unsure' = [i \in Trigger |->
         IF ~Durable \/ marking[i] \/ (owing /\ step = i) THEN unsure[i] + 1 ELSE unsure[i]]
    /\ IF Durable THEN UNCHANGED <<queue, held, lost>>
                  ELSE queue' = <<>> /\ held' = <<>> /\ lost' = lost + Len(queue) + Len(held)
    /\ UNCHANGED <<config, now, last, accepted, decided, served, slipped, posts>>

Next ==
    \/ LoadManifest \/ Build \/ BuildDaemon \/ Recover
    \/ CatchUp \/ CatchUpMark \/ Listen
    \/ \E i \in Trigger : Arm(i) \/ Fire(i) \/ Mark(i) \/ Post(i)
    \/ \E i \in DOMAIN queue : Claim(i)
    \/ RunSucceeds \/ RunFails \/ Tick \/ Die

Spec == Init /\ [][Next]_vars

-----------------------------------------------------------------------------
(* Properties.                                                             *)

Handed(i, from, to) == Cardinality({n \in DOMAIN served[i] : from <= served[i][n] /\ served[i][n] <= to})
Dailies == {i \in Trigger : T(i).type = "daily"}
OwnId(i) == \A j \in Trigger : TriggerId(T(j)) = TriggerId(T(i)) => i = j

\* A day that the daemon has lived through from before its first hour to after its last
\* has one run of each daily trigger, at the hour that is written if the clock shows it,
\* however many hours the day has (nextOccurrence, runDaily).
OncePerDay ==
    \A i \in Dailies, d \in DOMAIN days :
        stage = "up" /\ since # 0 /\ since < Begins[d] /\ Begins[d + 1] <= now =>
            /\ Handed(i, Begins[d], Begins[d + 1] - 1) = 1
            /\ \E t \in Candidates(d, T(i).at) : Handed(i, t, t) = 1

\* When the daemon has started, the last occurrence of a trigger with catch_up has been
\* handed to the queue, unless it fell into the start itself (catchUp, then the timers).
MissedIsServed ==
    \A i \in Dailies, d \in DOMAIN days :
        LET c == Candidates(d, T(i).at)
        IN  Settled /\ T(i).catchUp /\ OwnId(i) /\ Latest(c) <= now /\ now < Earliest(Candidates(d + 1, T(i).at)) =>
                Handed(i, Earliest(c), now) >= 1 \/ c \cap slipped # {}

\* And it has been handed over once, and once more for each death that came between the
\* queue and the record, or for each restart if there is no record.
NotServedTwice ==
    \A i \in Dailies, d \in DOMAIN days :
        Handed(i, OccurrenceOn(d, T(i).at), OccurrenceOn(d + 1, T(i).at) - 1) <= 1 + unsure[i]

OccurrencesServed == OncePerDay /\ MissedIsServed /\ NotServedTwice

\* A task that was accepted is in one place until it is decided; only a death without
\* scheduler.path, or a retry that meets a full queue in memory, takes it away.
AcceptedIsInOnePlace ==
    /\ accepted = Len(queue) + Len(held) + decided + lost
    /\ Durable => lost = 0
    /\ ~Durable /\ accepted <= MaxPending(manifest) /\ deaths = 0 => lost = 0

\* What `mani validate` lets through is refused afterwards only for what it cannot know
\* (the machine and its disk, credentials, servers, tokens) or does not look at (the
\* interval of an `every`, no trigger at all), and never for want of a client if it names
\* ollama.  Once it has started, the process panics only for what validation lets pass:
\* an interval of zero, or routes that the mux refuses although each begins with / and
\* none is written twice.  In a daemon that is up no two triggers share a name or a
\* route, there is one address, and sub-agents have the tool that calls them
\* (manifest.go, builder.go, daemon.go).
ValidatedStarts ==
    /\ stage = "refused" /\ Readable(manifest) /\ Valid(manifest) =>
         /\ BuildProblems(machine, manifest) \cup DaemonProblems(machine, manifest)
              \subseteq {"config", "client", "server", "disk", "every", "token"}
         /\ "client" \in BuildProblems(machine, manifest) => manifest.provider # "ollama"
         /\ BuildProblems(machine, manifest) \cup DaemonProblems(machine, manifest) = {} => manifest.triggers = <<>>
    /\ stage = "panicked" =>
         \/ \E i \in Trigger : T(i).type = "every" /\ T(i).every = "zero"
         \/ /\ Listens(manifest)
            /\ \/ \E i \in Hooks(manifest) : Path(T(i)) = "malformed"
               \/ \E i, j \in Hooks(manifest) : Path(T(i)) # Path(T(j)) /\ Clash(Path(T(i)), Path(T(j)))
    /\ stage = "up" =>
         /\ \A i, j \in Trigger : T(i).type = "webhook" /\ T(j).type = "webhook" /\ Path(T(i)) = Path(T(j)) => i = j
         /\ \A i, j \in Trigger : T(i).name # "" /\ TriggerId(T(i)) = TriggerId(T(j)) => i = j
         /\ \A i \in Trigger : T(i).type = "webhook" /\ T(i).addr # "" => T(i).addr \in Addrs(manifest) /\ Cardinality(Addrs(manifest)) = 1
         /\ \A s \in Elems(manifest.subagents) : "delegate" \in Declared(manifest)

\* A timer is set for a time to come (nextOccurrence "returns the first hour:minute
\* strictly after now").
TimersAreAhead == \A i \in Trigger : timer[i] # 0 => timer[i] > armedAt[i]
=============================================================================
