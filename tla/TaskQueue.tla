----------------------------- MODULE TaskQueue -----------------------------
(***************************************************************************)
(* What the daemon's queue promises, whatever dies on the way (the port    *)
(* TaskQueue of src/app/queue.go and the durability paragraph of           *)
(* docs/content/docs/guides/triggers.md): delivery AT LEAST once.  A task  *)
(* it accepted stays live until an outcome is on record; outcomes are      *)
(* never withdrawn; "done" is recorded only of a task a run of which       *)
(* succeeded.  Nothing is said of how often a task is run.                 *)
(***************************************************************************)
CONSTANT Task

VARIABLES
    accepted,    \* tasks whose Enqueue published their file
    live,        \* tasks the queue still has to run
    outcome,     \* [Task -> set of outcomes on record]
    succeeded    \* tasks one of whose runs ended well

vars == <<accepted, live, outcome, succeeded>>

Outcome == {"done", "failed"}

TypeOK ==
    /\ accepted \in SUBSET Task
    /\ live \in SUBSET Task
    /\ outcome \in [Task -> SUBSET Outcome]
    /\ succeeded \in SUBSET Task

Init ==
    /\ accepted = {}
    /\ live = {}
    /\ outcome = [t \in Task |-> {}]
    /\ succeeded = {}

Accept(t) ==
    /\ t \notin accepted
    /\ accepted' = accepted \cup {t}
    /\ live' = live \cup {t}
    /\ UNCHANGED <<outcome, succeeded>>

Succeed(t) ==
    /\ t \in accepted
    /\ succeeded' = succeeded \cup {t}
    /\ UNCHANGED <<accepted, live, outcome>>

\* The outcome goes on record while the task is still live: publish, then unlink.
Record(t, o) ==
    /\ t \in accepted
    /\ o = "done" => t \in succeeded
    /\ outcome' = [outcome EXCEPT ![t] = @ \cup {o}]
    /\ UNCHANGED <<accepted, live, succeeded>>

Retire(t) ==
    /\ outcome[t] # {}
    /\ live' = live \ {t}
    /\ UNCHANGED <<accepted, outcome, succeeded>>

\* A second delivery of a retired task may put it back.
Requeue(t) ==
    /\ t \in accepted
    /\ live' = live \cup {t}
    /\ UNCHANGED <<accepted, outcome, succeeded>>

Next ==
    \E t \in Task :
        \/ Accept(t)
        \/ Succeed(t)
        \/ \E o \in Outcome : Record(t, o)
        \/ Retire(t)
        \/ Requeue(t)

Spec == Init /\ [][Next]_vars
=============================================================================
