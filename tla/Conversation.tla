---------------------------- MODULE Conversation ----------------------------
(***************************************************************************)
(* One session of the server, shared by its connections: the WebSockets    *)
(* of src/server/ws.go and the one-shot requests of src/server/rest.go,    *)
(* the session manager's count of who uses it (session.go), and the runs   *)
(* it executes (src/app/runtime.go), which send events through a channel   *)
(* and wait for permissions (permission.go).                               *)
(*                                                                         *)
(* A WebSocket is served by three goroutines: the reader, the writer that  *)
(* drains `outbound`, and, while there is one, the turn that forwards the  *)
(* events of its run.  A run asks for permissions from the calls of its    *)
(* sub-agents, in parallel.                                                *)
(***************************************************************************)
EXTENDS Naturals, Sequences, FiniteSets

CONSTANTS
    Socket,     \* WebSocket connections
    Rest,       \* requests POST /sessions/{id}/chat
    Call,       \* calls of a run that need a permission, all of one tool
    MaxRuns,    \* bound: runs of the session
    MaxTokens,  \* bound: tokens a run says, at its start (0 or 1)
    EventCap,   \* capacity of a run's event channel (32)
    OutCap,     \* capacity of `outbound` (32)
    Structured  \* the manifest declares an output schema

ASSUME ConversationAssumption ==
    /\ Socket \cap Rest = {} /\ IsFiniteSet(Socket \cup Rest)
    /\ MaxRuns \in Nat /\ Cardinality(Rest) <= MaxRuns /\ EventCap \in Nat \ {0} /\ OutCap \in Nat \ {0}
    /\ Structured \in BOOLEAN /\ MaxTokens \in {0, 1}

Conn == Socket \cup Rest
Run  == 1..MaxRuns
Ask  == Run \X Call            \* a permission request: the call of a run

Final    == {"done", "error", "cancelled"}
Decision == {"allow_once", "allow_always", "deny"}

\* Messages to the client, and the events they are made from.
Event(t, x) == [type |-> t, of |-> x]
Message == [type : Final \cup {"token", "structured"}, of : {<<r>> : r \in Run}]
              \cup [type : {"permission_request"}, of : Ask]
              \cup [type : {"refused"}, of : {<<>>}]

VARIABLES
    entry,      \* the session in the manager's map
    busy,       \* connections that use it
    always,     \* the tool is always allowed
    cancelFn,   \* the run Runtime.Cancel would cancel (0: none)
    down,       \* a panic has ended the process
    here,       \* the client is connected
    reader,     \* where the connection's handler stands
    writer,     \* the writer goroutine lives
    running,    \* conn.running
    turn,       \* where the goroutine that executes a turn stands
    at,         \* its run
    handing,    \* messages it is about to send
    outbound,   \* messages for the writer
    pending,    \* requests that await an answer
    told,       \* history: runs whose final message the client has received
    phase,      \* of a run
    live,       \* its context is not cancelled
    events,     \* its event channel
    call,       \* its calls
    reply,      \* the channel a call waits on
    recorded,   \* its record in the journal
    said        \* history: the permissions the client gave

sessionVars == <<entry, busy, always, cancelFn, down>>
readVars    == <<here, reader, told, said>>
turnVars    == <<writer, running, turn, at, handing, outbound, pending>>
runVars     == <<phase, live, events, call, reply, recorded>>
vars        == <<sessionVars, readVars, turnVars, runVars>>

TypeOK ==
    /\ entry \in {"open", "evicted", "deleted"}
    /\ busy \in Nat
    /\ always \in BOOLEAN /\ down \in BOOLEAN
    /\ cancelFn \in 0..MaxRuns
    /\ here \in [Conn -> BOOLEAN]
    /\ reader \in [Conn -> {"out", "reading", "refusing", "ended", "drained", "gone"}]
    /\ writer \in [Conn -> BOOLEAN]
    /\ running \in [Conn -> BOOLEAN]
    /\ turn \in [Conn -> {"none", "starting", "storing", "draining"}]
    /\ at \in [Conn -> 0..MaxRuns]
    /\ handing \in [Conn -> Seq(Message)]
    /\ outbound \in [Conn -> Seq(Message)]
    /\ \A s \in Conn : Len(outbound[s]) <= OutCap
    /\ pending \in [Conn -> SUBSET Ask]
    /\ told \in [Conn -> SUBSET Run]
    /\ phase \in [Run -> {"none", "fresh", "on", "recording", "reporting", "over"}]
    /\ live \in [Run -> BOOLEAN]
    /\ events \in [Run -> Seq(Message)]
    /\ \A r \in Run : Len(events[r]) <= EventCap
    /\ call \in [Ask -> {"idle", "emitting", "waiting", "granted", "refused", "aborted"}]
    /\ reply \in [Ask -> Seq(Decision)]
    /\ recorded \in [Run -> {"none", "running", "ended"}]
    /\ said \subseteq Ask \X Decision

Init ==
    /\ entry = "open" /\ busy = 0 
    /\ always = FALSE /\ cancelFn = 0 /\ down = FALSE
    /\ here = [s \in Conn |-> TRUE] /\ reader = [s \in Conn |-> "out"]
    /\ told = [s \in Conn |-> {}] /\ said = {}
    /\ writer = [s \in Conn |-> s \in Socket] /\ running = [s \in Conn |-> FALSE]
    /\ turn = [s \in Conn |-> "none"] /\ at = [s \in Conn |-> 0]
    /\ handing = [s \in Conn |-> <<>>] /\ outbound = [s \in Conn |-> <<>>]
    /\ pending = [s \in Conn |-> {}]
    /\ phase = [r \in Run |-> "none"] /\ live = [r \in Run |-> FALSE]
    /\ events = [r \in Run |-> <<>>] /\ recorded = [r \in Run |-> "none"]
    /\ call = [q \in Ask |-> "idle"] /\ reply = [q \in Ask |-> <<>>]

-----------------------------------------------------------------------------
(* The session manager.                                                    *)

\* The time since the last use is not counted: it may have passed the TTL.
Sweep ==                            \* another session is created
    /\ entry = "open" /\ busy = 0
    /\ entry' = "evicted"
    /\ UNCHANGED <<busy, always, cancelFn, down, readVars, turnVars, runVars>>

Delete ==                           \* DELETE /sessions/{id}, or the server closes
    /\ entry = "open"
    /\ entry' = "deleted"
    /\ UNCHANGED <<busy, always, cancelFn, down, readVars, turnVars, runVars>>

\* Runtime.Close, which follows both, clears the runtime's journal.
Journalled == entry = "open"

\* Mutant: a flag instead of a count.
MutantAcquire == busy' = 1

Acquire == busy' = busy + 1

Release == busy' = IF entry = "open" THEN busy - 1 ELSE busy

\* Bound: a run is left, besides one for each chat still to come.
RunLeft ==
    Cardinality({r \in Run : phase[r] # "none"}) + Cardinality({c \in Conn : turn[c] = "starting"})
        + Cardinality({c \in Rest : reader[c] = "out"}) < MaxRuns

\* A request for the session: a socket waits for input, a chat brings it.
Connect(s) ==
    /\ reader[s] = "out"
    /\ IF entry = "open"
         THEN /\ Acquire
              /\ reader' = [reader EXCEPT ![s] = "reading"]
              /\ turn' = [turn EXCEPT ![s] = IF s \in Rest THEN "starting" ELSE @]
         ELSE /\ reader' = [reader EXCEPT ![s] = "gone"]
              /\ UNCHANGED <<busy, turn>>
    /\ UNCHANGED <<entry, always, cancelFn, down, here, told, said, writer,
                   running, at, handing, outbound, pending, runVars>>

-----------------------------------------------------------------------------
(* The reader of a socket.                                                 *)

\* Mutant: the request stays pending.
MutantRoute(s, q, d) ==
    /\ reply' = [reply EXCEPT ![q] = Append(@, d)]
    /\ UNCHANGED pending

\* One answer to a request: who removes it from `pending` is who answers it.
Route(s, q, d) ==
    /\ pending' = [pending EXCEPT ![s] = @ \ {q}]
    /\ reply' = [reply EXCEPT ![q] = Append(@, d)]

Input(s) ==
    /\ reader[s] = "reading" /\ ~running[s] /\ RunLeft
    /\ running' = [running EXCEPT ![s] = TRUE]
    /\ turn' = [turn EXCEPT ![s] = "starting"]
    /\ UNCHANGED <<sessionVars, readVars, writer, at, handing, outbound, pending, runVars>>

Refuse(s) ==                        \* an empty input, or one while a turn is running
    /\ reader[s] = "reading"
    /\ reader' = [reader EXCEPT ![s] = "refusing"]
    /\ UNCHANGED <<sessionVars, here, told, said, turnVars, runVars>>

Refused(s) ==                       \* the error goes out
    /\ reader[s] = "refusing" /\ Len(outbound[s]) < OutCap
    /\ reader' = [reader EXCEPT ![s] = "reading"]
    /\ outbound' = [outbound EXCEPT ![s] = Append(@, Event("refused", <<>>))]
    /\ UNCHANGED <<sessionVars, here, told, said, writer, running, turn, at, handing,
                   pending, runVars>>

\* The client has received the request.
Shown(s, q) == \A m \in {handing[s], outbound[s]} : \A i \in 1..Len(m) : m[i].of # q

Answer(s, q, d) ==                  \* a permission_response; a repeated one changes nothing
    /\ reader[s] = "reading" /\ q \in pending[s] /\ Shown(s, q)
    /\ Route(s, q, d)
    /\ said' = IF d = "deny" THEN said ELSE said \cup {<<q, d>>}
    /\ UNCHANGED <<sessionVars, here, reader, told, writer, running, turn, at, handing,
                   outbound, phase, live, events, call, recorded>>

Cancel(s) ==
    /\ reader[s] = "reading" /\ cancelFn # 0
    /\ live' = [live EXCEPT ![cancelFn] = FALSE]
    /\ UNCHANGED <<sessionVars, readVars, turnVars, phase, events, call, reply, recorded>>

Leave(s) ==                         \* a chat's request context goes with its client
    /\ here[s] /\ reader[s] # "out"
    /\ here' = [here EXCEPT ![s] = FALSE]
    /\ live' = IF s \in Rest /\ at[s] # 0 THEN [live EXCEPT ![at[s]] = FALSE] ELSE live
    /\ UNCHANGED <<sessionVars, reader, told, said, turnVars, phase, events, call, reply,
                   recorded>>

\* Mutant: the reader waits for the turn to end.
MutantReadFails(s) ==
    /\ reader[s] = "reading" /\ ~here[s] /\ ~running[s]
    /\ reader' = [reader EXCEPT ![s] = "ended"]
    /\ UNCHANGED <<sessionVars, here, told, said, turnVars, runVars>>

ReadFails(s) ==
    /\ reader[s] = "reading" /\ ~here[s]
    /\ reader' = [reader EXCEPT ![s] = "ended"]
    /\ UNCHANGED <<sessionVars, here, told, said, turnVars, runVars>>

Shutdown(s) ==                      \* deny what is pending, unless already answered
    /\ reader[s] = "ended"
    /\ reader' = [reader EXCEPT ![s] = "drained"]
    /\ pending' = [pending EXCEPT ![s] = {}]
    /\ reply' = [q \in Ask |-> IF q \in pending[s] /\ reply[q] = <<>> THEN <<"deny">> ELSE reply[q]]
    /\ UNCHANGED <<sessionVars, here, told, said, writer, running, turn, at, handing,
                   outbound, phase, live, events, call, recorded>>

Hangup(s) ==                        \* the deferred cancel, CloseNow and release
    /\ reader[s] = "drained"
    /\ reader' = [reader EXCEPT ![s] = "gone"]
    /\ live' = IF at[s] # 0 THEN [live EXCEPT ![at[s]] = FALSE] ELSE live
    /\ Release
    /\ UNCHANGED <<entry, always, cancelFn, down, here, told, said, turnVars,
                   phase, events, call, reply, recorded>>

-----------------------------------------------------------------------------
(* The writer of a socket, and the timers of its requests.                 *)

Deliver(s) ==
    /\ writer[s] /\ here[s] /\ reader[s] # "gone" /\ outbound[s] # <<>>
    /\ LET m == Head(outbound[s])
       IN  told' = [told EXCEPT ![s] = @ \cup IF m.type \in Final THEN {m.of[1]} ELSE {}]
    /\ outbound' = [outbound EXCEPT ![s] = Tail(@)]
    /\ UNCHANGED <<sessionVars, here, reader, said, writer, running, turn, at, handing, pending, runVars>>

WriterQuits(s) ==                   \* a write fails
    /\ writer[s] /\ ~here[s] /\ reader[s] # "gone" /\ outbound[s] # <<>>
    /\ writer' = [writer EXCEPT ![s] = FALSE]
    /\ UNCHANGED <<sessionVars, readVars, running, turn, at, handing, outbound, pending, runVars>>

\* Mutant: who does not answer agrees.
MutantTimesOut(s, q) ==
    /\ q \in pending[s]
    /\ Route(s, q, "allow_once")
    /\ UNCHANGED <<sessionVars, readVars, writer, running, turn, at, handing, outbound, phase,
                   live, events, call, recorded>>

TimesOut(s, q) ==                   \* ten minutes; once answered it changes nothing
    /\ q \in pending[s]
    /\ Route(s, q, "deny")
    /\ UNCHANGED <<sessionVars, readVars, writer, running, turn, at, handing, outbound, phase,
                   live, events, call, recorded>>

-----------------------------------------------------------------------------
(* The goroutine of a turn.                                                *)

\* Execute starts the run, under the context of the connection ...
StartRun(s) ==
    /\ turn[s] = "starting"
    /\ \E r \in Run :
         /\ phase[r] = "none" /\ \A i \in 1..(r - 1) : phase[i] # "none"
         /\ phase' = [phase EXCEPT ![r] = "fresh"]
         /\ live' = [live EXCEPT ![r] = IF s \in Rest THEN here[s] ELSE reader[s] # "gone"]
         /\ recorded' = [recorded EXCEPT ![r] = IF Journalled THEN "running" ELSE "none"]
         /\ at' = [at EXCEPT ![s] = r]
    /\ turn' = [turn EXCEPT ![s] = "storing"]
    /\ UNCHANGED <<sessionVars, readVars, writer, running, handing, outbound, pending,
                   events, call, reply>>

\* ... and then stores how to cancel it.
StoreCancel(s) ==
    /\ turn[s] = "storing"
    /\ cancelFn' = at[s]
    /\ turn' = [turn EXCEPT ![s] = "draining"]
    /\ UNCHANGED <<entry, busy, always, down, readVars, writer, running, at,
                   handing, outbound, pending, runVars>>

\* What an event is sent as: the structured output goes before "done".
Messages(e) ==
    IF e.type = "done" /\ Structured THEN <<Event("structured", e.of), e>> ELSE <<e>>

NextEvent(s) == turn[s] = "draining" /\ handing[s] = <<>> /\ events[at[s]] # <<>>

\* Mutant: a connection remembers one request.
MutantForward(s) ==
    /\ s \in Socket /\ NextEvent(s)
    /\ LET e == Head(events[at[s]])
       IN  /\ handing' = [handing EXCEPT ![s] = Messages(e)]
           /\ pending' = IF e.type = "permission_request" THEN [pending EXCEPT ![s] = {e.of}] ELSE pending
    /\ events' = [events EXCEPT ![at[s]] = Tail(@)]
    /\ UNCHANGED <<sessionVars, readVars, writer, running, turn, at, outbound, phase, live, call,
                   reply, recorded>>

Forward(s) ==
    /\ s \in Socket /\ NextEvent(s)
    /\ LET e == Head(events[at[s]])
       IN  /\ handing' = [handing EXCEPT ![s] = Messages(e)]
           /\ pending' = [pending EXCEPT ![s] = @ \cup IF e.type = "permission_request" THEN {e.of} ELSE {}]
    /\ events' = [events EXCEPT ![at[s]] = Tail(@)]
    /\ UNCHANGED <<sessionVars, readVars, writer, running, turn, at, outbound, phase, live, call,
                   reply, recorded>>

\* Wait for room; nobody reads what is sent once the connection's context is done.
Send(s) ==
    /\ handing[s] # <<>>
    /\ \/ /\ reader[s] # "gone" /\ Len(outbound[s]) < OutCap
          /\ outbound' = [outbound EXCEPT ![s] = Append(@, Head(handing[s]))]
       \/ reader[s] = "gone" /\ UNCHANGED outbound
    /\ handing' = [handing EXCEPT ![s] = Tail(@)]
    /\ UNCHANGED <<sessionVars, readVars, writer, running, turn, at, pending, runVars>>

\* A chat has nobody to ask: it denies, and keeps the rest for its answer.
Chat(s) ==
    /\ s \in Rest /\ NextEvent(s)
    /\ LET e == Head(events[at[s]])
       IN  /\ reply' = IF e.type = "permission_request"
                         THEN [reply EXCEPT ![e.of] = Append(@, "deny")] ELSE reply
           /\ told' = [told EXCEPT ![s] = @ \cup IF e.type \in Final THEN {e.of[1]} ELSE {}]
    /\ events' = [events EXCEPT ![at[s]] = Tail(@)]
    /\ UNCHANGED <<sessionVars, here, reader, said, turnVars, phase, live, call, recorded>>

Drained(s) ==                       \* the channel is closed
    /\ turn[s] = "draining" /\ handing[s] = <<>> /\ events[at[s]] = <<>> /\ phase[at[s]] = "over"
    /\ turn' = [turn EXCEPT ![s] = "none"]
    /\ at' = [at EXCEPT ![s] = 0]

TurnOver(s) ==
    /\ s \in Socket /\ Drained(s)
    /\ running' = [running EXCEPT ![s] = FALSE]
    /\ UNCHANGED <<sessionVars, readVars, writer, handing, outbound, pending, runVars>>

ChatOver(s) ==
    /\ s \in Rest /\ Drained(s)
    /\ reader' = [reader EXCEPT ![s] = "gone"]
    /\ Release
    /\ UNCHANGED <<entry, always, cancelFn, down, here, told, said, writer,
                   running, handing, outbound, pending, runVars>>

-----------------------------------------------------------------------------
(* The run.  Its sends wait for room in the channel, whatever its context. *)

Emit(r, e) ==
    /\ Len(events[r]) < EventCap
    /\ events' = [events EXCEPT ![r] = Append(@, e)]

Working(r) == phase[r] \in {"fresh", "on"}

Token(r) ==
    /\ phase[r] = "fresh" /\ MaxTokens = 1 /\ \A c \in Call : call[<<r, c>>] = "idle"
    /\ Emit(r, Event("token", <<r>>))
    /\ phase' = [phase EXCEPT ![r] = "on"]
    /\ UNCHANGED <<sessionVars, readVars, turnVars, live, call, reply, recorded>>

Check(q) ==                         \* PermissionManager.check
    /\ Working(q[1]) /\ call[q] = "idle"
    /\ call' = [call EXCEPT ![q] = IF always THEN "granted" ELSE "emitting"]
    /\ UNCHANGED <<sessionVars, readVars, turnVars, phase, live, events, reply, recorded>>

Request(q) ==
    /\ call[q] = "emitting"
    /\ Emit(q[1], Event("permission_request", q))
    /\ call' = [call EXCEPT ![q] = "waiting"]
    /\ UNCHANGED <<sessionVars, readVars, turnVars, phase, live, reply, recorded>>

Decided(q) ==
    /\ call[q] = "waiting" /\ reply[q] # <<>>
    /\ LET d == Head(reply[q])
       IN  /\ call' = [call EXCEPT ![q] = IF d = "deny" THEN "refused" ELSE "granted"]
           /\ always' = (always \/ d = "allow_always")
    /\ reply' = [reply EXCEPT ![q] = Tail(@)]
    /\ UNCHANGED <<entry, busy, cancelFn, down, readVars, turnVars, phase,
                   live, events, recorded>>

Abandoned(q) ==
    /\ call[q] = "waiting" /\ ~live[q[1]]
    /\ call' = [call EXCEPT ![q] = "aborted"]
    /\ UNCHANGED <<sessionVars, readVars, turnVars, phase, live, events, reply, recorded>>

\* Mutant: a cancelled run is not finished in the journal.
MutantRunEnds(r) ==
    /\ Working(r) /\ \A c \in Call : call[<<r, c>>] \notin {"emitting", "waiting"}
    /\ phase' = [phase EXCEPT ![r] = IF Journalled /\ live[r] THEN "recording" ELSE "reporting"]
    /\ UNCHANGED <<sessionVars, readVars, turnVars, live, events, call, reply, recorded>>

\* The agent returns, after its calls; finishRun looks at the journal ...
RunEnds(r) ==
    /\ Working(r) /\ \A c \in Call : call[<<r, c>>] \notin {"emitting", "waiting"}
    /\ phase' = [phase EXCEPT ![r] = IF Journalled THEN "recording" ELSE "reporting"]
    /\ UNCHANGED <<sessionVars, readVars, turnVars, live, events, call, reply, recorded>>

\* ... and calls it: Close sets the field to nil without a lock, so this second
\* read may find what the first one did, or nil, which panics.
Finish(r) ==
    /\ phase[r] = "recording"
    /\ \/ /\ recorded' = [recorded EXCEPT ![r] = "ended"]
          /\ phase' = [phase EXCEPT ![r] = "reporting"]
          /\ down' = FALSE
       \/ ~Journalled /\ down' = TRUE /\ UNCHANGED <<recorded, phase>>
    /\ UNCHANGED <<entry, busy, always, cancelFn, readVars, turnVars, live,
                   events, call, reply>>

\* Mutant: a cancelled run closes its channel without a last event.
MutantReport(r) ==
    /\ phase[r] = "reporting"
    /\ IF live[r] THEN \E t \in {"done", "error"} : Emit(r, Event(t, <<r>>)) ELSE UNCHANGED events
    /\ phase' = [phase EXCEPT ![r] = "over"]
    /\ live' = [live EXCEPT ![r] = FALSE]
    /\ UNCHANGED <<sessionVars, readVars, turnVars, call, reply, recorded>>

Report(r) ==                        \* the last event; the channel is closed
    /\ phase[r] = "reporting"
    /\ \E t \in IF live[r] THEN {"done", "error"} ELSE Final : Emit(r, Event(t, <<r>>))
    /\ phase' = [phase EXCEPT ![r] = "over"]
    /\ live' = [live EXCEPT ![r] = FALSE]
    /\ UNCHANGED <<sessionVars, readVars, turnVars, call, reply, recorded>>

-----------------------------------------------------------------------------
Manager == Sweep \/ Delete

Reader(s) ==
    \/ Input(s) \/ Refuse(s) \/ Refused(s) \/ Cancel(s) \/ ReadFails(s) \/ Shutdown(s) \/ Hangup(s)
    \/ \E q \in Ask, d \in Decision : Answer(s, q, d)

Connection(s) ==
    \/ Connect(s) \/ Leave(s) \/ StartRun(s) \/ StoreCancel(s)
    \/ Deliver(s) \/ WriterQuits(s) \/ Forward(s) \/ Send(s) \/ TurnOver(s)
    \/ Chat(s) \/ ChatOver(s)
    \/ \E q \in Ask : TimesOut(s, q)

Agent(r) == Token(r) \/ RunEnds(r) \/ Finish(r) \/ Report(r)

Gate(q) == Check(q) \/ Request(q) \/ Decided(q) \/ Abandoned(q)

Next ==
    /\ ~down
    /\ \/ Manager
       \/ \E s \in Socket : Reader(s)
       \/ \E s \in Conn : Connection(s)
       \/ \E r \in Run : Agent(r)
       \/ \E q \in Ask : Gate(q)

Spec == Init /\ [][Next]_vars

\* Every goroutine runs, the timers fire, a client that is connected reads, and
\* a send that waits for room in a channel gets it (its queue is first in, first
\* out).  Nothing makes a client answer, leave or cancel.
Fairness ==
    /\ \A s \in Socket :
         /\ WF_vars(~down /\ (ReadFails(s) \/ Shutdown(s) \/ Hangup(s)))
         /\ WF_vars(~down /\ (Deliver(s) \/ WriterQuits(s)))
         /\ WF_vars(~down /\ \E q \in Ask : TimesOut(s, q))
         /\ SF_vars(~down /\ Refused(s))
    /\ \A s \in Conn :
         /\ WF_vars(~down /\ (StartRun(s) \/ StoreCancel(s) \/ Forward(s) \/ TurnOver(s)
                                         \/ Chat(s) \/ ChatOver(s)))
         /\ SF_vars(~down /\ Send(s))
    /\ \A r \in Run :
         /\ WF_vars(~down /\ (RunEnds(r) \/ Finish(r) \/ Report(r)))
         /\ WF_vars(~down /\ \E q \in {r} \X Call : Decided(q) \/ Abandoned(q))
         /\ SF_vars(~down /\ \E q \in {r} \X Call : Request(q))

FairSpec == Spec /\ Fairness

-----------------------------------------------------------------------------
(* Properties.                                                             *)

InUse == {s \in Conn : reader[s] \notin {"out", "gone"}}

\* A call is let through only if the client of its own connection answered this
\* request so, or somebody answered "always"; nobody answers for a chat
\* (PermissionManager.check, routeDecision, runChat).
GrantedByTheClient ==
    \A q \in Ask : call[q] = "granted" =>
        \/ <<q, "allow_once">> \in said
        \/ \E p \in Ask : <<p, "allow_always">> \in said

\* Whoever finds a request pending (the reader, the timer, the shutdown) can
\* answer it without blocking, and nobody answers it after that: the channel has
\* one place (routeDecision, shutdown).
AnswersNeverBlock ==
    /\ \A s \in Conn : \A q \in pending[s] : reply[q] = <<>> /\ call[q] \in {"waiting", "aborted"}
    /\ \A s, t \in Conn : s # t => pending[s] \cap pending[t] = {}
    /\ \A q \in Ask : Len(reply[q]) <= 1

\* The manager counts the connections that use a session, and the sweep does not
\* take it from one of them (acquire, release, sweep; http-api.md:58).
KeptWhileInUse ==
    /\ entry = "open" => busy = Cardinality(InUse)
    /\ entry = "evicted" => InUse = {}

\* A run that is over is recorded as ended, unless the session was closed under it.
EndsAreRecorded ==
    \A r \in Run : phase[r] = "over" /\ recorded[r] = "running" => ~Journalled

\* The reader waits to send an error that the writer, gone, will never take.
Stuck(s) == reader[s] = "refusing" /\ ~writer[s] /\ Len(outbound[s]) = OutCap

\* A turn is answered with a final message, unless its client leaves.
TurnAnswered ==
    \A s \in Conn, r \in Run :
        at[s] = r ~> (r \in told[s] \/ ~here[s] \/ down)

\* A connection whose client has left is taken down and its session freed.
LeftIsReleased ==
    \A s \in Conn : (~here[s]) ~> (reader[s] = "gone" \/ down \/ (s \in Socket /\ Stuck(s)))

\* A call that asks is answered, by the client, the timer or the end of the
\* connection, unless that is how its client left.
AskedIsDecided ==
    \A q \in Ask : call[q] \in {"emitting", "waiting"} ~>
        \/ call[q] \notin {"emitting", "waiting"} \/ down
        \/ \E s \in Socket : at[s] = q[1] /\ Stuck(s)

\* "A run never waits forever on a human who left" (service.md:87).
NeverWaitsForever ==
    \A q \in Ask : call[q] \in {"emitting", "waiting"} ~> (call[q] \notin {"emitting", "waiting"} \/ down)
=============================================================================
