----------------------------- MODULE AgentLoop -----------------------------
(***************************************************************************)
(* The agent loop of src/core/agent.go, over the turns of one session, as  *)
(* src/app/runtime.go (ExecuteIn) starts and ends them.  A turn asks the   *)
(* model, runs the tools of its reply and asks again, until the model ends *)
(* the turn or something fails.  Between any two of its steps the turn may *)
(* be cancelled by the user or expire (max_duration).                      *)
(*                                                                         *)
(* The hooks, the model and the tools are outside: their outcome is a      *)
(* choice.  A message is what the provider looks at: its role, the calls   *)
(* of a reply, and which call of the last reply a result answers.          *)
(***************************************************************************)
EXTENDS Naturals, Sequences, FiniteSets

CONSTANTS
    Tool,            \* names a model may call
    Unknown,         \* those of them without an executor
    Safe,            \* those of risk "none"
    FinalTool,       \* the tool that carries the structured output, or NoTool
    NoTool,
    Reply,           \* replies the provider may send
    MaxIterations,   \* Agent.maxIterations
    MaxTurns         \* bound: turns of the session

StopReason == {"end_turn", "tool_use", "max_tokens"}

\* A reply of any stop reason may carry calls: the adapters (src/llm) turn every reason they do
\* not know into "end_turn" and keep the calls.
ASSUME AgentAssumption ==
    /\ Unknown \subseteq Tool /\ Safe \subseteq Tool
    /\ FinalTool \in Tool \cup {NoTool} /\ NoTool \notin Tool
    /\ Reply \subseteq [stop : StopReason, calls : Seq(Tool)]
    /\ MaxIterations \in Nat \ {0} /\ MaxTurns \in Nat

VARIABLES
    pc,         \* where the turn stands
    ctx,        \* its context
    iter,       \* model calls made in this turn
    turns,      \* turns started
    memory,     \* the session's messages
    saved,      \* as the store has them
    outcome,    \* of the last turn
    output,     \* what the last turn captured for the final tool
    cur,        \* the call the gate, or the sequential phase, has come to
    pending,    \* calls the gate let through
    running,    \* calls whose tool is executing
    started,    \* history: calls whose tool was executed
    denied,     \* history: calls a hook or the gate refused
    result      \* what each call of the reply came to

turnVars    == <<pc, ctx, iter, turns>>
sessionVars == <<memory, saved, outcome, output>>
toolVars    == <<cur, pending, running, started, denied, result>>
vars        == <<turnVars, sessionVars, toolVars>>

InTools == {"gate", "ask", "spawn", "wait", "serial", "fill"}
PC      == {"idle", "top", "send"} \cup InTools
Kind    == {"none", "refused", "done", "cancelled"}

UserMessage  == [role |-> "user"]
Assistant(r) == [role |-> "assistant", stop |-> r.stop, calls |-> r.calls]
Result(i)    == [role |-> "tool", call |-> i]

Message ==
    {UserMessage} \cup {Assistant(r) : r \in Reply} \cup [role : {"tool"}, call : Nat]

TypeOK ==
    /\ pc \in PC
    /\ ctx \in {"live", "cancelled", "expired"}
    /\ iter \in 0..MaxIterations
    /\ turns \in 0..MaxTurns
    /\ memory \in Seq(Message)
    /\ saved \in Seq(Message)
    /\ outcome \in {"none", "ok", "cancelled", "error"}
    /\ output \in {"none", "valid"}
    /\ cur \in Nat
    /\ pending \in SUBSET Nat
    /\ running \in SUBSET Nat
    /\ started \in SUBSET Nat
    /\ denied \in SUBSET Nat
    /\ result \in Seq(Kind)

Init ==
    /\ pc = "idle" /\ ctx = "live" /\ iter = 0 /\ turns = 0
    /\ memory = <<>> /\ saved = <<>> /\ outcome = "none" /\ output = "none"
    /\ cur = 1 /\ pending = {} /\ running = {} /\ started = {} /\ denied = {} /\ result = <<>>
-----------------------------------------------------------------------------
(***************************************************************************)
(* A turn begins with the user's message and ends with an outcome.  The    *)
(* session is saved only if the turn ended well or was cancelled: an error *)
(* leaves the messages in memory and the file as it was.                   *)
(***************************************************************************)
StartTurn ==
    /\ pc = "idle"
    /\ turns < MaxTurns
    /\ pc' = "top" /\ ctx' = "live" /\ iter' = 0 /\ turns' = turns + 1
    /\ memory' = Append(memory, UserMessage)
    /\ outcome' = "none" /\ output' = "none"
    /\ UNCHANGED <<saved, toolVars>>

Finish(m, how) ==
    /\ pc' = "idle"
    /\ memory' = m
    /\ saved' = IF how = "error" THEN saved ELSE m
    /\ outcome' = how

\* The loop goes round with the messages m.
Again(m) ==
    /\ pc' = "top"
    /\ memory' = m
    /\ UNCHANGED <<saved, outcome>>

\* The turn fails, with an error or with that of its cancelled context.
Fail ==
    \/ Finish(memory, "error")
    \/ ctx = "cancelled" /\ Finish(memory, "cancelled")

\* A hook before the model call, or before the context's compaction, fails; or the
\* iterations are used up.
GiveUp ==
    /\ pc = "top"
    /\ Fail
    /\ UNCHANGED <<ctx, iter, turns, output, toolVars>>

\* Mutant: one iteration too many.
MutantAsk ==
    /\ pc = "top"
    /\ iter <= MaxIterations
    /\ pc' = "send"
    /\ iter' = iter + 1
    /\ UNCHANGED <<ctx, turns, sessionVars, toolVars>>

\* A request to the model, after the hooks.
Ask ==
    /\ pc = "top"
    /\ iter < MaxIterations
    /\ pc' = "send"
    /\ iter' = iter + 1
    /\ UNCHANGED <<ctx, turns, sessionVars, toolVars>>

\* The model call fails, of itself or by the context, or the hook after it does: a reply
\* already received is dropped.
ModelFails ==
    /\ pc = "send"
    /\ Fail
    /\ UNCHANGED <<ctx, iter, turns, output, toolVars>>
-----------------------------------------------------------------------------
(***************************************************************************)
(* A reply is added to memory, whatever is then done with it.              *)
(***************************************************************************)
Add(r) == Append(memory, Assistant(r))

\* Mutant: an answer in free text ends the turn even if a structured output is due.
MutantEndTurn(r) ==
    /\ pc = "send"
    /\ r.stop = "end_turn"
    /\ Finish(Add(r), "ok")
    /\ UNCHANGED <<ctx, iter, turns, output, toolVars>>

\* The model is done; if a structured output is due, it is told so and asked again.  Calls the
\* reply may have are not looked at.
EndTurn(r) ==
    /\ pc = "send"
    /\ r.stop = "end_turn"
    /\ IF FinalTool = NoTool THEN Finish(Add(r), "ok")
                             ELSE Again(Append(Add(r), UserMessage))
    /\ UNCHANGED <<ctx, iter, turns, output, toolVars>>

Cut(r) ==
    /\ pc = "send"
    /\ r.stop = "max_tokens"
    /\ Finish(Add(r), "error")
    /\ UNCHANGED <<ctx, iter, turns, output, toolVars>>

IsFinal(r) == \E i \in 1..Len(r.calls) : r.calls[i] = FinalTool

\* The call findTollCall finds.
FinalCall(r) == CHOOSE i \in 1..Len(r.calls) :
    /\ r.calls[i] = FinalTool
    /\ \A j \in 1..(i - 1) : r.calls[j] # FinalTool

\* The structured output: only its own call is answered, the others of the reply are not
\* looked at.  Valid, it ends the turn; invalid, the model is asked again.
CaptureOutput(r) ==
    /\ pc = "send"
    /\ r.stop = "tool_use" /\ IsFinal(r)
    /\ LET m == Append(Add(r), Result(FinalCall(r)))
       IN  \/ Finish(m, "ok") /\ output' = "valid"
           \/ Again(m) /\ UNCHANGED output
    /\ UNCHANGED <<ctx, iter, turns, toolVars>>

\* executeTools begins.
CallTools(r) ==
    /\ pc = "send"
    /\ r.stop = "tool_use" /\ ~IsFinal(r)
    /\ pc' = "gate"
    /\ memory' = Add(r)
    /\ result' = [i \in 1..Len(r.calls) |-> "none"]
    /\ UNCHANGED <<ctx, iter, turns, saved, outcome, output, cur, pending, running, started, denied>>

Receive == \E r \in Reply : EndTurn(r) \/ Cut(r) \/ CaptureOutput(r) \/ CallTools(r)
-----------------------------------------------------------------------------
(***************************************************************************)
(* executeTools, first phase: the hooks and the permission gate, call by   *)
(* call, while the context lives.                                          *)
(***************************************************************************)
\* The calls being worked on: those of the reply that ends the memory.
Batch == memory[Len(memory)].calls
Calls == 1..Len(Batch)

IsSafe(i) == Batch[i] \in Safe

\* The call under the gate, as long as the context lives.
AtGate ==
    /\ pc = "gate"
    /\ ctx = "live"
    /\ cur \in Calls

Refused ==
    /\ pc' = "gate"
    /\ cur' = cur + 1
    /\ result' = [result EXCEPT ![cur] = "refused"]
    /\ denied' = denied \cup {cur}
    /\ UNCHANGED <<ctx, iter, turns, sessionVars, running, started>>

LetThrough ==
    /\ pc' = "gate"
    /\ cur' = cur + 1
    /\ pending' = pending \cup {cur}
    /\ UNCHANGED <<ctx, iter, turns, sessionVars, running, started, denied, result>>

\* Mutant: the refusal is written down, and the call goes on all the same.
MutantRefuse ==
    /\ AtGate
    /\ Refused
    /\ pending' = pending \cup {cur}

\* There is no such tool, or a rule, a budget or the policy forbids the call.
Refuse ==
    /\ AtGate
    /\ Refused
    /\ UNCHANGED pending

\* Allowed by the policy, safe, or always allowed.
Pass ==
    /\ AtGate
    /\ Batch[cur] \notin Unknown
    /\ LetThrough

RequestPermission ==
    /\ AtGate
    /\ Batch[cur] \notin Unknown /\ ~IsSafe(cur)
    /\ pc' = "ask"
    /\ UNCHANGED <<ctx, iter, turns, sessionVars, toolVars>>

Permit == pc = "ask" /\ LetThrough

Deny == pc = "ask" /\ Refused /\ UNCHANGED pending

\* Mutant: only the deadline frees a request nobody answers.
MutantAskCancelled ==
    /\ pc = "ask"
    /\ ctx = "expired"
    /\ Refused
    /\ UNCHANGED pending

\* The end of the context frees a request nobody answers.
AskCancelled ==
    /\ pc = "ask"
    /\ ctx # "live"
    /\ Refused
    /\ UNCHANGED pending

GateDone ==
    /\ pc = "gate"
    /\ cur \notin Calls \/ ctx # "live"
    /\ pc' = "spawn"
    /\ UNCHANGED <<ctx, iter, turns, sessionVars, toolVars>>
-----------------------------------------------------------------------------
(***************************************************************************)
(* Then the safe tools, in parallel, and when the last has returned the    *)
(* others one by one, in the order of the reply.                           *)
(***************************************************************************)
Execute(S) ==
    /\ running' = S
    /\ started' = started \cup S
    /\ UNCHANGED <<ctx, iter, turns, sessionVars, cur, pending, denied, result>>

Spawn ==
    /\ pc = "spawn"
    /\ pc' = "wait"
    /\ Execute(IF ctx = "live" THEN {i \in pending : IsSafe(i)} ELSE {})

\* Mutant: the result of an interrupted tool is not kept.
MutantReturns(i) ==
    /\ i \in running
    /\ running' = running \ {i}
    /\ \/ result' = [result EXCEPT ![i] = "done"]
       \/ ctx = "cancelled" /\ UNCHANGED result
    /\ UNCHANGED <<turnVars, sessionVars, cur, pending, started, denied>>

\* A tool returns, well or with an error, or gives up because the turn was cancelled.
Returns(i) ==
    /\ i \in running
    /\ running' = running \ {i}
    /\ \/ result' = [result EXCEPT ![i] = "done"]
       \/ ctx = "cancelled" /\ result' = [result EXCEPT ![i] = "cancelled"]
    /\ UNCHANGED <<turnVars, sessionVars, cur, pending, started, denied>>

\* Mutant: the parallel tools are not waited for.
MutantAllReturned ==
    /\ pc = "wait"
    /\ pc' = "serial"
    /\ UNCHANGED <<ctx, iter, turns, sessionVars, toolVars>>

AllReturned ==
    /\ pc = "wait"
    /\ running = {}
    /\ pc' = "serial"
    /\ UNCHANGED <<ctx, iter, turns, sessionVars, toolVars>>

\* Risky calls still to be run.
Left == {i \in pending : ~IsSafe(i) /\ result[i] = "none"}

\* The turn itself runs the risky tools: it goes on when the one it called has returned.
AtSerial == pc = "serial" /\ \A i \in running : IsSafe(i)

RunNext ==
    /\ AtSerial
    /\ ctx = "live"
    /\ \E i \in Left :
        /\ \A j \in Left : i <= j
        /\ Execute(running \cup {i})
    /\ UNCHANGED pc

SerialDone ==
    /\ AtSerial
    /\ Left = {} \/ ctx # "live"
    /\ pc' = "fill"
    /\ UNCHANGED <<ctx, iter, turns, sessionVars, toolVars>>

\* What executeTools returns: the error of the context, if it has one.
Leave(m) ==
    /\ CASE ctx = "live"      -> Again(m)
         [] ctx = "cancelled" -> Finish(m, "cancelled")
         [] ctx = "expired"   -> Finish(m, "error")
    /\ cur' = 1 /\ pending' = {} /\ started' = {} /\ denied' = {} /\ result' = <<>>
    /\ UNCHANGED <<ctx, iter, turns, output, running>>

\* Mutant: only the calls that came to something are answered.
MutantWriteResults ==
    /\ pc = "fill"
    /\ Leave(memory \o SelectSeq([i \in Calls |-> Result(i)], LAMBDA m : result[m.call] # "none"))

\* The calls that came to nothing are answered "cancelled"; every call is answered.
WriteResults ==
    /\ pc = "fill"
    /\ Leave(memory \o [i \in Calls |-> Result(i)])
-----------------------------------------------------------------------------
Interrupt ==
    /\ pc # "idle"
    /\ ctx = "live"
    /\ ctx' \in {"cancelled", "expired"}
    /\ UNCHANGED <<pc, iter, turns, sessionVars, toolVars>>

\* The session is loaded again: by another process, or switched away from and back.
Reload ==
    /\ pc = "idle"
    /\ memory' = saved
    /\ UNCHANGED <<turnVars, saved, outcome, output, toolVars>>

\* What the turn does of itself, once the model, the tools and the user have answered.
Proceed ==
    \/ GiveUp \/ Ask \/ ModelFails \/ Receive
    \/ Refuse \/ Pass \/ RequestPermission \/ AskCancelled \/ GateDone
    \/ Spawn \/ AllReturned \/ RunNext \/ SerialDone \/ WriteResults

ToolReturns == \E i \in running : Returns(i)

Next ==
    \/ StartTurn \/ Proceed \/ ToolReturns
    \/ Permit \/ Deny
    \/ Interrupt \/ Reload

Spec == Init /\ [][Next]_vars

\* The model answers or fails and the tools return (both have timeouts); nobody need answer
\* a permission request.
FairSpec == Spec /\ WF_vars(Proceed) /\ WF_vars(ToolReturns)
-----------------------------------------------------------------------------
(***************************************************************************)
(* Properties.                                                             *)
(***************************************************************************)
\* The calls of a reply that get an answer: none of a reply cut by the token limit or of one that
\* ends the turn, only the final tool's if it is called, all of them otherwise.
Answered(r) ==
    IF r.stop # "tool_use" THEN <<>>
    ELSE IF IsFinal(r) THEN <<FinalCall(r)>>
    ELSE [i \in 1..Len(r.calls) |-> i]

IsReply(m, i)  == i \in 1..Len(m) /\ m[i].role = "assistant"
IsAnswer(m, i) == m[i].role = "tool"

\* Every reply is followed by the answers to those calls, once each and in order, and there
\* are no other answers.
WellAnswered(m) ==
    /\ \A i \in 1..Len(m) : IsReply(m, i) =>
        LET a == Answered(m[i])
        IN  /\ i + Len(a) <= Len(m)
            /\ \A k \in 1..Len(a) : m[i + k] = Result(a[k])
    /\ \A i \in 1..Len(m) : IsAnswer(m, i) =>
        \E j \in 1..(i - 1) : IsReply(m, j) /\ i - j <= Len(Answered(m[j]))

\* Whatever fails, is refused or is interrupted, and however often the session is reloaded,
\* the provider is never shown a result without its call, two results of a call, or a call
\* without result but for the three cases above.
AnsweredInOrder ==
    /\ WellAnswered(saved)
    /\ pc \notin InTools => WellAnswered(memory)

\* What a hook, the policy or the user refused is not executed.
RefusedNeverRuns == denied \cap started = {}

\* A tool that writes or executes runs alone, after all the safe ones of the reply and those
\* that come before it.
RiskyAlone ==
    pc \in InTools => \A i \in running : ~IsSafe(i) =>
        /\ running = {i}
        /\ \A j \in pending : IsSafe(j) \/ j < i => result[j] # "none"

\* When the results are written, a call that was executed has the result of its execution,
\* and one reported as refused or as cancelled before it ran was not executed.
ResultsAreTrue ==
    pc = "fill" => \A i \in Calls : i \in started <=> result[i] \in {"done", "cancelled"}

\* A turn that ends well has the structured output the manifest declares
\* (docs/content/docs/guides/structured-output.md:31).
OutputIsValid == outcome = "ok" /\ FinalTool # NoTool => output = "valid"

\* A turn ends, unless it waits for a permission nobody gives or denies; a turn that was
\* cancelled, or whose time is over, ends even so.
TurnEnds == []<>(pc = "idle" \/ (pc = "ask" /\ ctx = "live"))

\* src/core/agent.go:285: for every tool_use not answered, a tool_result is added to memory.
EveryCallAnswered ==
    pc = "send" => \A i \in 1..Len(memory) : IsReply(memory, i) =>
        \A k \in 1..Len(memory[i].calls) :
            \E j \in (i + 1)..Len(memory) : memory[j] = Result(k)
=============================================================================
