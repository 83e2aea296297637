-------------------------- MODULE AgentLoopProofs --------------------------
(***************************************************************************)
(* Theorems about AgentLoop, for any tools, replies and bounds.            *)
(***************************************************************************)
EXTENDS AgentLoop, SequenceTheorems, WellFoundedInduction, TLAPS

\* The final tool's first call in a reply that has one.
LEMMA FinalCallIsACall ==
    ASSUME NEW r \in Reply, IsFinal(r)
    PROVE  FinalCall(r) \in 1..Len(r.calls)
<1> DEFINE T == {i \in 1..Len(r.calls) : r.calls[i] = FinalTool}
           R == OpToRel(<, Nat)
<1>1. r.calls \in Seq(Tool)
  BY AgentAssumption
<1>2. T \subseteq Nat /\ T # {}
  BY <1>1 DEF IsFinal
<1>3. \E i \in T : \A j \in T : <<j, i>> \notin R
  <2> HIDE DEF T, R
  <2> QED BY <1>2, NatLessThanWellFounded, WFMin DEF R
<1>4. PICK i \in T : \A j \in T : ~(j < i)
  BY <1>2, <1>3 DEF OpToRel
<1>5. /\ i \in 1..Len(r.calls)
      /\ r.calls[i] = FinalTool
      /\ \A j \in 1..(i - 1) : r.calls[j] # FinalTool
  BY <1>1, <1>4
<1> QED
  BY <1>5 DEF FinalCall

\* A reply read back from memory has the answers of the reply.
LEMMA AnsweredOfReply ==
    ASSUME NEW r \in Reply
    PROVE  /\ Answered(Assistant(r)) = Answered(r)
           /\ Answered(r) \in Seq(Nat)
           /\ r.stop # "tool_use" => Len(Answered(r)) = 0
           /\ r.stop = "tool_use" /\ IsFinal(r) => Answered(r) = <<FinalCall(r)>>
           /\ r.stop = "tool_use" /\ ~IsFinal(r) => Answered(r) = [i \in 1..Len(r.calls) |-> i]
<1>1. Assistant(r).stop = r.stop /\ Assistant(r).calls = r.calls
  BY DEF Assistant
<1>2. IsFinal(Assistant(r)) = IsFinal(r) /\ FinalCall(Assistant(r)) = FinalCall(r)
  BY <1>1, Zenon DEF IsFinal, FinalCall
<1>3. Answered(Assistant(r)) = Answered(r)
  BY <1>1, <1>2, Zenon DEF Answered
<1>4. r.calls \in Seq(Tool) /\ Len(r.calls) \in Nat
  BY AgentAssumption
<1>5. CASE r.stop # "tool_use"
  BY <1>3, <1>5 DEF Answered
<1>6. CASE r.stop = "tool_use" /\ IsFinal(r)
  <2>1. FinalCall(r) \in Nat
    BY <1>4, <1>6, FinalCallIsACall
  <2> QED
    BY <1>3, <1>6, <2>1 DEF Answered
<1>7. CASE r.stop = "tool_use" /\ ~IsFinal(r)
  <2>1. [i \in 1..Len(r.calls) |-> i] \in Seq(Nat)
    BY <1>4
  <2> QED
    BY <1>3, <1>7, <2>1 DEF Answered
<1> QED
  BY <1>5, <1>6, <1>7

LEMMA MessageTypes ==
    /\ UserMessage \in Message
    /\ \A r \in Reply : Assistant(r) \in Message
    /\ \A i \in Nat : Result(i) \in Message
  BY DEF Message, UserMessage, Assistant, Result

\* What the messages are by their role.
LEMMA Roles ==
    /\ UserMessage.role = "user"
    /\ \A r \in Reply : Assistant(r).role = "assistant"
    /\ \A i : Result(i).role = "tool"
    /\ \A m \in Message : m.role = "assistant" => \E r \in Reply : m = Assistant(r)
  BY DEF Message, UserMessage, Assistant, Result

\* A user message after a well answered conversation.
LEMMA UserKeepsAnswers ==
    ASSUME NEW m \in Seq(Message), WellAnswered(m)
    PROVE  /\ Append(m, UserMessage) \in Seq(Message)
           /\ WellAnswered(Append(m, UserMessage))
<1> DEFINE n == Append(m, UserMessage)
<1>1. /\ n \in Seq(Message) /\ Len(n) = Len(m) + 1 /\ Len(m) \in Nat
      /\ \A i \in 1..Len(m) : n[i] = m[i]
      /\ n[Len(m) + 1] = UserMessage
  BY MessageTypes, AppendProperties
<1>2. \A i \in 1..Len(m) : m[i].role = "assistant" => Len(Answered(m[i])) \in Nat
  BY Roles, AnsweredOfReply
<1> HIDE DEF n
<1>3. ASSUME NEW i \in 1..Len(n), IsReply(n, i)
      PROVE  /\ i + Len(Answered(n[i])) <= Len(n)
             /\ \A k \in 1..Len(Answered(n[i])) : n[i + k] = Result(Answered(n[i])[k])
  <2>1. i \in 1..Len(m) /\ IsReply(m, i) /\ n[i] = m[i]
    BY <1>1, <1>3, Roles DEF IsReply
  <2>2. /\ i + Len(Answered(m[i])) <= Len(m)
        /\ \A k \in 1..Len(Answered(m[i])) : m[i + k] = Result(Answered(m[i])[k])
    BY <2>1 DEF WellAnswered
  <2>3. Len(Answered(m[i])) \in Nat
    BY <1>2, <2>1 DEF IsReply
  <2>4. ASSUME NEW k \in 1..Len(Answered(m[i])) PROVE n[i + k] = m[i + k]
    <3>1. i + k \in 1..Len(m)
      BY <1>1, <2>1, <2>2, <2>3
    <3> QED
      BY <1>1, <3>1
  <2>5. i + Len(Answered(m[i])) <= Len(n)
    BY <1>1, <2>2, <2>3
  <2> QED
    BY <2>1, <2>2, <2>4, <2>5
<1>4. ASSUME NEW i \in 1..Len(n), IsAnswer(n, i)
      PROVE  \E j \in 1..(i - 1) : IsReply(n, j) /\ i - j <= Len(Answered(n[j]))
  <2>1. i \in 1..Len(m) /\ IsAnswer(m, i)
    BY <1>1, <1>4, Roles DEF IsAnswer
  <2>2. PICK j \in 1..(i - 1) : IsReply(m, j) /\ i - j <= Len(Answered(m[j]))
    BY <2>1 DEF WellAnswered
  <2> QED
    BY <1>1, <2>1, <2>2 DEF IsReply
<1> QED
  BY <1>1, <1>3, <1>4 DEF WellAnswered, n

\* n is the message e and the messages a put after m.
Extended(m, e, a, n) ==
    /\ n \in Seq(Message)
    /\ Len(n) = Len(m) + 1 + Len(a)
    /\ \A i \in 1..Len(m) : n[i] = m[i]
    /\ n[Len(m) + 1] = e
    /\ \A k \in 1..Len(a) : n[Len(m) + 1 + k] = a[k]

LEMMA AppendThenConcat ==
    ASSUME NEW m \in Seq(Message), NEW e \in Message, NEW a \in Seq(Message)
    PROVE  Extended(m, e, a, Append(m, e) \o a)
<1>1. PICK p \in Seq(Message) : p = Append(m, e)
  BY AppendProperties
<1>2. /\ Len(p) = Len(m) + 1 /\ Len(m) \in Nat /\ Len(a) \in Nat
      /\ \A i \in 1..Len(m) : p[i] = m[i]
      /\ p[Len(m) + 1] = e
  BY <1>1, AppendProperties
<1>3. PICK n : n = p \o a
  OBVIOUS
<1>4. /\ n \in Seq(Message)
      /\ Len(n) = Len(p) + Len(a)
      /\ \A i \in 1..(Len(p) + Len(a)) : n[i] = IF i <= Len(p) THEN p[i] ELSE a[i - Len(p)]
  BY <1>3, ConcatProperties, Zenon
<1>5. \A i \in 1..(Len(m) + 1) : n[i] = p[i]
  BY <1>2, <1>4
<1>6. ASSUME NEW k \in 1..Len(a) PROVE n[Len(m) + 1 + k] = a[k]
  <2>1. /\ Len(m) + 1 + k \in 1..(Len(p) + Len(a))
        /\ ~(Len(m) + 1 + k <= Len(p)) /\ Len(m) + 1 + k - Len(p) = k
    BY <1>2
  <2> QED
    BY <1>4, <2>1
<1>7. Extended(m, e, a, n)
  BY <1>2, <1>4, <1>5, <1>6 DEF Extended
<1> QED
  BY <1>1, <1>3, <1>7

\* The messages a answer the reply r.
Answers(a, r) ==
    /\ a \in Seq(Message)
    /\ Len(a) = Len(Answered(r))
    /\ \A k \in 1..Len(a) : a[k] = Result(Answered(r)[k])

\* The answers of the reply at i are in place, up to the end of the conversation.
AnswersInPlace(m, i) ==
    /\ i + Len(Answered(m[i])) <= Len(m)
    /\ \A k \in 1..Len(Answered(m[i])) : m[i + k] = Result(Answered(m[i])[k])

\* The answer at i belongs to a reply.
BelongsToReply(m, i) ==
    \E j \in 1..(i - 1) : IsReply(m, j) /\ i - j <= Len(Answered(m[j]))

LEMMA WellAnsweredParts ==
    ASSUME NEW m
    PROVE  WellAnswered(m) <=> \A i \in 1..Len(m) :
              /\ IsReply(m, i) => AnswersInPlace(m, i)
              /\ IsAnswer(m, i) => BelongsToReply(m, i)
  BY DEF WellAnswered, AnswersInPlace, BelongsToReply

\* A reply and its answers after a well answered conversation.
LEMMA ExchangeKeepsAnswers ==
    ASSUME NEW m \in Seq(Message), WellAnswered(m), NEW r \in Reply,
           NEW a, Answers(a, r), NEW n, Extended(m, Assistant(r), a, n)
    PROVE  WellAnswered(n)
<1>1. PICK top \in Nat : top = Len(m) + 1
  OBVIOUS
<1>2. /\ Len(m) \in Nat /\ Len(a) \in Nat
      /\ Len(n) = top + Len(a)
      /\ \A i \in 1..Len(m) : n[i] = m[i]
      /\ n[top] = Assistant(r)
      /\ \A k \in 1..Len(a) : n[top + k] = a[k]
  BY <1>1 DEF Extended, Answers
<1>3. \A i \in 1..Len(m) : m[i].role = "assistant" => Len(Answered(m[i])) \in Nat
  BY Roles, AnsweredOfReply
<1>4. Answered(n[top]) = Answered(r) /\ Len(Answered(n[top])) = Len(a)
  BY <1>2, AnsweredOfReply DEF Answers
<1>5. ASSUME NEW i \in 1..Len(n), IsReply(n, i)
      PROVE  AnswersInPlace(n, i)
  <2>1. CASE i \in 1..Len(m)
    <3>1. IsReply(m, i) /\ n[i] = m[i]
      BY <1>2, <1>5, <2>1 DEF IsReply
    <3>2. /\ i + Len(Answered(m[i])) <= Len(m)
          /\ \A k \in 1..Len(Answered(m[i])) : m[i + k] = Result(Answered(m[i])[k])
      BY <2>1, <3>1, WellAnsweredParts DEF AnswersInPlace
    <3>3. Len(Answered(m[i])) \in Nat
      BY <1>3, <2>1, <3>1 DEF IsReply
    <3>4. ASSUME NEW k \in 1..Len(Answered(m[i])) PROVE n[i + k] = m[i + k]
      <4>1. i + k \in 1..Len(m)
        BY <1>2, <2>1, <3>2, <3>3
      <4> QED
        BY <1>2, <4>1
    <3>5. i + Len(Answered(m[i])) <= Len(n)
      BY <1>1, <1>2, <2>1, <3>2, <3>3
    <3> QED
      BY <3>1, <3>2, <3>4, <3>5 DEF AnswersInPlace
  <2>2. CASE i = top
    <3>1. ASSUME NEW k \in 1..Len(a) PROVE n[i + k] = Result(Answered(n[i])[k])
      <4>1. a[k] = Result(Answered(r)[k])
        BY DEF Answers
      <4> QED
        BY <1>2, <1>4, <2>2, <4>1
    <3>2. i + Len(a) <= Len(n)
      BY <1>1, <1>2, <2>2
    <3> QED
      BY <1>4, <2>2, <3>1, <3>2 DEF AnswersInPlace
  <2>3. CASE i > top
    <3>1. i - top \in 1..Len(a) /\ i = top + (i - top)
      BY <1>1, <1>2, <2>3
    <3>2. n[i] = a[i - top]
      BY <1>2, <3>1
    <3>3. a[i - top].role = "tool"
      BY <3>1, Roles DEF Answers
    <3> QED
      BY <1>5, <3>2, <3>3 DEF IsReply
  <2>4. i \in 1..Len(m) \/ i = top \/ i > top
    BY <1>1, <1>2
  <2> QED
    BY <2>1, <2>2, <2>3, <2>4
<1>6. ASSUME NEW i \in 1..Len(n), IsAnswer(n, i)
      PROVE  BelongsToReply(n, i)
  <2>1. CASE i \in 1..Len(m)
    <3>1. IsAnswer(m, i)
      BY <1>2, <1>6, <2>1 DEF IsAnswer
    <3>2. PICK j \in 1..(i - 1) : IsReply(m, j) /\ i - j <= Len(Answered(m[j]))
      BY <2>1, <3>1, WellAnsweredParts DEF BelongsToReply
    <3>3. j \in 1..Len(m) /\ j \in 1..Len(n) /\ n[j] = m[j]
      BY <1>1, <1>2, <2>1
    <3> QED
      BY <3>2, <3>3 DEF IsReply, BelongsToReply
  <2>2. CASE i = top
    BY <1>2, <1>6, <2>2, Roles DEF IsAnswer
  <2>3. CASE i > top
    <3>1. IsReply(n, top)
      BY <1>1, <1>2, Roles DEF IsReply
    <3>2. top \in 1..(i - 1) /\ i - top <= Len(a)
      BY <1>1, <1>2, <2>3
    <3> QED
      BY <1>4, <3>1, <3>2 DEF BelongsToReply
  <2>4. i \in 1..Len(m) \/ i = top \/ i > top
    BY <1>1, <1>2
  <2> QED
    BY <2>1, <2>2, <2>3, <2>4
<1> QED
  BY <1>5, <1>6, WellAnsweredParts
-----------------------------------------------------------------------------
(***************************************************************************)
(* Types, and what executeTools keeps: it works on a reply with calls, the *)
(* last message of the memory.                                             *)
(***************************************************************************)
\* Reply r is the one whose tools are run.
Works(r) ==
    /\ r \in Reply
    /\ r.stop = "tool_use" /\ ~IsFinal(r)
    /\ memory # <<>>
    /\ memory[Len(memory)] = Assistant(r)

\* A tool runs in its own phase only.
RunningOK ==
    /\ pc \notin {"wait", "serial"} => running = {}
    /\ pc = "wait" => \A i \in running : IsSafe(i)
    /\ pc = "serial" => \A i \in running : ~IsSafe(i)

ToolsOK ==
    /\ pc \notin InTools =>
          pending = {} /\ started = {} /\ denied = {} /\ result = <<>> /\ cur = 1
    /\ pc \in InTools =>
          /\ \E r : Works(r)
          /\ Len(result) = Len(Batch)
          /\ pending \subseteq Calls /\ running \subseteq Calls
          /\ started \subseteq Calls /\ denied \subseteq Calls
    /\ pc = "ask" => cur \in Calls
    /\ RunningOK

TypeInv == TypeOK /\ ToolsOK

LEMMA BatchType ==
    ASSUME NEW r, Works(r)
    PROVE  /\ Batch = r.calls
           /\ Batch \in Seq(Tool)
           /\ Len(Batch) \in Nat
<1>1. r.calls \in Seq(Tool)
  BY AgentAssumption DEF Works
<1> QED
  BY <1>1 DEF Works, Batch, Assistant

\* Writing down what a call came to.
LEMMA ResultTypes ==
    ASSUME TypeInv, pc \in InTools, NEW i \in Calls, NEW k \in Kind
    PROVE  /\ [result EXCEPT ![i] = k] \in Seq(Kind)
           /\ Len([result EXCEPT ![i] = k]) = Len(result)
           /\ i \in 1..Len(result)
<1>1. Len(result) = Len(Batch) /\ result \in Seq(Kind)
  BY DEF TypeInv, TypeOK, ToolsOK
<1>2. i \in 1..Len(result)
  BY <1>1 DEF Calls
<1> QED
  BY <1>1, <1>2, ExceptSeq

\* Memory grows by messages.
LEMMA MemoryTypes ==
    ASSUME memory \in Seq(Message)
    PROVE  /\ Append(memory, UserMessage) \in Seq(Message)
           /\ \A r \in Reply : /\ Add(r) \in Seq(Message)
                               /\ Append(Add(r), UserMessage) \in Seq(Message)
                               /\ IsFinal(r) => Append(Add(r), Result(FinalCall(r))) \in Seq(Message)
<1>1. Append(memory, UserMessage) \in Seq(Message)
  BY MessageTypes
<1>2. ASSUME NEW r \in Reply
      PROVE  /\ Add(r) \in Seq(Message)
             /\ Append(Add(r), UserMessage) \in Seq(Message)
             /\ IsFinal(r) => Append(Add(r), Result(FinalCall(r))) \in Seq(Message)
  <2>1. Add(r) \in Seq(Message)
    BY <1>2, MessageTypes DEF Add
  <2>2. ASSUME IsFinal(r) PROVE Result(FinalCall(r)) \in Message
    <3>1. r.calls \in Seq(Tool)
      BY AgentAssumption
    <3> QED
      BY <2>2, <3>1, FinalCallIsACall, MessageTypes
  <2> QED
    BY <2>1, <2>2, MessageTypes
<1> QED
  BY <1>1, <1>2

LEMMA InitTypeInv == Init => TypeInv
  BY AgentAssumption DEF Init, TypeInv, TypeOK, ToolsOK, RunningOK, InTools, PC

\* A turn that ends or goes round, from outside executeTools.
LEMMA OutsideTools ==
    ASSUME TypeInv, pc \notin InTools, NEW m \in Seq(Message),
           \/ \E how \in {"ok", "cancelled", "error"} : Finish(m, how)
           \/ Again(m),
           UNCHANGED <<ctx, iter, turns, toolVars>>, output' \in {"none", "valid"}
    PROVE  TypeInv'
  BY DEF TypeInv, TypeOK, ToolsOK, RunningOK, InTools, PC, Finish, Again, toolVars

LEMMA NextTypeInv == TypeInv /\ [Next]_vars => TypeInv'
<1> SUFFICES ASSUME TypeInv, [Next]_vars PROVE TypeInv'
  OBVIOUS
<1> USE DEF TypeInv
<1>0. memory \in Seq(Message) /\ saved \in Seq(Message) /\ output \in {"none", "valid"}
  BY DEF TypeOK
<1>1. CASE StartTurn
  BY <1>1, AgentAssumption, MemoryTypes DEF StartTurn, TypeOK, ToolsOK, RunningOK, InTools, PC, toolVars
<1>2. CASE GiveUp
  BY <1>0, <1>2, OutsideTools DEF GiveUp, Fail, InTools
<1>3. CASE Ask
  BY <1>3, AgentAssumption DEF Ask, TypeOK, ToolsOK, RunningOK, InTools, PC, toolVars, sessionVars
<1>4. CASE ModelFails
  BY <1>0, <1>4, OutsideTools DEF ModelFails, Fail, InTools
<1>5. ASSUME NEW r \in Reply, EndTurn(r) PROVE TypeInv'
  BY <1>0, <1>5, OutsideTools, MemoryTypes DEF EndTurn, InTools
<1>6. ASSUME NEW r \in Reply, Cut(r) PROVE TypeInv'
  BY <1>0, <1>6, OutsideTools, MemoryTypes DEF Cut, InTools
<1>7. ASSUME NEW r \in Reply, CaptureOutput(r) PROVE TypeInv'
  BY <1>0, <1>7, OutsideTools, MemoryTypes DEF CaptureOutput, InTools
<1>8. ASSUME NEW r \in Reply, CallTools(r) PROVE TypeInv'
  <2>1. r.calls \in Seq(Tool) /\ Len(r.calls) \in Nat
    BY AgentAssumption
  <2>2. result' \in Seq(Kind) /\ Len(result') = Len(r.calls)
    BY <1>8, <2>1 DEF CallTools, Kind
  <2>3. memory' \in Seq(Message) /\ memory' # <<>> /\ memory'[Len(memory')] = Assistant(r)
    BY <1>0, <1>8, MessageTypes, AppendProperties DEF CallTools, Add
  <2>4. Works(r)'
    BY <1>8, <2>3 DEF Works, CallTools
  <2>5. Batch' = r.calls
    BY <2>3 DEF Batch, Assistant
  <2> QED
    BY <1>8, <2>2, <2>3, <2>4, <2>5 DEF CallTools, TypeOK, ToolsOK, RunningOK, InTools, PC
<1>9. ASSUME pc \in InTools, UNCHANGED <<sessionVars, ctx, iter, turns>>, pc' \in InTools,
             Len(result') = Len(result), result' \in Seq(Kind), cur' \in Nat,
             pending' \subseteq Calls, running' \subseteq Calls,
             started' \subseteq Calls, denied' \subseteq Calls, pc' = "ask" => cur' \in Calls,
             pc' \notin {"wait", "serial"} => running' = {},
             pc' = "wait" => \A i \in running' : IsSafe(i),
             pc' = "serial" => \A i \in running' : ~IsSafe(i)
      PROVE  TypeInv'
  <2>1. PICK r : Works(r)
    BY <1>9 DEF ToolsOK, RunningOK
  <2>2. Works(r)' /\ Batch' = Batch /\ Calls' = Calls /\ Calls \subseteq Nat
    BY <1>9, <2>1, BatchType DEF Works, Batch, Calls, sessionVars
  <2>3. RunningOK'
    BY <1>9, <2>2 DEF RunningOK, IsSafe
  <2> QED
    BY <1>9, <2>2, <2>3 DEF TypeOK, ToolsOK, RunningOK, InTools, PC, sessionVars
<1>10. CASE Refuse \/ Deny \/ AskCancelled
  <2>1. cur \in Calls /\ pc \in {"gate", "ask"} /\ Refused /\ UNCHANGED pending
    BY <1>10 DEF Refuse, Deny, AskCancelled, AtGate, ToolsOK
  <2>2. Len(result') = Len(result) /\ result' \in Seq(Kind)
    BY <2>1, ResultTypes DEF Refused, Kind, InTools
  <2>3. /\ pc \in InTools /\ pc' = "gate" /\ cur' \in Nat
        /\ UNCHANGED <<ctx, iter, turns, sessionVars, running, started, pending>>
        /\ denied' = denied \cup {cur} /\ running = {}
        /\ pending \subseteq Calls /\ started \subseteq Calls /\ denied \subseteq Calls
    BY <2>1 DEF Refused, TypeOK, ToolsOK, RunningOK, InTools
  <2> HIDE DEF TypeInv
  <2> QED
    BY <1>9, <2>1, <2>2, <2>3 DEF InTools
<1>11. CASE Pass \/ Permit
  <2>1. cur \in Calls /\ pc \in {"gate", "ask"} /\ LetThrough
    BY <1>11 DEF Pass, Permit, AtGate, ToolsOK
  <2>2. Len(result') = Len(result) /\ result' \in Seq(Kind)
    BY <2>1 DEF LetThrough, TypeOK
  <2>3. /\ pc \in InTools /\ pc' = "gate" /\ cur' \in Nat
        /\ UNCHANGED <<ctx, iter, turns, sessionVars, running, started, denied>>
        /\ pending' = pending \cup {cur} /\ running = {}
        /\ pending \subseteq Calls /\ started \subseteq Calls /\ denied \subseteq Calls
    BY <2>1 DEF LetThrough, TypeOK, ToolsOK, RunningOK, InTools
  <2> HIDE DEF TypeInv
  <2> QED
    BY <1>9, <2>1, <2>2, <2>3 DEF InTools
<1>12. CASE RequestPermission \/ GateDone \/ AllReturned \/ SerialDone
  BY <1>9, <1>12 DEF RequestPermission, GateDone, AllReturned, SerialDone, AtSerial, AtGate,
                     TypeOK, ToolsOK, RunningOK, InTools, toolVars
<1>13. CASE Spawn
  BY <1>9, <1>13 DEF Spawn, Execute, TypeOK, ToolsOK, RunningOK, InTools
<1>14. CASE RunNext
  BY <1>9, <1>14 DEF RunNext, Execute, AtSerial, Left, TypeOK, ToolsOK, RunningOK, InTools
<1>15. CASE ToolReturns
  <2>1. PICK i \in running : Returns(i)
    BY <1>15 DEF ToolReturns
  <2>2. pc \in {"wait", "serial"} /\ i \in Calls
    BY <2>1 DEF ToolsOK, RunningOK, InTools
  <2>3. Len(result') = Len(result) /\ result' \in Seq(Kind)
    BY <2>1, <2>2, ResultTypes DEF Returns, Kind, InTools
  <2> QED
    BY <1>9, <2>1, <2>2, <2>3 DEF Returns, TypeOK, ToolsOK, RunningOK, InTools, turnVars
<1>16. CASE WriteResults
  <2>1. PICK r : Works(r)
    BY <1>16 DEF WriteResults, ToolsOK, RunningOK, InTools
  <2>2. PICK m \in Seq(Message) : Leave(m)
    <3>1. [i \in Calls |-> Result(i)] \in Seq(Message)
      BY <2>1, BatchType, MessageTypes DEF Calls
    <3> QED
      BY <1>0, <1>16, <3>1, ConcatProperties DEF WriteResults
  <2>3. running = {}
    BY <1>16 DEF WriteResults, ToolsOK, RunningOK
  <2>4. \/ Again(m)
        \/ \E how \in {"cancelled", "error"} : Finish(m, how)
    BY <2>2 DEF Leave, TypeOK
  <2>5. pc' \in {"top", "idle"} /\ memory' = m
    BY <2>4 DEF Finish, Again
  <2>6. outcome' \in {"none", "ok", "cancelled", "error"} /\ saved' \in Seq(Message)
    BY <2>2, <2>4 DEF Finish, Again, TypeOK
  <2>7. /\ cur' = 1 /\ pending' = {} /\ started' = {} /\ denied' = {} /\ result' = <<>>
        /\ UNCHANGED <<ctx, iter, turns, output, running>>
    BY <2>2 DEF Leave
  <2>8. TypeOK'
    BY <2>2, <2>3, <2>5, <2>6, <2>7 DEF TypeOK, PC
  <2>9. ToolsOK'
    BY <2>3, <2>5, <2>7 DEF ToolsOK, RunningOK, InTools
  <2> QED
    BY <2>8, <2>9
<1>17. ASSUME UNCHANGED <<pc, iter, turns, sessionVars, toolVars>>,
              ctx' \in {"live", "cancelled", "expired"}
       PROVE  TypeInv'
  <2>1. UNCHANGED <<pc, iter, turns, memory, saved, outcome, output, cur, pending, running,
                    started, denied, result>>
    BY <1>17 DEF sessionVars, toolVars
  <2>2. TypeOK'
    BY <1>17, <2>1 DEF TypeOK
  <2>3. ToolsOK'
    BY <2>1, Zenon DEF ToolsOK, RunningOK, IsSafe, Calls, Batch, Works
  <2> QED
    BY <2>2, <2>3
<1>18. CASE Reload
  BY <1>0, <1>18 DEF Reload, TypeOK, ToolsOK, RunningOK, InTools, turnVars, toolVars
<1>19. CASE Interrupt \/ UNCHANGED vars
  BY <1>17, <1>19 DEF Interrupt, vars, turnVars, TypeOK
<1> QED
  BY <1>1, <1>2, <1>3, <1>4, <1>5, <1>6, <1>7, <1>8, <1>10, <1>11, <1>12, <1>13, <1>14, <1>15,
     <1>16, <1>18, <1>19 DEF Next, Proceed, Receive

\* Every variable stays in its type.
THEOREM TypeCorrect == Spec => []TypeOK
<1>1. TypeInv => TypeOK
  BY DEF TypeInv
<1> QED
  BY <1>1, InitTypeInv, NextTypeInv, PTL DEF Spec

\* TypeInv itself, for the invariants that rest on it.
LEMMA AlwaysTypeInv == Spec => []TypeInv
  BY InitTypeInv, NextTypeInv, PTL DEF Spec

\* A turn that ends well has the structured output the manifest declares: an answer in free
\* text, or an invalid output, never ends it.
THEOREM OutputIsNeverSkipped == Spec => []OutputIsValid
<1>1. Init => OutputIsValid
  BY DEF Init, OutputIsValid
<1>2. TypeInv /\ OutputIsValid /\ [Next]_vars => OutputIsValid'
  <2> SUFFICES ASSUME TypeInv, OutputIsValid, [Next]_vars PROVE OutputIsValid'
    OBVIOUS
  <2> USE DEF OutputIsValid
  <2>1. CASE StartTurn \/ Reload
    BY <2>1 DEF StartTurn, Reload
  <2>2. CASE GiveUp \/ ModelFails
    BY <2>2 DEF GiveUp, ModelFails, Fail, Finish
  <2>3. CASE Receive
    BY <2>3 DEF Receive, EndTurn, Cut, CaptureOutput, CallTools, Finish, Again
  <2>4. CASE WriteResults
    <3>1. PICK m : Leave(m)
      BY <2>4 DEF WriteResults
    <3> QED
      BY <3>1 DEF Leave, Finish, Again, TypeInv, TypeOK
  <2>5. CASE UNCHANGED sessionVars
    BY <2>5 DEF sessionVars
  <2>6. Ask \/ Refuse \/ Pass \/ RequestPermission \/ AskCancelled \/ GateDone \/ Spawn
        \/ AllReturned \/ RunNext \/ SerialDone \/ ToolReturns \/ Permit \/ Deny \/ Interrupt
        \/ UNCHANGED vars => UNCHANGED sessionVars
    BY DEF Ask, Refuse, Pass, RequestPermission, AskCancelled, GateDone, Spawn, AllReturned,
           RunNext, SerialDone, ToolReturns, Returns, Permit, Deny, Interrupt, Refused, LetThrough,
           Execute, vars
  <2> QED
    BY <2>1, <2>2, <2>3, <2>4, <2>5, <2>6 DEF Next, Proceed
<1> QED
  BY <1>1, <1>2, AlwaysTypeInv, PTL DEF Spec
-----------------------------------------------------------------------------
(***************************************************************************)
(* The phases of executeTools: what the gate decides, what is started, and *)
(* what is written down of it.                                             *)
(***************************************************************************)
\* The gate has decided the calls before cur, each of them one way.
GateInv ==
    /\ denied \cap pending = {}
    /\ pc \in {"gate", "ask"} => \A i \in pending \cup denied : i < cur

\* Only what was let through is started, and a result says what happened to its call.
ResultInv ==
    /\ started \subseteq pending /\ running \subseteq started
    /\ pc \in InTools => \A i \in Calls :
        /\ i \in denied <=> result[i] = "refused"
        /\ i \in started <=> i \in running \/ result[i] \in {"done", "cancelled"}
        /\ i \in running => result[i] = "none"

\* The safe calls are all started before the first risky one.
OrderInv ==
    /\ pc \in {"gate", "ask", "spawn"} => started = {}
    /\ pc \in {"wait", "serial"} /\ ctx = "live" => {j \in pending : IsSafe(j)} \subseteq started
    /\ RiskyAlone

PhaseInv == GateInv /\ ResultInv /\ OrderInv

\* Outside executeTools nothing is worked on.
LEMMA QuietOutside == TypeInv /\ pc \notin InTools => PhaseInv
  BY DEF TypeInv, ToolsOK, RunningOK, InTools, PhaseInv, GateInv, ResultInv, OrderInv, RiskyAlone

LEMMA NextPhaseInv == TypeInv /\ PhaseInv /\ [Next]_vars /\ TypeInv' => PhaseInv'
<1>1. (TypeInv /\ pc \notin InTools => PhaseInv)'
  BY QuietOutside, PTL
<1> SUFFICES ASSUME TypeInv, PhaseInv, [Next]_vars, TypeInv' PROVE PhaseInv'
  OBVIOUS
<1>2. CASE pc' \notin InTools
  BY <1>1, <1>2
<1>3. ASSUME NEW r \in Reply, CallTools(r) PROVE PhaseInv'
  <2>1. pending' = {} /\ running' = {} /\ started' = {} /\ denied' = {}
    BY <1>3 DEF CallTools, TypeInv, ToolsOK, RunningOK, InTools
  <2>2. Calls' = 1..Len(r.calls)
    <3>1. memory' = Append(memory, Assistant(r)) /\ Assistant(r) \in Message
      BY <1>3, MessageTypes DEF CallTools, Add
    <3> QED
      BY <3>1, AppendProperties DEF Calls, Batch, Assistant, TypeInv, TypeOK
  <2>3. pc' = "gate" /\ \A i \in Calls' : result'[i] = "none"
    BY <1>3, <2>2 DEF CallTools
  <2> QED
    BY <2>1, <2>3 DEF PhaseInv, GateInv, ResultInv, OrderInv, RiskyAlone
<1>4. ASSUME pc \in InTools, UNCHANGED memory
      PROVE  Calls' = Calls /\ Batch' = Batch /\ \A i : IsSafe(i)' = IsSafe(i)
  BY <1>4 DEF Calls, Batch, IsSafe
<1>5. pc \in InTools => /\ Calls \subseteq Nat /\ Len(result) = Len(Batch) /\ result \in Seq(Kind)
                       /\ 1..Len(result) = Calls
                       /\ pending \subseteq Calls /\ denied \subseteq Calls
  BY DEF TypeInv, TypeOK, ToolsOK, Calls
<1>6. CASE Refuse \/ Deny \/ AskCancelled
  <2>1. /\ pc \in {"gate", "ask"} /\ cur \in Calls /\ Refused /\ UNCHANGED pending
        /\ UNCHANGED memory /\ pc \in InTools
    BY <1>6 DEF Refuse, Deny, AskCancelled, AtGate, TypeInv, ToolsOK, Refused, sessionVars, InTools
  <2>2. cur \notin pending /\ cur \notin denied /\ running = {} /\ started = {}
    BY <1>5, <2>1 DEF PhaseInv, GateInv, OrderInv, TypeInv, ToolsOK, RunningOK
  <2>3. \A i \in Calls : result'[i] = IF i = cur THEN "refused" ELSE result[i]
    BY <1>5, <2>1 DEF Refused
  <2>4. GateInv'
    BY <1>5, <2>1, <2>2 DEF PhaseInv, GateInv, Refused
  <2>5. ResultInv'
    BY <1>4, <2>1, <2>2, <2>3 DEF PhaseInv, ResultInv, Refused
  <2>6. OrderInv'
    BY <2>1, <2>2 DEF OrderInv, RiskyAlone, Refused
  <2> QED
    BY <2>4, <2>5, <2>6 DEF PhaseInv
<1>7. CASE Pass \/ Permit
  <2>1. /\ pc \in {"gate", "ask"} /\ cur \in Calls /\ LetThrough
        /\ UNCHANGED memory /\ pc \in InTools
    BY <1>7 DEF Pass, Permit, AtGate, TypeInv, ToolsOK, LetThrough, sessionVars, InTools
  <2>2. cur \notin pending /\ cur \notin denied /\ running = {} /\ started = {}
    BY <1>5, <2>1 DEF PhaseInv, GateInv, OrderInv, TypeInv, ToolsOK, RunningOK
  <2>3. GateInv'
    BY <1>5, <2>1, <2>2 DEF PhaseInv, GateInv, LetThrough
  <2>4. ResultInv'
    BY <1>4, <2>1, <2>2 DEF PhaseInv, ResultInv, LetThrough
  <2>5. OrderInv'
    BY <2>1, <2>2 DEF OrderInv, RiskyAlone, LetThrough
  <2> QED
    BY <2>3, <2>4, <2>5 DEF PhaseInv
<1>8. CASE RequestPermission \/ GateDone \/ AllReturned \/ SerialDone
  <2>1. /\ pc \in InTools /\ UNCHANGED <<memory, toolVars, ctx>>
        /\ pc' = "ask" => pc = "gate"
        /\ pc' = "spawn" => pc = "gate"
        /\ pc' = "serial" => pc = "wait"
        /\ pc' \in {"ask", "spawn", "serial", "fill"}
    BY <1>8 DEF RequestPermission, GateDone, AllReturned, SerialDone, AtGate, AtSerial, InTools,
                sessionVars
  <2>2. /\ UNCHANGED <<cur, pending, running, started, denied, result, ctx>>
        /\ Calls' = Calls /\ \A i : IsSafe(i)' = IsSafe(i)
    BY <1>4, <2>1 DEF toolVars
  <2>3. GateInv'
    BY <2>1, <2>2 DEF PhaseInv, GateInv
  <2>4. ResultInv'
    BY <2>1, <2>2 DEF PhaseInv, ResultInv
  <2>5. OrderInv'
    BY <2>1, <2>2 DEF PhaseInv, OrderInv, RiskyAlone
  <2> QED
    BY <2>3, <2>4, <2>5 DEF PhaseInv
<1>9. CASE Spawn
  <2> DEFINE S == IF ctx = "live" THEN {i \in pending : IsSafe(i)} ELSE {}
  <2>1. /\ pc = "spawn" /\ pc \in InTools /\ pc' = "wait" /\ running' = S /\ started' = started \cup S
        /\ UNCHANGED <<memory, cur, pending, denied, result, ctx>>
    BY <1>9 DEF Spawn, Execute, sessionVars, InTools
  <2>2. S \subseteq pending /\ S \cap denied = {} /\ started = {} /\ running = {}
    BY <2>1 DEF PhaseInv, GateInv, OrderInv, TypeInv, ToolsOK, RunningOK
  <2>3. \A i \in S : result[i] = "none"
    BY <1>5, <2>1, <2>2 DEF PhaseInv, ResultInv, Kind
  <2>4. GateInv'
    BY <2>1 DEF PhaseInv, GateInv
  <2>5. ResultInv'
    BY <1>4, <2>1, <2>2, <2>3 DEF PhaseInv, ResultInv
  <2>6. OrderInv'
    BY <1>4, <2>1, <2>2 DEF OrderInv, RiskyAlone
  <2> QED
    BY <2>4, <2>5, <2>6 DEF PhaseInv
<1>10. CASE RunNext
  <2>1. PICK i \in Left : (\A j \in Left : i <= j) /\ Execute(running \cup {i})
    BY <1>10 DEF RunNext
  <2>2. /\ pc = "serial" /\ pc \in InTools /\ pc' = pc /\ ctx = "live" /\ running = {}
        /\ running' = {i} /\ started' = started \cup {i}
        /\ UNCHANGED <<memory, cur, pending, denied, result, ctx>>
    BY <1>10, <2>1 DEF RunNext, AtSerial, Execute, sessionVars, InTools, TypeInv, ToolsOK, RunningOK
  <2>3. i \in pending /\ ~IsSafe(i) /\ result[i] = "none" /\ i \notin denied /\ i \in Calls
    BY <1>5, <2>1, <2>2 DEF Left, PhaseInv, GateInv
  <2>4. GateInv'
    BY <2>2 DEF PhaseInv, GateInv
  <2>5. ResultInv'
    BY <1>4, <2>2, <2>3 DEF PhaseInv, ResultInv
  <2>6. ASSUME NEW j \in pending, IsSafe(j) \/ j < i PROVE result[j] # "none"
    <3>1. CASE IsSafe(j)
      <4>1. j \in started
        BY <2>2, <3>1 DEF PhaseInv, OrderInv
      <4> QED
        BY <1>5, <2>2, <4>1 DEF PhaseInv, ResultInv
    <3>2. CASE ~IsSafe(j)
      BY <1>5, <2>1, <2>2, <2>3, <2>6, <3>2 DEF Left
    <3> QED
      BY <3>1, <3>2
  <2>7. OrderInv'
    <3>1. RiskyAlone'
      BY <1>4, <2>2, <2>6 DEF RiskyAlone
    <3> QED
      BY <1>4, <2>2, <3>1 DEF PhaseInv, OrderInv
  <2> QED
    BY <2>4, <2>5, <2>7 DEF PhaseInv
<1>11. CASE ToolReturns
  <2>1. PICK i \in running : Returns(i)
    BY <1>11 DEF ToolReturns
  <2>2. /\ pc \in {"wait", "serial"} /\ pc \in InTools /\ i \in Calls
        /\ running' = running \ {i}
        /\ UNCHANGED <<pc, ctx, memory, cur, pending, started, denied>>
    BY <2>1 DEF Returns, TypeInv, ToolsOK, RunningOK, InTools, turnVars, sessionVars
  <2>3. PICK k \in {"done", "cancelled"} : result' = [result EXCEPT ![i] = k]
    BY <2>1 DEF Returns
  <2>4. \A j \in Calls : result'[j] = IF j = i THEN k ELSE result[j]
    BY <1>5, <2>2, <2>3
  <2>5. i \in started /\ i \notin denied
    BY <2>1, <2>2 DEF PhaseInv, ResultInv, GateInv
  <2>6. GateInv'
    BY <2>2 DEF PhaseInv, GateInv
  <2>7. ResultInv'
    BY <1>4, <2>1, <2>2, <2>4, <2>5 DEF PhaseInv, ResultInv
  <2>8. OrderInv'
    <3>1. RiskyAlone'
      BY <1>4, <1>5, <2>2, <2>4 DEF PhaseInv, OrderInv, RiskyAlone
    <3> QED
      BY <1>4, <2>2, <3>1 DEF PhaseInv, OrderInv
  <2> QED
    BY <2>6, <2>7, <2>8 DEF PhaseInv
<1>12. CASE Interrupt \/ UNCHANGED vars
  <2>1. /\ UNCHANGED <<pc, memory, cur, pending, running, started, denied, result>>
        /\ ctx' = "live" => ctx = "live"
    BY <1>12 DEF Interrupt, vars, turnVars, sessionVars, toolVars
  <2>2. GateInv' /\ ResultInv'
    BY <2>1, Zenon DEF PhaseInv, GateInv, ResultInv, Calls, Batch
  <2>3. RiskyAlone'
    BY <2>1, Zenon DEF PhaseInv, OrderInv, RiskyAlone, IsSafe, Batch
  <2>4. OrderInv'
    BY <2>1, <2>3 DEF PhaseInv, OrderInv, IsSafe, Batch
  <2> QED
    BY <2>2, <2>4 DEF PhaseInv
<1>13. StartTurn \/ GiveUp \/ Ask \/ ModelFails \/ WriteResults \/ Reload => pc' \notin InTools
  BY DEF StartTurn, GiveUp, Ask, ModelFails, WriteResults, Reload, Leave, Fail, Finish, Again, turnVars,
         InTools, TypeInv, TypeOK
<1>14. \A r \in Reply : EndTurn(r) \/ Cut(r) \/ CaptureOutput(r) => pc' \notin InTools
  BY DEF EndTurn, Cut, CaptureOutput, Finish, Again, InTools
<1> QED
  BY <1>2, <1>3, <1>6, <1>7, <1>8, <1>9, <1>10, <1>11, <1>12, <1>13, <1>14
     DEF Next, Proceed, Receive

LEMMA AlwaysPhaseInv == Spec => []PhaseInv
<1>1. Init => TypeInv /\ PhaseInv
  BY InitTypeInv, QuietOutside DEF Init, InTools
<1>2. TypeInv /\ PhaseInv /\ [Next]_vars => TypeInv' /\ PhaseInv'
  BY NextTypeInv, NextPhaseInv
<1> QED
  BY <1>1, <1>2, PTL DEF Spec

\* What a hook, the policy or the user refused is not executed.
THEOREM RefusalIsFinal == Spec => []RefusedNeverRuns
<1>1. PhaseInv => RefusedNeverRuns
  BY DEF PhaseInv, GateInv, ResultInv, RefusedNeverRuns
<1> QED
  BY <1>1, AlwaysPhaseInv, PTL

\* A risky tool runs alone, when the safe tools of its reply and the risky ones that come
\* before it have results.
THEOREM RiskyToolsRunAlone == Spec => []RiskyAlone
<1>1. PhaseInv => RiskyAlone
  BY DEF PhaseInv, OrderInv
<1> QED
  BY <1>1, AlwaysPhaseInv, PTL

\* The results written to memory say of each call whether it was executed.
THEOREM ResultsSayWhatHappened == Spec => []ResultsAreTrue
<1>1. TypeInv /\ PhaseInv => ResultsAreTrue
  BY DEF PhaseInv, ResultInv, ResultsAreTrue, TypeInv, ToolsOK, RunningOK, InTools
<1> QED
  BY <1>1, AlwaysTypeInv, AlwaysPhaseInv, PTL
-----------------------------------------------------------------------------
(***************************************************************************)
(* The conversation: while tools run it is a well answered one followed by *)
(* the reply worked on.                                                    *)
(***************************************************************************)
Open(m, r) ==
    /\ m \in Seq(Message) /\ WellAnswered(m)
    /\ r \in Reply /\ r.stop = "tool_use" /\ ~IsFinal(r)
    /\ memory = Append(m, Assistant(r))

ConversationInv ==
    /\ WellAnswered(saved)
    /\ pc \notin InTools => WellAnswered(memory)
    /\ pc \in InTools => \E m, r : Open(m, r)

\* The reply and no answers.
LEMMA UnansweredReply ==
    ASSUME NEW m \in Seq(Message), WellAnswered(m), NEW r \in Reply, r.stop # "tool_use"
    PROVE  WellAnswered(Append(m, Assistant(r))) /\ Append(m, Assistant(r)) \in Seq(Message)
<1>1. Append(m, Assistant(r)) \in Seq(Message)
  BY MessageTypes
<1>2. Answers(<<>>, r)
  BY AnsweredOfReply DEF Answers
<1>3. Extended(m, Assistant(r), <<>>, Append(m, Assistant(r)))
  BY MessageTypes, AppendProperties DEF Extended
<1> QED
  BY <1>1, <1>2, <1>3, ExchangeKeepsAnswers

\* The reply and the answer to its final tool.
LEMMA FinalReply ==
    ASSUME NEW m \in Seq(Message), WellAnswered(m),
           NEW r \in Reply, r.stop = "tool_use", IsFinal(r)
    PROVE  WellAnswered(Append(Append(m, Assistant(r)), Result(FinalCall(r))))
<1> DEFINE e == Result(FinalCall(r))
           p == Append(m, Assistant(r))
           n == Append(p, e)
<1>1. r.calls \in Seq(Tool) /\ FinalCall(r) \in Nat
  BY AgentAssumption, FinalCallIsACall
<1>2. e \in Message
  BY <1>1, MessageTypes
<1>3. Answers(<<e>>, r)
  BY <1>2, AnsweredOfReply DEF Answers
<1>4. /\ p \in Seq(Message) /\ Len(p) = Len(m) + 1 /\ Len(m) \in Nat
      /\ \A i \in 1..Len(m) : p[i] = m[i]
      /\ p[Len(m) + 1] = Assistant(r)
  BY MessageTypes, AppendProperties
<1> HIDE DEF p, e
<1>5. /\ n \in Seq(Message) /\ Len(n) = Len(p) + 1
      /\ \A i \in 1..Len(p) : n[i] = p[i]
      /\ n[Len(p) + 1] = e
  BY <1>2, <1>4, AppendProperties
<1> HIDE DEF n
<1>6. Extended(m, Assistant(r), <<e>>, n)
  BY <1>4, <1>5 DEF Extended
<1>7. WellAnswered(n)
  BY <1>3, <1>6, ExchangeKeepsAnswers
<1> QED
  BY <1>7 DEF n, p, e

\* The reply and a result for each of its calls.
LEMMA EveryResult ==
    ASSUME NEW m, NEW r, Open(m, r)
    PROVE  WellAnswered(memory \o [i \in Calls |-> Result(i)])
<1> DEFINE a == [i \in Calls |-> Result(i)]
<1>1. Assistant(r) \in Message /\ Calls = 1..Len(r.calls) /\ Len(r.calls) \in Nat
  <2>1. r.calls \in Seq(Tool) /\ Assistant(r) \in Message
    BY AgentAssumption, MessageTypes DEF Open
  <2> QED
    BY <2>1, AppendProperties DEF Open, Calls, Batch, Assistant
<1>2. a \in Seq(Message)
  BY <1>1, MessageTypes
<1>3. Answers(a, r)
  BY <1>1, <1>2, AnsweredOfReply DEF Answers, Open
<1>4. Extended(m, Assistant(r), a, memory \o a)
  BY <1>1, <1>2, AppendThenConcat DEF Open
<1> QED
  BY <1>3, <1>4, ExchangeKeepsAnswers DEF Open

\* A turn that ends or goes round, with a well answered conversation.
LEMMA ClosesWell ==
    ASSUME ConversationInv, NEW m, WellAnswered(m),
           \/ \E how : Finish(m, how)
           \/ Again(m)
    PROVE  ConversationInv'
<1>1. memory' = m /\ saved' \in {m, saved} /\ pc' \notin InTools
  BY DEF Finish, Again, InTools
<1> QED
  BY <1>1 DEF ConversationInv

LEMMA NextConversationInv == TypeInv /\ ConversationInv /\ [Next]_vars => ConversationInv'
<1> SUFFICES ASSUME TypeInv, ConversationInv, [Next]_vars PROVE ConversationInv'
  OBVIOUS
<1>1. memory \in Seq(Message)
  BY DEF TypeInv, TypeOK
<1>2. CASE StartTurn
  <2>1. WellAnswered(Append(memory, UserMessage))
    BY <1>1, <1>2, UserKeepsAnswers DEF StartTurn, ConversationInv, InTools
  <2> QED
    BY <1>2, <2>1 DEF StartTurn, ConversationInv, InTools
<1>3. CASE GiveUp \/ ModelFails
  BY <1>3, ClosesWell DEF GiveUp, ModelFails, Fail, ConversationInv, InTools
<1>4. ASSUME NEW r \in Reply, EndTurn(r) \/ Cut(r) PROVE ConversationInv'
  <2>1. WellAnswered(memory)
    BY <1>4 DEF EndTurn, Cut, ConversationInv, InTools
  <2>2. WellAnswered(Add(r)) /\ Add(r) \in Seq(Message)
    BY <1>1, <1>4, <2>1, UnansweredReply DEF EndTurn, Cut, Add
  <2>3. WellAnswered(Append(Add(r), UserMessage))
    BY <2>2, UserKeepsAnswers
  <2> QED
    BY <1>4, <2>2, <2>3, ClosesWell DEF EndTurn, Cut
<1>5. ASSUME NEW r \in Reply, CaptureOutput(r) PROVE ConversationInv'
  <2>1. WellAnswered(memory)
    BY <1>5 DEF CaptureOutput, ConversationInv, InTools
  <2>2. WellAnswered(Append(Add(r), Result(FinalCall(r))))
    BY <1>1, <1>5, <2>1, FinalReply DEF CaptureOutput, Add
  <2> QED
    BY <1>5, <2>2, ClosesWell DEF CaptureOutput
<1>6. ASSUME NEW r \in Reply, CallTools(r) PROVE ConversationInv'
  <2>1. WellAnswered(memory)
    BY <1>6 DEF CallTools, ConversationInv, InTools
  <2>2. PICK m : m = memory
    OBVIOUS
  <2>3. Open(m, r)'
    BY <1>1, <1>6, <2>1, <2>2 DEF Open, CallTools, Add
  <2> QED
    BY <1>6, <2>3 DEF CallTools, ConversationInv, InTools
<1>7. CASE WriteResults
  <2>1. PICK m, r : Open(m, r)
    BY <1>7 DEF WriteResults, ConversationInv, InTools
  <2>2. PICK n : n = memory \o [i \in Calls |-> Result(i)]
    OBVIOUS
  <2>3. WellAnswered(n) /\ Leave(n)
    BY <1>7, <2>1, <2>2, EveryResult DEF WriteResults
  <2>4. Again(n) \/ \E how : Finish(n, how)
    BY <2>3 DEF Leave, TypeInv, TypeOK
  <2> QED
    BY <2>3, <2>4, ClosesWell
<1>8. CASE Reload
  BY <1>8 DEF Reload, ConversationInv, turnVars, InTools
<1>9. CASE UNCHANGED <<memory, saved>> /\ (pc \in InTools <=> pc' \in InTools)
  BY <1>9 DEF ConversationInv, Open
<1>10. Ask \/ Refuse \/ Pass \/ RequestPermission \/ AskCancelled \/ GateDone \/ Spawn
       \/ AllReturned \/ RunNext \/ SerialDone \/ ToolReturns \/ Permit \/ Deny \/ Interrupt
       \/ UNCHANGED vars
       => UNCHANGED <<memory, saved>> /\ (pc \in InTools <=> pc' \in InTools)
  BY DEF Ask, Refuse, Pass, RequestPermission, AskCancelled, GateDone, Spawn, AllReturned, RunNext,
         SerialDone, ToolReturns, Returns, Permit, Deny, Interrupt, Refused, LetThrough, Execute,
         AtGate, AtSerial, InTools, vars, turnVars, sessionVars
<1> QED
  BY <1>2, <1>3, <1>4, <1>5, <1>6, <1>7, <1>8, <1>9, <1>10 DEF Next, Proceed, Receive

\* Whatever fails, is refused or is interrupted, every result in the conversation follows the
\* reply that asked for it, once and in order, in memory and in the store.
THEOREM ConversationIsAnswered == Spec => []AnsweredInOrder
<1>1. Init => ConversationInv
  BY DEF Init, ConversationInv, WellAnswered, InTools
<1>2. TypeInv /\ ConversationInv /\ [Next]_vars => ConversationInv'
  BY NextConversationInv
<1>3. ConversationInv => AnsweredInOrder
  BY DEF ConversationInv, AnsweredInOrder
<1> QED
  BY <1>1, <1>2, <1>3, AlwaysTypeInv, PTL DEF Spec
=============================================================================
