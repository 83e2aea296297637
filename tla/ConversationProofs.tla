-------------------------- MODULE ConversationProofs --------------------------
(***************************************************************************)
(* Theorems about Conversation, for any sockets, requests, calls and       *)
(* channel capacities.                                                     *)
(***************************************************************************)
EXTENDS Conversation, SequenceTheorems, FiniteSetTheorems, TLAPS

\* A turn under way has a run, and a chat is being served while its turn is.
Seated ==
    /\ \A s \in Conn : turn[s] \in {"storing", "draining"} => at[s] # 0
    /\ \A s \in Rest : turn[s] # "none" => reader[s] = "reading"

TypeInv == TypeOK /\ Seated /\ KeptWhileInUse

\* What a run that was recorded may still do to its record.
EndsInv ==
    \A r \in Run : phase[r] \in {"reporting", "over"} /\ recorded[r] = "running" => ~Journalled

\* Permissions are the client's words, and an answer on its way is one of them.
GrantInv ==
    /\ GrantedByTheClient
    /\ always => \E p \in Ask : <<p, "allow_always">> \in said
    /\ \A q \in Ask : \A i \in 1..Len(reply[q]) : reply[q][i] # "deny" => <<q, reply[q][i]>> \in said

Requests(r) == {i \in 1..Len(events[r]) : events[r][i].type = "permission_request"}

\* A request on its way to a connection is unanswered, nobody else's, and the only one of its call.
InTransit ==
    /\ \A r \in Run : \A i \in Requests(r) :
          LET q == events[r][i].of
          IN  /\ q[1] = r /\ call[q] \in {"waiting", "aborted"} /\ reply[q] = <<>>
              /\ \A s \in Conn : q \notin pending[s]
    /\ \A r \in Run : \A i, j \in Requests(r) : i # j => events[r][i].of # events[r][j].of
    /\ \A q \in Ask : call[q] \in {"idle", "emitting"} => reply[q] = <<>>

AnswerInv == AnswersNeverBlock /\ InTransit
-----------------------------------------------------------------------------
LEMMA MessageKinds ==
    /\ \A r \in Run : \A t \in Final \cup {"token", "structured"} : Event(t, <<r>>) \in Message
    /\ \A q \in Ask : Event("permission_request", q) \in Message
    /\ Event("refused", <<>>) \in Message
    /\ \A m \in Message : m.type = "permission_request" => m.of \in Ask
    /\ \A m \in Message : m.type \in Final => \E r \in Run : m.of = <<r>> /\ m.of[1] = r
    /\ \A m \in Message : Messages(m) \in Seq(Message)
<1>1. \A m \in Message : m.type \in Final => \E r \in Run : m.of = <<r>>
  BY DEF Message, Final
<1>2. ASSUME NEW m \in Message PROVE Messages(m) \in Seq(Message)
  <2>1. m.type = "done" => Event("structured", m.of) \in Message
    BY DEF Message, Event, Final
  <2> QED
    BY <2>1 DEF Messages
<1> QED
  BY <1>1, <1>2 DEF Message, Event, Final

\* The conversation's channels: a first-in first-out queue of a set S.
LEMMA Channels ==
    ASSUME NEW S, NEW c \in Seq(S)
    PROVE  /\ Len(c) \in Nat
           /\ c # <<>> => /\ Head(c) \in S /\ Head(c) = c[1] /\ Tail(c) \in Seq(S) /\ Len(c) > 0
                          /\ Len(Tail(c)) = Len(c) - 1
                          /\ \A i \in 1..Len(Tail(c)) : Tail(c)[i] = c[i + 1]
           /\ \A e \in S : /\ Append(c, e) \in Seq(S) /\ Len(Append(c, e)) = Len(c) + 1
                           /\ \A i \in 1..Len(c) : Append(c, e)[i] = c[i]
                           /\ Append(c, e)[Len(c) + 1] = e
  BY HeadTailProperties

LEMMA InUseIsFinite == IsFiniteSet(InUse) /\ Cardinality(InUse) \in Nat
  BY ConversationAssumption, FS_Subset, FS_CardinalityType DEF InUse, Conn

\* A connection that uses the session is one of those the manager counts.
LEMMA InUseIsCounted ==
    ASSUME KeptWhileInUse, busy \in Nat, NEW s \in Conn, reader[s] \notin {"out", "gone"}
    PROVE  /\ entry # "evicted"
           /\ entry = "open" => busy > 0
<1>1. s \in InUse
  BY DEF InUse
<1>2. entry = "open" => busy # 0
  BY <1>1, InUseIsFinite, FS_EmptySet DEF KeptWhileInUse
<1> QED
  BY <1>1, <1>2 DEF KeptWhileInUse

LEMMA InitTypeInv == Init => TypeInv
<1> SUFFICES ASSUME Init PROVE TypeInv
  OBVIOUS
<1>1. TypeOK
  <2>1. /\ handing \in [Conn -> Seq(Message)] /\ outbound \in [Conn -> Seq(Message)]
        /\ events \in [Run -> Seq(Message)] /\ reply \in [Ask -> Seq(Decision)]
    BY DEF Init
  <2>2. /\ \A s \in Conn : Len(outbound[s]) <= OutCap
        /\ \A r \in Run : Len(events[r]) <= EventCap
    BY ConversationAssumption DEF Init
  <2>3. writer \in [Conn -> BOOLEAN]
    <3>1. \A s \in Conn : (s \in Socket) \in BOOLEAN
      OBVIOUS
    <3> QED
      BY <3>1 DEF Init
  <2>4. /\ phase \in [Run -> {"none", "fresh", "on", "recording", "reporting", "over"}]
        /\ live \in [Run -> BOOLEAN]
        /\ call \in [Ask -> {"idle", "emitting", "waiting", "granted", "refused", "aborted"}]
        /\ recorded \in [Run -> {"none", "running", "ended"}]
        /\ said \subseteq Ask \X Decision
    BY DEF Init
  <2>5. /\ here \in [Conn -> BOOLEAN]
        /\ reader \in [Conn -> {"out", "reading", "refusing", "ended", "drained", "gone"}]
        /\ running \in [Conn -> BOOLEAN]
        /\ turn \in [Conn -> {"none", "starting", "storing", "draining"}]
        /\ at \in [Conn -> 0..MaxRuns]
        /\ pending \in [Conn -> SUBSET Ask]
        /\ told \in [Conn -> SUBSET Run]
    BY ConversationAssumption DEF Init
  <2>6. /\ entry \in {"open", "evicted", "deleted"}
        /\ busy \in Nat
        /\ cancelFn \in 0..MaxRuns
    BY ConversationAssumption DEF Init
  <2>7. always \in BOOLEAN /\ down \in BOOLEAN
    BY DEF Init
  <2> QED
    BY <2>1, <2>2, <2>3, <2>4, <2>5, <2>6, <2>7 DEF TypeOK
<1>2. InUse = {}
  BY DEF Init, InUse
<1>3. KeptWhileInUse
  BY <1>2, FS_EmptySet DEF Init, KeptWhileInUse
<1> QED
  BY <1>1, <1>3 DEF Init, TypeInv, Seated, Conn

\* Next by the part of the state that its actions change.
LEMMA TypeStep == TypeInv /\ [Next]_vars => TypeOK' /\ Seated'
<1> SUFFICES ASSUME TypeInv, [Next]_vars PROVE TypeOK' /\ Seated'
  OBVIOUS
<1>0. TypeOK /\ Seated /\ KeptWhileInUse
  BY DEF TypeInv
<1> USE DEF sessionVars, readVars, turnVars, runVars
<1>1. CASE UNCHANGED vars
  BY <1>0, <1>1, ConversationAssumption DEF TypeOK, Seated, Conn, vars
<1>2. CASE Sweep
  BY <1>0, <1>2, ConversationAssumption DEF TypeOK, Seated, Conn, Sweep
<1>3. CASE Delete
  BY <1>0, <1>3, ConversationAssumption DEF TypeOK, Seated, Conn, Delete
<1>4. ASSUME NEW s \in Socket, Input(s) PROVE TypeOK' /\ Seated'
  BY <1>0, <1>4, ConversationAssumption DEF TypeOK, Seated, Conn, Input
<1>5. ASSUME NEW s \in Socket, Refuse(s) PROVE TypeOK' /\ Seated'
  BY <1>0, <1>5, ConversationAssumption DEF TypeOK, Seated, Conn, Refuse
<1>6. ASSUME NEW s \in Socket, Refused(s) PROVE TypeOK' /\ Seated'
  <2>1. outbound[s] \in Seq(Message) /\ Len(outbound[s]) < OutCap
    BY <1>0, <1>6 DEF TypeOK, Conn, Refused
  <2>2. /\ Append(outbound[s], Event("refused", <<>>)) \in Seq(Message)
        /\ Len(Append(outbound[s], Event("refused", <<>>))) <= OutCap
    BY <2>1, Channels, MessageKinds, ConversationAssumption
  <2>3. outbound' \in [Conn -> Seq(Message)] /\ \A t \in Conn : Len(outbound'[t]) <= OutCap
    BY <1>0, <1>6, <2>2 DEF TypeOK, Conn, Refused
  <2> QED
    BY <1>0, <1>6, <2>3, ConversationAssumption DEF TypeOK, Seated, Conn, Refused
<1>7. ASSUME NEW s \in Socket, Cancel(s) PROVE TypeOK' /\ Seated'
  BY <1>0, <1>7, ConversationAssumption DEF TypeOK, Seated, Conn, Cancel
<1>8. ASSUME NEW s \in Socket, ReadFails(s) PROVE TypeOK' /\ Seated'
  BY <1>0, <1>8, ConversationAssumption DEF TypeOK, Seated, Conn, ReadFails
<1>9. ASSUME NEW s \in Socket, Shutdown(s) PROVE TypeOK' /\ Seated'
  <2>1. reply' \in [Ask -> Seq(Decision)]
    <3>1. <<"deny">> \in Seq(Decision)
      BY DEF Decision
    <3> QED
      BY <1>0, <1>9, <3>1 DEF TypeOK, Shutdown
  <2> QED
    BY <1>0, <1>9, <2>1, ConversationAssumption DEF TypeOK, Seated, Conn, Shutdown
<1>10. ASSUME NEW s \in Socket, Hangup(s) PROVE TypeOK' /\ Seated'
  <2>1. busy' \in Nat
    <3>1. s \in Conn /\ reader[s] \notin {"out", "gone"} /\ busy \in Nat
      BY <1>0, <1>10 DEF TypeOK, Hangup, Conn
    <3>2. entry = "open" => busy > 0
      BY <1>0, <3>1, InUseIsCounted
    <3> QED
      BY <1>10, <3>1, <3>2 DEF Hangup, Release
  <2> QED
    BY <1>0, <1>10, <2>1, ConversationAssumption DEF TypeOK, Seated, Conn, Hangup
<1>11. ASSUME NEW s \in Socket, NEW q \in Ask, NEW d \in Decision, Answer(s, q, d) PROVE TypeOK' /\ Seated'
  BY <1>0, <1>11, ConversationAssumption DEF TypeOK, Seated, Conn, Answer, Route
<1>12. ASSUME NEW s \in Conn, Connect(s) PROVE TypeOK' /\ Seated'
  <2>1. /\ busy' \in Nat
        /\ reader' \in [Conn -> {"out", "reading", "refusing", "ended", "drained", "gone"}]
        /\ turn' \in [Conn -> {"none", "starting", "storing", "draining"}]
    <3>1. CASE entry = "open"
      <4>1. busy' = busy + 1 /\ reader' = [reader EXCEPT ![s] = "reading"]
        BY <1>12, <3>1 DEF Connect, Acquire
      <4>2. \/ turn' = [turn EXCEPT ![s] = "starting"]
            \/ turn' = [turn EXCEPT ![s] = turn[s]]
        BY <1>12, <3>1 DEF Connect
      <4>3. busy' \in Nat
        BY <1>0, <4>1 DEF TypeOK
      <4>4. reader' \in [Conn -> {"out", "reading", "refusing", "ended", "drained", "gone"}]
        BY <1>0, <4>1 DEF TypeOK
      <4>5. turn' \in [Conn -> {"none", "starting", "storing", "draining"}]
        BY <1>0, <4>2 DEF TypeOK
      <4> QED
        BY <4>3, <4>4, <4>5
    <3>2. CASE entry # "open"
      BY <1>0, <1>12, <3>2 DEF TypeOK, Connect
    <3> QED
      BY <3>1, <3>2
  <2>2. TypeOK'
    BY <1>0, <1>12, <2>1 DEF TypeOK, Connect
  <2>3. at' = at /\ \A t \in Conn : t # s => turn'[t] = turn[t] /\ reader'[t] = reader[t]
    BY <1>0, <1>12 DEF TypeOK, Connect
  <2>4. \/ turn'[s] = turn[s]
        \/ turn'[s] = "starting" /\ reader'[s] = "reading"
    BY <1>0, <1>12 DEF TypeOK, Connect
  <2>5. s \in Rest => turn[s] = "none"
    BY <1>0, <1>12 DEF Seated, Connect
  <2> QED
    BY <1>0, <2>2, <2>3, <2>4, <2>5 DEF Seated, Conn
<1>13. ASSUME NEW s \in Conn, Leave(s) PROVE TypeOK' /\ Seated'
  BY <1>0, <1>13, ConversationAssumption DEF TypeOK, Seated, Conn, Leave
<1>14. ASSUME NEW s \in Conn, StartRun(s) PROVE TypeOK' /\ Seated'
  <2>1. (IF s \in Rest THEN here[s] ELSE reader[s] # "gone") \in BOOLEAN
    BY <1>0 DEF TypeOK
  <2>2. live' \in [Run -> BOOLEAN]
    BY <1>0, <1>14, <2>1 DEF TypeOK, StartRun
  <2> QED
    BY <1>0, <1>14, <2>2, ConversationAssumption DEF TypeOK, Seated, Conn, Run, StartRun
<1>15. ASSUME NEW s \in Conn, StoreCancel(s) PROVE TypeOK' /\ Seated'
  BY <1>0, <1>15, ConversationAssumption DEF TypeOK, Seated, Conn, StoreCancel
<1>16. ASSUME NEW s \in Conn, Deliver(s) PROVE TypeOK' /\ Seated'
  <2>1. outbound[s] \in Seq(Message) /\ outbound[s] # <<>>
    BY <1>0, <1>16 DEF TypeOK, Deliver
  <2>2. /\ Head(outbound[s]) \in Message /\ Tail(outbound[s]) \in Seq(Message)
        /\ Len(Tail(outbound[s])) = Len(outbound[s]) - 1 /\ Len(outbound[s]) \in Nat
    BY <2>1, Channels
  <2>3. told' \in [Conn -> SUBSET Run]
    BY <1>0, <1>16, <2>2, MessageKinds DEF TypeOK, Deliver
  <2>4. outbound' \in [Conn -> Seq(Message)] /\ \A t \in Conn : Len(outbound'[t]) <= OutCap
    BY <1>0, <1>16, <2>2, ConversationAssumption DEF TypeOK, Deliver
  <2> QED
    BY <1>0, <1>16, <2>3, <2>4, ConversationAssumption DEF TypeOK, Seated, Conn, Deliver
<1>17. ASSUME NEW s \in Conn, WriterQuits(s) PROVE TypeOK' /\ Seated'
  BY <1>0, <1>17, ConversationAssumption DEF TypeOK, Seated, Conn, WriterQuits
<1>18. ASSUME NEW s \in Conn, Forward(s) PROVE TypeOK' /\ Seated'
  <2>1. at[s] \in Run /\ events[at[s]] \in Seq(Message) /\ events[at[s]] # <<>>
    BY <1>0, <1>18 DEF TypeOK, Seated, Run, Forward, NextEvent
  <2> DEFINE c == events[at[s]]
  <2>2. /\ Head(c) \in Message /\ Tail(c) \in Seq(Message)
        /\ Len(Tail(c)) = Len(c) - 1 /\ Len(c) \in Nat
    BY <2>1, Channels
  <2>3. events' \in [Run -> Seq(Message)] /\ \A r \in Run : Len(events'[r]) <= EventCap
    BY <1>0, <1>18, <2>1, <2>2, ConversationAssumption DEF TypeOK, Forward
  <2>4. handing' \in [Conn -> Seq(Message)] /\ pending' \in [Conn -> SUBSET Ask]
    BY <1>0, <1>18, <2>1, <2>2, MessageKinds DEF TypeOK, Forward
  <2> QED
    BY <1>0, <1>18, <2>3, <2>4, ConversationAssumption DEF TypeOK, Seated, Conn, Forward
<1>19. ASSUME NEW s \in Conn, Send(s) PROVE TypeOK' /\ Seated'
  <2>1. handing[s] \in Seq(Message) /\ handing[s] # <<>> /\ outbound[s] \in Seq(Message)
    BY <1>0, <1>19 DEF TypeOK, Send
  <2>2. /\ Head(handing[s]) \in Message /\ Tail(handing[s]) \in Seq(Message)
        /\ Len(outbound[s]) \in Nat
        /\ Append(outbound[s], Head(handing[s])) \in Seq(Message)
        /\ Len(Append(outbound[s], Head(handing[s]))) = Len(outbound[s]) + 1
    BY <2>1, Channels
  <2>3. outbound' \in [Conn -> Seq(Message)] /\ \A t \in Conn : Len(outbound'[t]) <= OutCap
    <3>1. CASE outbound' = outbound
      BY <1>0, <3>1 DEF TypeOK
    <3>2. CASE /\ Len(outbound[s]) < OutCap
               /\ outbound' = [outbound EXCEPT ![s] = Append(@, Head(handing[s]))]
      BY <1>0, <2>2, <3>2, ConversationAssumption DEF TypeOK
    <3> QED
      BY <1>19, <3>1, <3>2 DEF Send
  <2> QED
    BY <1>0, <1>19, <2>2, <2>3, ConversationAssumption DEF TypeOK, Seated, Conn, Send
<1>20. ASSUME NEW s \in Conn, TurnOver(s) PROVE TypeOK' /\ Seated'
  BY <1>0, <1>20, ConversationAssumption DEF TypeOK, Seated, Conn, TurnOver, Drained
<1>21. ASSUME NEW s \in Conn, Chat(s) PROVE TypeOK' /\ Seated'
  <2>1. at[s] \in Run /\ events[at[s]] \in Seq(Message) /\ events[at[s]] # <<>>
    BY <1>0, <1>21 DEF TypeOK, Seated, Run, Chat, NextEvent
  <2> DEFINE c == events[at[s]]
  <2>2. /\ Head(c) \in Message /\ Tail(c) \in Seq(Message)
        /\ Len(Tail(c)) = Len(c) - 1 /\ Len(c) \in Nat
    BY <2>1, Channels
  <2>3. events' \in [Run -> Seq(Message)] /\ \A r \in Run : Len(events'[r]) <= EventCap
    BY <1>0, <1>21, <2>1, <2>2, ConversationAssumption DEF TypeOK, Chat
  <2>4. reply' \in [Ask -> Seq(Decision)]
    BY <1>0, <1>21, <2>1, <2>2, MessageKinds DEF TypeOK, Chat, Decision
  <2>5. told' \in [Conn -> SUBSET Run]
    BY <1>0, <1>21, <2>1, <2>2, MessageKinds DEF TypeOK, Chat
  <2> QED
    BY <1>0, <1>21, <2>3, <2>4, <2>5, ConversationAssumption DEF TypeOK, Seated, Conn, Chat
<1>22. ASSUME NEW s \in Conn, ChatOver(s) PROVE TypeOK' /\ Seated'
  <2>1. reader[s] = "reading"
    BY <1>0, <1>22 DEF Seated, ChatOver, Drained
  <2>2. busy' \in Nat
    <3>1. busy \in Nat /\ entry = "open" => busy > 0
      BY <1>0, <2>1, InUseIsCounted DEF TypeOK
    <3> QED
      BY <1>0, <1>22, <3>1 DEF ChatOver, Release, TypeOK
  <2> QED
    BY <1>0, <1>22, <2>2, ConversationAssumption DEF TypeOK, Seated, Conn, ChatOver, Drained
<1>23. ASSUME NEW s \in Conn, NEW q \in Ask, TimesOut(s, q) PROVE TypeOK' /\ Seated'
  <2>1. reply' \in [Ask -> Seq(Decision)] /\ pending' \in [Conn -> SUBSET Ask]
    BY <1>0, <1>23 DEF TypeOK, TimesOut, Route, Decision
  <2> QED
    BY <1>0, <1>23, <2>1, ConversationAssumption DEF TypeOK, Seated, Conn, TimesOut
<1>24. ASSUME NEW r \in Run, Token(r) PROVE TypeOK' /\ Seated'
  <2> DEFINE e == Event("token", <<r>>)
  <2>1. Emit(r, e)
    BY <1>24 DEF Token
  <2>2. e \in Message /\ events[r] \in Seq(Message)
    BY <1>0, <2>1, MessageKinds DEF TypeOK
  <2>3. /\ Append(events[r], e) \in Seq(Message) /\ Len(events[r]) \in Nat
        /\ Len(Append(events[r], e)) = Len(events[r]) + 1
    BY <2>2, Channels
  <2> HIDE DEF e
  <2>4. events' \in [Run -> Seq(Message)] /\ \A i \in Run : Len(events'[i]) <= EventCap
    BY <1>0, <2>1, <2>3, ConversationAssumption DEF TypeOK, Emit
  <2> QED
    BY <1>0, <1>24, <2>4, ConversationAssumption DEF TypeOK, Seated, Conn, Token
<1>25. ASSUME NEW r \in Run, RunEnds(r) PROVE TypeOK' /\ Seated'
  BY <1>0, <1>25, ConversationAssumption DEF TypeOK, Seated, Conn, RunEnds
<1>26. ASSUME NEW r \in Run, Finish(r) PROVE TypeOK' /\ Seated'
  BY <1>0, <1>26, ConversationAssumption DEF TypeOK, Seated, Conn, Finish
<1>27. ASSUME NEW r \in Run, Report(r) PROVE TypeOK' /\ Seated'
  <2>1. PICK t \in Final : Emit(r, Event(t, <<r>>))
    BY <1>27 DEF Report, Final
  <2> DEFINE e == Event(t, <<r>>)
  <2>2. e \in Message /\ events[r] \in Seq(Message)
    BY <1>0, <2>1, MessageKinds DEF TypeOK
  <2>3. /\ Append(events[r], e) \in Seq(Message) /\ Len(events[r]) \in Nat
        /\ Len(Append(events[r], e)) = Len(events[r]) + 1
    BY <2>2, Channels
  <2>5. Emit(r, e)
    BY <2>1
  <2> HIDE DEF e
  <2>4. events' \in [Run -> Seq(Message)] /\ \A i \in Run : Len(events'[i]) <= EventCap
    BY <1>0, <2>3, <2>5, ConversationAssumption DEF TypeOK, Emit
  <2> QED
    BY <1>0, <1>27, <2>4, ConversationAssumption DEF TypeOK, Seated, Conn, Report
<1>28. ASSUME NEW q \in Ask, Check(q) PROVE TypeOK' /\ Seated'
  BY <1>0, <1>28, ConversationAssumption DEF TypeOK, Seated, Conn, Check
<1>29. ASSUME NEW q \in Ask, Request(q) PROVE TypeOK' /\ Seated'
  <2> DEFINE e == Event("permission_request", q)
             r == q[1]
  <2>1. Emit(r, e) /\ r \in Run
    BY <1>29 DEF Request, Ask
  <2>2. e \in Message /\ events[r] \in Seq(Message)
    BY <1>0, <2>1, MessageKinds DEF TypeOK
  <2>3. /\ Append(events[r], e) \in Seq(Message) /\ Len(events[r]) \in Nat
        /\ Len(Append(events[r], e)) = Len(events[r]) + 1
    BY <2>2, Channels
  <2> HIDE DEF e, r
  <2>4. events' \in [Run -> Seq(Message)] /\ \A i \in Run : Len(events'[i]) <= EventCap
    BY <1>0, <2>1, <2>3, ConversationAssumption DEF TypeOK, Emit
  <2> QED
    BY <1>0, <1>29, <2>4, ConversationAssumption DEF TypeOK, Seated, Conn, Request
<1>30. ASSUME NEW q \in Ask, Decided(q) PROVE TypeOK' /\ Seated'
  BY <1>0, <1>30, ConversationAssumption DEF TypeOK, Seated, Conn, Decided
<1>31. ASSUME NEW q \in Ask, Abandoned(q) PROVE TypeOK' /\ Seated'
  BY <1>0, <1>31, ConversationAssumption DEF TypeOK, Seated, Conn, Abandoned
<1> QED
  BY <1>1, <1>2, <1>3, <1>4, <1>5, <1>6, <1>7, <1>8, <1>9, <1>10, <1>11, <1>12, <1>13, <1>14, <1>15, <1>16, <1>17, <1>18, <1>19, <1>20, <1>21, <1>22, <1>23, <1>24, <1>25, <1>26, <1>27, <1>28, <1>29, <1>30, <1>31
     DEF Next, Manager, Reader, Connection, Agent, Gate

LEMMA KeptStep == TypeInv /\ [Next]_vars => KeptWhileInUse'
<1> SUFFICES ASSUME TypeInv, [Next]_vars PROVE KeptWhileInUse'
  OBVIOUS
<1>0. TypeOK /\ Seated /\ KeptWhileInUse
  BY DEF TypeInv
<1>1. ASSUME UNCHANGED <<entry, busy>>, InUse' = InUse PROVE KeptWhileInUse'
  BY <1>0, <1>1 DEF KeptWhileInUse
<1>2. ASSUME NEW s \in Conn, reader[s] \notin {"out", "gone"}, entry' = entry, Release,
             reader' = [reader EXCEPT ![s] = "gone"]
      PROVE  KeptWhileInUse'
  <2>1. InUse' = InUse \ {s} /\ s \in InUse
    BY <1>0, <1>2 DEF TypeOK, InUse
  <2>2. Cardinality(InUse') = Cardinality(InUse) - 1
    BY <2>1, InUseIsFinite, FS_RemoveElement
  <2> QED
    BY <1>0, <1>2, <2>1, <2>2 DEF KeptWhileInUse, Release
<1>3. CASE Sweep
  <2>1. InUse' = InUse /\ InUse = {} /\ entry' = "evicted"
    BY <1>0, <1>3, InUseIsFinite, FS_EmptySet DEF Sweep, KeptWhileInUse, InUse, readVars
  <2> QED
    BY <2>1 DEF KeptWhileInUse
<1>4. CASE Delete
  BY <1>4 DEF Delete, KeptWhileInUse
<1>5. ASSUME NEW s \in Conn, Connect(s) PROVE KeptWhileInUse'
  <2>1. CASE entry = "open"
    <3>1. reader' = [reader EXCEPT ![s] = "reading"] /\ reader[s] = "out"
      BY <1>5, <2>1 DEF Connect
    <3>2. InUse' = InUse \cup {s} /\ s \notin InUse
      BY <1>0, <3>1 DEF TypeOK, InUse
    <3>3. Cardinality(InUse') = Cardinality(InUse) + 1
      BY <3>2, InUseIsFinite, FS_AddElement
    <3> QED
      BY <1>0, <1>5, <2>1, <3>3 DEF KeptWhileInUse, Connect, Acquire
  <2>2. CASE entry # "open"
    <3>1. reader' = [reader EXCEPT ![s] = "gone"] /\ reader[s] = "out"
      BY <1>5, <2>2 DEF Connect
    <3>2. InUse' = InUse
      BY <1>0, <3>1 DEF TypeOK, InUse
    <3> QED
      BY <1>1, <1>5, <2>2, <3>2 DEF Connect
  <2> QED
    BY <2>1, <2>2
<1>6. ASSUME NEW s \in Socket, Hangup(s) PROVE KeptWhileInUse'
  BY <1>2, <1>6 DEF Hangup, Conn
<1>7. ASSUME NEW s \in Conn, ChatOver(s) PROVE KeptWhileInUse'
  <2>1. reader[s] = "reading"
    BY <1>0, <1>7 DEF Seated, ChatOver, Drained
  <2> QED
    BY <1>2, <1>7, <2>1 DEF ChatOver
<1>8. ASSUME NEW s \in Socket, Refuse(s) \/ Refused(s) \/ ReadFails(s) \/ Shutdown(s)
      PROVE  KeptWhileInUse'
  <2>1. /\ reader[s] \notin {"out", "gone"} /\ reader'[s] \notin {"out", "gone"}
        /\ \A t \in Conn : t # s => reader'[t] = reader[t]
        /\ UNCHANGED <<entry, busy>>
    BY <1>0, <1>8 DEF TypeOK, Conn, Refuse, Refused, ReadFails, Shutdown, sessionVars
  <2>2. InUse' = InUse
    BY <2>1 DEF InUse
  <2> QED
    BY <1>1, <2>1, <2>2
<1>9. ASSUME UNCHANGED <<entry, busy, reader>> PROVE KeptWhileInUse'
  <2>1. InUse' = InUse
    BY <1>9 DEF InUse
  <2> QED
    BY <1>1, <1>9, <2>1
<1>10. ASSUME NEW s \in Socket,
              \/ Input(s) \/ Cancel(s)
              \/ \E q \in Ask, d \in Decision : Answer(s, q, d)
       PROVE  KeptWhileInUse'
  BY <1>9, <1>10 DEF Input, Cancel, Answer, sessionVars, readVars
<1>11. ASSUME NEW s \in Conn,
              \/ Leave(s) \/ StartRun(s) \/ StoreCancel(s) \/ Deliver(s) \/ WriterQuits(s)
              \/ Forward(s) \/ Send(s) \/ TurnOver(s) \/ Chat(s)
              \/ \E q \in Ask : TimesOut(s, q)
       PROVE  KeptWhileInUse'
  BY <1>9, <1>11 DEF Leave, StartRun, StoreCancel, Deliver, WriterQuits, Forward, Send, TurnOver,
                     Chat, TimesOut, sessionVars, readVars
<1>12. ASSUME NEW r \in Run, Agent(r) PROVE KeptWhileInUse'
  BY <1>9, <1>12 DEF Agent, Token, RunEnds, Finish, Report, sessionVars, readVars
<1>13. ASSUME NEW q \in Ask, Gate(q) PROVE KeptWhileInUse'
  BY <1>9, <1>13 DEF Gate, Check, Request, Decided, Abandoned, sessionVars, readVars
<1>14. CASE UNCHANGED vars
  BY <1>9, <1>14 DEF vars, sessionVars, readVars
<1> QED
  BY <1>3, <1>4, <1>5, <1>6, <1>7, <1>8, <1>10, <1>11, <1>12, <1>13, <1>14
     DEF Next, Manager, Reader, Connection

LEMMA NextTypeInv == TypeInv /\ [Next]_vars => TypeInv'
  BY TypeStep, KeptStep DEF TypeInv

\* The connections, the session, its runs, the permission requests and the channels keep their
\* types, for any connections, calls, runs and bounds.
THEOREM TypesAreKept == Spec => []TypeOK
  BY InitTypeInv, NextTypeInv, PTL DEF Spec, TypeInv

\* The count of the manager is the number of the connections that use the session, and a
\* session in use is never evicted.
THEOREM SessionIsKept == Spec => []KeptWhileInUse
  BY InitTypeInv, NextTypeInv, PTL DEF Spec, TypeInv

-----------------------------------------------------------------------------
LEMMA EndsStep == TypeInv /\ EndsInv /\ [Next]_vars => EndsInv'
<1> SUFFICES ASSUME TypeInv, EndsInv, [Next]_vars, NEW r \in Run,
                    phase'[r] \in {"reporting", "over"}, recorded'[r] = "running"
             PROVE  ~Journalled'
  BY DEF EndsInv
<1>0. TypeOK
  BY DEF TypeInv
<1>1. ~Journalled => ~Journalled'
  <2>1. entry' # "open" \/ entry' = entry
    BY DEF Next, vars, Manager, Reader, Connection, Agent, Gate, Sweep, Delete, Input, Refuse, Refused,
           Answer, Cancel, ReadFails, Shutdown, Hangup, Connect, Leave, StartRun, StoreCancel, Deliver,
           WriterQuits, Forward, Send, TurnOver, Chat, ChatOver, TimesOut, Token, RunEnds, Finish,
           Report, Check, Request, Decided, Abandoned, sessionVars
  <2> QED
    BY <2>1 DEF Journalled
<1>2. ASSUME phase'[r] = phase[r], recorded'[r] = recorded[r] PROVE ~Journalled'
  BY <1>1, <1>2 DEF EndsInv
<1>3. ASSUME NEW s \in Conn, StartRun(s) PROVE ~Journalled'
  BY <1>0, <1>2, <1>3 DEF StartRun, TypeOK
<1>4. ASSUME NEW i \in Run, Agent(i) PROVE ~Journalled'
  <2>1. CASE Token(i)
    BY <1>0, <1>2, <2>1 DEF Token, TypeOK
  <2>2. CASE RunEnds(i)
    BY <1>0, <1>1, <1>2, <2>2 DEF RunEnds, TypeOK
  <2>3. CASE Finish(i)
    BY <1>0, <1>2, <2>3 DEF Finish, TypeOK
  <2>4. CASE Report(i)
    BY <1>0, <1>1, <2>4 DEF Report, TypeOK, EndsInv
  <2> QED
    BY <1>4, <2>1, <2>2, <2>3, <2>4 DEF Agent
<1>5. ASSUME UNCHANGED <<phase, recorded>> PROVE ~Journalled'
  BY <1>2, <1>5
<1>6. CASE Manager \/ UNCHANGED vars
  BY <1>5, <1>6 DEF Manager, Sweep, Delete, vars, runVars
<1>7. ASSUME NEW s \in Socket, Reader(s) PROVE ~Journalled'
  BY <1>5, <1>7 DEF Reader, Input, Refuse, Refused, Answer, Cancel, ReadFails, Shutdown, Hangup, runVars
<1>8. ASSUME NEW s \in Conn, Connection(s) PROVE ~Journalled'
  BY <1>3, <1>5, <1>8 DEF Connection, Connect, Leave, StoreCancel, Deliver, WriterQuits, Forward, Send,
                          TurnOver, Chat, ChatOver, TimesOut, Drained, runVars
<1>9. ASSUME NEW q \in Ask, Gate(q) PROVE ~Journalled'
  BY <1>5, <1>9 DEF Gate, Check, Request, Decided, Abandoned, runVars
<1> QED
  BY <1>4, <1>6, <1>7, <1>8, <1>9 DEF Next

\* A run does not end as "running" in a journal that is there to record its end.
THEOREM EndsAreAlwaysRecorded == Spec => []EndsAreRecorded
<1>1. Init => TypeInv /\ EndsInv
  BY InitTypeInv DEF Init, EndsInv
<1>2. TypeInv /\ EndsInv /\ [Next]_vars => (TypeInv /\ EndsInv)'
  BY NextTypeInv, EndsStep
<1>3. EndsInv => EndsAreRecorded
  BY DEF EndsInv, EndsAreRecorded
<1> QED
  BY <1>1, <1>2, <1>3, PTL DEF Spec

-----------------------------------------------------------------------------
\* An answer of the client that is neither lost nor forged keeps GrantInv.
LEMMA GrantFrame ==
    ASSUME TypeOK, GrantInv, said \subseteq said',
           always' = always,
           \A q \in Ask : call'[q] = "granted" => call[q] = "granted",
           \A q \in Ask : \A i \in 1..Len(reply'[q]) :
              \/ i \in 1..Len(reply[q]) /\ reply'[q][i] = reply[q][i]
              \/ reply'[q][i] = "deny"
              \/ <<q, reply'[q][i]>> \in said'
    PROVE  GrantInv'
  BY DEF GrantInv, GrantedByTheClient

LEMMA GrantStep == TypeInv /\ GrantInv /\ [Next]_vars => GrantInv'
<1> SUFFICES ASSUME TypeInv, GrantInv, [Next]_vars PROVE GrantInv'
  OBVIOUS
<1>0. TypeOK /\ Seated /\ TypeOK'
  BY NextTypeInv DEF TypeInv
<1>1. ASSUME UNCHANGED <<said, always, call, reply>> PROVE GrantInv'
  BY <1>0, <1>1, GrantFrame
<1>2. ASSUME UNCHANGED <<always, call>>, said \subseteq said', NEW q \in Ask, NEW d \in Decision,
             reply' = [reply EXCEPT ![q] = Append(@, d)], d = "deny" \/ <<q, d>> \in said'
      PROVE  GrantInv'
  <2>1. \A p \in Ask : p # q => reply'[p] = reply[p]
    BY <1>0, <1>2 DEF TypeOK
  <2>2. reply[q] \in Seq(Decision) /\ reply'[q] = Append(reply[q], d)
    BY <1>0, <1>2 DEF TypeOK
  <2>3. \A i \in 1..Len(reply'[q]) :
           \/ i \in 1..Len(reply[q]) /\ reply'[q][i] = reply[q][i]
           \/ reply'[q][i] = d
    BY <2>2, Channels
  <2>4. \A p \in Ask : \A i \in 1..Len(reply'[p]) :
           \/ i \in 1..Len(reply[p]) /\ reply'[p][i] = reply[p][i]
           \/ reply'[p][i] = "deny"
           \/ <<p, reply'[p][i]>> \in said'
    BY <1>2, <2>1, <2>3
  <2> QED
    BY <1>0, <1>2, <2>4, GrantFrame
<1>3. ASSUME NEW s \in Socket, NEW q \in Ask, NEW d \in Decision, Answer(s, q, d) PROVE GrantInv'
  BY <1>2, <1>3 DEF Answer, Route, sessionVars
<1>4. ASSUME NEW s \in Conn, NEW q \in Ask, TimesOut(s, q) PROVE GrantInv'
  BY <1>2, <1>4 DEF TimesOut, Route, Decision, sessionVars, readVars
<1>5. ASSUME NEW s \in Conn, Chat(s) PROVE GrantInv'
  <2> DEFINE e == Head(events[at[s]])
  <2>1. at[s] \in Run /\ events[at[s]] \in Seq(Message) /\ events[at[s]] # <<>>
    BY <1>0, <1>5 DEF TypeOK, Seated, Run, Chat, NextEvent
  <2>2. e \in Message
    BY <2>1, Channels
  <2>3. e.type = "permission_request" => e.of \in Ask
    BY <2>2, MessageKinds
  <2>4. UNCHANGED <<always, call, said>>
    BY <1>5 DEF Chat, sessionVars
  <2>5. CASE e.type = "permission_request"
    <3>1. reply' = [reply EXCEPT ![e.of] = Append(@, "deny")]
      BY <1>5, <2>5 DEF Chat
    <3> HIDE DEF e
    <3> QED
      BY <1>2, <2>3, <2>4, <2>5, <3>1 DEF Decision
  <2>6. CASE e.type # "permission_request"
    BY <1>1, <1>5, <2>4, <2>6 DEF Chat
  <2> QED
    BY <2>5, <2>6
<1>6. ASSUME NEW s \in Socket, Shutdown(s) PROVE GrantInv'
  <2>1. UNCHANGED <<always, call, said>>
    BY <1>6 DEF Shutdown, sessionVars
  <2>2. \A q \in Ask : reply'[q] = reply[q] \/ reply'[q] = <<"deny">>
    BY <1>0, <1>6 DEF Shutdown, TypeOK
  <2>3. \A q \in Ask : \A i \in 1..Len(reply'[q]) :
           \/ i \in 1..Len(reply[q]) /\ reply'[q][i] = reply[q][i]
           \/ reply'[q][i] = "deny"
    BY <2>2
  <2> QED
    BY <1>0, <2>1, <2>3, GrantFrame
<1>7. ASSUME NEW q \in Ask, Check(q) PROVE GrantInv'
  <2>1. UNCHANGED <<always, said, reply>>
    BY <1>7 DEF Check, sessionVars, readVars
  <2>2. \A p \in Ask : call'[p] = "granted" => call[p] = "granted" \/ always
    BY <1>0, <1>7 DEF Check, TypeOK
  <2> QED
    BY <2>1, <2>2 DEF GrantInv, GrantedByTheClient
<1>8. ASSUME NEW q \in Ask, Request(q) \/ Abandoned(q) PROVE GrantInv'
  <2>1. UNCHANGED <<always, said, reply>>
    BY <1>8 DEF Request, Abandoned, sessionVars, readVars
  <2>2. \A p \in Ask : call'[p] = "granted" => call[p] = "granted"
    BY <1>0, <1>8 DEF Request, Abandoned, TypeOK
  <2> QED
    BY <2>1, <2>2 DEF GrantInv, GrantedByTheClient
<1>9. ASSUME NEW q \in Ask, Decided(q) PROVE GrantInv'
  <2> DEFINE d == Head(reply[q])
  <2>1. reply[q] \in Seq(Decision) /\ reply[q] # <<>>
    BY <1>0, <1>9 DEF Decided, TypeOK
  <2>2. /\ d \in Decision /\ d = reply[q][1] /\ 1 \in 1..Len(reply[q])
        /\ \A i \in 1..Len(Tail(reply[q])) :
              i + 1 \in 1..Len(reply[q]) /\ Tail(reply[q])[i] = reply[q][i + 1]
    BY <2>1, Channels
  <2>3. d = "deny" \/ <<q, d>> \in said
    BY <2>2 DEF GrantInv
  <2>4. /\ said' = said /\ always' = (always \/ d = "allow_always")
        /\ call' = [call EXCEPT ![q] = IF d = "deny" THEN "refused" ELSE "granted"]
        /\ reply' = [reply EXCEPT ![q] = Tail(@)]
    BY <1>9 DEF Decided, readVars
  <2> HIDE DEF d
  <2>5. always' => \E p \in Ask : <<p, "allow_always">> \in said'
    BY <2>3, <2>4 DEF GrantInv
  <2>6. GrantedByTheClient'
    <3>1. \A p \in Ask : call'[p] = "granted" => call[p] = "granted" \/ (p = q /\ d # "deny")
      BY <1>0, <2>4 DEF TypeOK
    <3>2. d # "deny" => <<q, "allow_once">> \in said \/ <<q, "allow_always">> \in said
      BY <2>2, <2>3 DEF Decision
    <3> QED
      BY <2>4, <3>1, <3>2 DEF GrantInv, GrantedByTheClient
  <2>7. \A p \in Ask : \A i \in 1..Len(reply'[p]) :
           reply'[p][i] # "deny" => <<p, reply'[p][i]>> \in said'
    <3>1. \A p \in Ask : p # q => reply'[p] = reply[p]
      BY <1>0, <2>4 DEF TypeOK
    <3>2. reply'[q] = Tail(reply[q])
      BY <1>0, <2>4 DEF TypeOK
    <3> QED
      BY <2>2, <2>4, <3>1, <3>2 DEF GrantInv
  <2> QED
    BY <2>5, <2>6, <2>7 DEF GrantInv
<1>10. CASE Manager \/ UNCHANGED vars
  BY <1>1, <1>10 DEF Manager, Sweep, Delete, vars, sessionVars, readVars, runVars
<1>11. ASSUME NEW s \in Socket, Reader(s) PROVE GrantInv'
  BY <1>1, <1>3, <1>6, <1>11 DEF Reader, Input, Refuse, Refused, Cancel, ReadFails, Hangup,
                                 sessionVars, readVars, runVars
<1>12. ASSUME NEW s \in Conn, Connection(s) PROVE GrantInv'
  BY <1>1, <1>4, <1>5, <1>12
     DEF Connection, Connect, Leave, StartRun, StoreCancel, Deliver, WriterQuits, Forward, Send,
         TurnOver, ChatOver, Drained, sessionVars, readVars, runVars
<1>13. ASSUME NEW r \in Run, Agent(r) PROVE GrantInv'
  BY <1>1, <1>13 DEF Agent, Token, RunEnds, Finish, Report, sessionVars, readVars
<1> QED
  BY <1>7, <1>8, <1>9, <1>10, <1>11, <1>12, <1>13 DEF Next, Gate

\* No call is let through that the client, or an earlier "always" of the client, did not grant.
THEOREM OnlyTheClientGrants == Spec => []GrantedByTheClient
<1>1. Init => TypeInv /\ GrantInv
  BY InitTypeInv DEF Init, GrantInv, GrantedByTheClient
<1>2. TypeInv /\ GrantInv /\ [Next]_vars => (TypeInv /\ GrantInv)'
  BY NextTypeInv, GrantStep
<1>3. GrantInv => GrantedByTheClient
  BY DEF GrantInv
<1> QED
  BY <1>1, <1>2, <1>3, PTL DEF Spec

-----------------------------------------------------------------------------
\* Taking the first event of a run's channel, and adding one at its end.
LEMMA TakeEvent ==
    ASSUME TypeOK, NEW r \in Run, events[r] # <<>>, events' = [events EXCEPT ![r] = Tail(@)]
    PROVE  /\ \A i \in Requests(r)' : i + 1 \in Requests(r) /\ events'[r][i] = events[r][i + 1]
           /\ \A i \in Requests(r)' : i \in Nat /\ i + 1 # 1
           /\ \A t \in Run : t # r => Requests(t)' = Requests(t) /\ events'[t] = events[t]
           /\ Head(events[r]).type = "permission_request" => 1 \in Requests(r)
           /\ Head(events[r]) = events[r][1]
<1>1. events[r] \in Seq(Message) /\ events'[r] = Tail(events[r])
  BY DEF TypeOK
<1>2. \A t \in Run : t # r => events'[t] = events[t]
  BY DEF TypeOK
<1>3. /\ Len(events[r]) \in Nat /\ Len(events[r]) > 0 /\ Head(events[r]) = events[r][1]
      /\ Len(Tail(events[r])) = Len(events[r]) - 1
      /\ \A i \in 1..Len(Tail(events[r])) : Tail(events[r])[i] = events[r][i + 1]
  BY <1>1, Channels
<1>4. ASSUME NEW i \in Requests(r)'
      PROVE  i + 1 \in Requests(r) /\ events'[r][i] = events[r][i + 1] /\ i \in Nat /\ i + 1 # 1
  <2>1. i \in 1..Len(Tail(events[r])) /\ Tail(events[r])[i].type = "permission_request"
    BY <1>1 DEF Requests
  <2>2. Tail(events[r])[i] = events[r][i + 1]
    BY <1>3, <2>1
  <2>3. i \in Nat /\ i + 1 # 1 /\ i + 1 \in 1..Len(events[r])
    BY <1>3, <2>1
  <2> QED
    BY <1>1, <2>1, <2>2, <2>3, Zenon DEF Requests
<1>5. \A t \in Run : t # r => Requests(t)' = Requests(t)
  BY <1>2 DEF Requests
<1>6. Head(events[r]).type = "permission_request" => 1 \in Requests(r)
  BY <1>3 DEF Requests
<1> QED
  BY <1>2, <1>3, <1>4, <1>5, <1>6

LEMMA PutEvent ==
    ASSUME TypeOK, NEW r \in Run, NEW e \in Message, events' = [events EXCEPT ![r] = Append(@, e)]
    PROVE  /\ \A i \in Requests(r)' :
                 \/ i \in Requests(r) /\ events'[r][i] = events[r][i]
                 \/ i = Len(events[r]) + 1 /\ events'[r][i] = e /\ e.type = "permission_request"
           /\ \A t \in Run : t # r => Requests(t)' = Requests(t) /\ events'[t] = events[t]
<1>1. events[r] \in Seq(Message) /\ events'[r] = Append(events[r], e)
  BY DEF TypeOK
<1>2. \A t \in Run : t # r => events'[t] = events[t]
  BY DEF TypeOK
<1>3. /\ Len(events[r]) \in Nat /\ Len(events'[r]) = Len(events[r]) + 1
      /\ \A i \in 1..Len(events[r]) : events'[r][i] = events[r][i]
      /\ events'[r][Len(events[r]) + 1] = e
  BY <1>1, Channels
<1> QED
  BY <1>2, <1>3 DEF Requests

\* Who finds the request pending answers it: it is nowhere else.
LEMMA AnsweredOnce ==
    ASSUME TypeInv, AnswerInv, NEW s \in Conn, NEW q \in pending[s], NEW d \in Decision,
           Route(s, q, d), UNCHANGED <<call, events>>
    PROVE  AnswerInv'
<1>0. TypeOK /\ q \in Ask
  BY DEF TypeInv, TypeOK
<1>1. /\ reply[q] = <<>> /\ call[q] \in {"waiting", "aborted"}
      /\ \A t \in Conn : t # s => q \notin pending[t]
      /\ \A r \in Run : \A i \in Requests(r) : events[r][i].of # q
  BY <1>0 DEF AnswerInv, AnswersNeverBlock, InTransit
<1>2. /\ pending'[s] = pending[s] \ {q} /\ \A t \in Conn : t # s => pending'[t] = pending[t]
      /\ \A p \in Ask : p # q => reply'[p] = reply[p]
      /\ reply'[q] = Append(<<>>, d)
  BY <1>0, <1>1 DEF TypeOK, Route
<1>3. Len(reply'[q]) = 1
  BY <1>2
<1>4. AnswersNeverBlock'
  <2>1. \A t \in Conn : \A p \in pending[t] : p \in Ask
    BY <1>0 DEF TypeOK
  <2>2. ASSUME NEW t \in Conn, NEW p \in pending'[t]
        PROVE  reply'[p] = <<>> /\ call'[p] \in {"waiting", "aborted"} /\ p \in pending[t]
    <3>1. p \in pending[t] /\ p # q
      BY <1>1, <1>2
    <3> QED
      BY <1>2, <2>1, <3>1 DEF AnswerInv, AnswersNeverBlock
  <2>3. ASSUME NEW t \in Conn, NEW u \in Conn, t # u PROVE pending'[t] \cap pending'[u] = {}
    BY <2>2, <2>3 DEF AnswerInv, AnswersNeverBlock
  <2>4. ASSUME NEW p \in Ask PROVE Len(reply'[p]) <= 1
    <3>1. CASE p = q
      <4>1. Len(reply'[p]) = 1
        BY <1>3, <3>1, Zenon
      <4> QED
        BY <4>1
    <3>2. CASE p # q
      <4>1. reply'[p] = reply[p] /\ Len(reply[p]) <= 1
        BY <1>2, <3>2 DEF AnswerInv, AnswersNeverBlock
      <4> QED
        BY <4>1
    <3> QED
      BY <3>1, <3>2
  <2> QED
    BY <2>2, <2>3, <2>4 DEF AnswersNeverBlock
<1>5. \A r \in Run : Requests(r)' = Requests(r)
  BY DEF Requests
<1>6. \A r \in Run : \A i \in Requests(r) : events[r][i].of \in Ask
  BY <1>0, MessageKinds, ElementOfSeq DEF Requests, TypeOK
<1>7. ASSUME NEW r \in Run, NEW i \in Requests(r)
      PROVE  LET p == events[r][i].of
             IN  /\ p[1] = r /\ call[p] \in {"waiting", "aborted"} /\ reply'[p] = <<>>
                 /\ \A t \in Conn : p \notin pending'[t]
  <2> DEFINE p == events[r][i].of
  <2>1. /\ p[1] = r /\ call[p] \in {"waiting", "aborted"} /\ reply[p] = <<>>
        /\ \A t \in Conn : p \notin pending[t]
    BY DEF AnswerInv, InTransit
  <2>2. p # q /\ p \in Ask
    BY <1>1, <1>6
  <2> HIDE DEF p
  <2>3. reply'[p] = <<>> /\ \A t \in Conn : p \notin pending'[t]
    BY <1>2, <2>1, <2>2
  <2> QED
    BY <2>1, <2>3 DEF p
<1>8. InTransit'
  BY <1>1, <1>2, <1>5, <1>7 DEF AnswerInv, InTransit
<1> QED
  BY <1>4, <1>8 DEF AnswerInv

LEMMA RequestsAsk == TypeOK => \A r \in Run : \A i \in Requests(r) : events[r][i].of \in Ask
  BY MessageKinds, ElementOfSeq DEF Requests, TypeOK

\* A call that is not waiting may go on; one that waits may give up.
LEMMA AnswerFrame ==
    ASSUME TypeInv, AnswerInv, UNCHANGED <<pending, reply>>,
           \A r \in Run : \A i \in Requests(r)' : i \in Requests(r) /\ events'[r][i] = events[r][i],
           \A q \in Ask : /\ call[q] \in {"waiting", "aborted"} => call'[q] \in {"waiting", "aborted"}
                          /\ call'[q] \in {"idle", "emitting"} => call[q] \in {"idle", "emitting"}
    PROVE  AnswerInv'
<1>0. TypeOK /\ AnswersNeverBlock /\ InTransit
  BY DEF TypeInv, AnswerInv
<1>1. AnswersNeverBlock'
  <2>1. \A s \in Conn : \A q \in pending[s] : q \in Ask
    BY <1>0 DEF TypeOK
  <2> QED
    BY <1>0, <2>1 DEF AnswersNeverBlock
<1>2. ASSUME NEW r \in Run, NEW i \in Requests(r)'
      PROVE  LET q == events'[r][i].of
             IN  /\ q[1] = r /\ call'[q] \in {"waiting", "aborted"} /\ reply[q] = <<>>
                 /\ \A s \in Conn : q \notin pending[s]
  <2> DEFINE q == events[r][i].of
  <2>1. q \in Ask /\ events'[r][i] = events[r][i]
    BY <1>0, RequestsAsk
  <2>2. /\ q[1] = r /\ call[q] \in {"waiting", "aborted"} /\ reply[q] = <<>>
        /\ \A s \in Conn : q \notin pending[s]
    BY <1>0 DEF InTransit
  <2>3. call'[q] \in {"waiting", "aborted"}
    BY <2>1, <2>2
  <2> QED
    BY <2>1, <2>2, <2>3
<1>3. \A r \in Run : \A i, j \in Requests(r)' : i # j => events'[r][i].of # events'[r][j].of
  BY <1>0 DEF InTransit
<1>4. \A q \in Ask : call'[q] \in {"idle", "emitting"} => reply[q] = <<>>
  BY <1>0 DEF InTransit
<1>5. InTransit'
  BY <1>2, <1>3, <1>4 DEF InTransit
<1> QED
  BY <1>1, <1>5 DEF AnswerInv

LEMMA AskedOnce == ASSUME TypeInv, AnswerInv, NEW q \in Ask, Request(q) PROVE AnswerInv'
<1> DEFINE e == Event("permission_request", q)
           r == q[1]
<1>0. TypeOK /\ AnswersNeverBlock /\ InTransit
  BY DEF TypeInv, AnswerInv
<1>1. /\ r \in Run /\ events' = [events EXCEPT ![r] = Append(@, e)]
      /\ e \in Message /\ e.of = q
      /\ call[q] = "emitting" /\ call' = [call EXCEPT ![q] = "waiting"]
      /\ UNCHANGED <<pending, reply>>
  BY MessageKinds DEF Request, Emit, Event, Ask, turnVars
<1>2. /\ reply[q] = <<>>
      /\ \A s \in Conn : q \notin pending[s]
      /\ \A t \in Run : \A i \in Requests(t) : events[t][i].of # q
  BY <1>0, <1>1 DEF InTransit, AnswersNeverBlock
<1>3. call'[q] = "waiting" /\ \A p \in Ask : p # q => call'[p] = call[p]
  BY <1>0, <1>1 DEF TypeOK
<1> HIDE DEF e, r
<1>4. /\ \A i \in Requests(r)' :
            \/ i \in Requests(r) /\ events'[r][i] = events[r][i]
            \/ i = Len(events[r]) + 1 /\ events'[r][i] = e
      /\ \A t \in Run : t # r => Requests(t)' = Requests(t) /\ events'[t] = events[t]
  BY <1>0, <1>1, PutEvent
<1>5. AnswersNeverBlock'
  <2>1. \A s \in Conn : \A p \in pending[s] : p \in Ask
    BY <1>0 DEF TypeOK
  <2> QED
    BY <1>0, <1>1, <1>2, <1>3, <2>1 DEF AnswersNeverBlock
<1>6. ASSUME NEW t \in Run, NEW i \in Requests(t)'
      PROVE  \/ /\ t = r /\ i = Len(events[r]) + 1 /\ events'[t][i].of = q
             \/ /\ i \in Requests(t) /\ events'[t][i] = events[t][i]
                /\ events[t][i].of \in Ask /\ events[t][i].of # q
  <2>1. CASE t = r
    <3>1. i \in Requests(r)'
      BY <2>1, Zenon
    <3>2. CASE i = Len(events[r]) + 1 /\ events'[r][i] = e
      BY <1>1, <2>1, <3>2
    <3>3. CASE i \in Requests(r) /\ events'[r][i] = events[r][i]
      BY <1>0, <1>1, <1>2, <2>1, <3>3, RequestsAsk
    <3> QED
      BY <1>4, <3>1, <3>2, <3>3
  <2>2. CASE t # r
    BY <1>0, <1>2, <1>4, <2>2, RequestsAsk
  <2> QED
    BY <2>1, <2>2
<1>7. ASSUME NEW t \in Run, NEW i \in Requests(t)'
      PROVE  LET p == events'[t][i].of
             IN  /\ p[1] = t /\ call'[p] \in {"waiting", "aborted"} /\ reply'[p] = <<>>
                 /\ \A s \in Conn : p \notin pending'[s]
  <2>1. CASE t = r /\ events'[t][i].of = q
    BY <1>1, <1>2, <1>3, <2>1 DEF r
  <2>2. CASE /\ i \in Requests(t) /\ events'[t][i] = events[t][i]
             /\ events[t][i].of \in Ask /\ events[t][i].of # q
    <3> DEFINE p == events[t][i].of
    <3>1. /\ p[1] = t /\ call[p] \in {"waiting", "aborted"} /\ reply[p] = <<>>
          /\ \A s \in Conn : p \notin pending[s]
      BY <1>0, <2>2 DEF InTransit
    <3> QED
      BY <1>1, <1>3, <2>2, <3>1
  <2> QED
    BY <1>6, <2>1, <2>2
<1>8. ASSUME NEW t \in Run, NEW i \in Requests(t)', NEW j \in Requests(t)', i # j
      PROVE  events'[t][i].of # events'[t][j].of
  <2>1. CASE i \in Requests(t) /\ j \in Requests(t)
    BY <1>0, <1>6, <1>8, <2>1 DEF InTransit
  <2>2. CASE i \notin Requests(t) \/ j \notin Requests(t)
    BY <1>6, <1>8, <2>2
  <2> QED
    BY <2>1, <2>2
<1>9. \A p \in Ask : call'[p] \in {"idle", "emitting"} => reply'[p] = <<>>
  BY <1>0, <1>1, <1>3 DEF InTransit
<1>10. InTransit'
  BY <1>7, <1>8, <1>9 DEF InTransit
<1> QED
  BY <1>5, <1>10 DEF AnswerInv

\* A request that is taken from its channel is pending with nobody, and the others are others.
LEMMA TakenRequest ==
    ASSUME TypeInv, AnswerInv, NEW r \in Run, events[r] # <<>>,
           events' = [events EXCEPT ![r] = Tail(@)]
    PROVE  /\ Head(events[r]) \in Message
           /\ Head(events[r]).type = "permission_request" =>
                 LET q == Head(events[r]).of
                 IN  /\ q \in Ask /\ reply[q] = <<>> /\ call[q] \in {"waiting", "aborted"}
                     /\ \A s \in Conn : q \notin pending[s]
                     /\ \A t \in Run : \A i \in Requests(t)' : events'[t][i].of # q
           /\ \A t \in Run : \A i \in Requests(t)' :
                 LET p == events'[t][i].of
                 IN  /\ p \in Ask /\ p[1] = t /\ call[p] \in {"waiting", "aborted"} /\ reply[p] = <<>>
                     /\ \A s \in Conn : p \notin pending[s]
           /\ \A t \in Run : \A i, j \in Requests(t)' : i # j => events'[t][i].of # events'[t][j].of
<1>0. TypeOK /\ InTransit
  BY DEF TypeInv, AnswerInv
<1>1. /\ \A i \in Requests(r)' : i + 1 \in Requests(r) /\ events'[r][i] = events[r][i + 1]
      /\ \A i \in Requests(r)' : i \in Nat /\ i + 1 # 1
      /\ \A t \in Run : t # r => Requests(t)' = Requests(t) /\ events'[t] = events[t]
      /\ Head(events[r]).type = "permission_request" => 1 \in Requests(r)
      /\ Head(events[r]) = events[r][1]
  BY <1>0, TakeEvent
<1>2. Head(events[r]) \in Message
  <2>1. events[r] \in Seq(Message)
    BY <1>0 DEF TypeOK
  <2> QED
    BY <2>1, Channels
<1>3. ASSUME NEW t \in Run, NEW i \in Requests(t)'
      PROVE  \E j \in Requests(t) :
                /\ events'[t][i] = events[t][j]
                /\ t = r => j = i + 1 /\ j # 1
                /\ t # r => j = i
  <2>1. CASE t = r
    <3>1. i \in Requests(r)'
      BY <2>1, Zenon
    <3> QED
      BY <1>1, <2>1, <3>1
  <2>2. CASE t # r
    BY <1>1, <2>2
  <2> QED
    BY <2>1, <2>2
<1>4. ASSUME NEW t \in Run, NEW i \in Requests(t)'
      PROVE  LET p == events'[t][i].of
             IN  /\ p \in Ask /\ p[1] = t /\ call[p] \in {"waiting", "aborted"} /\ reply[p] = <<>>
                 /\ \A s \in Conn : p \notin pending[s]
  <2>1. PICK j \in Requests(t) : events'[t][i] = events[t][j]
    BY <1>3
  <2> DEFINE p == events[t][j].of
  <2>2. /\ p \in Ask /\ p[1] = t /\ call[p] \in {"waiting", "aborted"} /\ reply[p] = <<>>
        /\ \A s \in Conn : p \notin pending[s]
    BY <1>0, RequestsAsk DEF InTransit
  <2> QED
    BY <2>1, <2>2
<1>5. \A t \in Run : \A i, j \in Requests(t) : i # j => events[t][i].of # events[t][j].of
  BY <1>0 DEF InTransit
<1>6. ASSUME NEW t \in Run, NEW i \in Requests(t)', NEW j \in Requests(t)', i # j
      PROVE  events'[t][i].of # events'[t][j].of
  <2>1. CASE t = r
    <3>1. i \in Requests(r)' /\ j \in Requests(r)'
      BY <2>1, Zenon
    <3>2. i + 1 # j + 1
      BY <1>1, <1>6, <3>1
    <3>3. events[r][i + 1].of # events[r][j + 1].of
      BY <1>1, <1>5, <3>1, <3>2
    <3> QED
      BY <1>1, <2>1, <3>1, <3>3
  <2>2. CASE t # r
    BY <1>1, <1>6, <1>5, <2>2
  <2> QED
    BY <2>1, <2>2
<1>7. ASSUME Head(events[r]).type = "permission_request"
      PROVE  LET q == Head(events[r]).of
             IN  /\ q \in Ask /\ reply[q] = <<>> /\ call[q] \in {"waiting", "aborted"}
                 /\ \A s \in Conn : q \notin pending[s]
                 /\ \A t \in Run : \A i \in Requests(t)' : events'[t][i].of # q
  <2> DEFINE q == events[r][1].of
  <2>1. 1 \in Requests(r) /\ Head(events[r]).of = q
    BY <1>1, <1>7
  <2>2. /\ q \in Ask /\ q[1] = r /\ reply[q] = <<>> /\ call[q] \in {"waiting", "aborted"}
        /\ \A s \in Conn : q \notin pending[s]
    BY <1>0, <2>1, RequestsAsk DEF InTransit
  <2>3. ASSUME NEW t \in Run, NEW i \in Requests(t)' PROVE events'[t][i].of # q
    <3>1. CASE t = r
      <4>1. PICK j \in Requests(r) : events'[t][i] = events[r][j] /\ j # 1
        BY <1>3, <3>1
      <4> QED
        BY <1>5, <2>1, <4>1
    <3>2. CASE t # r
      BY <1>4, <2>2, <3>2
    <3> QED
      BY <3>1, <3>2
  <2> QED
    BY <2>1, <2>2, <2>3
<1> QED
  BY <1>2, <1>4, <1>6, <1>7

LEMMA ForwardedOnce == ASSUME TypeInv, AnswerInv, NEW s \in Conn, Forward(s) PROVE AnswerInv'
<1> DEFINE r == at[s]
           e == Head(events[at[s]])
<1>0. TypeOK /\ Seated /\ AnswersNeverBlock /\ InTransit
  BY DEF TypeInv, AnswerInv
<1>1. /\ r \in Run /\ events[r] # <<>> /\ events' = [events EXCEPT ![r] = Tail(@)]
      /\ pending' = [pending EXCEPT ![s] = @ \cup IF e.type = "permission_request" THEN {e.of} ELSE {}]
      /\ UNCHANGED <<call, reply>>
  BY <1>0 DEF Forward, NextEvent, TypeOK, Seated, Run
<1>2. /\ e.type = "permission_request" =>
            /\ e.of \in Ask /\ reply[e.of] = <<>> /\ call[e.of] \in {"waiting", "aborted"}
            /\ \A t \in Conn : e.of \notin pending[t]
            /\ \A t \in Run : \A i \in Requests(t)' : events'[t][i].of # e.of
      /\ \A t \in Run : \A i \in Requests(t)' :
            LET p == events'[t][i].of
            IN  /\ p \in Ask /\ p[1] = t /\ call[p] \in {"waiting", "aborted"} /\ reply[p] = <<>>
                /\ \A c \in Conn : p \notin pending[c]
      /\ \A t \in Run : \A i, j \in Requests(t)' : i # j => events'[t][i].of # events'[t][j].of
  BY <1>1, TakenRequest
<1> HIDE DEF e, r
<1>3. /\ \A c \in Conn : c # s => pending'[c] = pending[c]
      /\ \A q \in pending'[s] : q \in pending[s] \/ (e.type = "permission_request" /\ q = e.of)
  BY <1>0, <1>1 DEF TypeOK
<1>4. AnswersNeverBlock'
  <2>1. ASSUME NEW c \in Conn, NEW q \in pending'[c]
        PROVE  reply'[q] = <<>> /\ call'[q] \in {"waiting", "aborted"}
    BY <1>0, <1>1, <1>2, <1>3 DEF AnswersNeverBlock
  <2>2. ASSUME NEW c \in Conn, NEW d \in Conn, c # d PROVE pending'[c] \cap pending'[d] = {}
    BY <1>0, <1>2, <1>3, <2>2 DEF AnswersNeverBlock
  <2>3. \A q \in Ask : Len(reply'[q]) <= 1
    BY <1>0, <1>1 DEF AnswersNeverBlock
  <2> QED
    BY <2>1, <2>2, <2>3 DEF AnswersNeverBlock
<1>5. ASSUME NEW t \in Run, NEW i \in Requests(t)'
      PROVE  LET p == events'[t][i].of
             IN  /\ p[1] = t /\ call'[p] \in {"waiting", "aborted"} /\ reply'[p] = <<>>
                 /\ \A c \in Conn : p \notin pending'[c]
  <2> DEFINE p == events'[t][i].of
  <2>1. /\ p[1] = t /\ call[p] \in {"waiting", "aborted"} /\ reply[p] = <<>>
        /\ \A c \in Conn : p \notin pending[c]
        /\ e.type = "permission_request" => p # e.of
    BY <1>2
  <2> HIDE DEF p
  <2>2. p[1] = t /\ call'[p] \in {"waiting", "aborted"} /\ reply'[p] = <<>>
    BY <1>1, <2>1
  <2>3. \A c \in Conn : p \notin pending'[c]
    BY <1>3, <2>1
  <2> QED
    BY <2>2, <2>3 DEF p
<1>6. InTransit'
  BY <1>0, <1>1, <1>2, <1>5 DEF InTransit
<1> QED
  BY <1>4, <1>6 DEF AnswerInv

LEMMA DeniedOnce == ASSUME TypeInv, AnswerInv, NEW s \in Conn, Chat(s) PROVE AnswerInv'
<1> DEFINE r == at[s]
           e == Head(events[at[s]])
<1>0. TypeOK /\ Seated /\ AnswersNeverBlock /\ InTransit
  BY DEF TypeInv, AnswerInv
<1>1. /\ r \in Run /\ events[r] # <<>> /\ events' = [events EXCEPT ![r] = Tail(@)]
      /\ e.type = "permission_request" => reply' = [reply EXCEPT ![e.of] = Append(@, "deny")]
      /\ e.type # "permission_request" => reply' = reply
      /\ UNCHANGED <<call, pending>>
  BY <1>0 DEF Chat, NextEvent, TypeOK, Seated, Run, turnVars
<1>2. /\ e.type = "permission_request" =>
            /\ e.of \in Ask /\ reply[e.of] = <<>> /\ call[e.of] \in {"waiting", "aborted"}
            /\ \A t \in Conn : e.of \notin pending[t]
            /\ \A t \in Run : \A i \in Requests(t)' : events'[t][i].of # e.of
      /\ \A t \in Run : \A i \in Requests(t)' :
            LET p == events'[t][i].of
            IN  /\ p \in Ask /\ p[1] = t /\ call[p] \in {"waiting", "aborted"} /\ reply[p] = <<>>
                /\ \A c \in Conn : p \notin pending[c]
      /\ \A t \in Run : \A i, j \in Requests(t)' : i # j => events'[t][i].of # events'[t][j].of
  BY <1>1, TakenRequest
<1> HIDE DEF e, r
<1>3. \A q \in Ask : \/ reply'[q] = reply[q]
                     \/ /\ e.type = "permission_request" /\ q = e.of
                        /\ reply'[q] = Append(<<>>, "deny")
  BY <1>0, <1>1, <1>2 DEF TypeOK
<1>4. AnswersNeverBlock'
  <2>1. ASSUME NEW c \in Conn, NEW q \in pending[c]
        PROVE  reply'[q] = <<>> /\ call'[q] \in {"waiting", "aborted"}
    <3>1. q \in Ask
      BY <1>0 DEF TypeOK
    <3> QED
      BY <1>0, <1>1, <1>2, <1>3, <3>1 DEF AnswersNeverBlock
  <2>2. \A c, d \in Conn : c # d => pending[c] \cap pending[d] = {}
    BY <1>0 DEF AnswersNeverBlock
  <2>3. ASSUME NEW q \in Ask PROVE Len(reply'[q]) <= 1
    <3>1. CASE reply'[q] = reply[q]
      BY <1>0, <3>1 DEF AnswersNeverBlock
    <3>2. CASE reply'[q] = Append(<<>>, "deny")
      <4>1. Len(Append(<<>>, "deny")) = 1
        OBVIOUS
      <4>2. Len(reply'[q]) = 1
        BY <3>2, <4>1, Zenon
      <4> QED
        BY <4>2
    <3> QED
      BY <1>3, <3>1, <3>2
  <2> QED
    BY <1>1, <2>1, <2>2, <2>3 DEF AnswersNeverBlock
<1>5. ASSUME NEW t \in Run, NEW i \in Requests(t)'
      PROVE  LET p == events'[t][i].of
             IN  /\ p[1] = t /\ call'[p] \in {"waiting", "aborted"} /\ reply'[p] = <<>>
                 /\ \A c \in Conn : p \notin pending'[c]
  <2> DEFINE p == events'[t][i].of
  <2>1. /\ p \in Ask /\ p[1] = t /\ call[p] \in {"waiting", "aborted"} /\ reply[p] = <<>>
        /\ \A c \in Conn : p \notin pending[c]
        /\ e.type = "permission_request" => p # e.of
    BY <1>2
  <2> HIDE DEF p
  <2>2. /\ p[1] = t /\ call'[p] \in {"waiting", "aborted"} /\ reply'[p] = <<>>
        /\ \A c \in Conn : p \notin pending'[c]
    BY <1>1, <1>3, <2>1
  <2> QED
    BY <2>2 DEF p
<1>6. \A q \in Ask : call'[q] \in {"idle", "emitting"} => reply'[q] = <<>>
  BY <1>0, <1>1, <1>2, <1>3 DEF InTransit
<1>7. InTransit'
  BY <1>2, <1>5, <1>6 DEF InTransit
<1> QED
  BY <1>4, <1>7 DEF AnswerInv

\* The end of a connection answers what it finds unanswered.
LEMMA DrainedOnce == ASSUME TypeInv, AnswerInv, NEW s \in Conn, Shutdown(s) PROVE AnswerInv'
<1>0. TypeOK /\ AnswersNeverBlock /\ InTransit
  BY DEF TypeInv, AnswerInv
<1>1. /\ pending'[s] = {} /\ \A c \in Conn : c # s => pending'[c] = pending[c]
      /\ \A q \in Ask : q \notin pending[s] => reply'[q] = reply[q]
      /\ \A q \in Ask : reply'[q] = reply[q] \/ reply'[q] = <<"deny">>
      /\ UNCHANGED <<call, events>>
  BY <1>0 DEF Shutdown, TypeOK
<1>2. \A c \in Conn : \A q \in pending[c] : q \in Ask
  BY <1>0 DEF TypeOK
<1>3. AnswersNeverBlock'
  <2>1. ASSUME NEW c \in Conn, NEW q \in pending'[c]
        PROVE  reply'[q] = <<>> /\ call'[q] \in {"waiting", "aborted"}
    <3>1. c # s /\ q \in pending[c] /\ q \notin pending[s] /\ q \in Ask
      BY <1>0, <1>1, <1>2 DEF AnswersNeverBlock
    <3> QED
      BY <1>0, <1>1, <3>1 DEF AnswersNeverBlock
  <2>2. ASSUME NEW c \in Conn, NEW d \in Conn, c # d PROVE pending'[c] \cap pending'[d] = {}
    BY <1>0, <1>1, <2>2 DEF AnswersNeverBlock
  <2>3. ASSUME NEW q \in Ask PROVE Len(reply'[q]) <= 1
    <3>1. CASE reply'[q] = reply[q]
      BY <1>0, <3>1 DEF AnswersNeverBlock
    <3>2. CASE reply'[q] = <<"deny">>
      BY <3>2
    <3> QED
      BY <1>1, <3>1, <3>2
  <2> QED
    BY <2>1, <2>2, <2>3 DEF AnswersNeverBlock
<1>4. \A r \in Run : Requests(r)' = Requests(r)
  BY <1>1 DEF Requests
<1>5. ASSUME NEW r \in Run, NEW i \in Requests(r)
      PROVE  LET p == events[r][i].of
             IN  /\ p[1] = r /\ call[p] \in {"waiting", "aborted"} /\ reply'[p] = <<>>
                 /\ \A c \in Conn : p \notin pending'[c]
  <2> DEFINE p == events[r][i].of
  <2>1. /\ p \in Ask /\ p[1] = r /\ call[p] \in {"waiting", "aborted"} /\ reply[p] = <<>>
        /\ \A c \in Conn : p \notin pending[c]
    BY <1>0, RequestsAsk DEF InTransit
  <2> HIDE DEF p
  <2>2. reply'[p] = <<>> /\ \A c \in Conn : p \notin pending'[c]
    BY <1>1, <2>1
  <2> QED
    BY <2>1, <2>2 DEF p
<1>6. \A q \in Ask : call[q] \in {"idle", "emitting"} => q \notin pending[s] /\ reply[q] = <<>>
  BY <1>0 DEF AnswersNeverBlock, InTransit
<1>7. InTransit'
  BY <1>0, <1>1, <1>4, <1>5, <1>6 DEF InTransit
<1> QED
  BY <1>3, <1>7 DEF AnswerInv

\* A call that takes its answer is nowhere asked about any more.
LEMMA DecidedOnce == ASSUME TypeInv, AnswerInv, NEW q \in Ask, Decided(q) PROVE AnswerInv'
<1>0. TypeOK /\ AnswersNeverBlock /\ InTransit
  BY DEF TypeInv, AnswerInv
<1>1. /\ call'[q] \in {"refused", "granted"} /\ \A p \in Ask : p # q => call'[p] = call[p]
      /\ reply'[q] = Tail(reply[q]) /\ \A p \in Ask : p # q => reply'[p] = reply[p]
      /\ reply[q] # <<>> /\ reply[q] \in Seq(Decision)
      /\ UNCHANGED <<pending, events>>
  BY <1>0 DEF Decided, TypeOK, turnVars
<1>2. Len(reply'[q]) <= 1
  <2>1. Len(Tail(reply[q])) = Len(reply[q]) - 1 /\ Len(reply[q]) \in Nat /\ Len(reply[q]) <= 1
    BY <1>0, <1>1, Channels DEF AnswersNeverBlock
  <2>2. Len(reply'[q]) = Len(Tail(reply[q]))
    BY <1>1, Zenon
  <2> QED
    BY <2>1, <2>2
<1>3. \A c \in Conn : \A p \in pending[c] : p \in Ask /\ p # q
  BY <1>0, <1>1 DEF TypeOK, AnswersNeverBlock
<1>4. AnswersNeverBlock'
  <2>1. \A p \in Ask : Len(reply'[p]) <= 1
    BY <1>0, <1>1, <1>2 DEF AnswersNeverBlock
  <2> QED
    BY <1>0, <1>1, <1>3, <2>1 DEF AnswersNeverBlock
<1>5. \A r \in Run : Requests(r)' = Requests(r)
  BY <1>1 DEF Requests
<1>6. ASSUME NEW r \in Run, NEW i \in Requests(r)
      PROVE  LET p == events[r][i].of
             IN  /\ p[1] = r /\ call'[p] \in {"waiting", "aborted"} /\ reply'[p] = <<>>
                 /\ \A c \in Conn : p \notin pending[c]
  <2> DEFINE p == events[r][i].of
  <2>1. /\ p \in Ask /\ p[1] = r /\ call[p] \in {"waiting", "aborted"} /\ reply[p] = <<>>
        /\ \A c \in Conn : p \notin pending[c]
    BY <1>0, RequestsAsk DEF InTransit
  <2>2. p # q
    BY <1>1, <2>1
  <2> HIDE DEF p
  <2>3. call'[p] \in {"waiting", "aborted"} /\ reply'[p] = <<>>
    BY <1>1, <2>1, <2>2
  <2> QED
    BY <2>1, <2>3 DEF p
<1>7. InTransit'
  BY <1>0, <1>1, <1>5, <1>6 DEF InTransit
<1> QED
  BY <1>4, <1>7 DEF AnswerInv

LEMMA AnswerStep == TypeInv /\ AnswerInv /\ [Next]_vars => AnswerInv'
<1> SUFFICES ASSUME TypeInv, AnswerInv, [Next]_vars PROVE AnswerInv'
  OBVIOUS
<1>0. TypeOK
  BY DEF TypeInv
<1>1. ASSUME UNCHANGED <<pending, reply, call, events>> PROVE AnswerInv'
  <2>1. \A r \in Run : Requests(r)' = Requests(r)
    BY <1>1 DEF Requests
  <2> QED
    BY <1>1, <2>1, AnswerFrame
<1>2. ASSUME NEW s \in Conn, Connection(s) PROVE AnswerInv'
  <2>1. ASSUME NEW q \in Ask, TimesOut(s, q) PROVE AnswerInv'
    BY <2>1, AnsweredOnce DEF TimesOut, Decision
  <2>2. CASE Connect(s) \/ Leave(s) \/ StartRun(s) \/ StoreCancel(s) \/ Deliver(s) \/ WriterQuits(s)
             \/ Send(s) \/ TurnOver(s) \/ ChatOver(s)
    BY <1>1, <2>2 DEF Connect, Leave, StartRun, StoreCancel, Deliver, WriterQuits, Send, TurnOver,
                      ChatOver, Drained, turnVars, runVars
  <2> QED
    BY <1>2, <2>1, <2>2, ForwardedOnce, DeniedOnce DEF Connection
<1>3. ASSUME NEW s \in Socket, Reader(s) PROVE AnswerInv'
  <2>1. s \in Conn
    BY DEF Conn
  <2>2. ASSUME NEW q \in Ask, NEW d \in Decision, Answer(s, q, d) PROVE AnswerInv'
    BY <2>1, <2>2, AnsweredOnce DEF Answer
  <2>3. CASE Input(s) \/ Refuse(s) \/ Refused(s) \/ Cancel(s) \/ ReadFails(s) \/ Hangup(s)
    BY <1>1, <2>3 DEF Input, Refuse, Refused, Cancel, ReadFails, Hangup, turnVars, runVars
  <2> QED
    BY <1>3, <2>1, <2>2, <2>3, DrainedOnce DEF Reader
<1>4. ASSUME NEW r \in Run, Agent(r) PROVE AnswerInv'
  <2>1. UNCHANGED <<pending, reply, call>>
    BY <1>4 DEF Agent, Token, RunEnds, Finish, Report, turnVars
  <2>2. ASSUME NEW t \in Final \cup {"token"}, Emit(r, Event(t, <<r>>)) PROVE AnswerInv'
    <3> DEFINE e == Event(t, <<r>>)
    <3>1. e \in Message /\ e.type # "permission_request" /\ events' = [events EXCEPT ![r] = Append(@, e)]
      BY <2>2, MessageKinds DEF Emit, Event, Final
    <3> HIDE DEF e
    <3>2. \A i \in Run : \A j \in Requests(i)' : j \in Requests(i) /\ events'[i][j] = events[i][j]
      <4>1. /\ \A j \in Requests(r)' : j \in Requests(r) /\ events'[r][j] = events[r][j]
            /\ \A i \in Run : i # r => Requests(i)' = Requests(i) /\ events'[i] = events[i]
        BY <1>0, <3>1, PutEvent
      <4> QED
        BY <4>1
    <3> QED
      BY <2>1, <3>2, AnswerFrame
  <2>3. CASE Token(r)
    BY <2>2, <2>3 DEF Token
  <2>4. CASE Report(r)
    BY <2>2, <2>4 DEF Report, Final
  <2>5. CASE RunEnds(r) \/ Finish(r)
    BY <1>1, <2>5 DEF RunEnds, Finish, turnVars
  <2> QED
    BY <1>4, <2>3, <2>4, <2>5 DEF Agent
<1>5. ASSUME NEW q \in Ask, Gate(q) PROVE AnswerInv'
  <2>1. CASE Check(q) \/ Abandoned(q)
    <3>1. UNCHANGED <<pending, reply, events>>
      BY <2>1 DEF Check, Abandoned, turnVars
    <3>2. \A p \in Ask :
             /\ call[p] \in {"waiting", "aborted"} => call'[p] \in {"waiting", "aborted"}
             /\ call'[p] \in {"idle", "emitting"} => call[p] \in {"idle", "emitting"}
      BY <1>0, <2>1 DEF Check, Abandoned, TypeOK
    <3>3. \A r \in Run : Requests(r)' = Requests(r)
      BY <3>1 DEF Requests
    <3> QED
      BY <3>1, <3>2, <3>3, AnswerFrame
  <2> QED
    BY <1>5, <2>1, AskedOnce, DecidedOnce DEF Gate
<1>6. CASE Manager \/ UNCHANGED vars
  BY <1>1, <1>6 DEF Manager, Sweep, Delete, vars, turnVars, runVars
<1> QED
  BY <1>2, <1>3, <1>4, <1>5, <1>6 DEF Next

\* The reader, the timer, the end of the connection and the turn of a chat never block on an
\* answer and never give a second one, however they interleave.
THEOREM AnsweringNeverBlocks == Spec => []AnswersNeverBlock
<1>1. Init => TypeInv /\ AnswerInv
  <2> SUFFICES ASSUME Init PROVE AnswerInv
    BY InitTypeInv
  <2>1. AnswersNeverBlock
    BY DEF Init, AnswersNeverBlock
  <2>2. \A r \in Run : Requests(r) = {}
    BY DEF Init, Requests
  <2>3. InTransit
    BY <2>2 DEF Init, InTransit
  <2> QED
    BY <2>1, <2>3 DEF AnswerInv
<1>2. TypeInv /\ AnswerInv /\ [Next]_vars => (TypeInv /\ AnswerInv)'
  BY NextTypeInv, AnswerStep
<1>3. AnswerInv => AnswersNeverBlock
  BY DEF AnswerInv
<1> QED
  BY <1>1, <1>2, <1>3, PTL DEF Spec
=============================================================================
