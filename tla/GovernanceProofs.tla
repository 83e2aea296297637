--------------------------- MODULE GovernanceProofs ---------------------------
(***************************************************************************)
(* Theorems about Governance, for any tools, policy, manifests, replies    *)
(* and depth of sub-agents.                                                *)
(***************************************************************************)
EXTENDS Governance, SequenceTheorems, FiniteSetTheorems, TLAPS

\* The ancestor of an agent at depth k.
Up(a, k) == SubSeq(a, 1, k)

On(a) == pc[a] # "off"

\* The place of agent a below its ancestor at depth k: the ancestor waits for it.
Waits(a, k) ==
    LET b == Up(a, k)
        i == a[k + 1]
    IN  /\ pc[b] = "run"
        /\ i \in DOMAIN reply[b] /\ result[b][i] = "running"
        /\ Starts(b, reply[b][i])

\* Whoever started an agent, and whoever started that one, still waits for it.
Chain == \A a \in Agent : On(a) => \A k \in 0..(Depth(a) - 1) : Waits(a, k)

\* The calls of an agent's reply, while they are at the gate or run, and what they stand for.
ShapeOf(a) ==
    /\ pc[a] \notin {"gate", "run"} => reply[a] = <<>> /\ result[a] = NoCalls
    /\ \A i \in Index :
          /\ result[a][i] = "asking" => pc[a] = "gate"
          /\ result[a][i] = "running" => pc[a] = "run"
          /\ result[a][i] # "none" => i \in DOMAIN reply[a]
          /\ result[a][i] \in {"asking", "passed", "running"} =>
                /\ <<a, i>> \in open
                /\ reply[a][i].tool \in ToolsOf(a)

Shape == \A a \in Agent : ShapeOf(a)

TreeInv == TypeOK /\ Chain /\ Shape

\* The calls with a tool_call in the record and their fate open.
Waiting == {"asking", "passed", "running"}
OpenCalls(a) == {i \in Index : result[a][i] \in Waiting}

\* The root's calls that have gone through the gate.
Gated == {i \in Index : result[Root][i] # "none"}

TokensInv ==
    manifest.tokens > 0 =>
        /\ events[Root]["llm_response"] = tokens
        /\ tokens <= manifest.tokens + 1
        /\ pc[Root] # "error" => tokens <= manifest.tokens

CallsInv ==
    manifest.calls > 0 =>
        /\ events[Root]["tool_result"] + Cardinality(OpenCalls(Root)) <= toolCalls
        /\ toolCalls <= manifest.calls + Width
        /\ pc[Root] \in {"send", "ok"} => toolCalls <= manifest.calls
        /\ pc[Root] \in {"gate", "run"} => toolCalls <= manifest.calls + Cardinality(Gated)

CleanRoot == ~dirty[Root]

\* The calls of an agent: those that came to an end one way or the other, and the open ones.
Balanced(a) ==
    events[a]["tool_call"] = events[a]["tool_result"] + events[a]["deny"] + refusals[a] + Cardinality(OpenCalls(a))

\* A run is cancelled as a whole.
CancelledAll ==
    /\ \A a \in Agent : pc[a] = "cancelled" => ctx[a] = "cancelled"
    /\ \A a, b \in Agent : ctx[a] = "cancelled" => ~Live(b)

\* An agent whose context ended before it came to its calls makes none of them, and the
\* root, when it ended among them, does not end well.
CutInv ==
    /\ \A a \in Agent \ cut : ~Live(a) => result[a] = NoCalls
    /\ Root \in cut => ~Live(Root) /\ pc[Root] \in {"gate", "run", "error", "cancelled"}

AccountInv == CancelledAll /\ CutInv /\ \A a \in Agent \ cut : Balanced(a)
-----------------------------------------------------------------------------
(* The tree of agents.                                                     *)

LEMMA Places ==
    /\ \A a : a \in Agent <=> a \in Seq(Index) /\ Depth(a) <= MaxDepth + 1
    /\ Root \in Agent /\ Depth(Root) = 0
    /\ \A a \in Agent : Depth(a) \in Nat /\ \A k \in 1..Depth(a) : a[k] \in Index
<1>1. ASSUME NEW a \in Seq(Index), Len(a) <= MaxDepth + 1 PROVE a \in Agent
  <2>1. Len(a) \in 0..(MaxDepth + 1) /\ a \in [1..Len(a) -> Index]
    BY <1>1, BoundsAssumption
  <2> QED
    BY <2>1 DEF Agent
<1>2. ASSUME NEW a \in Agent PROVE a \in Seq(Index) /\ Len(a) <= MaxDepth + 1
  <2>1. PICK d \in 0..(MaxDepth + 1) : a \in [1..d -> Index]
    BY <1>2 DEF Agent
  <2>2. a \in Seq(Index) /\ Len(a) = d
    BY <2>1
  <2> QED
    BY <2>1, <2>2, BoundsAssumption
<1>3. Root \in Agent /\ Len(Root) = 0
  <2>1. Root \in Seq(Index) /\ Len(Root) = 0
    BY DEF Root
  <2>2. 0 <= MaxDepth + 1
    BY BoundsAssumption
  <2> QED
    BY <1>1, <2>1, <2>2
<1>4. ASSUME NEW a \in Seq(Index) PROVE Len(a) \in Nat /\ \A k \in 1..Len(a) : a[k] \in Index
  BY ElementOfSeq
<1> QED
  BY <1>1, <1>2, <1>3, <1>4 DEF Depth

LEMMA Ancestors ==
    ASSUME NEW a \in Agent, NEW k \in 0..Depth(a)
    PROVE  /\ Up(a, k) \in Agent /\ Depth(Up(a, k)) = k
           /\ \A j \in 1..k : Up(a, k)[j] = a[j]
           /\ \A j \in 0..k : Up(Up(a, k), j) = Up(a, j)
           /\ k = Depth(a) => Up(a, k) = a
           /\ k = 0 => Up(a, k) = Root
<1>1. a \in Seq(Index) /\ Len(a) \in Nat /\ Len(a) <= MaxDepth + 1 /\ k \in 0..Len(a)
      /\ \A j \in 1..Len(a) : a[j] \in Index
  BY Places DEF Depth
<1>2. /\ Up(a, k) \in Seq(Index) /\ Len(Up(a, k)) = k
      /\ \A j \in 1..k : Up(a, k)[j] = a[j]
  BY <1>1, SubSeqProperties DEF Up
<1>3. Up(a, k) \in Agent /\ Depth(Up(a, k)) = k
  BY <1>1, <1>2, Places, BoundsAssumption DEF Depth
<1>4. ASSUME NEW j \in 0..k PROVE Up(Up(a, k), j) = Up(a, j)
  <2>1. /\ Up(a, j) \in Seq(Index) /\ Len(Up(a, j)) = j
        /\ \A i \in 1..j : Up(a, j)[i] = a[i]
    BY <1>1, <1>4, SubSeqProperties DEF Up
  <2> DEFINE u == Up(a, k)
  <2>2. /\ Up(u, j) \in Seq(Index) /\ Len(Up(u, j)) = j
        /\ \A i \in 1..j : Up(u, j)[i] = u[i]
    <3> HIDE DEF u
    <3>1. u \in Seq(Index) /\ \A i \in 1..j : u[i] \in Index
      BY <1>1, <1>2, <1>4 DEF u
    <3> QED
      BY <3>1, <1>4, SubSeqProperties DEF Up
  <2> QED
    BY <1>2, <1>4, <2>1, <2>2, SeqEqual
<1>5. k = Len(a) => Up(a, k) = a
  BY <1>1, <1>2, SeqEqual
<1>6. k = 0 => Up(a, k) = Root
  BY <1>1, <1>2 DEF Root
<1> QED
  BY <1>2, <1>3, <1>4, <1>5, <1>6 DEF Depth

LEMMA Children ==
    ASSUME NEW a \in Agent, NEW i \in Index, Depth(a) <= MaxDepth
    PROVE  /\ Append(a, i) \in Agent /\ Depth(Append(a, i)) = Depth(a) + 1
           /\ Append(a, i) # a /\ Append(a, i) # Root
           /\ Append(a, i)[Depth(a) + 1] = i
           /\ \A k \in 1..Depth(a) : Append(a, i)[k] = a[k]
           /\ \A k \in 0..Depth(a) : Up(Append(a, i), k) = Up(a, k)
           /\ \A b \in Agent : \A k \in 0..(Depth(b) - 1) :
                 Up(b, k) = a /\ b[k + 1] = i => Up(b, k + 1) = Append(a, i)
<1> DEFINE c == Append(a, i)
<1>1. /\ a \in Seq(Index) /\ Len(a) \in Nat
      /\ c \in Seq(Index) /\ Len(c) = Len(a) + 1 /\ c[Len(a) + 1] = i
      /\ \A k \in 1..Len(a) : c[k] = a[k]
  BY Places, AppendProperties
<1> HIDE DEF c
<1>2. c \in Agent /\ c # a /\ c # Root
  BY <1>1, Places, BoundsAssumption DEF Depth, Root
<1>3. Up(c, Depth(a)) = a
  <2>1. /\ Up(c, Depth(a)) \in Agent /\ Depth(Up(c, Depth(a))) = Depth(a)
        /\ \A j \in 1..Depth(a) : Up(c, Depth(a))[j] = c[j]
    BY <1>1, <1>2, Ancestors DEF Depth
  <2> QED
    BY <1>1, <2>1, Places, SeqEqual DEF Depth
<1>4. \A k \in 0..Depth(a) : Up(c, k) = Up(a, k)
  BY <1>1, <1>2, <1>3, Ancestors DEF Depth
<1>5. ASSUME NEW b \in Agent, NEW k \in 0..(Depth(b) - 1), Up(b, k) = a, b[k + 1] = i
      PROVE  Up(b, k + 1) = c
  <2>1. k \in 0..Depth(b) /\ k + 1 \in 0..Depth(b) /\ k \in Nat
    BY Places
  <2>2. /\ Depth(Up(b, k)) = k /\ \A j \in 1..k : Up(b, k)[j] = b[j]
        /\ Up(b, k + 1) \in Agent /\ Depth(Up(b, k + 1)) = k + 1
        /\ \A j \in 1..(k + 1) : Up(b, k + 1)[j] = b[j]
    BY <2>1, Ancestors
  <2>3. Len(a) = k
    BY <1>5, <2>2 DEF Depth
  <2>4. \A j \in 1..(k + 1) : Up(b, k + 1)[j] = c[j]
    BY <1>1, <1>5, <2>1, <2>2, <2>3
  <2> QED
    BY <1>1, <1>2, <2>2, <2>3, <2>4, Places, SeqEqual DEF Depth
<1> QED
  BY <1>1, <1>2, <1>4, <1>5 DEF c, Depth
\* Whoever may start a sub-agent has a place for it.
LEMMA HasRoom ==
    ASSUME NEW a \in Agent, NEW c, Starts(a, c)
    PROVE  Depth(a) < MaxDepth /\ Depth(a) <= MaxDepth
<1>1. Depth(a) \in Nat /\ ~(Depth(a) >= MaxDepth)
  BY Places DEF Starts, TooDeep
<1> QED
  BY <1>1, BoundsAssumption
-----------------------------------------------------------------------------
(* What the steps are made of.                                             *)

Stands == {"none", "asking", "passed", "running"} \cup Settled
PCs    == {"off", "pre", "send", "gate", "run"} \cup Outcome

LEMMA RepliesAreShort ==
    ASSUME NEW a \in Agent, NEW r \in Replies[Depth(a)]
    PROVE  r \in Seq(Call) /\ DOMAIN r \subseteq Index
<1>1. Depth(a) \in 0..(MaxDepth + 1)
  BY Places, BoundsAssumption DEF Depth
<1>2. Replies[Depth(a)] \subseteq UNION {[1..n -> Call] : n \in 0..Width}
  BY <1>1, GovernanceAssumption, Zenon
<1>3. PICK n \in 0..Width : r \in [1..n -> Call]
  BY <1>2
<1> QED
  BY <1>3, BoundsAssumption DEF Index

LEMMA CallsHaveTools == \A c \in Call : c.tool \in DOMAIN Policy
  BY GovernanceAssumption, Zenon DEF Calls

\* What is recorded, and of whom.
LEMMA Recorded ==
    ASSUME TypeOK, NEW a \in Agent, NEW kinds, Rec(a, kinds)
    PROVE  /\ events' \in [Agent -> [Kind -> Nat]]
           /\ \A b \in Agent : b # a => events'[b] = events[b]
           /\ \A k \in Kind : k \in kinds => events'[a][k] = events[a][k] + 1
           /\ \A k \in Kind : k \notin kinds => events'[a][k] = events[a][k]
<1>1. events \in [Agent -> [Kind -> Nat]]
  BY DEF TypeOK
<1>2. \A k \in Kind : events[a][k] \in Nat
  BY <1>1
<1>3. events' = [events EXCEPT ![a] = [k \in Kind |-> IF k \in kinds THEN events[a][k] + 1 ELSE events[a][k]]]
  BY DEF Rec
<1>4. [k \in Kind |-> IF k \in kinds THEN events[a][k] + 1 ELSE events[a][k]] \in [Kind -> Nat]
  BY <1>2
<1> QED
  BY <1>1, <1>3, <1>4

\* How a call stands now.
LEMMA Stood ==
    ASSUME TypeOK, NEW a \in Agent, NEW i \in Index, NEW r \in Stands, Set(a, i, r)
    PROVE  /\ result' \in [Agent -> [Index -> Stands]]
           /\ result'[a][i] = r
           /\ \A b \in Agent : b # a => result'[b] = result[b]
           /\ \A j \in Index : j # i => result'[a][j] = result[a][j]
  BY DEF TypeOK, Set, Stands

\* An agent's own end, and what is left of it.
LEMMA AgentEnds ==
    ASSUME TypeOK, NEW a \in Agent, NEW kinds, NEW s \in Outcome, End(a, kinds, s)
    PROVE  /\ pc' = [pc EXCEPT ![a] = s]
           /\ events' \in [Agent -> [Kind -> Nat]]
           /\ \A b \in Agent : b # a => events'[b] = events[b]
           /\ \A k \in Kind : k \in kinds => events'[a][k] = events[a][k] + 1
           /\ \A k \in Kind \ {"run_end"} : k \notin kinds => events'[a][k] = events[a][k]
<1>1. PICK ks : ks = (IF a = Root THEN kinds \cup {"run_end"} ELSE kinds)
  OBVIOUS
<1>2. pc' = [pc EXCEPT ![a] = s] /\ Rec(a, ks)
  BY <1>1 DEF End
<1>3. \A k : (k \in kinds => k \in ks) /\ (k # "run_end" /\ k \notin kinds => k \notin ks)
  BY <1>1
<1> QED
  BY <1>2, <1>3, Recorded

\* A step that does nothing, or ends contexts.
Quiet == UNCHANGED vars \/ Cancel \/ \E a \in Agent : Expire(a)

LEMMA QuietStep ==
    ASSUME Quiet
    PROVE  /\ UNCHANGED <<manifest, pc, left, reply, result, dirty, tokens, toolCalls, always, events, open, refusals>>
           /\ \/ UNCHANGED <<ctx, cut>>
              \/ \E a \in Agent, why \in {"cancelled", "expired"} :
                    Stop(a, why) /\ (why = "cancelled" => a = Root)
<1>1. ASSUME NEW a, NEW why, Stop(a, why)
      PROVE  UNCHANGED <<manifest, pc, left, reply, result, dirty, tokens, toolCalls, always, events, open, refusals>>
  BY <1>1 DEF Stop, agents
<1>2. CASE UNCHANGED vars
  BY <1>2 DEF vars, agents, ends
<1>3. CASE Cancel
  BY <1>1, <1>3, Places DEF Cancel
<1>4. ASSUME NEW a \in Agent, Expire(a)
      PROVE  Stop(a, "expired")
  BY <1>4 DEF Expire
<1> QED
  BY <1>1, <1>2, <1>3, <1>4 DEF Quiet

LEMMA Steps ==
    ASSUME [Next]_vars
    PROVE  Quiet \/ \E a \in Agent : AgentStep(a) \/ \E i \in Index : Answer(a, i)
  BY DEF Next, Quiet

\* Whom the end of a context ends, and who had calls then.
LEMMA Stopped ==
    ASSUME TypeOK, NEW a \in Agent, NEW why \in {"cancelled", "expired"}, Stop(a, why)
    PROVE  /\ ctx' \in [Agent -> {"live", "cancelled", "expired"}] /\ cut \subseteq cut' /\ cut' \subseteq Agent
           /\ \A b \in Agent : ctx'[b] = ctx[b] \/ (Live(b) /\ ctx'[b] = why)
           /\ \A b \in Agent : Live(b) /\ ctx'[b] # ctx[b] => (b \in cut' <=> b \in cut \/ pc[b] \in {"gate", "run"})
           /\ \A b \in Agent : b \in cut' => b \in cut \/ (ctx'[b] = why /\ pc[b] \in {"gate", "run"})
<1>1. ctx \in [Agent -> {"live", "cancelled", "expired"}] /\ cut \subseteq Agent
  BY DEF TypeOK
<1>2. /\ ctx' = [b \in Agent |-> IF Below(a, b) /\ Live(b) THEN why ELSE ctx[b]]
      /\ cut' = cut \cup {b \in Agent : Below(a, b) /\ Live(b) /\ pc[b] \in {"gate", "run"}}
  BY DEF Stop
<1> QED
  BY <1>1, <1>2

LEMMA Iterations == \A m \in Manifests : m.iterations \in Nat
  BY GovernanceAssumption

LEMMA Types ==
    TypeOK <=> /\ pc \in [Agent -> PCs] /\ left \in [Agent -> Nat]
               /\ reply \in [Agent -> Seq(Call)]
               /\ \A a \in Agent : reply[a] \in Replies[Depth(a)] \cup {<<>>}
               /\ result \in [Agent -> [Index -> Stands]]
               /\ dirty \in [Agent -> BOOLEAN]
               /\ manifest \in Manifests /\ tokens \in Nat /\ toolCalls \in Nat
               /\ always \subseteq DOMAIN Policy
               /\ ctx \in [Agent -> {"live", "cancelled", "expired"}] /\ cut \subseteq Agent
               /\ events \in [Agent -> [Kind -> Nat]]
               /\ open \subseteq Agent \X Index /\ refusals \in [Agent -> Nat]
  BY DEF TypeOK, PCs, Stands

LEMMA TypesNext ==
    TypeOK' <=> /\ pc' \in [Agent -> PCs] /\ left' \in [Agent -> Nat]
                /\ reply' \in [Agent -> Seq(Call)]
                /\ \A a \in Agent : reply'[a] \in Replies[Depth(a)] \cup {<<>>}
                /\ result' \in [Agent -> [Index -> Stands]]
                /\ dirty' \in [Agent -> BOOLEAN]
                /\ manifest' \in Manifests /\ tokens' \in Nat /\ toolCalls' \in Nat
                /\ always' \subseteq DOMAIN Policy
                /\ ctx' \in [Agent -> {"live", "cancelled", "expired"}] /\ cut' \subseteq Agent
                /\ events' \in [Agent -> [Kind -> Nat]]
                /\ open' \subseteq Agent \X Index /\ refusals' \in [Agent -> Nat]
  BY DEF TypeOK, PCs, Stands

LEMMA InitType == Init => TypeOK
<1> SUFFICES ASSUME Init PROVE TypeOK
  OBVIOUS
<1>1. /\ pc \in [Agent -> PCs] /\ left \in [Agent -> Nat]
      /\ reply \in [Agent -> Seq(Call)] /\ \A a \in Agent : reply[a] = <<>>
      /\ dirty \in [Agent -> BOOLEAN]
  BY Iterations DEF Init, PCs
<1>2. result \in [Agent -> [Index -> Stands]]
  <2>1. NoCalls \in [Index -> Stands]
    BY DEF NoCalls, Stands
  <2> QED
    BY <2>1 DEF Init
<1>3. events \in [Agent -> [Kind -> Nat]]
  BY DEF Init
<1> QED
  BY <1>1, <1>2, <1>3, Types DEF Init

\* Types after a step of an agent before its calls: a model call, its failure, its reply.
LEMMA ModelTypes ==
    ASSUME TypeOK, NEW a \in Agent,
           PreCall(a) \/ ModelFails(a) \/ (\E r \in Replies[Depth(a)] : Reply(a, r)) \/ GateDone(a) \/ WriteResults(a)
    PROVE  TypeOK'
<1> USE Types, TypesNext DEF ends
<1>1. CASE PreCall(a)
  <2>1. CASE Exhausted(a)
    <3>1. End(a, {}, "error") /\ left' = left
      BY <1>1, <2>1 DEF PreCall
    <3>2. pc' = [pc EXCEPT ![a] = "error"] /\ events' \in [Agent -> [Kind -> Nat]]
      BY <3>1, AgentEnds DEF Outcome
    <3> QED
      BY <1>1, <3>1, <3>2 DEF PreCall, PCs, Outcome
  <2>2. CASE ~Exhausted(a)
    <3>1. left' = [left EXCEPT ![a] = @ - 1] /\ left[a] # 0
      BY <1>1, <2>2 DEF PreCall, Exhausted
    <3>2. left' \in [Agent -> Nat]
      BY <3>1, BoundsAssumption
    <3>3. pc' \in [Agent -> PCs] /\ events' \in [Agent -> [Kind -> Nat]]
      <4>1. CASE a = Root /\ OverCalls
        BY <1>1, <2>2, <4>1, AgentEnds DEF PreCall, PCs, Outcome
      <4>2. CASE ~(a = Root /\ OverCalls)
        BY <1>1, <2>2, <4>2, Recorded DEF PreCall, PCs
      <4> QED
        BY <4>1, <4>2
    <3> QED
      BY <1>1, <3>2, <3>3 DEF PreCall
  <2> QED
    BY <2>1, <2>2
<1>2. CASE ModelFails(a)
  <2>1. PICK s \in Outcome : End(a, {}, s)
    BY <1>2 DEF ModelFails, Ended, Outcome
  <2>2. pc' = [pc EXCEPT ![a] = s] /\ events' \in [Agent -> [Kind -> Nat]]
    BY <2>1, AgentEnds
  <2> QED
    BY <1>2, <2>2 DEF ModelFails, PCs, ends
<1>3. ASSUME NEW r \in Replies[Depth(a)], Reply(a, r) PROVE TypeOK'
  <2>1. tokens' \in Nat
    BY <1>3 DEF Reply, Spend
  <2>2. CASE UNCHANGED <<reply, result>>
    <3>1. PICK s \in {"error", "ok"} :
             End(a, {"llm_response"}, s) \/ (pc' = [pc EXCEPT ![a] = "gate"] /\ Rec(a, {"llm_response"}))
      BY <1>3 DEF Reply
    <3>2. pc' \in [Agent -> PCs] /\ events' \in [Agent -> [Kind -> Nat]]
      BY <3>1, AgentEnds, Recorded DEF PCs, Outcome
    <3> QED
      BY <1>3, <2>1, <2>2, <3>2 DEF Reply
  <2>3. CASE ~UNCHANGED <<reply, result>>
    <3>1. /\ pc' = [pc EXCEPT ![a] = "gate"] /\ Rec(a, {"llm_response"})
          /\ reply' = [reply EXCEPT ![a] = r] /\ result' = [result EXCEPT ![a] = NoCalls]
      BY <1>3, <2>3 DEF Reply
    <3>2. pc' \in [Agent -> PCs] /\ events' \in [Agent -> [Kind -> Nat]]
      BY <3>1, Recorded DEF PCs
    <3>3. reply' \in [Agent -> Seq(Call)] /\ \A b \in Agent : reply'[b] \in Replies[Depth(b)] \cup {<<>>}
      BY <3>1, RepliesAreShort
    <3>4. result' \in [Agent -> [Index -> Stands]]
      <4>1. NoCalls \in [Index -> Stands]
        BY DEF NoCalls, Stands
      <4> QED
        BY <3>1, <4>1
    <3> QED
      BY <1>3, <2>1, <3>2, <3>3, <3>4 DEF Reply
  <2> QED
    BY <2>2, <2>3
<1>4. CASE GateDone(a)
  BY <1>4 DEF GateDone, PCs
<1>5. CASE WriteResults(a)
  <2>1. pc' \in [Agent -> PCs] /\ events' \in [Agent -> [Kind -> Nat]]
    <3>1. CASE Live(a)
      BY <1>5, <3>1 DEF WriteResults, PCs
    <3>2. CASE ~Live(a)
      <4>1. Ended(a) \in Outcome /\ End(a, {}, Ended(a))
        BY <1>5, <3>2 DEF WriteResults, Ended, Outcome
      <4>2. pc' = [pc EXCEPT ![a] = Ended(a)] /\ events' \in [Agent -> [Kind -> Nat]]
        BY <4>1, AgentEnds
      <4> QED
        BY <4>1, <4>2 DEF PCs
    <3> QED
      BY <3>1, <3>2
  <2>2. /\ reply' = [reply EXCEPT ![a] = <<>>] /\ result' = [result EXCEPT ![a] = NoCalls]
        /\ open' \subseteq open
    BY <1>5 DEF WriteResults
  <2>3. reply' \in [Agent -> Seq(Call)] /\ \A b \in Agent : reply'[b] \in Replies[Depth(b)] \cup {<<>>}
    BY <2>2
  <2>4. result' \in [Agent -> [Index -> Stands]]
    <3>1. NoCalls \in [Index -> Stands]
      BY DEF NoCalls, Stands
    <3> QED
      BY <2>2, <3>1
  <2> QED
    BY <1>5, <2>1, <2>2, <2>3, <2>4 DEF WriteResults
<1> QED
  BY <1>1, <1>2, <1>3, <1>4, <1>5

\* A tool comes back.
LEMMA CameBack ==
    ASSUME TypeOK, NEW a \in Agent, NEW i \in Index, NEW r \in Stands, NEW secret \in BOOLEAN, Back(a, i, r, secret)
    PROVE  /\ Set(a, i, r) /\ open' = open \ {<<a, i>>}
           /\ dirty' \in [Agent -> BOOLEAN]
           /\ \A b \in Agent : dirty'[b] => dirty[b] \/ (b = a /\ b # Root)
           /\ events' \in [Agent -> [Kind -> Nat]]
           /\ \A b \in Agent : b # a => events'[b] = events[b]
           /\ events'[a]["tool_result"] = events[a]["tool_result"] + 1
           /\ events'[a]["llm_response"] = events[a]["llm_response"]
<1>1. Set(a, i, r) /\ open' = open \ {<<a, i>>}
  BY DEF Back
<1>2. dirty \in [Agent -> BOOLEAN] /\ dirty' = [dirty EXCEPT ![a] = @ \/ (secret /\ ~Masks(a, i, secret))]
  BY DEF Back, TypeOK
<1>3. dirty' \in [Agent -> BOOLEAN] /\ \A b \in Agent : dirty'[b] => dirty[b] \/ (b = a /\ b # Root)
  BY <1>2 DEF Masks
<1>4. PICK ks : ks = ({"tool_result"} \cup IF Masks(a, i, secret) THEN {"mask"} ELSE {})
  OBVIOUS
<1>5. Rec(a, ks) /\ "tool_result" \in ks /\ "llm_response" \notin ks
  BY <1>4 DEF Back
<1>6. "tool_result" \in Kind /\ "llm_response" \in Kind
  BY DEF Kind
<1> QED
  BY <1>1, <1>3, <1>5, <1>6, Recorded

\* Types after a step of one of its calls.
LEMMA CallTypes ==
    ASSUME TypeOK, Shape, NEW a \in Agent, NEW i \in Index, CallStep(a, i) \/ Answer(a, i)
    PROVE  TypeOK'
<1> USE Types, TypesNext DEF ends
<1> DEFINE S == {"none", "asking", "passed", "running", "ok", "error", "blocked", "cancelled"}
<1>1. Stands = S
  BY DEF Stands, Settled
<1>2. ASSUME result[a][i] # "none"
      PROVE  i \in DOMAIN reply[a] /\ reply[a][i] \in Call /\ reply[a][i].tool \in DOMAIN Policy
  <2>1. i \in DOMAIN reply[a]
    BY <1>2 DEF Shape, ShapeOf
  <2>2. reply[a] \in Seq(Call)
    OBVIOUS
  <2>3. reply[a][i] \in Call
    BY <2>1, <2>2
  <2> QED
    BY <2>1, <2>3, CallsHaveTools
<1>3. CASE NoExecutor(a, i)
  BY <1>1, <1>3, Stood DEF NoExecutor
<1>4. CASE Gate(a, i)
  <2>1. PICK r \in S : Set(a, i, r)
    BY <1>4 DEF Gate
  <2>2. events' \in [Agent -> [Kind -> Nat]]
    <3>1. Rec(a, {"tool_call"} \cup Verdict(a, reply[a][i]))
      BY <1>4 DEF Gate
    <3> QED
      BY <3>1, Recorded
  <2>3. open' \subseteq Agent \X Index /\ toolCalls' \in Nat /\ refusals' \in [Agent -> Nat]
    BY <1>4 DEF Gate, Refuses
  <2> QED
    BY <1>1, <1>4, <2>1, <2>2, <2>3, Stood DEF Gate
<1>5. CASE AskCancelled(a, i)
  BY <1>1, <1>5, Stood DEF AskCancelled
<1>6. CASE Answer(a, i)
  <2>1. PICK r \in S : Set(a, i, r)
    BY <1>6 DEF Answer, Granted
  <2>2. always' \subseteq DOMAIN Policy
    BY <1>2, <1>6 DEF Answer
  <2>3. refusals' \in [Agent -> Nat]
    BY <1>6 DEF Answer, Refuses
  <2> QED
    BY <1>1, <1>6, <2>1, <2>2, <2>3, Stood DEF Answer
<1>7. CASE Start(a, i)
  <2>0. manifest.iterations \in Nat
    BY <1>1, Iterations
  <2>1. Set(a, i, "running")
    BY <1>7 DEF Start
  <2>2. CASE ~Starts(a, reply[a][i])
    BY <1>1, <1>7, <2>1, <2>2, Stood DEF Start
  <2>3. CASE Starts(a, reply[a][i])
    <3>1. PICK c \in Agent : c = Append(a, i)
      BY <2>3, HasRoom, Children
    <3>2. /\ pc' = [pc EXCEPT ![c] = "pre"] /\ left' = [left EXCEPT ![c] = manifest.iterations]
          /\ dirty' = [dirty EXCEPT ![c] = FALSE] /\ reply' = [reply EXCEPT ![c] = <<>>]
      BY <1>7, <2>3, <3>1 DEF Start
    <3>3. pc' \in [Agent -> PCs] /\ left' \in [Agent -> Nat] /\ dirty' \in [Agent -> BOOLEAN]
      BY <2>0, <3>2 DEF PCs
    <3>4. reply' \in [Agent -> Seq(Call)] /\ \A b \in Agent : reply'[b] \in Replies[Depth(b)] \cup {<<>>}
      BY <3>2
    <3>5. ctx' \in [Agent -> {"live", "cancelled", "expired"}] /\ cut' \subseteq Agent
      BY <1>7, <2>3 DEF Start
    <3> QED
      BY <1>1, <1>7, <2>1, <3>3, <3>4, <3>5, Stood DEF Start
  <2> QED
    BY <2>2, <2>3
<1>8. CASE ToolReturns(a, i)
  <2>1. reply[a][i].secret \in BOOLEAN
    BY <1>2, <1>8, GovernanceAssumption, Zenon DEF ToolReturns, Calls
  <2>2. PICK r \in S, secret \in BOOLEAN : Back(a, i, r, secret)
    BY <1>8, <2>1 DEF ToolReturns
  <2>3. Set(a, i, r) /\ open' \subseteq open /\ dirty' \in [Agent -> BOOLEAN] /\ events' \in [Agent -> [Kind -> Nat]]
    BY <1>1, <2>2, CameBack
  <2> QED
    BY <1>1, <1>8, <2>3, Stood DEF ToolReturns
<1>9. CASE ToolCancelled(a, i)
  BY <1>1, <1>9, Stood DEF ToolCancelled
<1>10. CASE Depth(a) <= MaxDepth /\ ChildReturns(a, i)
  <2>1. Append(a, i) \in Agent
    BY <1>10, Children
  <2>2. dirty[Append(a, i)] \in BOOLEAN /\ pc' \in [Agent -> PCs]
    BY <1>10, <2>1 DEF ChildReturns, PCs
  <2>3. PICK r \in S : Set(a, i, r) /\ open' \subseteq open /\ dirty' \in [Agent -> BOOLEAN] /\ events' \in [Agent -> [Kind -> Nat]]
    <3>1. CASE \E r \in S, secret \in BOOLEAN : Back(a, i, r, secret)
      BY <1>1, <3>1, CameBack
    <3>2. CASE Set(a, i, "cancelled") /\ UNCHANGED <<dirty, events, open>>
      BY <3>2
    <3> QED
      BY <1>10, <2>2, <3>1, <3>2 DEF ChildReturns
  <2> QED
    BY <1>1, <1>10, <2>2, <2>3, Stood DEF ChildReturns
<1> QED
  BY <1>3, <1>4, <1>5, <1>6, <1>7, <1>8, <1>9, <1>10 DEF CallStep

LEMMA TypeStep == TypeOK /\ Shape /\ [Next]_vars => TypeOK'
<1> SUFFICES ASSUME TypeOK, Shape, [Next]_vars PROVE TypeOK'
  OBVIOUS
<1>1. CASE Quiet
  <2>1. ctx' \in [Agent -> {"live", "cancelled", "expired"}] /\ cut' \subseteq Agent
    BY <1>1, QuietStep, Stopped, Types
  <2>2. UNCHANGED <<manifest, pc, left, reply, result, dirty, tokens, toolCalls, always, events, open, refusals>>
    BY <1>1, QuietStep
  <2> QED
    BY <2>1, <2>2, Types, TypesNext
<1>2. ASSUME NEW a \in Agent, AgentStep(a) \/ \E i \in Index : Answer(a, i) PROVE TypeOK'
  BY <1>2, ModelTypes, CallTypes DEF AgentStep
<1> QED
  BY <1>1, <1>2, Steps
-----------------------------------------------------------------------------
(* Nobody below an agent outlives its place.                               *)

LEMMA ParentWaits ==
    ASSUME Chain, NEW x \in Agent, On(x), x # Root
    PROVE  /\ Parent(x) \in Agent /\ Depth(x) - 1 \in 0..(Depth(x) - 1) /\ Depth(Parent(x)) = Depth(x) - 1
           /\ x[Depth(x)] \in Index /\ pc[Parent(x)] = "run"
           /\ x[Depth(x)] \in DOMAIN reply[Parent(x)] /\ result[Parent(x)][x[Depth(x)]] = "running"
           /\ Starts(Parent(x), Order(x))
<1>1. Depth(x) \in Nat /\ Depth(x) # 0
  <2>1. x \in Seq(Index)
    BY Places
  <2> QED
    BY <2>1, Places DEF Root, Depth
<1>2. PICK k \in 0..(Depth(x) - 1) : k = Depth(x) - 1 /\ k + 1 = Depth(x) /\ k \in 0..Depth(x) /\ k + 1 \in 1..Depth(x)
  BY <1>1
<1>3. Waits(x, k) /\ Up(x, k) = Parent(x)
  BY <1>2 DEF Chain, Up, Parent
<1>4. Up(x, k) \in Agent /\ Depth(Up(x, k)) = k
  BY <1>2, Ancestors
<1>5. x[Depth(x)] \in Index
  BY <1>1, <1>2, Places
<1> QED
  BY <1>2, <1>3, <1>4, <1>5 DEF Waits, Order

LEMMA ChildIsOff ==
    ASSUME Chain, NEW a \in Agent, NEW i \in Index, Depth(a) <= MaxDepth, result[a][i] # "running"
    PROVE  ~On(Append(a, i))
<1> SUFFICES ASSUME On(Append(a, i)) PROVE FALSE
  OBVIOUS
<1>1. PICK c \in Agent : c = Append(a, i) /\ Depth(c) = Depth(a) + 1 /\ Up(c, Depth(a)) = Up(a, Depth(a)) /\ c[Depth(a) + 1] = i
  <2>1. Depth(a) \in 0..Depth(a)
    BY Places
  <2> QED
    BY <2>1, Children
<1>2. Up(c, Depth(a)) = a
  <2>1. Depth(a) \in 0..Depth(a)
    BY Places
  <2> QED
    BY <1>1, <2>1, Ancestors
<1>3. Depth(a) \in 0..(Depth(c) - 1)
  BY <1>1, Places
<1>4. Waits(c, Depth(a))
  BY <1>1, <1>3 DEF Chain
<1> QED
  BY <1>1, <1>2, <1>4 DEF Waits

\* The reply of an agent with a call under way stays what it is.
LEMMA ReplyStays ==
    ASSUME TreeInv, [Next]_vars, NEW b \in Agent, NEW i \in Index, pc[b] = "run", result[b][i] = "running"
    PROVE  reply'[b] = reply[b]
<1>1. i \in DOMAIN reply[b]
  BY DEF TreeInv, Shape, ShapeOf
<1>2. reply \in [Agent -> Seq(Call)]
  BY DEF TreeInv, TypeOK
<1>3. CASE Quiet
  BY <1>3, QuietStep
<1>4. ASSUME NEW a \in Agent, PreCall(a) \/ ModelFails(a) \/ GateDone(a) PROVE reply' = reply
  BY <1>4 DEF PreCall, ModelFails, GateDone
<1>5. ASSUME NEW a \in Agent, NEW r \in Replies[Depth(a)], Reply(a, r) PROVE reply'[b] = reply[b]
  <2>1. a # b /\ (reply' = reply \/ reply' = [reply EXCEPT ![a] = r])
    BY <1>5 DEF Reply
  <2> QED
    BY <1>2, <2>1
<1>6. ASSUME NEW a \in Agent, WriteResults(a) PROVE reply'[b] = reply[b]
  <2>1. a # b
    BY <1>1, <1>6 DEF WriteResults, Settled
  <2> QED
    BY <1>2, <1>6, <2>1 DEF WriteResults
<1>7. ASSUME NEW a \in Agent, NEW j \in Index,
             NoExecutor(a, j) \/ Gate(a, j) \/ AskCancelled(a, j) \/ Answer(a, j) \/ ToolReturns(a, j)
             \/ ToolCancelled(a, j) \/ ChildReturns(a, j)
      PROVE  reply' = reply
  BY <1>7 DEF NoExecutor, Gate, AskCancelled, Answer, ToolReturns, ToolCancelled, ChildReturns
<1>8. ASSUME NEW a \in Agent, NEW j \in Index, Start(a, j) PROVE reply'[b] = reply[b]
  <2>1. CASE ~Starts(a, reply[a][j])
    BY <1>8, <2>1 DEF Start
  <2>2. CASE Starts(a, reply[a][j])
    <3>1. result[a][j] = "passed"
      BY <1>8 DEF Start, MayStart
    <3>2. ~On(Append(a, j))
      BY <2>2, <3>1, HasRoom, ChildIsOff DEF TreeInv
    <3>3. b # Append(a, j)
      BY <3>2 DEF On
    <3>4. reply' = [reply EXCEPT ![Append(a, j)] = <<>>]
      BY <1>8, <2>2 DEF Start
    <3> QED
      BY <1>2, <3>3, <3>4
  <2> QED
    BY <2>1, <2>2
<1> QED
  BY <1>3, <1>4, <1>5, <1>6, <1>7, <1>8, Steps DEF AgentStep, CallStep

LEMMA ManifestStays == [Next]_vars => manifest' = manifest
<1>1. Quiet => manifest' = manifest
  BY QuietStep
<1>2. \A a \in Agent : PreCall(a) \/ ModelFails(a) \/ GateDone(a) \/ WriteResults(a) => manifest' = manifest
  BY DEF PreCall, ModelFails, GateDone, WriteResults
<1>3. \A a \in Agent : \A r \in Replies[Depth(a)] : Reply(a, r) => manifest' = manifest
  BY DEF Reply
<1>4. \A a \in Agent, i \in Index : NoExecutor(a, i) \/ Gate(a, i) \/ AskCancelled(a, i) \/ Answer(a, i) => manifest' = manifest
  BY DEF NoExecutor, Gate, AskCancelled, Answer
<1>5. \A a \in Agent, i \in Index :
         Start(a, i) \/ ToolReturns(a, i) \/ ToolCancelled(a, i) \/ ChildReturns(a, i) => manifest' = manifest
  BY DEF Start, ToolReturns, ToolCancelled, ChildReturns
<1> QED
  BY <1>1, <1>2, <1>3, <1>4, <1>5, Steps DEF AgentStep, CallStep

\* An agent has the same tools as long as it works.
LEMMA ToolsStay ==
    ASSUME TreeInv, [Next]_vars, NEW x \in Agent, On(x)
    PROVE  ToolsOf(x)' = ToolsOf(x)
<1>1. manifest' = manifest
  BY ManifestStays
<1>2. CASE x = Root
  BY <1>2 DEF ToolsOf, Tools
<1>3. CASE x # Root
  <2>1. reply'[Parent(x)] = reply[Parent(x)]
    BY <1>3, ParentWaits, ReplyStays DEF TreeInv
  <2>2. Order(x)' = Order(x)
    BY <2>1 DEF Order
  <2> QED
    BY <1>1, <2>2 DEF ToolsOf, Tools, Given, Anonymous
<1> QED
  BY <1>2, <1>3
-----------------------------------------------------------------------------
(* The calls keep their shape.                                             *)

LEMMA ShapeFrame ==
    ASSUME TreeInv, [Next]_vars, NEW b \in Agent,
           pc'[b] = pc[b], reply'[b] = reply[b], result'[b] = result[b],
           \A i \in Index : <<b, i>> \in open => <<b, i>> \in open'
    PROVE  ShapeOf(b)'
<1>1. ShapeOf(b)
  BY DEF TreeInv, Shape
<1>2. CASE On(b)
  <2>1. ToolsOf(b)' = ToolsOf(b)
    BY <1>2, ToolsStay
  <2> QED
    BY <1>1, <2>1 DEF ShapeOf
<1>3. CASE ~On(b)
  <2>1. reply[b] = <<>> /\ result[b] = NoCalls
    BY <1>1, <1>3 DEF ShapeOf, On
  <2> QED
    BY <2>1 DEF ShapeOf, NoCalls
<1> QED
  BY <1>2, <1>3

\* An agent without calls has the shape.
LEMMA BareShape ==
    ASSUME NEW b \in Agent, reply'[b] = <<>>, result'[b] = NoCalls
    PROVE  ShapeOf(b)'
  BY DEF ShapeOf, NoCalls

\* A step of one agent before or after its calls.
LEMMA OwnShape ==
    ASSUME TreeInv, [Next]_vars, NEW a \in Agent, ShapeOf(a)',
           \A b \in Agent : b # a =>
              /\ pc'[b] = pc[b] /\ reply'[b] = reply[b] /\ result'[b] = result[b]
              /\ \A i \in Index : <<b, i>> \in open => <<b, i>> \in open'
    PROVE  Shape'
  BY ShapeFrame DEF Shape

\* A step of one call, which may start or end a sub-agent.
LEMMA CallShape ==
    ASSUME TreeInv, [Next]_vars, NEW a \in Agent, NEW i \in Index, NEW r \in Stands, Set(a, i, r), r # "none",
           pc[a] \in {"gate", "run"}, pc'[a] = pc[a], reply'[a] = reply[a], i \in DOMAIN reply[a],
           r = "asking" => pc[a] = "gate", r = "running" => pc[a] = "run",
           r \in {"asking", "passed", "running"} => <<a, i>> \in open' /\ reply[a][i].tool \in ToolsOf(a),
           \A b \in Agent, j \in Index : <<b, j>> # <<a, i>> /\ <<b, j>> \in open => <<b, j>> \in open',
           \A b \in Agent : b # a => \/ pc'[b] = pc[b] /\ reply'[b] = reply[b]
                                     \/ pc[b] \notin {"gate", "run"} /\ reply'[b] = <<>>
    PROVE  Shape'
<1>1. /\ result'[a][i] = r
      /\ \A b \in Agent : b # a => result'[b] = result[b]
      /\ \A j \in Index : j # i => result'[a][j] = result[a][j]
  BY Stood DEF TreeInv
<1>2. ShapeOf(a)'
  <2>1. ToolsOf(a)' = ToolsOf(a)
    BY ToolsStay DEF On
  <2>2. ASSUME NEW j \in Index, j # i
        PROVE  /\ result'[a][j] = "asking" => pc'[a] = "gate"
               /\ result'[a][j] = "running" => pc'[a] = "run"
               /\ result'[a][j] # "none" => j \in DOMAIN reply'[a]
               /\ result'[a][j] \in {"asking", "passed", "running"} =>
                     <<a, j>> \in open' /\ reply'[a][j].tool \in ToolsOf(a)'
    <3>1. ShapeOf(a) /\ result'[a][j] = result[a][j] /\ <<a, j>> # <<a, i>>
      BY <1>1, <2>2 DEF TreeInv, Shape
    <3> QED
      BY <2>1, <3>1 DEF ShapeOf
  <2> QED
    BY <1>1, <2>1, <2>2 DEF ShapeOf
<1>3. ASSUME NEW b \in Agent, b # a PROVE ShapeOf(b)'
  <2>1. CASE pc'[b] = pc[b] /\ reply'[b] = reply[b]
    <3>1. \A j \in Index : <<b, j>> # <<a, i>>
      BY <1>3
    <3> QED
      BY <1>1, <1>3, <2>1, <3>1, ShapeFrame
  <2>2. CASE pc[b] \notin {"gate", "run"} /\ reply'[b] = <<>>
    <3>1. result[b] = NoCalls
      BY <2>2 DEF TreeInv, Shape, ShapeOf
    <3> QED
      BY <1>1, <1>3, <2>2, <3>1, BareShape
  <2> QED
    BY <1>3, <2>1, <2>2
<1> QED
  BY <1>2, <1>3 DEF Shape

LEMMA ModelShape ==
    ASSUME TreeInv, [Next]_vars, NEW a \in Agent,
           PreCall(a) \/ ModelFails(a) \/ (\E r \in Replies[Depth(a)] : Reply(a, r)) \/ GateDone(a) \/ WriteResults(a)
    PROVE  Shape'
<1> USE Types DEF TreeInv
<1>1. ASSUME UNCHANGED <<reply, result, open>>, pc[a] \in {"pre", "send"}, \A b \in Agent : b # a => pc'[b] = pc[b]
      PROVE  Shape'
  <2>1. reply[a] = <<>> /\ result[a] = NoCalls
    BY <1>1 DEF Shape, ShapeOf
  <2>2. ShapeOf(a)'
    BY <1>1, <2>1, BareShape
  <2> QED
    BY <1>1, <2>2, OwnShape
<1>2. CASE PreCall(a)
  <2>1. \A b \in Agent : b # a => pc'[b] = pc[b]
    BY <1>2 DEF PreCall, End
  <2> QED
    BY <1>1, <1>2, <2>1 DEF PreCall
<1>3. CASE ModelFails(a)
  <2>1. \A b \in Agent : b # a => pc'[b] = pc[b]
    BY <1>3 DEF ModelFails, End
  <2> QED
    BY <1>1, <1>3, <2>1 DEF ModelFails
<1>4. ASSUME NEW r \in Replies[Depth(a)], Reply(a, r) PROVE Shape'
  <2>1. pc[a] = "send" /\ open' = open /\ \A b \in Agent : b # a => pc'[b] = pc[b]
    BY <1>4 DEF Reply, End
  <2>2. CASE UNCHANGED <<reply, result>>
    BY <1>1, <2>1, <2>2
  <2>3. CASE ~UNCHANGED <<reply, result>>
    <3>1. /\ pc' = [pc EXCEPT ![a] = "gate"]
          /\ reply' = [reply EXCEPT ![a] = r] /\ result' = [result EXCEPT ![a] = NoCalls]
      BY <1>4, <2>3 DEF Reply
    <3>2. /\ pc'[a] = "gate" /\ result'[a] = NoCalls
          /\ \A b \in Agent : b # a => reply'[b] = reply[b] /\ result'[b] = result[b]
      BY <3>1
    <3>3. ShapeOf(a)'
      BY <3>2 DEF ShapeOf, NoCalls
    <3> QED
      BY <2>1, <3>2, <3>3, OwnShape
  <2> QED
    BY <2>2, <2>3
<1>5. CASE GateDone(a)
  <2>1. /\ pc[a] = "gate" /\ pc'[a] = "run" /\ UNCHANGED <<reply, result, open>>
        /\ \A b \in Agent : b # a => pc'[b] = pc[b]
        /\ \A i \in DOMAIN reply[a] : result[a][i] # "asking"
    BY <1>5 DEF GateDone
  <2>2. ToolsOf(a)' = ToolsOf(a)
    BY <2>1, ToolsStay DEF On
  <2>3. ShapeOf(a)'
    <3>1. ShapeOf(a)
      BY DEF Shape
    <3> QED
      BY <2>1, <2>2, <3>1 DEF ShapeOf
  <2> QED
    BY <2>1, <2>3, OwnShape
<1>6. CASE WriteResults(a)
  <2>1. \A b \in Agent : b # a => pc'[b] = pc[b]
    BY <1>6 DEF WriteResults, End
  <2>2. /\ reply' = [reply EXCEPT ![a] = <<>>] /\ result' = [result EXCEPT ![a] = NoCalls]
        /\ open' = {o \in open : o[1] # a}
    BY <1>6 DEF WriteResults
  <2>3. /\ reply'[a] = <<>> /\ result'[a] = NoCalls
        /\ \A b \in Agent : b # a => reply'[b] = reply[b] /\ result'[b] = result[b]
    BY <2>2
  <2>4. \A b \in Agent, i \in Index : b # a /\ <<b, i>> \in open => <<b, i>> \in open'
    BY <2>2
  <2>5. ShapeOf(a)'
    BY <2>3, BareShape
  <2> QED
    BY <2>1, <2>3, <2>4, <2>5, OwnShape
<1> QED
  BY <1>2, <1>3, <1>4, <1>5, <1>6

LEMMA CallsShape ==
    ASSUME TreeInv, [Next]_vars, NEW a \in Agent, NEW i \in Index, CallStep(a, i) \/ Answer(a, i)
    PROVE  Shape'
<1> USE Types DEF TreeInv
<1> DEFINE S == {"asking", "passed", "running", "ok", "error", "blocked", "cancelled"}
<1>1. S \subseteq Stands /\ "none" \notin S
  BY DEF Stands, Settled
<1>2. ShapeOf(a)
  BY DEF Shape
\* A step that moves no agent.
<1>3. ASSUME NEW r \in S, Set(a, i, r), UNCHANGED <<pc, reply>>, open \ {<<a, i>>} \subseteq open',
             pc[a] \in {"gate", "run"}, i \in DOMAIN reply[a], r = "asking" => pc[a] = "gate", r = "running" => pc[a] = "run",
             r \in {"asking", "passed", "running"} => <<a, i>> \in open' /\ reply[a][i].tool \in ToolsOf(a)
      PROVE  Shape'
  BY <1>1, <1>3, CallShape
<1>4. CASE NoExecutor(a, i)
  BY <1>3, <1>4 DEF NoExecutor, AtGate
<1>5. CASE Gate(a, i)
  <2>1. PICK r \in {"blocked", "asking", "passed"} : Set(a, i, r) /\ (r # "blocked" => ~DeniedBy(a, reply[a][i]))
    <3>1. CASE DeniedBy(a, reply[a][i])
      BY <1>5, <3>1 DEF Gate
    <3>2. CASE ~DeniedBy(a, reply[a][i])
      BY <1>5, <3>2 DEF Gate
    <3> QED
      BY <3>1, <3>2
  <2>2. open \subseteq open' /\ (r # "blocked" => <<a, i>> \in open')
    BY <1>5, <2>1 DEF Gate
  <2>3. /\ UNCHANGED <<pc, reply>> /\ pc[a] = "gate" /\ i \in DOMAIN reply[a] /\ reply[a][i].tool \in ToolsOf(a)
    BY <1>5 DEF Gate, AtGate
  <2> QED
    BY <1>3, <2>1, <2>2, <2>3
<1>6. CASE Answer(a, i) \/ AskCancelled(a, i)
  <2>1. PICK r \in {"blocked", "passed"} : Set(a, i, r)
    BY <1>6 DEF Answer, AskCancelled, Granted
  <2>2. result[a][i] = "asking" /\ UNCHANGED <<pc, reply, open>>
    BY <1>6 DEF Answer, AskCancelled
  <2> QED
    BY <1>2, <1>3, <2>1, <2>2 DEF ShapeOf
<1>7. CASE Start(a, i)
  <2>1. Set(a, i, "running") /\ result[a][i] = "passed" /\ pc[a] = "run" /\ open' = open
    BY <1>7 DEF Start, MayStart
  <2>2. i \in DOMAIN reply[a] /\ <<a, i>> \in open /\ reply[a][i].tool \in ToolsOf(a)
    BY <1>2, <2>1 DEF ShapeOf
  <2>3. CASE ~Starts(a, reply[a][i])
    <3>1. UNCHANGED <<pc, reply>>
      BY <1>7, <2>3 DEF Start
    <3> QED
      BY <1>3, <2>1, <2>2, <3>1
  <2>4. CASE Starts(a, reply[a][i])
    <3>1. PICK c \in Agent : c = Append(a, i) /\ c # a /\ ~On(c)
      BY <2>1, <2>4, HasRoom, Children, ChildIsOff
    <3>2. pc' = [pc EXCEPT ![c] = "pre"] /\ reply' = [reply EXCEPT ![c] = <<>>]
      BY <1>7, <2>4, <3>1 DEF Start
    <3>3. /\ pc'[a] = pc[a] /\ reply'[a] = reply[a]
          /\ \A b \in Agent : \/ pc'[b] = pc[b] /\ reply'[b] = reply[b]
                              \/ pc[b] \notin {"gate", "run"} /\ reply'[b] = <<>>
      BY <3>1, <3>2 DEF On
    <3> QED
      BY <1>1, <2>1, <2>2, <3>3, CallShape
  <2> QED
    BY <2>3, <2>4
<1>8. CASE ToolReturns(a, i)
  <2>1. PICK r \in {"ok", "error"} : Set(a, i, r) /\ open' = open \ {<<a, i>>}
    BY <1>8 DEF ToolReturns, Back
  <2>2. result[a][i] = "running" /\ UNCHANGED <<pc, reply>>
    BY <1>8 DEF ToolReturns
  <2> QED
    BY <1>2, <1>3, <2>1, <2>2 DEF ShapeOf
<1>9. CASE ToolCancelled(a, i)
  BY <1>2, <1>3, <1>9 DEF ShapeOf, ToolCancelled
<1>10. CASE Depth(a) <= MaxDepth /\ ChildReturns(a, i)
  <2>1. PICK c \in Agent : c = Append(a, i) /\ c # a
    BY <1>10, Children
  <2>2. /\ result[a][i] = "running" /\ pc' = [pc EXCEPT ![c] = "off"] /\ reply' = reply
        /\ pc[c] \in {"ok", "error", "cancelled"}
    BY <1>10, <2>1 DEF ChildReturns
  <2>3. PICK r \in {"ok", "error", "cancelled"} : Set(a, i, r) /\ open \ {<<a, i>>} \subseteq open'
    BY <1>10, <2>1 DEF ChildReturns, Back
  <2>4. reply[c] = <<>>
    BY <2>2 DEF Shape, ShapeOf
  <2>5. /\ pc'[a] = pc[a] /\ pc[a] = "run" /\ i \in DOMAIN reply[a] /\ reply'[a] = reply[a]
        /\ \A b \in Agent : \/ pc'[b] = pc[b] /\ reply'[b] = reply[b]
                            \/ pc[b] \notin {"gate", "run"} /\ reply'[b] = <<>>
    BY <1>2, <2>1, <2>2, <2>4 DEF ShapeOf
  <2>6. /\ r \in Stands /\ r \notin {"none", "asking", "passed", "running"}
        /\ \A b \in Agent, j \in Index : <<b, j>> # <<a, i>> /\ <<b, j>> \in open => <<b, j>> \in open'
    BY <2>3 DEF Stands, Settled
  <2>7. /\ r # "none" /\ pc[a] \in {"gate", "run"} /\ (r = "asking" => pc[a] = "gate") /\ (r = "running" => pc[a] = "run")
        /\ r \in {"asking", "passed", "running"} => <<a, i>> \in open' /\ reply[a][i].tool \in ToolsOf(a)
    BY <2>5, <2>6
  <2> QED
    BY <2>3, <2>5, <2>6, <2>7, CallShape
<1> QED
  BY <1>4, <1>5, <1>6, <1>7, <1>8, <1>9, <1>10 DEF CallStep

LEMMA ShapeStep == TreeInv /\ [Next]_vars => Shape'
<1> SUFFICES ASSUME TreeInv, [Next]_vars PROVE Shape'
  OBVIOUS
<1>1. CASE Quiet
  <2>1. UNCHANGED <<pc, reply, result, open>>
    BY <1>1, QuietStep
  <2> QED
    BY <2>1, ShapeFrame DEF Shape
<1>2. ASSUME NEW a \in Agent, AgentStep(a) \/ \E i \in Index : Answer(a, i) PROVE Shape'
  BY <1>2, ModelShape, CallsShape DEF AgentStep
<1> QED
  BY <1>1, <1>2, Steps
-----------------------------------------------------------------------------
(* The ancestors of an agent wait for it.                                  *)

LEMMA WaitedFor ==
    ASSUME Chain, NEW b \in Agent, On(b), NEW k \in 0..(Depth(b) - 1)
    PROVE  Waits(b, k) /\ Up(b, k) \in Agent /\ b[k + 1] \in Index
<1>1. Depth(b) \in Nat /\ k \in 0..Depth(b) /\ k + 1 \in 1..Depth(b)
  BY Places
<1> QED
  BY <1>1, Ancestors, Places DEF Chain

LEMMA StillWaits ==
    ASSUME TreeInv, [Next]_vars, NEW b \in Agent, On(b), NEW k \in 0..(Depth(b) - 1),
           pc'[Up(b, k)] = "run", result'[Up(b, k)][b[k + 1]] = "running"
    PROVE  Waits(b, k)'
<1>1. Waits(b, k) /\ Up(b, k) \in Agent /\ b[k + 1] \in Index
  BY WaitedFor DEF TreeInv
<1>2. PICK u \in Agent, i \in Index : u = Up(b, k) /\ i = b[k + 1]
  BY <1>1
<1>3. pc[u] = "run" /\ i \in DOMAIN reply[u] /\ result[u][i] = "running" /\ Starts(u, reply[u][i])
  BY <1>1, <1>2 DEF Waits
<1>4. reply'[u] = reply[u] /\ manifest' = manifest
  BY <1>3, ReplyStays, ManifestStays
<1>5. Starts(u, reply[u][i])'
  BY <1>3, <1>4 DEF Starts, Spawns, Anonymous, Tools
<1> QED
  BY <1>2, <1>3, <1>4, <1>5 DEF Waits

\* A step that starts no sub-agent, and takes none's place away.
LEMMA ChainFrame ==
    ASSUME TreeInv, [Next]_vars,
           \A b \in Agent : On(b)' => On(b),
           \A b \in Agent, i \in Index : pc[b] = "run" /\ result[b][i] = "running" /\ i \in DOMAIN reply[b] /\ Starts(b, reply[b][i])
              => pc'[b] = "run" /\ result'[b][i] = "running"
    PROVE  Chain'
<1> SUFFICES ASSUME NEW b \in Agent, On(b)', NEW k \in 0..(Depth(b) - 1) PROVE Waits(b, k)'
  BY DEF Chain
<1>1. On(b) /\ Waits(b, k) /\ Up(b, k) \in Agent /\ b[k + 1] \in Index
  BY WaitedFor DEF TreeInv
<1>2. pc'[Up(b, k)] = "run" /\ result'[Up(b, k)][b[k + 1]] = "running"
  BY <1>1 DEF Waits
<1> QED
  BY <1>1, <1>2, StillWaits

LEMMA ModelChain ==
    ASSUME TreeInv, [Next]_vars, NEW a \in Agent,
           PreCall(a) \/ ModelFails(a) \/ (\E r \in Replies[Depth(a)] : Reply(a, r)) \/ GateDone(a) \/ WriteResults(a)
    PROVE  Chain'
<1> USE Types DEF TreeInv
<1>1. PICK s \in PCs : pc' = [pc EXCEPT ![a] = s]
  <2>1. CASE PreCall(a)
    BY <2>1 DEF PreCall, End, PCs, Outcome
  <2>2. CASE ModelFails(a)
    BY <2>2 DEF ModelFails, End, Ended, PCs, Outcome
  <2>3. CASE \E r \in Replies[Depth(a)] : Reply(a, r)
    BY <2>3 DEF Reply, End, PCs, Outcome
  <2>4. CASE GateDone(a)
    BY <2>4 DEF GateDone, PCs
  <2>5. CASE WriteResults(a)
    BY <2>5 DEF WriteResults, End, Ended, PCs, Outcome
  <2> QED
    BY <2>1, <2>2, <2>3, <2>4, <2>5
<1>2. pc[a] # "off" /\ (pc[a] = "run" => WriteResults(a))
  BY DEF PreCall, ModelFails, Reply, GateDone, WriteResults
<1>3. \A b \in Agent : On(b)' => On(b)
  BY <1>1, <1>2 DEF On
<1>4. \A b \in Agent : b # a => result'[b] = result[b]
  BY DEF PreCall, ModelFails, Reply, GateDone, WriteResults
<1>5. ASSUME NEW i \in Index, pc[a] = "run", result[a][i] = "running", i \in DOMAIN reply[a] PROVE FALSE
  BY <1>2, <1>5 DEF WriteResults, Settled
<1> QED
  BY <1>1, <1>3, <1>4, <1>5, ChainFrame

LEMMA CallsChain ==
    ASSUME TreeInv, [Next]_vars, NEW a \in Agent, NEW i \in Index, CallStep(a, i) \/ Answer(a, i)
    PROVE  Chain'
<1> USE Types DEF TreeInv
\* A step that neither starts nor ends a sub-agent.
<1>1. ASSUME NEW r \in Stands, Set(a, i, r), pc' = pc, result[a][i] = "running" => ~Starts(a, reply[a][i])
      PROVE  Chain'
  <2>1. ASSUME NEW b \in Agent, NEW j \in Index, pc[b] = "run", result[b][j] = "running", Starts(b, reply[b][j])
        PROVE  result'[b][j] = "running"
    <3>1. b # a \/ j # i
      BY <1>1, <2>1
    <3> QED
      BY <1>1, <2>1, <3>1, Stood
  <2> QED
    BY <1>1, <2>1, ChainFrame DEF On
<1>2. CASE NoExecutor(a, i) \/ Gate(a, i)
  <2>1. PICK r \in Stands : Set(a, i, r)
    BY <1>2 DEF NoExecutor, Gate, Stands, Settled
  <2>2. result[a][i] = "none" /\ pc' = pc
    BY <1>2 DEF NoExecutor, Gate, AtGate
  <2> QED
    BY <1>1, <2>1, <2>2
<1>3. CASE Answer(a, i) \/ AskCancelled(a, i)
  <2>1. PICK r \in Stands : Set(a, i, r)
    BY <1>3 DEF Answer, AskCancelled, Granted, Stands, Settled
  <2>2. result[a][i] = "asking" /\ pc' = pc
    BY <1>3 DEF Answer, AskCancelled
  <2> QED
    BY <1>1, <2>1, <2>2
<1>4. CASE ToolReturns(a, i) \/ ToolCancelled(a, i)
  <2>1. PICK r \in Stands : Set(a, i, r)
    BY <1>4 DEF ToolReturns, ToolCancelled, Back, Stands, Settled
  <2>2. ~Starts(a, reply[a][i]) /\ pc' = pc
    BY <1>4 DEF ToolReturns, ToolCancelled, Starts
  <2> QED
    BY <1>1, <2>1, <2>2
<1>5. CASE Start(a, i)
  <2>1. result[a][i] = "passed" /\ pc[a] = "run" /\ i \in DOMAIN reply[a] /\ Set(a, i, "running")
    BY <1>5 DEF Start, MayStart
  <2>2. CASE ~Starts(a, reply[a][i])
    <3>1. pc' = pc
      BY <1>5, <2>2 DEF Start
    <3> QED
      BY <1>1, <2>1, <3>1 DEF Stands
  <2>3. CASE Starts(a, reply[a][i])
    <3>1. PICK c \in Agent : /\ c = Append(a, i) /\ c # a /\ ~On(c) /\ Depth(c) = Depth(a) + 1 /\ c[Depth(a) + 1] = i
                             /\ \A k \in 1..Depth(a) : c[k] = a[k]
                             /\ \A k \in 0..Depth(a) : Up(c, k) = Up(a, k)
      <4>1. Depth(a) <= MaxDepth /\ result[a][i] # "running"
        BY <2>1, <2>3, HasRoom
      <4>2. ~On(Append(a, i))
        BY <4>1, ChildIsOff
      <4>3. /\ Append(a, i) \in Agent /\ Append(a, i) # a /\ Depth(Append(a, i)) = Depth(a) + 1
            /\ Append(a, i)[Depth(a) + 1] = i
            /\ \A k \in 1..Depth(a) : Append(a, i)[k] = a[k]
            /\ \A k \in 0..Depth(a) : Up(Append(a, i), k) = Up(a, k)
        BY <4>1, Children
      <4> HIDE Types
      <4> QED
        BY <4>2, <4>3
    <3>2. pc' = [pc EXCEPT ![c] = "pre"]
      BY <1>5, <2>3, <3>1 DEF Start
    <3>3. /\ \A b \in Agent : pc[b] = "run" => pc'[b] = "run"
          /\ \A b \in Agent, j \in Index : result[b][j] = "running" => result'[b][j] = "running"
      <4>1. \A b \in Agent : pc[b] = "run" => b # c
        BY <3>1 DEF On
      <4> QED
        BY <2>1, <3>2, <4>1, Stood DEF Stands
    <3>4. ASSUME NEW b \in Agent, On(b), NEW k \in 0..(Depth(b) - 1) PROVE Waits(b, k)'
      <4>1. pc[Up(b, k)] = "run" /\ result[Up(b, k)][b[k + 1]] = "running" /\ Up(b, k) \in Agent /\ b[k + 1] \in Index
        BY <3>4, WaitedFor DEF Waits
      <4> QED
        BY <3>3, <3>4, <4>1, StillWaits
    <3>5. ASSUME NEW k \in 0..(Depth(c) - 1) PROVE Waits(c, k)'
      <4>1. Depth(a) \in Nat
        BY Places
      <4>2. CASE k = Depth(a)
        <5>1. Up(c, k) = a /\ c[k + 1] = i
          <6>1. Depth(a) \in 0..Depth(a)
            BY <4>1
          <6>2. Up(a, Depth(a)) = a
            BY <6>1, Ancestors
          <6> QED
            BY <3>1, <4>2, <6>1, <6>2
        <5>2. pc'[a] = "run" /\ result'[a][i] = "running"
          BY <2>1, <3>3, Stood DEF Stands
        <5>3. reply'[a] = reply[a] /\ manifest' = manifest
          BY <1>5, <2>3, <3>1, ManifestStays DEF Start
        <5>4. Starts(a, reply[a][i])'
          BY <2>3, <5>3 DEF Starts, Spawns, Anonymous, Tools
        <5> QED
          BY <2>1, <5>1, <5>2, <5>3, <5>4 DEF Waits
      <4>3. CASE k # Depth(a)
        <5>1. k \in 0..(Depth(a) - 1) /\ k + 1 \in 1..Depth(a) /\ k \in 0..Depth(a)
          BY <3>1, <4>1, <4>3
        <5>2. Waits(a, k)'
          BY <2>1, <3>4, <5>1 DEF On
        <5>3. Up(c, k) = Up(a, k) /\ c[k + 1] = a[k + 1]
          BY <3>1, <5>1
        <5> QED
          BY <5>2, <5>3 DEF Waits
      <4> QED
        BY <4>2, <4>3
    <3>6. \A b \in Agent : On(b)' => On(b) \/ b = c
      BY <3>2 DEF On
    <3> QED
      BY <3>4, <3>5, <3>6 DEF Chain
  <2> QED
    BY <2>2, <2>3
<1>6. CASE Depth(a) <= MaxDepth /\ ChildReturns(a, i)
  <2>1. PICK c \in Agent : /\ c = Append(a, i) /\ Depth(c) = Depth(a) + 1
                           /\ \A b \in Agent : \A k \in 0..(Depth(b) - 1) : Up(b, k) = a /\ b[k + 1] = i => Up(b, k + 1) = c
    BY <1>6, Children
  <2>2. /\ pc' = [pc EXCEPT ![c] = "off"] /\ pc[c] # "run"
        /\ result[a][i] = "running"
    BY <1>6, <2>1 DEF ChildReturns
  <2>3. PICK r \in Stands : Set(a, i, r)
    BY <1>6 DEF ChildReturns, Back, Stands, Settled
  <2> SUFFICES ASSUME NEW b \in Agent, On(b)', NEW k \in 0..(Depth(b) - 1) PROVE Waits(b, k)'
    BY DEF Chain
  <2>4. On(b) /\ b # c
    BY <2>2 DEF On
  <2>5. PICK u \in Agent, j \in Index : u = Up(b, k) /\ j = b[k + 1] /\ pc[u] = "run" /\ result[u][j] = "running"
    BY <2>4, WaitedFor DEF Waits
  <2>6. ASSUME u = a, j = i PROVE FALSE
    <3>1. Up(b, k + 1) = c
      BY <2>1, <2>5, <2>6
    <3>2. Depth(b) \in Nat /\ k \in Nat
      BY Places
    <3>3. CASE k + 1 = Depth(b)
      <4>1. Up(b, k + 1) = b
        BY <3>2, <3>3, Ancestors
      <4> QED
        BY <2>4, <3>1, <4>1
    <3>4. CASE k + 1 # Depth(b)
      <4>1. k + 1 \in 0..(Depth(b) - 1)
        BY <3>2, <3>4
      <4>2. pc[Up(b, k + 1)] = "run"
        BY <2>4, <4>1, WaitedFor DEF Waits
      <4> QED
        BY <2>2, <3>1, <4>2
    <3> QED
      BY <3>3, <3>4
  <2>7. pc'[u] = "run" /\ result'[u][j] = "running"
    <3>1. u # c
      BY <2>2, <2>5
    <3>2. u # a \/ j # i
      BY <2>6
    <3> QED
      BY <2>2, <2>3, <2>5, <3>1, <3>2, Stood
  <2> QED
    BY <2>4, <2>5, <2>7, StillWaits
<1> QED
  BY <1>2, <1>3, <1>4, <1>5, <1>6 DEF CallStep

LEMMA ChainStep == TreeInv /\ [Next]_vars => Chain'
<1> SUFFICES ASSUME TreeInv, [Next]_vars PROVE Chain'
  OBVIOUS
<1>1. CASE Quiet
  <2>1. UNCHANGED <<pc, result>>
    BY <1>1, QuietStep
  <2> QED
    BY <2>1, ChainFrame DEF On
<1>2. ASSUME NEW a \in Agent, AgentStep(a) \/ \E i \in Index : Answer(a, i) PROVE Chain'
  BY <1>2, ModelChain, CallsChain DEF AgentStep
<1> QED
  BY <1>1, <1>2, Steps

LEMMA InitTree == Init => TreeInv
<1> SUFFICES ASSUME Init PROVE TreeInv
  OBVIOUS
<1>1. TypeOK
  BY InitType
<1>2. \A a \in Agent : reply[a] = <<>> /\ result[a] = NoCalls
  BY DEF Init
<1>3. Shape
  BY <1>2 DEF Shape, ShapeOf, NoCalls
<1>4. \A a \in Agent : On(a) => a = Root
  BY DEF Init, On
<1>5. Chain
  BY <1>4, Places DEF Chain
<1> QED
  BY <1>1, <1>3, <1>5 DEF TreeInv

LEMMA NextTree == TreeInv /\ [Next]_vars => TreeInv'
  BY TypeStep, ChainStep, ShapeStep DEF TreeInv

\* The agents, their replies and results, the budgets' counters and the journal keep their
\* types, whatever the tree, the budgets, the rules and the replies are.
THEOREM TypesHold == Spec => []TypeOK
<1>1. TreeInv => TypeOK
  BY DEF TreeInv
<1> QED
  BY <1>1, InitTree, NextTree, PTL DEF Spec
-----------------------------------------------------------------------------
(* Sub-agents stay in their confines.                                      *)

LEMMA TreeConfines ==
    ASSUME TreeInv, NEW a \in Agent, On(a)
    PROVE  /\ Depth(a) <= MaxDepth
           /\ Depth(a) > 1 /\ ~Anonymous =>
                Order(Parent(a)).agent \in DOMAIN manifest.team /\ Delegate \in manifest.team[Order(Parent(a)).agent]
<1> USE DEF TreeInv
<1>1. CASE a = Root
  <2>1. Depth(a) = 0
    BY <1>1, Places
  <2> QED
    BY <2>1, BoundsAssumption
<1>2. CASE a # Root
  <2>1. PICK p \in Agent, i \in Index :
           /\ p = Parent(a) /\ i = a[Depth(a)] /\ Depth(p) = Depth(a) - 1
           /\ pc[p] = "run" /\ result[p][i] = "running" /\ Starts(p, reply[p][i])
    BY <1>2, ParentWaits DEF Order
  <2>2. Depth(a) <= MaxDepth
    <3>1. Depth(p) < MaxDepth /\ Depth(a) \in Nat
      BY <2>1, HasRoom, Places
    <3> QED
      BY <2>1, <3>1, BoundsAssumption
  <2>3. ASSUME Depth(a) > 1, ~Anonymous
        PROVE  Order(p).agent \in DOMAIN manifest.team /\ Delegate \in manifest.team[Order(p).agent]
    <3>1. p # Root
      <4>1. Depth(a) \in Nat /\ Depth(p) # 0
        BY <2>1, <2>3, Places
      <4> QED
        BY <4>1, Places
    <3>2. Spawns(Order(p))
      BY <2>1, <3>1, ParentWaits DEF On, Starts
    <3>3. Delegate \in Given(Order(p).agent)
      <4>1. reply[p][i].tool = Delegate /\ reply[p][i].tool \in ToolsOf(p)
        BY <2>1 DEF Starts, Shape, ShapeOf
      <4> QED
        BY <2>3, <3>1, <4>1 DEF ToolsOf
    <3> QED
      BY <2>3, <3>2, <3>3 DEF Spawns, Given
  <2> QED
    BY <2>1, <2>2, <2>3
<1> QED
  BY <1>1, <1>2

\* What a step of somebody else leaves of the root.
RootSame ==
    /\ pc'[Root] = pc[Root] /\ result'[Root] = result[Root] /\ events'[Root] = events[Root]
    /\ dirty'[Root] = dirty[Root] /\ UNCHANGED <<manifest, tokens, toolCalls>>

LEMMA OthersLeaveRoot ==
    ASSUME TreeInv, [Next]_vars
    PROVE  RootSame \/ AgentStep(Root) \/ \E i \in Index : Answer(Root, i)
<1> USE Types, Places DEF TreeInv
<1>1. CASE Quiet
  BY <1>1, QuietStep DEF RootSame
<1>2. ASSUME NEW a \in Agent, a # Root, PreCall(a) \/ ModelFails(a) \/ (\E r \in Replies[Depth(a)] : Reply(a, r))
                                        \/ GateDone(a) \/ WriteResults(a)
      PROVE  RootSame
  <2>1. CASE PreCall(a)
    <3>1. pc'[Root] = pc[Root] /\ events'[Root] = events[Root]
      BY <1>2, <2>1, AgentEnds, Recorded DEF PreCall, Outcome
    <3> QED
      BY <2>1, <3>1 DEF PreCall, RootSame
  <2>2. CASE ModelFails(a)
    <3>1. pc'[Root] = pc[Root] /\ events'[Root] = events[Root]
      BY <1>2, <2>2, AgentEnds DEF ModelFails, Ended, Outcome
    <3> QED
      BY <2>2, <3>1 DEF ModelFails, RootSame
  <2>3. ASSUME NEW r \in Replies[Depth(a)], Reply(a, r) PROVE RootSame
    <3>1. pc'[Root] = pc[Root] /\ events'[Root] = events[Root]
      <4>1. PICK s \in {"error", "ok"} :
               End(a, {"llm_response"}, s) \/ (pc' = [pc EXCEPT ![a] = "gate"] /\ Rec(a, {"llm_response"}))
        BY <2>3 DEF Reply
      <4> QED
        BY <1>2, <4>1, AgentEnds, Recorded DEF Outcome
    <3>2. tokens' = tokens /\ result'[Root] = result[Root]
      BY <1>2, <2>3 DEF Reply, Spend
    <3> QED
      BY <2>3, <3>1, <3>2 DEF Reply, RootSame
  <2>4. CASE GateDone(a)
    BY <1>2, <2>4 DEF GateDone, RootSame
  <2>5. CASE WriteResults(a)
    <3>1. pc'[Root] = pc[Root] /\ events'[Root] = events[Root]
      BY <1>2, <2>5, AgentEnds DEF WriteResults, Ended, Outcome
    <3> QED
      BY <1>2, <2>5, <3>1 DEF WriteResults, RootSame
  <2> QED
    BY <1>2, <2>1, <2>2, <2>3, <2>4, <2>5
<1>3. ASSUME NEW a \in Agent, a # Root, NEW i \in Index, CallStep(a, i) \/ Answer(a, i)
      PROVE  RootSame
  <2>1. ASSUME NEW r, Set(a, i, r) PROVE result'[Root] = result[Root]
    BY <1>3, <2>1 DEF Set
  <2>2. CASE NoExecutor(a, i) \/ AskCancelled(a, i) \/ ToolCancelled(a, i)
    BY <2>1, <2>2 DEF NoExecutor, AskCancelled, ToolCancelled, RootSame
  <2>3. CASE Answer(a, i)
    BY <2>1, <2>3 DEF Answer, Granted, RootSame
  <2>4. CASE Gate(a, i)
    <3>1. PICK r : Set(a, i, r)
      BY <2>4 DEF Gate
    <3>2. Rec(a, {"tool_call"} \cup Verdict(a, reply[a][i])) /\ toolCalls' = toolCalls
      BY <1>3, <2>4 DEF Gate, Counted
    <3> QED
      BY <1>3, <2>1, <2>4, <3>1, <3>2, Recorded DEF Gate, RootSame
  <2>5. CASE Start(a, i)
    <3>1. Set(a, i, "running")
      BY <2>5 DEF Start
    <3>2. pc'[Root] = pc[Root] /\ dirty'[Root] = dirty[Root]
      <4>1. CASE ~Starts(a, reply[a][i])
        BY <2>5, <4>1 DEF Start
      <4>2. CASE Starts(a, reply[a][i])
        <5>1. Append(a, i) # Root
          BY <4>2, HasRoom, Children
        <5> QED
          BY <2>5, <4>2, <5>1 DEF Start
      <4> QED
        BY <4>1, <4>2
    <3> QED
      BY <2>1, <2>5, <3>1, <3>2 DEF Start, RootSame
  <2>6. ASSUME NEW r, NEW secret, Back(a, i, r, secret)
        PROVE  result'[Root] = result[Root] /\ events'[Root] = events[Root] /\ dirty'[Root] = dirty[Root]
    <3>1. PICK ks : Rec(a, ks)
      BY <2>6 DEF Back
    <3> QED
      BY <1>3, <2>1, <2>6, <3>1, Recorded DEF Back
  <2>7. CASE ToolReturns(a, i)
    BY <2>6, <2>7 DEF ToolReturns, RootSame
  <2>8. CASE Depth(a) <= MaxDepth /\ ChildReturns(a, i)
    <3>1. Append(a, i) # Root
      BY <2>8, Children
    <3>2. pc'[Root] = pc[Root]
      BY <2>8, <3>1 DEF ChildReturns
    <3>3. result'[Root] = result[Root] /\ events'[Root] = events[Root] /\ dirty'[Root] = dirty[Root]
      BY <2>1, <2>6, <2>8 DEF ChildReturns
    <3> QED
      BY <2>8, <3>2, <3>3 DEF ChildReturns, RootSame
  <2> QED
    BY <1>3, <2>2, <2>3, <2>4, <2>5, <2>7, <2>8 DEF CallStep
<1> QED
  BY <1>1, <1>2, <1>3, Steps DEF AgentStep

LEMMA CleanStep == TreeInv /\ CleanRoot /\ [Next]_vars => CleanRoot'
<1> SUFFICES ASSUME TreeInv, CleanRoot, [Next]_vars PROVE CleanRoot'
  OBVIOUS
<1> USE Types, Places DEF TreeInv, CleanRoot
<1>1. CASE RootSame
  BY <1>1 DEF RootSame
<1>2. CASE \/ PreCall(Root) \/ ModelFails(Root) \/ (\E r \in Replies[Depth(Root)] : Reply(Root, r))
           \/ GateDone(Root) \/ WriteResults(Root)
  BY <1>2 DEF PreCall, ModelFails, Reply, GateDone, WriteResults
<1>3. ASSUME NEW i \in Index, CallStep(Root, i) \/ Answer(Root, i) PROVE CleanRoot'
  <2>1. CASE NoExecutor(Root, i) \/ Gate(Root, i) \/ AskCancelled(Root, i) \/ Answer(Root, i) \/ ToolCancelled(Root, i)
    BY <2>1 DEF NoExecutor, Gate, AskCancelled, Answer, ToolCancelled
  <2>2. CASE Start(Root, i)
    <3>1. CASE ~Starts(Root, reply[Root][i])
      BY <2>2, <3>1 DEF Start
    <3>2. CASE Starts(Root, reply[Root][i])
      <4>1. dirty' = [dirty EXCEPT ![Append(Root, i)] = FALSE]
        BY <2>2, <3>2 DEF Start
      <4> QED
        BY <4>1
    <3> QED
      BY <3>1, <3>2
  <2>3. CASE ToolReturns(Root, i) \/ ChildReturns(Root, i)
    <3>1. CASE UNCHANGED dirty
      BY <3>1
    <3>2. ASSUME NEW r, NEW secret, Back(Root, i, r, secret) PROVE CleanRoot'
      <4>1. dirty' = [dirty EXCEPT ![Root] = @ \/ (secret /\ ~Masks(Root, i, secret))]
        BY <3>2 DEF Back
      <4>2. ~(secret /\ ~Masks(Root, i, secret))
        BY DEF Masks
      <4> QED
        BY <4>1, <4>2
    <3> QED
      BY <2>3, <3>1, <3>2 DEF ToolReturns, ChildReturns
  <2> QED
    BY <1>3, <2>1, <2>2, <2>3 DEF CallStep
<1> QED
  BY <1>1, <1>2, <1>3, OthersLeaveRoot DEF AgentStep

\* Sub-agents stop at limits.subagent_depth, a named one delegates only where its entry in
\* the manifest lists `delegate`, and nothing that redact masks reaches the root's
\* conversation unmasked, whatever was said below it (subagent.go, runtime.go, policy_rules.go).
THEOREM SubAgentsAreConfined == Spec => []Confined
<1>1. Init => TreeInv /\ CleanRoot
  BY InitTree, Places DEF Init, CleanRoot
<1>2. TreeInv /\ CleanRoot /\ [Next]_vars => TreeInv' /\ CleanRoot'
  BY NextTree, CleanStep
<1>3. TreeInv /\ CleanRoot => Confined
  BY TreeConfines DEF Confined, On, CleanRoot
<1> QED
  BY <1>1, <1>2, <1>3, PTL DEF Spec
-----------------------------------------------------------------------------
(* The record nests.                                                       *)

\* Who records works.
LEMMA Recorders ==
    ASSUME TreeInv, [Next]_vars, NEW a \in Agent, events'[a] # events[a]
    PROVE  pc[a] \in {"pre", "send", "gate", "run"}
<1> USE Types DEF TreeInv
<1>1. ASSUME NEW b \in Agent, NEW ks, Rec(b, ks) PROVE b = a
  BY <1>1, Recorded
<1>2. ASSUME NEW b \in Agent, NEW ks, NEW s, End(b, ks, s) PROVE b = a
  BY <1>1, <1>2 DEF End
<1>3. CASE Quiet
  BY <1>3, QuietStep
<1>4. ASSUME NEW b \in Agent, PreCall(b) \/ ModelFails(b) \/ (\E r \in Replies[Depth(b)] : Reply(b, r))
                              \/ GateDone(b) \/ WriteResults(b)
      PROVE  b = a /\ pc[b] \in {"pre", "send", "gate", "run"}
  <2>1. pc[b] \in {"pre", "send", "gate", "run"}
    BY <1>4 DEF PreCall, ModelFails, Reply, GateDone, WriteResults
  <2>2. (\E ks : Rec(b, ks)) \/ (\E ks, s : End(b, ks, s))
    BY <1>4 DEF PreCall, ModelFails, Reply, GateDone, WriteResults
  <2> QED
    BY <1>1, <1>2, <2>1, <2>2
<1>5. ASSUME NEW b \in Agent, NEW i \in Index, CallStep(b, i) \/ Answer(b, i)
      PROVE  b = a /\ pc[b] \in {"pre", "send", "gate", "run"}
  <2>1. CASE Gate(b, i)
    BY <1>1, <2>1 DEF Gate, AtGate
  <2>2. CASE ToolReturns(b, i) \/ ChildReturns(b, i)
    <3>1. pc[b] = "run"
      BY <2>2 DEF ToolReturns, ChildReturns, Shape, ShapeOf
    <3>2. \E ks : Rec(b, ks)
      BY <2>2 DEF ToolReturns, ChildReturns, Back
    <3> QED
      BY <1>1, <3>1, <3>2
  <2>3. CASE NoExecutor(b, i) \/ AskCancelled(b, i) \/ Answer(b, i) \/ Start(b, i) \/ ToolCancelled(b, i)
    BY <2>3 DEF NoExecutor, AskCancelled, Answer, Start, ToolCancelled
  <2> QED
    BY <1>5, <2>1, <2>2, <2>3 DEF CallStep
<1> QED
  BY <1>3, <1>4, <1>5, Steps DEF AgentStep

LEMMA RecordNests ==
    ASSUME TreeInv, [Next]_vars
    PROVE  /\ Over => UNCHANGED events
           /\ \A a \in Agent \ {Root} : events'[a] # events[a] => <<Parent(a), a[Depth(a)]>> \in open
<1> USE Types DEF TreeInv
<1>1. ASSUME NEW a \in Agent, events'[a] # events[a] PROVE On(a)
  BY <1>1, Recorders DEF On
<1>2. ASSUME Over, NEW a \in Agent PROVE events'[a] = events[a]
  <2> SUFFICES ASSUME events'[a] # events[a] PROVE FALSE
    OBVIOUS
  <2>1. a # Root
    BY <1>2, Recorders DEF Over, Outcome
  <2>2. Depth(a) \in Nat /\ Depth(a) # 0
    <3>1. a \in Seq(Index)
      BY Places
    <3> QED
      BY <2>1, <3>1, Places DEF Root, Depth
  <2>3. Waits(a, 0) /\ Up(a, 0) = Root
    BY <1>1, <2>2, WaitedFor, Ancestors
  <2> QED
    BY <1>2, <2>3 DEF Waits, Over, Outcome
<1>3. Over => events' = events
  <2>1. events' \in [Agent -> [Kind -> Nat]]
    BY TypeStep, TypesNext
  <2> QED
    BY <1>2, <2>1
<1>4. ASSUME NEW a \in Agent \ {Root}, events'[a] # events[a] PROVE <<Parent(a), a[Depth(a)]>> \in open
  <2>1. /\ Parent(a) \in Agent /\ a[Depth(a)] \in Index
        /\ result[Parent(a)][a[Depth(a)]] = "running"
    BY <1>1, <1>4, ParentWaits
  <2> QED
    BY <2>1 DEF Shape, ShapeOf
<1> QED
  BY <1>3, <1>4

\* An event of a sub-agent comes while the call that delegated to it is open in the record,
\* and none comes after the end of the run (journal.go).
THEOREM RecordIsATree == Spec => EventsNest
<1>1. TreeInv /\ [Next]_vars =>
        (/\ Over => UNCHANGED events
         /\ \A a \in Agent \ {Root} : events'[a] # events[a] => <<Parent(a), a[Depth(a)]>> \in open)
  BY RecordNests
<1> QED
  BY <1>1, InitTree, NextTree, PTL DEF Spec, EventsNest
-----------------------------------------------------------------------------
(* The budget.                                                             *)

LEMMA Limits == TypeOK => manifest.tokens \in Nat /\ manifest.calls \in Nat
<1>1. \A m \in Manifests : m.tokens \in Nat /\ m.calls \in Nat
  BY GovernanceAssumption, Zenon
<1> QED
  BY <1>1 DEF TypeOK

BudgetInv == TokensInv /\ CallsInv

\* The calls of a reply are few.
LEMMA FewCalls ==
    \A S \in SUBSET Index : IsFiniteSet(S) /\ Cardinality(S) \in Nat /\ Cardinality(S) <= Width
<1>1. IsFiniteSet(Index) /\ Cardinality(Index) = Width
  BY BoundsAssumption, FS_Interval DEF Index
<1> QED
  BY <1>1, FS_Subset, FS_CardinalityType

LEMMA Cards ==
    /\ \A a \in Agent : /\ Cardinality(OpenCalls(a)) \in Nat /\ (Cardinality(OpenCalls(a)))' \in Nat
                        /\ result[a] = NoCalls => Cardinality(OpenCalls(a)) = 0
                        /\ result'[a] = NoCalls => (Cardinality(OpenCalls(a)))' = 0
                        /\ result'[a] = result[a] => (Cardinality(OpenCalls(a)))' = Cardinality(OpenCalls(a))
    /\ Cardinality(Gated) \in Nat /\ (Cardinality(Gated))' \in Nat /\ Cardinality(Gated) <= Width /\ (Cardinality(Gated))' <= Width
    /\ result'[Root] = result[Root] => (Cardinality(Gated))' = Cardinality(Gated)
<1>1. ASSUME NEW a \in Agent
      PROVE  /\ Cardinality(OpenCalls(a)) \in Nat /\ (Cardinality(OpenCalls(a)))' \in Nat
             /\ result'[a] = result[a] => (Cardinality(OpenCalls(a)))' = Cardinality(OpenCalls(a))
  <2>1. OpenCalls(a) \subseteq Index /\ OpenCalls(a)' \subseteq Index
    BY DEF OpenCalls
  <2>2. result'[a] = result[a] => OpenCalls(a)' = OpenCalls(a)
    BY DEF OpenCalls
  <2> QED
    BY <2>1, <2>2, FewCalls
<1>2. ASSUME NEW a \in Agent
      PROVE  /\ result[a] = NoCalls => Cardinality(OpenCalls(a)) = 0
             /\ result'[a] = NoCalls => (Cardinality(OpenCalls(a)))' = 0
  <2>1. result[a] = NoCalls => OpenCalls(a) = {}
    BY DEF OpenCalls, NoCalls, Waiting
  <2>2. result'[a] = NoCalls => OpenCalls(a)' = {}
    BY DEF OpenCalls, NoCalls, Waiting
  <2> QED
    BY <2>1, <2>2, FS_EmptySet
<1>3. Gated \subseteq Index /\ Gated' \subseteq Index /\ (result'[Root] = result[Root] => Gated' = Gated)
  BY DEF Gated
<1> QED
  BY <1>1, <1>2, <1>3, FewCalls

\* An element is put into a set, or taken out of it.
LEMMA OneMore ==
    ASSUME NEW S, IsFiniteSet(S), NEW x, NEW T, NEW new \in BOOLEAN, T = IF new THEN S \cup {x} ELSE S \ {x}
    PROVE  Cardinality(T) + (IF x \in S THEN 1 ELSE 0) = Cardinality(S) + (IF new THEN 1 ELSE 0)
<1>1. Cardinality(S) \in Nat
  BY FS_CardinalityType
<1>2. Cardinality(S \cup {x}) = IF x \in S THEN Cardinality(S) ELSE Cardinality(S) + 1
  BY FS_AddElement
<1>3. Cardinality(S \ {x}) = IF x \in S THEN Cardinality(S) - 1 ELSE Cardinality(S)
  BY FS_RemoveElement
<1> QED
  BY <1>1, <1>2, <1>3

\* A call that changes its standing is one more, or one less, of those whose fate is open,
\* and of those that have gone through the gate.
LEMMA CallMoves ==
    ASSUME TypeOK, NEW a \in Agent, NEW i \in Index, NEW r \in Stands, Set(a, i, r)
    PROVE  /\ (Cardinality(OpenCalls(a)))' + (IF result[a][i] \in Waiting THEN 1 ELSE 0)
                 = Cardinality(OpenCalls(a)) + (IF r \in Waiting THEN 1 ELSE 0)
           /\ \A b \in Agent : b # a => (Cardinality(OpenCalls(b)))' = Cardinality(OpenCalls(b))
           /\ a = Root => (Cardinality(Gated))' + (IF result[Root][i] # "none" THEN 1 ELSE 0)
                             = Cardinality(Gated) + (IF r # "none" THEN 1 ELSE 0)
<1>1. /\ result'[a][i] = r
      /\ \A b \in Agent : b # a => result'[b] = result[b]
      /\ \A j \in Index : j # i => result'[a][j] = result[a][j]
  BY Stood
<1>2. (Cardinality(OpenCalls(a)))' + (IF result[a][i] \in Waiting THEN 1 ELSE 0)
         = Cardinality(OpenCalls(a)) + (IF r \in Waiting THEN 1 ELSE 0)
  <2>1. OpenCalls(a)' = IF r \in Waiting THEN OpenCalls(a) \cup {i} ELSE OpenCalls(a) \ {i}
    BY <1>1 DEF OpenCalls, Waiting
  <2>2. IsFiniteSet(OpenCalls(a)) /\ (i \in OpenCalls(a) <=> result[a][i] \in Waiting)
    BY FewCalls DEF OpenCalls
  <2>3. PICK new \in BOOLEAN : new <=> r \in Waiting
    OBVIOUS
  <2>4. Cardinality(OpenCalls(a)') + (IF i \in OpenCalls(a) THEN 1 ELSE 0)
           = Cardinality(OpenCalls(a)) + (IF new THEN 1 ELSE 0)
    BY <2>1, <2>2, <2>3, OneMore
  <2> QED
    BY <2>2, <2>3, <2>4
<1>3. a = Root => (Cardinality(Gated))' + (IF result[Root][i] # "none" THEN 1 ELSE 0)
                     = Cardinality(Gated) + (IF r # "none" THEN 1 ELSE 0)
  <2> SUFFICES ASSUME a = Root PROVE (Cardinality(Gated))' + (IF result[Root][i] # "none" THEN 1 ELSE 0)
                     = Cardinality(Gated) + (IF r # "none" THEN 1 ELSE 0)
    OBVIOUS
  <2>1. Gated' = IF r # "none" THEN Gated \cup {i} ELSE Gated \ {i}
    BY <1>1 DEF Gated
  <2>2. IsFiniteSet(Gated) /\ (i \in Gated <=> result[Root][i] # "none")
    BY FewCalls DEF Gated
  <2>3. PICK new \in BOOLEAN : new <=> r # "none"
    OBVIOUS
  <2>4. Cardinality(Gated') + (IF i \in Gated THEN 1 ELSE 0) = Cardinality(Gated) + (IF new THEN 1 ELSE 0)
    BY <2>1, <2>2, <2>3, OneMore
  <2> QED
    BY <2>2, <2>3, <2>4
<1> QED
  BY <1>1, <1>2, <1>3, Cards

LEMMA RootEnds ==
    ASSUME TypeOK, NEW kinds, NEW s \in Outcome, End(Root, kinds, s)
    PROVE  /\ pc'[Root] = s
           /\ "tool_result" \notin kinds => events'[Root]["tool_result"] = events[Root]["tool_result"]
           /\ "llm_response" \notin kinds => events'[Root]["llm_response"] = events[Root]["llm_response"]
           /\ "llm_response" \in kinds => events'[Root]["llm_response"] = events[Root]["llm_response"] + 1
<1>1. pc' = [pc EXCEPT ![Root] = s]
  BY DEF End
<1>2. pc'[Root] = s
  BY <1>1, Types, Places
<1>3. {"tool_result", "llm_response"} \subseteq Kind \ {"run_end"}
  BY DEF Kind
<1> QED
  BY <1>2, <1>3, Places, AgentEnds

LEMMA RootRecords ==
    ASSUME TypeOK, NEW ks, Rec(Root, ks)
    PROVE  /\ "tool_result" \notin ks => events'[Root]["tool_result"] = events[Root]["tool_result"]
           /\ "tool_result" \in ks => events'[Root]["tool_result"] = events[Root]["tool_result"] + 1
           /\ "llm_response" \notin ks => events'[Root]["llm_response"] = events[Root]["llm_response"]
           /\ "llm_response" \in ks => events'[Root]["llm_response"] = events[Root]["llm_response"] + 1
<1>1. "tool_result" \in Kind /\ "llm_response" \in Kind
  BY DEF Kind
<1> QED
  BY <1>1, Places, Recorded

LEMMA Balance ==
    \A t, q, c, q2, was, is, gate, back \in Nat :
        t + q <= c /\ q2 + was = q + is /\ back + is <= was + gate => t + back + q2 <= c + gate
  OBVIOUS

\* The root's step outside its calls.
LEMMA RootBudget ==
    ASSUME TreeInv, BudgetInv, [Next]_vars,
           \/ PreCall(Root) \/ ModelFails(Root) \/ (\E r \in Replies[Depth(Root)] : Reply(Root, r))
           \/ GateDone(Root) \/ WriteResults(Root)
    PROVE  BudgetInv'
<1> USE Types, Places DEF TreeInv
<1>1. /\ manifest' = manifest /\ manifest.tokens \in Nat /\ manifest.calls \in Nat /\ tokens \in Nat /\ toolCalls \in Nat
      /\ events[Root]["tool_result"] \in Nat /\ events[Root]["llm_response"] \in Nat
  BY Limits, ManifestStays DEF Kind
<1>2. PICK q \in Nat, q2 \in Nat, g \in Nat, g2 \in Nat :
         /\ q = Cardinality(OpenCalls(Root)) /\ q2 = (Cardinality(OpenCalls(Root)))'
         /\ g = Cardinality(Gated) /\ g2 = (Cardinality(Gated))'
         /\ result'[Root] = NoCalls => q2 = 0
         /\ result'[Root] = result[Root] => q2 = q /\ g2 = g
  BY Cards
\* What is kept by a step that counts nothing.
<1>3. ASSUME UNCHANGED <<tokens, toolCalls>>, pc[Root] # "error", pc'[Root] \notin {"gate", "ok"},
             pc'[Root] = "send" => ~OverCalls,
             pc'[Root] = "run" => pc[Root] = "gate" /\ result'[Root] = result[Root],
             events'[Root]["tool_result"] = events[Root]["tool_result"],
             events'[Root]["llm_response"] = events[Root]["llm_response"],
             result'[Root] = result[Root] \/ result'[Root] = NoCalls
      PROVE  BudgetInv'
  <2>1. TokensInv'
    BY <1>1, <1>3 DEF BudgetInv, TokensInv
  <2>2. q2 <= q
    BY <1>2, <1>3
  <2>3. CallsInv'
    <3> SUFFICES ASSUME manifest.calls > 0
                 PROVE  /\ events[Root]["tool_result"] + q2 <= toolCalls /\ toolCalls <= manifest.calls + Width
                        /\ pc'[Root] = "send" => toolCalls <= manifest.calls
                        /\ pc'[Root] = "run" => toolCalls <= manifest.calls + g2
      BY <1>1, <1>2, <1>3 DEF CallsInv
    <3>1. /\ events[Root]["tool_result"] + q <= toolCalls
          /\ toolCalls <= manifest.calls + Width
          /\ pc[Root] \in {"gate", "run"} => toolCalls <= manifest.calls + g
      BY <1>2 DEF BudgetInv, CallsInv
    <3>2. pc'[Root] = "send" => toolCalls <= manifest.calls
      BY <1>1, <1>3 DEF OverCalls
    <3>3. pc'[Root] = "run" => toolCalls <= manifest.calls + g2
      BY <1>2, <1>3, <3>1
    <3>4. events[Root]["tool_result"] + q2 <= toolCalls
      BY <1>1, <2>2, <3>1
    <3> QED
      BY <3>1, <3>2, <3>3, <3>4
  <2> QED
    BY <2>1, <2>3 DEF BudgetInv
<1>4. CASE PreCall(Root)
  <2>1. /\ pc'[Root] \in {"send", "error"} /\ (pc'[Root] = "send" => ~OverCalls)
        /\ events'[Root]["tool_result"] = events[Root]["tool_result"]
        /\ events'[Root]["llm_response"] = events[Root]["llm_response"]
    <3>1. CASE Exhausted(Root) \/ OverCalls
      <4>1. PICK ks : ks \subseteq {"llm_call"} /\ End(Root, ks, "error")
        BY <1>4, <3>1 DEF PreCall
      <4> QED
        BY <4>1, RootEnds DEF Outcome
    <3>2. CASE ~Exhausted(Root) /\ ~OverCalls
      <4>1. pc' = [pc EXCEPT ![Root] = "send"] /\ Rec(Root, {"llm_call"})
        BY <1>4, <3>2 DEF PreCall
      <4> QED
        BY <3>2, <4>1, RootRecords
    <3> QED
      BY <3>1, <3>2
  <2> QED
    BY <1>3, <1>4, <2>1 DEF PreCall
<1>5. CASE ModelFails(Root)
  <2>1. PICK s \in {"error", "cancelled"} : End(Root, {}, s)
    BY <1>5 DEF ModelFails, Ended
  <2>2. /\ pc'[Root] \in {"error", "cancelled"}
        /\ events'[Root]["tool_result"] = events[Root]["tool_result"]
        /\ events'[Root]["llm_response"] = events[Root]["llm_response"]
    BY <2>1, RootEnds DEF Outcome
  <2>3. pc[Root] = "send" /\ UNCHANGED <<tokens, toolCalls, result>>
    BY <1>5 DEF ModelFails
  <2> QED
    BY <1>3, <2>2, <2>3
<1>6. ASSUME NEW r \in Replies[Depth(Root)], Reply(Root, r) PROVE BudgetInv'
  <2>1. /\ pc[Root] = "send" /\ toolCalls' = toolCalls
        /\ manifest.tokens > 0 => tokens' = tokens + 1
        /\ OverTokens => pc'[Root] = "error"
    BY <1>6 DEF Reply, Spend, End
  <2>2. /\ pc'[Root] \in {"error", "ok", "gate"}
        /\ events'[Root]["tool_result"] = events[Root]["tool_result"]
        /\ events'[Root]["llm_response"] = events[Root]["llm_response"] + 1
    <3>1. PICK s \in {"error", "ok"} :
             End(Root, {"llm_response"}, s) \/ (pc' = [pc EXCEPT ![Root] = "gate"] /\ Rec(Root, {"llm_response"}))
      BY <1>6 DEF Reply
    <3>2. CASE End(Root, {"llm_response"}, s)
      BY <3>1, <3>2, RootEnds DEF Outcome
    <3>3. CASE pc' = [pc EXCEPT ![Root] = "gate"] /\ Rec(Root, {"llm_response"})
      BY <3>3, RootRecords
    <3> QED
      BY <3>1, <3>2, <3>3
  <2>3. result'[Root] = NoCalls
    <3>1. result[Root] = NoCalls
      BY <2>1 DEF Shape, ShapeOf
    <3> QED
      BY <1>6, <3>1 DEF Reply
  <2>4. TokensInv'
    <3>1. manifest.tokens > 0 /\ tokens' > manifest.tokens => pc'[Root] = "error"
      BY <2>1 DEF OverTokens
    <3> QED
      BY <1>1, <2>1, <2>2, <3>1 DEF BudgetInv, TokensInv
  <2>5. CallsInv'
    <3> SUFFICES ASSUME manifest.calls > 0
                 PROVE  /\ events[Root]["tool_result"] + q2 <= toolCalls /\ toolCalls <= manifest.calls + Width
                        /\ toolCalls <= manifest.calls /\ toolCalls <= manifest.calls + g2
      BY <1>1, <1>2, <2>1, <2>2 DEF CallsInv
    <3>1. /\ events[Root]["tool_result"] + q <= toolCalls /\ toolCalls <= manifest.calls + Width
          /\ toolCalls <= manifest.calls
      BY <1>2, <2>1 DEF BudgetInv, CallsInv
    <3>2. q2 = 0
      BY <1>2, <2>3
    <3> QED
      BY <1>1, <1>2, <3>1, <3>2
  <2> QED
    BY <2>4, <2>5 DEF BudgetInv
<1>7. CASE GateDone(Root)
  BY <1>3, <1>7 DEF GateDone
<1>8. CASE WriteResults(Root)
  <2>1. /\ pc'[Root] \in {"pre", "cancelled", "error"}
        /\ events'[Root]["tool_result"] = events[Root]["tool_result"]
        /\ events'[Root]["llm_response"] = events[Root]["llm_response"]
    <3>1. CASE Live(Root)
      BY <1>8, <3>1 DEF WriteResults
    <3>2. CASE ~Live(Root)
      <4>1. Ended(Root) \in {"cancelled", "error"} /\ End(Root, {}, Ended(Root))
        BY <1>8, <3>2 DEF WriteResults, Ended
      <4> QED
        BY <4>1, RootEnds DEF Outcome
    <3> QED
      BY <3>1, <3>2
  <2>2. pc[Root] = "run" /\ UNCHANGED <<tokens, toolCalls>> /\ result'[Root] = NoCalls
    BY <1>8 DEF WriteResults
  <2> QED
    BY <1>3, <2>1, <2>2
<1> QED
  BY <1>4, <1>5, <1>6, <1>7, <1>8

\* The step of one of its calls: a tool that comes back was counted at the gate.
LEMMA RootCallBudget ==
    ASSUME TreeInv, BudgetInv, [Next]_vars, NEW i \in Index, CallStep(Root, i) \/ Answer(Root, i)
    PROVE  BudgetInv'
<1> USE Types, Places DEF TreeInv
<1>1. /\ manifest' = manifest /\ manifest.tokens \in Nat /\ manifest.calls \in Nat /\ tokens \in Nat /\ toolCalls \in Nat
      /\ events[Root]["tool_result"] \in Nat /\ events[Root]["llm_response"] \in Nat
  BY Limits, ManifestStays DEF Kind
<1> USE DEF Waiting
<1>2. PICK q \in Nat, q2 \in Nat, g \in Nat, g2 \in Nat :
         /\ q = Cardinality(OpenCalls(Root)) /\ q2 = (Cardinality(OpenCalls(Root)))'
         /\ g = Cardinality(Gated) /\ g2 = (Cardinality(Gated))' /\ g2 <= Width
  BY Cards
\* What every such step is: how the call stood, how it stands, what was counted.
<1>3. ASSUME NEW r \in Stands, Set(Root, i, r), r # "none", pc'[Root] = pc[Root], pc[Root] \in {"gate", "run"}, tokens' = tokens,
             NEW gate \in {0, 1}, toolCalls' = toolCalls + gate,
             gate = 1 => result[Root][i] = "none" /\ pc[Root] = "gate",
             NEW back \in {0, 1}, events'[Root]["tool_result"] = events[Root]["tool_result"] + back,
             back = 1 => result[Root][i] \in Waiting /\ r \notin Waiting,
             manifest.calls > 0 /\ result[Root][i] = "none" /\ r \in Waiting => gate = 1,
             result[Root][i] # "none" => result[Root][i] \in Waiting,
             events'[Root]["llm_response"] = events[Root]["llm_response"]
      PROVE  BudgetInv'
  <2>1. TokensInv'
    BY <1>1, <1>3 DEF BudgetInv, TokensInv
  <2>2. PICK was \in {0, 1}, is \in {0, 1}, old \in {0, 1} :
           /\ was = IF result[Root][i] \in Waiting THEN 1 ELSE 0
           /\ is = IF r \in Waiting THEN 1 ELSE 0
           /\ old = IF result[Root][i] # "none" THEN 1 ELSE 0
    OBVIOUS
  <2>3. q2 + was = q + is /\ g2 + old = g + 1
    BY <1>2, <1>3, <2>2, CallMoves
  <2>4. gate + old <= 1 /\ (manifest.calls > 0 => back + is <= was + gate)
    <3>1. CASE result[Root][i] = "none"
      BY <1>3, <2>2, <3>1
    <3>2. CASE result[Root][i] \in Waiting
      BY <1>3, <2>2, <3>2
    <3> QED
      BY <1>3, <3>1, <3>2
  <2>5. CallsInv'
    <3> SUFFICES ASSUME manifest.calls > 0
                 PROVE  /\ events'[Root]["tool_result"] + q2 <= toolCalls'
                        /\ toolCalls' <= manifest.calls + Width
                        /\ toolCalls' <= manifest.calls + g2
      BY <1>1, <1>2, <1>3 DEF CallsInv
    <3>1. events[Root]["tool_result"] + q <= toolCalls /\ toolCalls <= manifest.calls + g
      BY <1>2, <1>3 DEF BudgetInv, CallsInv
    <3>2. events'[Root]["tool_result"] + q2 <= toolCalls'
      <4>1. events[Root]["tool_result"] + back + q2 <= toolCalls + gate
        <5> HIDE Types, Places
        <5> QED
          BY <1>1, <2>3, <2>4, <3>1, Balance
      <4> QED
        BY <1>3, <4>1
    <3>3. toolCalls' <= manifest.calls + g2
      <4>1. g + gate <= g2
        BY <2>3, <2>4
      <4> QED
        BY <1>1, <1>3, <3>1, <4>1
    <3>4. toolCalls' <= manifest.calls + Width
      <4>1. toolCalls' \in Nat /\ Width \in Nat /\ g2 <= Width
        BY <1>1, <1>2, <1>3, BoundsAssumption
      <4> HIDE Types, Places
      <4> QED
        BY <1>1, <3>3, <4>1
    <3> QED
      BY <3>2, <3>3, <3>4
  <2> QED
    BY <2>1, <2>5 DEF BudgetInv
<1>4. ShapeOf(Root)
  BY DEF Shape
<1> USE DEF Stands, Settled
<1>5. CASE NoExecutor(Root, i)
  BY <1>1, <1>3, <1>5 DEF NoExecutor, AtGate
<1>6. CASE Gate(Root, i)
  <2>1. PICK c : c = reply[Root][i]
    OBVIOUS
  <2>2. /\ pc[Root] = "gate" /\ result[Root][i] = "none" /\ pc' = pc /\ tokens' = tokens
        /\ toolCalls' = toolCalls + IF Counted(Root, c) THEN 1 ELSE 0
    BY <1>6, <2>1 DEF Gate, AtGate
  <2>3. PICK r \in {"blocked", "asking", "passed"} : Set(Root, i, r) /\ (c.rule => r = "blocked")
    <3>1. CASE DeniedBy(Root, c)
      BY <1>6, <2>1, <3>1 DEF Gate
    <3>2. CASE ~DeniedBy(Root, c)
      <4>1. ~c.rule
        BY <3>2 DEF DeniedBy
      <4> QED
        BY <1>6, <2>1, <4>1 DEF Gate
    <3> QED
      BY <3>1, <3>2
  <2>4. /\ events'[Root]["tool_result"] = events[Root]["tool_result"]
        /\ events'[Root]["llm_response"] = events[Root]["llm_response"]
    <3>1. PICK ks : ks \subseteq {"tool_call", "deny"} /\ Rec(Root, ks)
      <4>1. Rec(Root, {"tool_call"} \cup Verdict(Root, c)) /\ Verdict(Root, c) \subseteq {"deny"}
        BY <1>6, <2>1 DEF Gate, Verdict
      <4> QED
        BY <4>1
    <3> QED
      BY <3>1, RootRecords
  <2>5. manifest.calls > 0 /\ r # "blocked" => Counted(Root, c)
    BY <2>3 DEF Counted
  <2>6. CASE Counted(Root, c)
    <3>1. toolCalls' = toolCalls + 1
      BY <2>2, <2>6
    <3> QED
      BY <1>1, <1>3, <2>2, <2>3, <2>4, <3>1
  <2>7. CASE ~Counted(Root, c)
    <3>1. toolCalls' = toolCalls + 0
      BY <2>2, <2>7
    <3> QED
      BY <1>1, <1>3, <2>2, <2>3, <2>4, <2>5, <2>7, <3>1
  <2> QED
    BY <2>6, <2>7
<1>7. CASE Answer(Root, i) \/ AskCancelled(Root, i)
  <2>1. PICK r \in {"blocked", "passed"} : Set(Root, i, r)
    BY <1>7 DEF Answer, AskCancelled, Granted
  <2>2. result[Root][i] = "asking" /\ UNCHANGED <<pc, events, tokens, toolCalls>>
    BY <1>7 DEF Answer, AskCancelled
  <2>3. pc[Root] = "gate"
    BY <1>4, <2>2 DEF ShapeOf
  <2> QED
    BY <1>1, <1>3, <2>1, <2>2, <2>3
<1>8. CASE Start(Root, i)
  <2>1. /\ result[Root][i] = "passed" /\ pc[Root] = "run" /\ Set(Root, i, "running")
        /\ UNCHANGED <<events, tokens, toolCalls>>
    BY <1>8 DEF Start, MayStart
  <2>2. pc'[Root] = pc[Root]
    <3>1. CASE ~Starts(Root, reply[Root][i])
      BY <1>8, <3>1 DEF Start
    <3>2. CASE Starts(Root, reply[Root][i])
      <4>1. Append(Root, i) # Root
        BY <3>2, HasRoom, Children
      <4> QED
        BY <1>8, <3>2, <4>1 DEF Start
    <3> QED
      BY <3>1, <3>2
  <2> QED
    BY <1>1, <1>3, <2>1, <2>2
<1>9. CASE ToolReturns(Root, i) \/ ToolCancelled(Root, i) \/ (Depth(Root) <= MaxDepth /\ ChildReturns(Root, i))
  <2>1. result[Root][i] = "running" /\ pc[Root] = "run" /\ UNCHANGED <<tokens, toolCalls>>
    BY <1>4, <1>9 DEF ToolReturns, ToolCancelled, ChildReturns, ShapeOf
  <2>2. pc'[Root] = pc[Root]
    <3>1. CASE pc' = pc
      BY <3>1
    <3>2. CASE Depth(Root) <= MaxDepth /\ ChildReturns(Root, i)
      <4>1. Append(Root, i) # Root
        BY <3>2, Children
      <4> QED
        BY <3>2, <4>1 DEF ChildReturns
    <3> QED
      BY <1>9, <3>1, <3>2 DEF ToolReturns, ToolCancelled
  <2>3. CASE Set(Root, i, "cancelled") /\ UNCHANGED events
    BY <1>1, <1>3, <2>1, <2>2, <2>3
  <2>4. ASSUME NEW r \in {"ok", "error"}, NEW secret, Back(Root, i, r, secret) PROVE BudgetInv'
    <3>1. PICK ks : "tool_result" \in ks /\ "llm_response" \notin ks /\ Rec(Root, ks)
      BY <2>4 DEF Back
    <3>2. /\ events'[Root]["tool_result"] = events[Root]["tool_result"] + 1
          /\ events'[Root]["llm_response"] = events[Root]["llm_response"]
      BY <3>1, RootRecords
    <3>3. Set(Root, i, r)
      BY <2>4 DEF Back
    <3> QED
      BY <1>1, <1>3, <2>1, <2>2, <2>4, <3>2, <3>3
  <2> QED
    BY <1>9, <2>3, <2>4 DEF ToolReturns, ToolCancelled, ChildReturns
<1> QED
  BY <1>5, <1>6, <1>7, <1>8, <1>9 DEF CallStep

LEMMA BudgetStep == TreeInv /\ BudgetInv /\ [Next]_vars => BudgetInv'
<1> SUFFICES ASSUME TreeInv, BudgetInv, [Next]_vars PROVE BudgetInv'
  OBVIOUS
<1>1. CASE RootSame
  BY <1>1, Cards, Places DEF RootSame, BudgetInv, TokensInv, CallsInv
<1> QED
  BY <1>1, OthersLeaveRoot, RootBudget, RootCallBudget DEF AgentStep

\* The root answers at most once over its tokens, and its tools come back no more often than
\* max_tool_calls and the calls of one reply, however long replies are; a run that ends well
\* has kept to both limits.  So it is however the calls of a reply, its sub-agents, timeouts
\* and a cancellation interleave (budget.go).
THEOREM BudgetIsKept == Spec => []BudgetHolds
<1>1. Init => TreeInv /\ BudgetInv
  <2> SUFFICES ASSUME Init PROVE TreeInv /\ BudgetInv
    OBVIOUS
  <2>1. TreeInv /\ manifest.tokens \in Nat /\ manifest.calls \in Nat
    BY InitTree, Limits DEF TreeInv
  <2>2. /\ pc[Root] = "pre" /\ result[Root] = NoCalls /\ tokens = 0 /\ toolCalls = 0
        /\ events[Root]["tool_result"] = 0 /\ events[Root]["llm_response"] = 0
    BY Places DEF Init, Kind
  <2>3. Cardinality(OpenCalls(Root)) = 0 /\ Width \in Nat
    BY <2>2, Cards, Places, BoundsAssumption
  <2> QED
    BY <2>1, <2>2, <2>3 DEF BudgetInv, TokensInv, CallsInv
<1>2. TreeInv /\ BudgetInv => BudgetHolds
  <2> SUFFICES ASSUME TreeInv, BudgetInv PROVE BudgetHolds
    OBVIOUS
  <2>1. /\ manifest.tokens \in Nat /\ manifest.calls \in Nat /\ tokens \in Nat /\ toolCalls \in Nat
        /\ events[Root]["tool_result"] \in Nat
    BY Limits, Types, Places DEF TreeInv, Kind
  <2>2. Cardinality(OpenCalls(Root)) \in Nat /\ Cardinality(Gated) \in Nat /\ Width \in Nat
    BY Cards, Places, BoundsAssumption
  <2>3. Len(reply[Root]) \in Nat /\ Cardinality(Gated) <= Len(reply[Root])
    <3>1. reply[Root] \in Seq(Call)
      BY Types, Places DEF TreeInv
    <3>2. Len(reply[Root]) \in Nat /\ DOMAIN reply[Root] = 1..Len(reply[Root])
      BY <3>1
    <3>3. Gated \subseteq 1..Len(reply[Root])
      BY <3>2, Places DEF TreeInv, Shape, ShapeOf, Gated
    <3>4. IsFiniteSet(1..Len(reply[Root])) /\ Cardinality(1..Len(reply[Root])) = Len(reply[Root])
      BY <3>2, FS_Interval
    <3>5. Cardinality(Gated) <= Cardinality(1..Len(reply[Root]))
      BY <3>3, <3>4, FS_Subset
    <3> QED
      BY <3>2, <3>4, <3>5
  <2>4. manifest.tokens > 0 =>
           /\ events[Root]["llm_response"] <= manifest.tokens + 1
           /\ pc[Root] = "ok" => events[Root]["llm_response"] <= manifest.tokens
    BY <2>1 DEF BudgetInv, TokensInv
  <2>5. ASSUME manifest.calls > 0
        PROVE  /\ events[Root]["tool_result"] <= manifest.calls + Width
               /\ pc[Root] \in {"gate", "run"} => events[Root]["tool_result"] <= manifest.calls + Len(reply[Root])
               /\ pc[Root] \in {"send", "ok"} => events[Root]["tool_result"] <= manifest.calls
    <3>1. /\ events[Root]["tool_result"] + Cardinality(OpenCalls(Root)) <= toolCalls
          /\ toolCalls <= manifest.calls + Width
          /\ pc[Root] \in {"send", "ok"} => toolCalls <= manifest.calls
          /\ pc[Root] \in {"gate", "run"} => toolCalls <= manifest.calls + Cardinality(Gated)
      BY <2>5 DEF BudgetInv, CallsInv
    <3> QED
      BY <2>1, <2>2, <2>3, <3>1
  <2> QED
    BY <2>4, <2>5 DEF BudgetHolds
<1>3. TreeInv /\ BudgetInv /\ [Next]_vars => TreeInv' /\ BudgetInv'
  BY NextTree, BudgetStep
<1> QED
  BY <1>1, <1>2, <1>3, PTL DEF Spec
-----------------------------------------------------------------------------
(* Every call is accounted for.                                            *)

\* What counts of an agent's record.
LEMMA AgentRecords ==
    ASSUME TypeOK, NEW a \in Agent, NEW ks, Rec(a, ks)
    PROVE  /\ events'[a]["tool_call"] = events[a]["tool_call"] + IF "tool_call" \in ks THEN 1 ELSE 0
           /\ events'[a]["tool_result"] = events[a]["tool_result"] + IF "tool_result" \in ks THEN 1 ELSE 0
           /\ events'[a]["deny"] = events[a]["deny"] + IF "deny" \in ks THEN 1 ELSE 0
           /\ \A b \in Agent : b # a => events'[b] = events[b]
<1>1. "tool_call" \in Kind /\ "tool_result" \in Kind /\ "deny" \in Kind
  BY DEF Kind
<1>2. /\ \A b \in Agent : b # a => events'[b] = events[b]
      /\ \A k \in Kind : k \in ks => events'[a][k] = events[a][k] + 1
      /\ \A k \in Kind : k \notin ks => events'[a][k] = events[a][k]
  BY Recorded
<1>3. events[a]["tool_call"] \in Nat /\ events[a]["tool_result"] \in Nat /\ events[a]["deny"] \in Nat
  BY <1>1 DEF TypeOK
<1> QED
  BY <1>1, <1>2, <1>3

\* Whoever comes to its calls with a context that lives is in good standing.
LEMMA MakesCalls ==
    ASSUME TreeInv, CutInv, NEW a \in Agent \ cut, NEW i \in Index, CallStep(a, i) \/ Answer(a, i)
    PROVE  Live(a)
<1>1. CASE result[a][i] = "none"
  <2>1. NoExecutor(a, i) \/ Gate(a, i)
    BY <1>1 DEF CallStep, AskCancelled, Answer, Start, MayStart, ToolReturns, ToolCancelled, ChildReturns
  <2> QED
    BY <2>1 DEF NoExecutor, Gate, AtGate
<1>2. CASE result[a][i] # "none"
  <2>1. result[a] # NoCalls
    BY <1>2 DEF NoCalls
  <2> QED
    BY <2>1 DEF CutInv
<1> QED
  BY <1>1, <1>2

\* What such a step leaves of the contexts.
LEMMA CallContexts ==
    ASSUME TreeInv, CancelledAll, CutInv, [Next]_vars, NEW a \in Agent, NEW i \in Index, CallStep(a, i) \/ Answer(a, i)
    PROVE  CancelledAll' /\ CutInv' /\ cut' = cut
<1> USE Types DEF TreeInv
<1>1. /\ cut' = cut
      /\ \/ pc' = pc /\ ctx' = ctx
         \/ \E c \in Agent : /\ c # Root /\ c # a /\ pc' = [pc EXCEPT ![c] = "off"] /\ ctx' = ctx
         \/ \E c \in Agent : /\ c # Root /\ c # a /\ pc' = [pc EXCEPT ![c] = "pre"]
                             /\ ctx' = [ctx EXCEPT ![c] = ctx[a]] /\ ctx[a] = "live"
  <2>1. CASE NoExecutor(a, i) \/ Gate(a, i) \/ AskCancelled(a, i) \/ Answer(a, i) \/ ToolReturns(a, i) \/ ToolCancelled(a, i)
    BY <2>1 DEF NoExecutor, Gate, AskCancelled, Answer, ToolReturns, ToolCancelled, ends
  <2>2. CASE Start(a, i) /\ ~Starts(a, reply[a][i])
    BY <2>2 DEF Start
  <2>3. CASE Start(a, i) /\ Starts(a, reply[a][i])
    <3>1. PICK c \in Agent : c = Append(a, i) /\ c # Root /\ c # a
      BY <2>3, HasRoom, Children
    <3>2. /\ pc' = [pc EXCEPT ![c] = "pre"] /\ ctx' = [ctx EXCEPT ![c] = ctx[a]] /\ cut' = cut /\ ctx[a] = "live"
      BY <2>3, <3>1 DEF Start, MayStart, Live
    <3> QED
      BY <3>1, <3>2
  <2>4. CASE Depth(a) <= MaxDepth /\ ChildReturns(a, i)
    <3>1. PICK c \in Agent : c = Append(a, i) /\ c # Root /\ c # a
      BY <2>4, Children
    <3>2. pc' = [pc EXCEPT ![c] = "off"] /\ ctx' = ctx /\ cut' = cut
      BY <2>4, <3>1 DEF ChildReturns, ends
    <3> QED
      BY <3>1, <3>2
  <2> QED
    BY <2>1, <2>2, <2>3, <2>4 DEF CallStep
<1>2. /\ \A b \in Agent : ctx'[b] = ctx[b] \/ ctx'[b] = "live"
      /\ \A b \in Agent : pc'[b] = "cancelled" => pc[b] = "cancelled" /\ ctx'[b] = ctx[b]
      /\ (\E b \in Agent : ctx'[b] # ctx[b]) => ctx[a] = "live"
      /\ ctx'[a] = ctx[a] /\ ctx'[Root] = ctx[Root] /\ pc'[Root] = pc[Root]
  BY <1>1, Places
<1>3. CancelledAll'
  <2>1. \A b \in Agent : pc'[b] = "cancelled" => ctx'[b] = "cancelled"
    BY <1>2 DEF CancelledAll
  <2>2. ASSUME NEW b \in Agent, NEW d \in Agent, ctx'[b] = "cancelled" PROVE ctx'[d] # "live"
    <3>1. ctx[b] = "cancelled"
      BY <1>2, <2>2
    <3>2. \A x \in Agent : ctx[x] # "live"
      BY <3>1 DEF CancelledAll, Live
    <3> QED
      BY <1>2, <3>2
  <2> QED
    BY <2>1, <2>2 DEF CancelledAll, Live
<1>4. \A b \in Agent : b # a => result'[b] = result[b]
  <2>1. ASSUME NEW r, Set(a, i, r) PROVE \A b \in Agent : b # a => result'[b] = result[b]
    BY <2>1 DEF Set
  <2>2. \E r : Set(a, i, r)
    BY DEF CallStep, NoExecutor, Gate, AskCancelled, Answer, Granted, Start, ToolReturns, ToolCancelled, ChildReturns, Back
  <2> QED
    BY <2>1, <2>2
<1>5. CutInv'
  <2>1. ASSUME NEW b \in Agent \ cut, ctx'[b] # "live" PROVE result'[b] = NoCalls
    <3>1. ctx[b] # "live"
      BY <1>2, <2>1
    <3>2. b # a
      BY <3>1, MakesCalls DEF Live
    <3> QED
      BY <1>4, <3>1, <3>2 DEF CutInv, Live
  <2>2. Root \in cut => ctx'[Root] # "live" /\ pc'[Root] \in {"gate", "run", "error", "cancelled"}
    BY <1>2 DEF CutInv, Live
  <2> QED
    BY <1>1, <2>1, <2>2 DEF CutInv, Live
<1> QED
  BY <1>1, <1>3, <1>5

\* A call enters the record and leaves it with its end, its verdict or a refusal, unless
\* the context of its agent ends.
LEMMA CallsAccount ==
    ASSUME TreeInv, AccountInv, [Next]_vars, NEW a \in Agent, NEW i \in Index, CallStep(a, i) \/ Answer(a, i)
    PROVE  AccountInv'
<1> USE Types DEF TreeInv
<1> DEFINE W(r) == IF r \in Waiting THEN 1 ELSE 0
<1>1. \A b \in Agent : /\ events[b]["tool_call"] \in Nat /\ events[b]["tool_result"] \in Nat /\ events[b]["deny"] \in Nat
                       /\ refusals[b] \in Nat /\ Cardinality(OpenCalls(b)) \in Nat
  BY Cards DEF Kind
<1>2. CancelledAll' /\ CutInv' /\ cut' = cut
  BY CallContexts DEF AccountInv
<1>3. a \notin cut => Live(a)
  BY MakesCalls DEF AccountInv
\* What every such step is: how the call stands, what was recorded, who was refused.
<1>5. ASSUME NEW r \in Stands, Set(a, i, r), NEW call \in {0, 1}, NEW back \in {0, 1}, NEW deny \in {0, 1}, NEW no \in {0, 1},
             events'[a]["tool_call"] = events[a]["tool_call"] + call,
             events'[a]["tool_result"] = events[a]["tool_result"] + back,
             events'[a]["deny"] = events[a]["deny"] + deny,
             \A b \in Agent : b # a => events'[b] = events[b],
             refusals'[a] = refusals[a] + no, \A b \in Agent : b # a => refusals'[b] = refusals[b],
             a \notin cut => call + W(result[a][i]) = back + deny + no + W(r)
      PROVE  AccountInv'
  <2>1. /\ (Cardinality(OpenCalls(a)))' + W(result[a][i]) = Cardinality(OpenCalls(a)) + W(r)
        /\ \A b \in Agent : b # a => (Cardinality(OpenCalls(b)))' = Cardinality(OpenCalls(b))
    BY <1>5, CallMoves
  <2>3. ASSUME NEW b \in Agent \ cut, b # a PROVE Balanced(b)'
    <3>1. Balanced(b)
      BY <2>3 DEF AccountInv
    <3> QED
      BY <1>5, <2>1, <2>3, <3>1 DEF Balanced
  <2>4. ASSUME a \notin cut PROVE Balanced(a)'
    <3>1. PICK was \in {0, 1}, is \in {0, 1} : was = W(result[a][i]) /\ is = W(r)
      OBVIOUS
    <3>2. PICK q \in Nat : q = (Cardinality(OpenCalls(a)))'
      BY Cards
    <3> HIDE DEF W
    <3>3. events[a]["tool_call"] = events[a]["tool_result"] + events[a]["deny"] + refusals[a] + Cardinality(OpenCalls(a))
      BY <2>4 DEF AccountInv, Balanced
    <3>4. q + was = Cardinality(OpenCalls(a)) + is /\ call + was = back + deny + no + is
      BY <1>5, <2>1, <2>4, <3>1, <3>2
    <3>5. PICK c \in Nat, e \in Nat, d \in Nat, f \in Nat, p \in Nat :
             /\ c = events[a]["tool_call"] /\ e = events[a]["tool_result"] /\ d = events[a]["deny"]
             /\ f = refusals[a] /\ p = Cardinality(OpenCalls(a))
      BY <1>1
    <3>6. events[a]["tool_call"] + call = (events[a]["tool_result"] + back) + (events[a]["deny"] + deny) + (refusals[a] + no) + q
      <4>1. c = e + d + f + p /\ q + was = p + is /\ call + was = back + deny + no + is
        BY <3>3, <3>4, <3>5
      <4>2. c + call = (e + back) + (d + deny) + (f + no) + q
        <5> HIDE Types
        <5> QED
          BY <4>1
      <4> QED
        BY <3>5, <4>2
    <3> QED
      BY <1>5, <3>2, <3>6 DEF Balanced
  <2> QED
    BY <1>2, <2>3, <2>4 DEF AccountInv
\* A step that records nothing.
<1>6. ASSUME UNCHANGED events, NEW r \in Stands, Set(a, i, r), NEW no \in {0, 1},
             refusals'[a] = refusals[a] + no, \A b \in Agent : b # a => refusals'[b] = refusals[b],
             a \notin cut => W(result[a][i]) = no + W(r)
      PROVE  AccountInv'
  <2>1. /\ events'[a]["tool_call"] = events[a]["tool_call"] + 0
        /\ events'[a]["tool_result"] = events[a]["tool_result"] + 0
        /\ events'[a]["deny"] = events[a]["deny"] + 0
    BY <1>1, <1>6
  <2>2. a \notin cut => 0 + W(result[a][i]) = 0 + 0 + no + W(r)
    BY <1>6
  <2> QED
    BY <1>5, <1>6, <2>1, <2>2
<1>7. ASSUME refusals' = refusals
      PROVE  refusals'[a] = refusals[a] + 0 /\ \A b \in Agent : b # a => refusals'[b] = refusals[b]
  BY <1>1, <1>7
<1>8. ASSUME NEW yes, Refuses(a, yes)
      PROVE  /\ yes => refusals'[a] = refusals[a] + 1
             /\ ~yes => refusals'[a] = refusals[a] + 0
             /\ \A b \in Agent : b # a => refusals'[b] = refusals[b]
  <2>1. CASE yes
    BY <1>1, <1>8, <2>1 DEF Refuses
  <2>2. CASE ~yes
    BY <1>1, <1>7, <1>8, <2>2 DEF Refuses
  <2> QED
    BY <2>1, <2>2
<1> USE DEF Stands, Settled, Waiting
<1>9. CASE NoExecutor(a, i)
  <2>1. UNCHANGED events /\ Set(a, i, "error") /\ refusals' = refusals /\ result[a][i] = "none"
    BY <1>9 DEF NoExecutor, AtGate
  <2> QED
    BY <1>6, <1>7, <2>1
<1>10. CASE Gate(a, i)
  <2>1. PICK c : c = reply[a][i]
    OBVIOUS
  <2>2. result[a][i] = "none"
    BY <1>10 DEF Gate, AtGate
  <2>3. PICK ks : ks = {"tool_call"} \cup Verdict(a, c)
    OBVIOUS
  <2>4. /\ Rec(a, ks) /\ "tool_call" \in ks /\ "tool_result" \notin ks
        /\ "deny" \in ks <=> DeniedBy(a, c)
    BY <1>10, <2>1, <2>3 DEF Gate, Verdict
  <2>5. /\ events'[a]["tool_call"] = events[a]["tool_call"] + 1
        /\ events'[a]["tool_result"] = events[a]["tool_result"] + 0
        /\ events'[a]["deny"] = events[a]["deny"] + IF DeniedBy(a, c) THEN 1 ELSE 0
        /\ \A b \in Agent : b # a => events'[b] = events[b]
    BY <2>4, AgentRecords
  <2>6. PICK r \in {"blocked", "asking", "passed"} : Set(a, i, r) /\ (DeniedBy(a, c) => r = "blocked")
    BY <1>10, <2>1 DEF Gate
  <2>7. /\ r = "blocked" /\ ~DeniedBy(a, c) => refusals'[a] = refusals[a] + 1
        /\ r # "blocked" \/ DeniedBy(a, c) => refusals'[a] = refusals[a] + 0
        /\ \A b \in Agent : b # a => refusals'[b] = refusals[b]
    <3>1. result'[a][i] = r
      BY <2>6, Stood
    <3>2. Refuses(a, result'[a][i] = "blocked" /\ ~DeniedBy(a, c))
      BY <1>10, <2>1 DEF Gate
    <3> HIDE DEF W, Stands, Settled, Waiting
    <3> QED
      BY <1>8, <3>1, <3>2
  <2>8. CASE DeniedBy(a, c)
    BY <1>5, <2>2, <2>5, <2>6, <2>7, <2>8
  <2>9. CASE ~DeniedBy(a, c) /\ r = "blocked"
    BY <1>5, <2>2, <2>5, <2>6, <2>7, <2>9
  <2>10. CASE ~DeniedBy(a, c) /\ r # "blocked"
    BY <1>5, <2>2, <2>5, <2>6, <2>7, <2>10
  <2> QED
    BY <2>8, <2>9, <2>10
<1>11. CASE Answer(a, i)
  <2>1. PICK r \in {"blocked", "passed"} : Set(a, i, r)
    BY <1>11 DEF Answer, Granted
  <2>2. /\ r = "blocked" => refusals'[a] = refusals[a] + 1
        /\ r # "blocked" => refusals'[a] = refusals[a] + 0
        /\ \A b \in Agent : b # a => refusals'[b] = refusals[b]
    <3>1. result'[a][i] = r
      BY <2>1, Stood
    <3>2. Refuses(a, result'[a][i] = "blocked")
      BY <1>11 DEF Answer
    <3> QED
      BY <1>8, <3>1, <3>2
  <2>3. UNCHANGED events /\ result[a][i] = "asking"
    BY <1>11 DEF Answer
  <2>4. CASE r = "blocked"
    BY <1>6, <2>1, <2>2, <2>3, <2>4
  <2>5. CASE r # "blocked"
    BY <1>6, <2>1, <2>2, <2>3, <2>5
  <2> QED
    BY <2>4, <2>5
<1>12. CASE AskCancelled(a, i)
  <2>1. UNCHANGED events /\ Set(a, i, "blocked") /\ refusals' = refusals /\ a \in cut
    BY <1>3, <1>12 DEF AskCancelled
  <2> QED
    BY <1>6, <1>7, <2>1
<1>13. CASE Start(a, i)
  <2>1. UNCHANGED events /\ Set(a, i, "running") /\ refusals' = refusals /\ result[a][i] = "passed"
    BY <1>13 DEF Start, MayStart
  <2> QED
    BY <1>6, <1>7, <2>1
<1>14. CASE ToolReturns(a, i) \/ ToolCancelled(a, i) \/ (Depth(a) <= MaxDepth /\ ChildReturns(a, i))
  <2>1. result[a][i] = "running" /\ refusals' = refusals
    BY <1>14 DEF ToolReturns, ToolCancelled, ChildReturns
  <2>2. ASSUME NEW r \in {"ok", "error"}, NEW secret, Back(a, i, r, secret) PROVE AccountInv'
    <3>1. PICK ks : "tool_result" \in ks /\ "tool_call" \notin ks /\ "deny" \notin ks /\ Rec(a, ks)
      BY <2>2 DEF Back
    <3>2. /\ events'[a]["tool_call"] = events[a]["tool_call"] + 0
          /\ events'[a]["tool_result"] = events[a]["tool_result"] + 1
          /\ events'[a]["deny"] = events[a]["deny"] + 0
          /\ \A b \in Agent : b # a => events'[b] = events[b]
      BY <3>1, AgentRecords
    <3>3. Set(a, i, r)
      BY <2>2 DEF Back
    <3> QED
      BY <1>5, <1>7, <2>1, <2>2, <3>2, <3>3
  <2>3. ASSUME a \in cut, UNCHANGED events, Set(a, i, "cancelled") PROVE AccountInv'
    BY <1>6, <1>7, <2>1, <2>3
  <2>4. CASE ToolReturns(a, i)
    BY <2>2, <2>4 DEF ToolReturns
  <2>5. CASE ToolCancelled(a, i)
    BY <1>3, <2>3, <2>5 DEF ToolCancelled, Live
  <2>6. CASE Depth(a) <= MaxDepth /\ ChildReturns(a, i)
    <3>1. CASE pc[Append(a, i)] = "cancelled"
      <4>1. ~Live(a)
        <5>1. Append(a, i) \in Agent
          BY <2>6, Children
        <5> QED
          BY <3>1, <5>1 DEF AccountInv, CancelledAll
      <4>2. UNCHANGED events /\ Set(a, i, "cancelled")
        BY <2>6, <3>1 DEF ChildReturns
      <4> QED
        BY <1>3, <2>3, <4>1, <4>2
    <3>2. CASE pc[Append(a, i)] # "cancelled"
      BY <2>2, <2>6, <3>2 DEF ChildReturns
    <3> QED
      BY <3>1, <3>2
  <2> QED
    BY <1>14, <2>4, <2>5, <2>6
<1> QED
  BY <1>9, <1>10, <1>11, <1>12, <1>13, <1>14 DEF CallStep

\* A step before or after the calls of an agent leaves the balance as it is.
LEMMA ModelAccount ==
    ASSUME TreeInv, AccountInv, [Next]_vars, NEW a \in Agent,
           PreCall(a) \/ ModelFails(a) \/ (\E r \in Replies[Depth(a)] : Reply(a, r)) \/ GateDone(a) \/ WriteResults(a)
    PROVE  AccountInv'
<1> USE Types DEF TreeInv
<1>1. ctx' = ctx /\ cut' = cut /\ refusals' = refusals
  BY DEF PreCall, ModelFails, Reply, GateDone, WriteResults, ends
<1>2. \A b \in Agent : /\ events'[b]["tool_call"] = events[b]["tool_call"]
                       /\ events'[b]["tool_result"] = events[b]["tool_result"]
                       /\ events'[b]["deny"] = events[b]["deny"]
  <2>1. UNCHANGED events \/ \E ks : Rec(a, ks) /\ "tool_call" \notin ks /\ "tool_result" \notin ks /\ "deny" \notin ks
    BY DEF PreCall, ModelFails, Reply, GateDone, WriteResults, End
  <2>2. ASSUME NEW ks, Rec(a, ks), "tool_call" \notin ks, "tool_result" \notin ks, "deny" \notin ks
        PROVE  /\ \A b \in Agent : b # a => events'[b] = events[b]
               /\ events'[a]["tool_call"] = events[a]["tool_call"]
               /\ events'[a]["tool_result"] = events[a]["tool_result"]
               /\ events'[a]["deny"] = events[a]["deny"]
    BY <2>2, Recorded DEF Kind
  <2> QED
    BY <2>1, <2>2
\* What becomes of the calls.
<1>3. result' = result \/ result' = [result EXCEPT ![a] = NoCalls]
  BY DEF PreCall, ModelFails, Reply, GateDone, WriteResults
<1>4. \A b \in Agent : result'[b] = result[b] \/ (b = a /\ result'[b] = NoCalls)
  BY <1>3
<1>5. ASSUME a \notin cut PROVE (Cardinality(OpenCalls(a)))' = Cardinality(OpenCalls(a))
  <2>1. CASE result'[a] = result[a]
    BY <2>1, Cards
  <2>2. CASE result[a] = NoCalls
    BY <1>4, <2>2, Cards
  <2>3. CASE result'[a] # result[a] /\ result[a] # NoCalls
    <3>1. WriteResults(a) /\ Live(a)
      <4>1. pc[a] \in {"gate", "run"} /\ Live(a)
        BY <1>5, <2>3 DEF Shape, ShapeOf, AccountInv, CutInv
      <4> QED
        BY <2>3, <4>1 DEF PreCall, ModelFails, Reply, GateDone
    <3>2. \A i \in Index : result[a][i] \notin Waiting
      <4>1. \A i \in Index : result[a][i] # "none" => i \in DOMAIN reply[a]
        BY DEF Shape, ShapeOf
      <4> QED
        BY <3>1, <4>1 DEF WriteResults, Settled, Waiting
    <3>3. OpenCalls(a) = {}
      BY <3>2 DEF OpenCalls
    <3>4. Cardinality(OpenCalls(a)) = 0
      BY <3>3, FS_EmptySet
    <3> QED
      BY <1>4, <2>3, <3>4, Cards
  <2> QED
    BY <2>1, <2>2, <2>3
<1>6. \A b \in Agent \ cut : Balanced(b)'
  <2> SUFFICES ASSUME NEW b \in Agent \ cut PROVE Balanced(b)'
    OBVIOUS
  <2>1. (Cardinality(OpenCalls(b)))' = Cardinality(OpenCalls(b))
    BY <1>4, <1>5, Cards
  <2>2. Balanced(b)
    BY DEF AccountInv
  <2> QED
    BY <1>1, <1>2, <2>1, <2>2 DEF Balanced
\* What becomes of the agent.
<1>7. PICK s \in PCs : /\ pc' = [pc EXCEPT ![a] = s]
                       /\ s = "cancelled" => ctx[a] = "cancelled"
                       /\ pc[a] = "gate" => s = "run"
                       /\ pc[a] = "run" /\ ~Live(a) => s \in {"error", "cancelled"}
                       /\ pc[a] \notin Outcome
  <2>1. CASE PreCall(a)
    BY <2>1 DEF PreCall, End, PCs, Outcome
  <2>2. CASE ModelFails(a)
    BY <2>2 DEF ModelFails, End, Ended, PCs, Outcome
  <2>3. CASE \E r \in Replies[Depth(a)] : Reply(a, r)
    BY <2>3 DEF Reply, End, PCs, Outcome
  <2>4. CASE GateDone(a)
    BY <2>4 DEF GateDone, PCs, Outcome
  <2>5. CASE WriteResults(a)
    BY <2>5 DEF WriteResults, End, Ended, PCs, Outcome
  <2> QED
    BY <2>1, <2>2, <2>3, <2>4, <2>5
<1>8. CancelledAll'
  <2>1. \A b \in Agent : pc'[b] = "cancelled" => ctx[b] = "cancelled"
    BY <1>7 DEF AccountInv, CancelledAll
  <2> QED
    BY <1>1, <2>1 DEF AccountInv, CancelledAll, Live
<1>9. CutInv'
  <2>1. \A b \in Agent \ cut : ~Live(b) => result'[b] = NoCalls
    BY <1>4 DEF AccountInv, CutInv
  <2>2. Root \in cut => ~Live(Root) /\ pc'[Root] \in {"gate", "run", "error", "cancelled"}
    <3>1. CASE a = Root
      BY <1>7, <3>1 DEF AccountInv, CutInv, Outcome
    <3>2. CASE a # Root
      BY <1>7, <3>2, Places DEF AccountInv, CutInv
    <3> QED
      BY <3>1, <3>2
  <2> QED
    BY <1>1, <2>1, <2>2 DEF CutInv, Live
<1> QED
  BY <1>1, <1>6, <1>8, <1>9 DEF AccountInv

\* The end of a context cuts those who have calls then, and spares who has none.
LEMMA StopAccount ==
    ASSUME TreeInv, AccountInv, Quiet
    PROVE  AccountInv'
<1> USE Types DEF TreeInv
<1>1. UNCHANGED <<pc, result, events, refusals>>
  BY QuietStep
<1>2. \A b \in Agent : Balanced(b) => Balanced(b)'
  BY <1>1, Cards DEF Balanced
<1>3. CASE UNCHANGED <<ctx, cut>>
  BY <1>1, <1>2, <1>3 DEF AccountInv, CancelledAll, CutInv, Live
<1>4. ASSUME NEW a \in Agent, NEW why \in {"cancelled", "expired"}, Stop(a, why), why = "cancelled" => a = Root
      PROVE  AccountInv'
  <2>1. /\ cut \subseteq cut' /\ cut' \subseteq Agent
        /\ \A b \in Agent : ctx'[b] = ctx[b] \/ (Live(b) /\ ctx'[b] = why)
        /\ \A b \in Agent : Live(b) /\ ctx'[b] # ctx[b] => (b \in cut' <=> b \in cut \/ pc[b] \in {"gate", "run"})
        /\ \A b \in Agent : b \in cut' => b \in cut \/ (ctx'[b] = why /\ pc[b] \in {"gate", "run"})
    BY <1>4, Stopped
  <2>2. \A b \in Agent \ cut' : Balanced(b)'
    BY <1>2, <2>1 DEF AccountInv
  <2>3. CancelledAll'
    <3>1. \A b \in Agent : pc'[b] = "cancelled" => ctx'[b] = "cancelled"
      BY <1>1, <2>1 DEF AccountInv, CancelledAll, Live
    <3>2. ASSUME NEW b \in Agent, NEW d \in Agent, ctx'[b] = "cancelled" PROVE ctx'[d] # "live"
      <4>1. CASE ctx[b] = "cancelled"
        BY <2>1, <4>1 DEF AccountInv, CancelledAll, Live
      <4>2. CASE ctx[b] # "cancelled"
        <5>1. a = Root /\ why = "cancelled"
          BY <1>4, <2>1, <3>2, <4>2
        <5>2. Below(Root, d)
          <6>1. Up(d, 0) = Root /\ Depth(Root) = 0 /\ Depth(d) \in Nat
            BY Ancestors, Places
          <6> QED
            BY <6>1 DEF Below, Up
        <5> QED
          BY <1>4, <5>1, <5>2 DEF Stop, Live
      <4> QED
        BY <4>1, <4>2
    <3> QED
      BY <3>1, <3>2 DEF CancelledAll, Live
  <2>4. CutInv'
    <3>1. ASSUME NEW b \in Agent \ cut', ctx'[b] # "live" PROVE result[b] = NoCalls
      <4>1. CASE ctx[b] # "live"
        BY <2>1, <3>1, <4>1 DEF AccountInv, CutInv, Live
      <4>2. CASE ctx[b] = "live"
        BY <2>1, <3>1, <4>2 DEF Live, Shape, ShapeOf
      <4> QED
        BY <4>1, <4>2
    <3>2. Root \in cut' => ctx'[Root] # "live" /\ pc[Root] \in {"gate", "run", "error", "cancelled"}
      BY <2>1, Places DEF AccountInv, CutInv, Live
    <3> QED
      BY <1>1, <3>1, <3>2 DEF CutInv, Live
  <2> QED
    BY <2>2, <2>3, <2>4 DEF AccountInv
<1> QED
  BY <1>3, <1>4, QuietStep

LEMMA AccountStep == TreeInv /\ AccountInv /\ [Next]_vars => AccountInv'
  BY StopAccount, ModelAccount, CallsAccount, Steps DEF AgentStep

\* An agent that is not among its calls has accounted for every one it made, however the
\* calls of its replies, its sub-agents, timeouts and a cancellation interleave: what has a
\* tool_call has a tool_result, the manifest's verdict, or was refused by the user or
\* policy.network.  The exception are agents whose own context ended among their calls, and
\* the root of a run that ends well is not one of them (journal.go, policy_rules.go,
\* permission.go, budget.go).
THEOREM EveryCallIsAccounted == Spec => []CallsAccounted
<1>1. Init => TreeInv /\ AccountInv
  <2> SUFFICES ASSUME Init PROVE TreeInv /\ AccountInv
    OBVIOUS
  <2>1. /\ TreeInv /\ cut = {} /\ \A b \in Agent : pc[b] # "cancelled" /\ ctx[b] = "live" /\ result[b] = NoCalls
    BY InitTree DEF Init
  <2>2. \A b \in Agent : Cardinality(OpenCalls(b)) = 0
    BY <2>1, Cards
  <2>3. \A b \in Agent : events[b]["tool_call"] = 0 /\ events[b]["tool_result"] = 0 /\ events[b]["deny"] = 0 /\ refusals[b] = 0
    BY DEF Init, Kind
  <2> QED
    BY <2>1, <2>2, <2>3 DEF AccountInv, CancelledAll, CutInv, Balanced
<1>2. TreeInv /\ AccountInv => CallsAccounted
  <2> SUFFICES ASSUME TreeInv, AccountInv PROVE CallsAccounted
    OBVIOUS
  <2>1. ASSUME NEW a \in Agent \ cut, pc[a] \notin {"gate", "run"}
        PROVE  events[a]["tool_call"] = events[a]["tool_result"] + events[a]["deny"] + refusals[a]
    <3>1. Cardinality(OpenCalls(a)) = 0
      BY <2>1, Cards DEF TreeInv, Shape, ShapeOf
    <3>2. events[a]["tool_result"] \in Nat /\ events[a]["deny"] \in Nat /\ refusals[a] \in Nat
      BY Types DEF TreeInv, Kind
    <3>3. Balanced(a)
      BY DEF AccountInv
    <3> QED
      BY <3>1, <3>2, <3>3 DEF Balanced
  <2>2. pc[Root] = "ok" => Root \notin cut
    BY DEF AccountInv, CutInv
  <2> QED
    BY <2>1, <2>2 DEF CallsAccounted
<1>3. TreeInv /\ AccountInv /\ [Next]_vars => TreeInv' /\ AccountInv'
  BY NextTree, AccountStep
<1> QED
  BY <1>1, <1>2, <1>3, PTL DEF Spec
=============================================================================
