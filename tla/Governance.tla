------------------------------ MODULE Governance ------------------------------
(***************************************************************************)
(* What a manifest imposes on a run, and what the run's record says of it: *)
(* the hooks of src/app/builder.go, budget.go, policy_rules.go, journal.go *)
(* and permission.go around the agents of a run, src/app/subagent.go.      *)
(*                                                                         *)
(* A run is a tree of agents.  `delegate` is a safe tool, so the calls of  *)
(* one reply may run several sub-agents at once.  The root agent has all   *)
(* hooks; a sub-agent has the permission manager and the journal only, and *)
(* a context of its own, which ends with those above it or when its time,  *)
(* that of a call of a tool (limits.tool_timeout), is over.  The loop of   *)
(* one agent is that of AgentLoop, with less detail; a reply costs one     *)
(* token.                                                                  *)
(***************************************************************************)
EXTENDS Naturals, Sequences, FiniteSets

CONSTANTS
    Call,           \* [tool, agent, risky, rule, host, secret]: see Calls
    Replies,        \* per depth, the calls a reply may make, <<>> for the last one
    Policy,         \* tool -> "allow", "ask" or "deny"
    Width,          \* calls of the longest of them
    Manifests,      \* [tokens, calls, iterations, team]: two limits, 0 for none, the loop's
                    \* limit, which sub-agents have as well, and the named sub-agents
    MaxDepth

Delegate == "delegate"

\* A call: whether its tool is risky, its arguments match a deny rule, its host is
\* refused by policy.network, its result matches a redact pattern; a `delegate` names a
\* sub-agent.
Calls == [tool : DOMAIN Policy, agent : STRING, risky : BOOLEAN, rule : BOOLEAN, host : BOOLEAN, secret : BOOLEAN]

ASSUME GovernanceAssumption ==
    /\ \A c \in Call : c \in Calls
    /\ Replies \in [0..(MaxDepth + 1) -> SUBSET UNION {[1..n -> Call] : n \in 0..Width}]
    /\ Delegate \in DOMAIN Policy /\ \A t \in DOMAIN Policy : Policy[t] \in {"allow", "ask", "deny"}
    /\ \A c \in Call : c.tool = Delegate => ~c.risky
    /\ \A m \in Manifests : /\ m.tokens \in Nat /\ m.calls \in Nat /\ m.iterations \in Nat
                           /\ \A n \in DOMAIN m.team : IsFiniteSet(m.team[n])

ASSUME BoundsAssumption == Width \in Nat /\ MaxDepth \in Nat

Index == 1..Width

\* An agent is the way to it: the places, in their replies, of the calls that delegated.
Agent == UNION {[1..d -> Index] : d \in 0..(MaxDepth + 1)}
Root  == <<>>
Depth(a) == Len(a)

VARIABLES
    manifest,   \* the run's, the same all along
    pc,         \* per agent
    left,       \* iterations it has left
    reply,      \* the calls of its last reply
    result,     \* per call of that reply, how it stands
    dirty,      \* its memory holds a text that redact would have masked
    tokens,     \* budgetState, shared through the context
    toolCalls,
    always,     \* tools with "always allow"
    ctx,        \* per agent, its context: "live", or why it ended
    events,     \* the run's record: per agent, how many events of each kind
    open,       \* calls with a tool_call in the record and no tool_result or deny yet
    refusals,   \* history: per agent, calls refused by the user or by policy.network
    cut         \* history: agents whose context ended while they had calls

agents == <<pc, left, reply, result, dirty>>
ends   == <<ctx, cut>>
vars   == <<manifest, agents, tokens, toolCalls, always, ends, events, open, refusals>>

NoCalls == [i \in Index |-> "none"]

Kind == {"llm_call", "llm_response", "tool_call", "tool_result", "deny", "mask", "run_end"}
Outcome == {"ok", "error", "cancelled"}
Settled == {"ok", "error", "blocked", "cancelled"}

TypeOK ==
    /\ pc \in [Agent -> {"off", "pre", "send", "gate", "run"} \cup Outcome]
    /\ left \in [Agent -> Nat]
    /\ reply \in [Agent -> Seq(Call)]
    /\ \A a \in Agent : reply[a] \in Replies[Depth(a)] \cup {<<>>}
    /\ result \in [Agent -> [Index -> {"none", "asking", "passed", "running"} \cup Settled]]
    /\ dirty \in [Agent -> BOOLEAN]
    /\ manifest \in Manifests /\ tokens \in Nat /\ toolCalls \in Nat
    /\ always \subseteq DOMAIN Policy
    /\ ctx \in [Agent -> {"live", "cancelled", "expired"}] /\ cut \subseteq Agent
    /\ events \in [Agent -> [Kind -> Nat]]
    /\ open \subseteq Agent \X Index
    /\ refusals \in [Agent -> Nat]

Init ==
    /\ pc = [a \in Agent |-> IF a = Root THEN "pre" ELSE "off"]
    /\ reply = [a \in Agent |-> <<>>]
    /\ result = [a \in Agent |-> NoCalls]
    /\ dirty = [a \in Agent |-> FALSE]
    /\ manifest \in Manifests /\ left = [a \in Agent |-> manifest.iterations]
    /\ tokens = 0 /\ toolCalls = 0 /\ always = {}
    /\ ctx = [a \in Agent |-> "live"] /\ cut = {}
    /\ events = [a \in Agent |-> [k \in Kind |-> 0]] /\ open = {} /\ refusals = [a \in Agent |-> 0]

\* Events of agent a are appended to the record.
Rec(a, kinds) == events' = [events EXCEPT ![a] = [k \in Kind |-> IF k \in kinds THEN @[k] + 1 ELSE @[k]]]
Set(a, i, r) == result' = [result EXCEPT ![a][i] = r]
Refuses(a, yes) == refusals' = IF yes THEN [refusals EXCEPT ![a] = @ + 1] ELSE refusals

\* An agent's Run returns: the root's ends the run, a sub-agent's is `delegate`'s to read.
End(a, kinds, s) ==
    /\ pc' = [pc EXCEPT ![a] = s]
    /\ Rec(a, IF a = Root THEN kinds \cup {"run_end"} ELSE kinds)

Over == pc[Root] \in Outcome

-----------------------------------------------------------------------------
(* Sub-agents.  Without capabilities.subagents, `delegate` starts an agent *)
(* with all the tools of the runtime, those the policy speaks of here.     *)

Tools     == DOMAIN Policy
Anonymous == DOMAIN manifest.team = {}

\* spawnNamed fails on a name nobody has, or a tool the runtime was not given.
Spawns(c) == Anonymous \/ (c.agent \in DOMAIN manifest.team /\ manifest.team[c.agent] \subseteq Tools)

\* Mutant: a sub-agent that lists no tools has all of them.
MutantGiven(name) == IF manifest.team[name] = {} THEN Tools ELSE manifest.team[name]

\* A sub-agent that lists no tools has all but `delegate`.
Given(name) == IF manifest.team[name] = {} THEN Tools \ {Delegate} ELSE manifest.team[name]

Parent(a)  == SubSeq(a, 1, Depth(a) - 1)
Order(a)   == reply[Parent(a)][a[Depth(a)]]
ToolsOf(a) == IF a = Root \/ Anonymous THEN Tools ELSE Given(Order(a).agent)

\* The context of agent a lives.
Live(a) == ctx[a] = "live"

\* How an agent ends when its context has.
Ended(a) == IF ctx[a] = "cancelled" THEN "cancelled" ELSE "error"

-----------------------------------------------------------------------------
(* One iteration of an agent.                                              *)

Exhausted(a) == left[a] = 0

OverCalls == manifest.calls > 0 /\ toolCalls > manifest.calls

\* Hooks before a model call: the journal's, and for the root the budget of calls.
PreCall(a) ==
    /\ pc[a] = "pre"
    /\ IF Exhausted(a)
         THEN End(a, {}, "error") /\ UNCHANGED left
         ELSE /\ left' = [left EXCEPT ![a] = @ - 1]
              /\ IF a = Root /\ OverCalls
                   THEN End(a, {"llm_call"}, "error")
                   ELSE pc' = [pc EXCEPT ![a] = "send"] /\ Rec(a, {"llm_call"})
    /\ UNCHANGED <<manifest, open, reply, result, dirty, tokens, toolCalls, always, ends, refusals>>

ModelFails(a) ==
    /\ pc[a] = "send"
    /\ \E s \in {"error", Ended(a)} : End(a, {}, s)
    /\ UNCHANGED <<manifest, open, left, reply, result, dirty, tokens, toolCalls, always, ends, refusals>>

\* The budget of tokens counts the replies of the root.
Spend(a)   == tokens' = IF a = Root /\ manifest.tokens > 0 THEN tokens + 1 ELSE tokens

\* Mutant: the limit is compared with what was spent before this reply.
MutantOverTokens == manifest.tokens > 0 /\ tokens > manifest.tokens

OverTokens == manifest.tokens > 0 /\ tokens' > manifest.tokens

Reply(a, r) ==
    /\ pc[a] = "send" /\ Spend(a)
    /\ \/ a = Root /\ OverTokens /\ End(a, {"llm_response"}, "error") /\ UNCHANGED <<reply, result>>
       \/ (a = Root => ~OverTokens) /\ r = <<>> /\ End(a, {"llm_response"}, "ok") /\ UNCHANGED <<reply, result>>
       \/ /\ (a = Root => ~OverTokens) /\ r # <<>>
          /\ pc' = [pc EXCEPT ![a] = "gate"] /\ Rec(a, {"llm_response"})
          /\ reply' = [reply EXCEPT ![a] = r] /\ result' = [result EXCEPT ![a] = NoCalls]
    /\ UNCHANGED <<manifest, open, left, dirty, toolCalls, always, ends, refusals>>

-----------------------------------------------------------------------------
(* The gate: the calls of the reply one after the other.                   *)

AtGate(a, i) ==
    /\ pc[a] = "gate" /\ Live(a) /\ i \in DOMAIN reply[a] /\ result[a][i] = "none"
    /\ \A j \in 1..(i - 1) : result[a][j] \notin {"none", "asking"}

\* Hooks of the root, in their order: journal, rules, budget; a call a rule stops is
\* not counted.
Counted(a, c) == a = Root /\ manifest.calls > 0 /\ ~c.rule

\* The manifest's verdict: deny is recorded.
DeniedBy(a, c) == a = Root /\ (c.rule \/ Policy[c.tool] = "deny")

\* The permission manager is asked for what is risky: by the root where the policy
\* says so, by a sub-agent always.
Asks(a, c) == c.risky /\ c.tool \notin always /\ (a = Root => Policy[c.tool] = "ask")

HostRefused(a, c) == a = Root /\ c.host

\* Mutant: the manifest's verdict on a tool is not recorded.
MutantVerdict(a, c) == IF a = Root /\ c.rule THEN {"deny"} ELSE {}

Verdict(a, c) == IF DeniedBy(a, c) THEN {"deny"} ELSE {}

\* No hook sees a call of a tool the agent has not got.
NoExecutor(a, i) ==
    /\ AtGate(a, i) /\ reply[a][i].tool \notin ToolsOf(a)
    /\ Set(a, i, "error")
    /\ UNCHANGED <<manifest, pc, left, reply, dirty, tokens, toolCalls, always, ends, events, open, refusals>>

Gate(a, i) ==
    /\ AtGate(a, i) /\ reply[a][i].tool \in ToolsOf(a)
    /\ LET c == reply[a][i]
       IN  /\ Rec(a, {"tool_call"} \cup Verdict(a, c))
           /\ open' = IF DeniedBy(a, c) THEN open ELSE open \cup {<<a, i>>}
           /\ toolCalls' = IF Counted(a, c) THEN toolCalls + 1 ELSE toolCalls
           /\ Set(a, i, IF DeniedBy(a, c) \/ (~Asks(a, c) /\ HostRefused(a, c)) THEN "blocked"
                        ELSE IF Asks(a, c) THEN "asking" ELSE "passed")
           /\ Refuses(a, result'[a][i] = "blocked" /\ ~DeniedBy(a, c))
    /\ UNCHANGED <<manifest, pc, left, reply, dirty, tokens, always, ends>>

Granted(a, i) == Set(a, i, IF HostRefused(a, reply[a][i]) THEN "blocked" ELSE "passed")

\* The user's answer; "always" reaches the requests to come, not those that wait.
Answer(a, i) ==
    /\ result[a][i] = "asking"
    /\ \/ Granted(a, i) /\ always' \in {always, always \cup {reply[a][i].tool}}
       \/ Set(a, i, "blocked") /\ UNCHANGED always
    /\ Refuses(a, result'[a][i] = "blocked")
    /\ UNCHANGED <<manifest, pc, left, reply, dirty, tokens, toolCalls, ends, events, open>>

\* Mutant: a request looks at the context of the run, not at that of the agent that asks.
MutantAskCancelled(a, i) ==
    /\ result[a][i] = "asking" /\ ~Live(Root)
    /\ Set(a, i, "blocked")
    /\ UNCHANGED <<manifest, pc, left, reply, dirty, tokens, toolCalls, always, ends, events, open, refusals>>

\* The end of the agent's context frees a request nobody answers; nothing is recorded.
AskCancelled(a, i) ==
    /\ result[a][i] = "asking" /\ ~Live(a)
    /\ Set(a, i, "blocked")
    /\ UNCHANGED <<manifest, pc, left, reply, dirty, tokens, toolCalls, always, ends, events, open, refusals>>

GateDone(a) ==
    /\ pc[a] = "gate"
    /\ \A i \in DOMAIN reply[a] : result[a][i] # "asking" /\ (Live(a) => result[a][i] # "none")
    /\ pc' = [pc EXCEPT ![a] = "run"]
    /\ UNCHANGED <<manifest, left, reply, result, dirty, tokens, toolCalls, always, ends, events, open, refusals>>

-----------------------------------------------------------------------------
(* The tools.                                                              *)

Busy(a, S) == \E j \in S \cap DOMAIN reply[a] : result[a][j] \in {"passed", "running"}
Safe(a)    == {j \in DOMAIN reply[a] : ~reply[a][j].risky}

\* Safe calls together, then the risky ones in order.
MayStart(a, i) ==
    /\ pc[a] = "run" /\ Live(a) /\ i \in DOMAIN reply[a] /\ result[a][i] = "passed"
    /\ reply[a][i].risky => ~Busy(a, Safe(a) \cup 1..(i - 1))

TooDeep(a) == Depth(a) >= MaxDepth

Starts(a, c) == c.tool = Delegate /\ ~TooDeep(a) /\ Spawns(c)

\* A sub-agent starts with a memory of its own, and the time of a call of a tool.
Start(a, i) ==
    /\ MayStart(a, i) /\ Set(a, i, "running")
    /\ LET child == Append(a, i)
       IN  IF Starts(a, reply[a][i])
             THEN /\ pc' = [pc EXCEPT ![child] = "pre"] /\ left' = [left EXCEPT ![child] = manifest.iterations]
                  /\ dirty' = [dirty EXCEPT ![child] = FALSE]
                  /\ reply' = [reply EXCEPT ![child] = <<>>]
                  /\ ctx' = [ctx EXCEPT ![child] = ctx[a]]
             ELSE UNCHANGED <<pc, left, dirty, reply, ctx>>
    /\ UNCHANGED <<manifest, tokens, toolCalls, always, cut, events, open, refusals>>

\* Mutant: only the texts of tools of its own are masked, not what a sub-agent says.
MutantMasks(a, i, secret) == a = Root /\ secret /\ reply[a][i].tool # Delegate

\* Hooks after a tool: the journal's, and the root's redact.
Masks(a, i, secret) == a = Root /\ secret

Back(a, i, r, secret) ==
    /\ Set(a, i, r)
    /\ Rec(a, {"tool_result"} \cup IF Masks(a, i, secret) THEN {"mask"} ELSE {})
    /\ open' = open \ {<<a, i>>}
    /\ dirty' = [dirty EXCEPT ![a] = @ \/ (secret /\ ~Masks(a, i, secret))]

\* Mutant: a tool whose own time is over is taken for a cancelled one.
MutantToolReturns(a, i) ==
    /\ result[a][i] = "running"
    /\ LET c == reply[a][i]
       IN  \/ c.tool # Delegate /\ \E r \in {"ok", "error"} : Back(a, i, r, c.secret)
           \/ c.tool # Delegate /\ Set(a, i, "cancelled") /\ UNCHANGED <<dirty, events, open>>
           \/ c.tool = Delegate /\ ~Starts(a, c) /\ Back(a, i, "error", FALSE)
    /\ UNCHANGED <<manifest, pc, left, reply, tokens, toolCalls, always, ends, refusals>>

\* A tool returns, or fails, because its own time is over among others: a `delegate` that
\* starts nobody at once.
ToolReturns(a, i) ==
    /\ result[a][i] = "running"
    /\ LET c == reply[a][i]
       IN  \/ c.tool # Delegate /\ \E r \in {"ok", "error"} : Back(a, i, r, c.secret)
           \/ c.tool = Delegate /\ ~Starts(a, c) /\ Back(a, i, "error", FALSE)
    /\ UNCHANGED <<manifest, pc, left, reply, tokens, toolCalls, always, ends, refusals>>

\* What a cancellation ends has no hook after it, and no tool_result.
ToolCancelled(a, i) ==
    /\ result[a][i] = "running" /\ ctx[a] = "cancelled" /\ reply[a][i].tool # Delegate
    /\ Set(a, i, "cancelled")
    /\ UNCHANGED <<manifest, pc, left, reply, dirty, tokens, toolCalls, always, ends, events, open, refusals>>

\* Mutant: `delegate` does not wait for a sub-agent whose time is over.
MutantChildReturns(a, i) ==
    LET child == Append(a, i)
    IN  /\ result[a][i] = "running" /\ Starts(a, reply[a][i])
        /\ \/ pc[child] = "ok" /\ Back(a, i, "ok", dirty[child])
           \/ pc[child] = "error" /\ Back(a, i, "error", FALSE)
           \/ ~Live(child) /\ Back(a, i, "error", FALSE)
        /\ pc' = IF pc[child] \in Outcome THEN [pc EXCEPT ![child] = "off"] ELSE pc
        /\ UNCHANGED <<manifest, left, reply, tokens, toolCalls, always, ends, refusals>>

\* `delegate` hands on the sub-agent's last text, or its error; a cancelled one is a
\* cancelled tool.
ChildReturns(a, i) ==
    LET child == Append(a, i)
    IN  /\ result[a][i] = "running" /\ Starts(a, reply[a][i])
        /\ \/ pc[child] = "ok" /\ Back(a, i, "ok", dirty[child])
           \/ pc[child] = "error" /\ Back(a, i, "error", FALSE)
           \/ pc[child] = "cancelled" /\ Set(a, i, "cancelled") /\ UNCHANGED <<dirty, events, open>>
        /\ pc' = [pc EXCEPT ![child] = "off"]
        /\ UNCHANGED <<manifest, left, reply, tokens, toolCalls, always, ends, refusals>>

\* Results are written; the end of its context ends the agent, and calls that did not run
\* are answered as cancelled, without a word in the record.
WriteResults(a) ==
    /\ pc[a] = "run"
    /\ \A i \in DOMAIN reply[a] : result[a][i] \in Settled \/ (~Live(a) /\ result[a][i] \in {"none", "passed"})
    /\ IF Live(a) THEN pc' = [pc EXCEPT ![a] = "pre"] /\ UNCHANGED events ELSE End(a, {}, Ended(a))
    /\ open' = {o \in open : o[1] # a}
    /\ reply' = [reply EXCEPT ![a] = <<>>] /\ result' = [result EXCEPT ![a] = NoCalls]
    /\ UNCHANGED <<manifest, left, dirty, tokens, toolCalls, always, ends, refusals>>

-----------------------------------------------------------------------------
(* The contexts.  The end of one ends those below it that still live.      *)

\* Mutant: a sub-agent's context is not derived from that of its parent.
MutantBelow(a, b) == b = a

Below(a, b) == Depth(b) >= Depth(a) /\ SubSeq(b, 1, Depth(a)) = a

Stop(a, why) ==
    /\ Live(a)
    /\ ctx' = [b \in Agent |-> IF Below(a, b) /\ Live(b) THEN why ELSE ctx[b]]
    /\ cut' = cut \cup {b \in Agent : Below(a, b) /\ Live(b) /\ pc[b] \in {"gate", "run"}}
    /\ UNCHANGED <<manifest, agents, tokens, toolCalls, always, events, open, refusals>>

\* The user, or the server that shuts down, cancels the run.
Cancel == ~Over /\ Stop(Root, "cancelled")

\* The time of an agent is over: limits.max_duration for the root, for a sub-agent
\* limits.tool_timeout of the call that delegated to it; its parent goes on.
Expire(a) == pc[a] \notin {"off"} \cup Outcome /\ Stop(a, "expired")

CallStep(a, i) ==
    NoExecutor(a, i) \/ Gate(a, i) \/ AskCancelled(a, i) \/ Start(a, i) \/ ToolReturns(a, i)
    \/ ToolCancelled(a, i) \/ (Depth(a) <= MaxDepth /\ ChildReturns(a, i))

AgentStep(a) ==
    PreCall(a) \/ ModelFails(a) \/ (\E r \in Replies[Depth(a)] : Reply(a, r)) \/ GateDone(a) \/ WriteResults(a)
    \/ \E i \in Index : CallStep(a, i)

Next == Cancel \/ \E a \in Agent : Expire(a) \/ AgentStep(a) \/ \E i \in Index : Answer(a, i)

Spec == Init /\ [][Next]_vars

\* Goroutines run and tools return; the user may never answer.
FairSpec == Spec /\ \A a \in {b \in Agent : Depth(b) <= MaxDepth} : WF_vars(AgentStep(a))

-----------------------------------------------------------------------------
(* Properties.                                                             *)

\* The root answers no more than once over its tokens, and calls no more tools than one
\* reply, however long, over max_tool_calls, whatever its sub-agents do (budget.go).  A run
\* that ends well has kept to both limits.
BudgetHolds ==
    /\ manifest.tokens > 0 =>
        /\ events[Root]["llm_response"] <= manifest.tokens + 1
        /\ pc[Root] = "ok" => events[Root]["llm_response"] <= manifest.tokens
    /\ manifest.calls > 0 =>
        /\ events[Root]["tool_result"] <= manifest.calls + Width
        /\ pc[Root] \in {"gate", "run"} => events[Root]["tool_result"] <= manifest.calls + Len(reply[Root])
        /\ pc[Root] \in {"send", "ok"} => events[Root]["tool_result"] <= manifest.calls

\* An event of a sub-agent comes between the call that delegated to it and its result,
\* and nothing comes after the end of the run (journal.go, "a flat log read as a tree").
EventsNest ==
    [][/\ Over => UNCHANGED events
       /\ \A a \in Agent \ {Root} : events'[a] # events[a] => <<Parent(a), a[Depth(a)]>> \in open]_vars

\* An agent between two replies, or done, has accounted for every call it made: it has a
\* result, or its refusal is recorded, or the user or policy.network refused it (these leave
\* no event).  The one exception are agents whose own context ended among their calls, by a
\* cancellation or a timeout: never the root of a run that ends well.
CallsAccounted ==
    /\ \A a \in Agent \ cut : pc[a] \notin {"gate", "run"} =>
         events[a]["tool_call"] = events[a]["tool_result"] + events[a]["deny"] + refusals[a]
    /\ pc[Root] = "ok" => Root \notin cut

\* Sub-agents stop at limits.subagent_depth, and what they have read reaches the root's
\* conversation masked only (subagent.go, policy_rules.go).  A named sub-agent whose
\* manifest entry does not list `delegate` has no sub-agents (runtime.go, subagentsTools).
Confined ==
    /\ \A a \in Agent : pc[a] # "off" => Depth(a) <= MaxDepth
    /\ \A a \in Agent : pc[a] # "off" /\ Depth(a) > 1 /\ ~Anonymous =>
         Order(Parent(a)).agent \in DOMAIN manifest.team /\ Delegate \in manifest.team[Order(Parent(a)).agent]
    /\ ~dirty[Root]

\* An agent whose context has ended ends, though nobody answers what it asks (permission.go:
\* it waits on its own context): an interrupted run, and a sub-agent whose time is over.
InterruptedEnds == []<>(\A a \in Agent : Live(a) \/ pc[a] \in Outcome \cup {"off"})
=============================================================================
