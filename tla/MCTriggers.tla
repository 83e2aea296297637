----------------------------- MODULE MCTriggers -----------------------------
(* Small instances of Triggers for TLC: what runs, and what is read.        *)
EXTENDS Triggers

Blank == [type |-> "daily", name |-> "", every |-> "", at |-> 1, prompt |-> "p", memory |-> "",
          addr |-> "", path |-> "", token |-> "", catchUp |-> FALSE]

Daily(h)  == [Blank EXCEPT !.at = h]
Kept(h)   == [Blank EXCEPT !.at = h, !.catchUp = TRUE]
EveryT(d) == [Blank EXCEPT !.type = "every", !.at = -1, !.every = d]
Hook(a, p) == [Blank EXCEPT !.type = "webhook", !.at = -1, !.addr = a, !.path = p, !.token = "t"]

Base == [unknownKey |-> FALSE, values |-> {}, includes |-> {}, tools |-> <<>>, subagents |-> <<>>,
         policy |-> [tools |-> {}, rules |-> {}, redact |-> {}], output |-> "",
         maxDuration |-> "", toolTimeout |-> "", backoff |-> "", concurrency |-> 0,
         triggers |-> <<Daily(1)>>, journal |-> [enabled |-> FALSE, backend |-> "", path |-> FALSE],
         provider |-> "ollama", mcp |-> {}, insecure |-> FALSE, path |-> FALSE, maxPending |-> 0, maxAttempts |-> 0]

Short == <<0, 2>>
Long  == <<0, 1, 1, 2>>
OneDay == <<Plain>>

\* What runs: days of every length, with and without scheduler.path.
Here == [file |-> "ollama", urls |-> {}, env |-> "unset", unusable |-> {}]
Dated(ms, ds) == {[manifest |-> m, days |-> d, machine |-> Here] : m \in ms, d \in ds}
Runs ==
    Dated({[Base EXCEPT !.triggers = <<Kept(1), Daily(2)>>, !.path = p, !.maxAttempts = 1] : p \in BOOLEAN},
          {<<Plain, d, Plain>> : d \in {Plain, Short, Long}})
    \cup Dated({[Base EXCEPT !.triggers = <<EveryT("ok"), [Hook("a", "/x") EXCEPT !.prompt = "{{body}}"]>>, !.path = p, !.maxPending = 1, !.maxAttempts = 2]
                  : p \in BOOLEAN}, {<<Plain, Short>>})

\* What is read: each part of a manifest in many forms.
Names2(ts) == {<<>>} \cup {<<x>> : x \in ts} \cup {<<x, y>> : x, y \in ts}
Tools == Names2({[name |-> n, command |-> c, schema |-> s] : n \in {"", "bash", "delegate", "mine"},
                  c \in BOOLEAN, s \in {TRUE}} \cup {[name |-> "mine", command |-> TRUE, schema |-> FALSE]})
Subs  == Names2({[name |-> n, described |-> d, tools |-> t] : n \in {"", "sub"}, d \in {TRUE}, t \in {{}, {"mine"}, {"read"}}})
Triggers2 == Names2({Daily(1), [Daily(1) EXCEPT !.at = -1], [Kept(2) EXCEPT !.name = "n"], EveryT("ok"), EveryT("zero"), EveryT("bad"),
                     [EveryT("ok") EXCEPT !.name = "n"], [Daily(1) EXCEPT !.memory = "long"],
                     Hook("", ""), Hook("a", "/hook"), Hook("b", "/x"), Hook("", "relative"), [Hook("a", "/y") EXCEPT !.token = ""],
                     Hook("a", "malformed"), Hook("a", "/{a}"), Hook("", "/{b}")})
Policies == [tools : SUBSET {"ask", "never"}, rules : {{}} \cup {{[pattern |-> p, action |-> a]} : p \in {"", "ok", "bad"}, a \in {"", "mask"}},
             redact : SUBSET {"ok", "bad"}]
Journals == [enabled : BOOLEAN, backend : {"", "sqlite", "csv"}, path : BOOLEAN]
Read ==
    {[Base EXCEPT !.tools = t, !.subagents = s] : t \in Tools, s \in Subs}
    \cup {[Base EXCEPT !.triggers = t, !.insecure = i] : t \in Triggers2, i \in BOOLEAN}
    \cup {[Base EXCEPT !.policy = p] : p \in Policies}
    \cup {[Base EXCEPT !.journal = j] : j \in Journals}
    \cup {[Base EXCEPT !.toolTimeout = d, !.backoff = e, !.output = o] : d, e \in {"", "ok", "bad"}, o \in {"", "object", "array"}}
    \cup {[Base EXCEPT !.values = v, !.includes = f, !.unknownKey = u, !.provider = p, !.concurrency = c] :
            v \in SUBSET [block : BOOLEAN, variables : {{"HOME"}, {"HOOK_TOKEN"}}],
            f \in {{}} \cup {{[of |-> o, file |-> n, values |-> e]} :
                     o \in {"prompt", "enum"}, n \in {"prompt", "missing"}, e \in {<<>>, <<"x">>, <<"x", "x">>}},
            u \in BOOLEAN, p \in {"ollama", "nobody"}, c \in {-1, 1}}

\* Where it is read: the provider may be written in three places.
Machines == [file : {"absent", "unreadable", "openai", "mine"}, urls : {{}, {"mine"}}, env : {"unset", "openai", "copilot"},
             unusable : {{}}]
Elsewhere == {[manifest |-> [Base EXCEPT !.provider = p, !.mcp = s], days |-> <<>>, machine |-> c] :
                p \in {"", "ollama", "mine"}, s \in {{}, {"silent"}}, c \in Machines}

\* And its directories cannot be made or opened.
Unusable == {[manifest |-> [Base EXCEPT !.journal = [enabled |-> e, backend |-> b, path |-> TRUE], !.path = p],
              days |-> <<>>, machine |-> [Here EXCEPT !.unusable = u]] :
                e, p \in BOOLEAN, b \in {"", "sqlite"}, u \in SUBSET {"journal", "queue"}}

MCInstances == Runs \cup Dated(Read, {<<>>}) \cup Elsewhere \cup Unusable

\* A day that begins with the second hour.
Midnight == Dated({[Base EXCEPT !.triggers = <<Daily(0)>>, !.path = TRUE]}, {<<Plain, <<1, 2>>, Plain>>})
=============================================================================
