------------------------------ MODULE Manifest ------------------------------
(***************************************************************************)
(* A manifest as `mani` reads, validates and builds it: manifest.go,       *)
(* builder.go, factory.go and tool_catalog.go of src/app, src/config.  A   *)
(* text is reduced to what a check may find in it: a duration is "", "ok", *)
(* "zero" or "bad", a pattern "", "ok" or "bad", a clock an hour or -1; a  *)
(* route that does not begin with / is "relative", one that does and that  *)
(* http.ServeMux cannot parse ("/a b", "/{") is "malformed".               *)
(* m is a manifest, c the machine: its configuration file (the provider it *)
(* names, "absent" or "unreadable"), the providers it has an address for,  *)
(* MANI_PROVIDER or "unset", and which of the directories of the journal   *)
(* and of the queue cannot be used.                                        *)
(***************************************************************************)
EXTENDS Integers, FiniteSets, Sequences

CONSTANTS
    Environment,    \* the variables that are set
    Files,          \* the files an !include may name: relative, small, not empty
    Credentials,    \* the providers auth.json has a key for
    Servers         \* the MCP servers that answer

BuiltIn == {"read", "bash", "planning", "delegate"}

Known(name) == name \in BuiltIn

Elems(s) == {s[i] : i \in DOMAIN s}
Unique(s) == \A i, j \in DOMAIN s : s[i] = s[j] => i = j

Parses(d)   == d \in {"ok", "zero"}
Compiles(p) == p \in {"", "ok"}
Hour        == 0..23

-----------------------------------------------------------------------------
(* LoadManifest.                                                           *)

KeysKnown(m) == ~m.unknownKey

\* Every ${VAR} is set, but those in a block of prose.
EnvironmentSet(m) == \A v \in m.values : v.block \/ v.variables \subseteq Environment

\* An enum that is included has values, and each of them once.
EnumValid(values) == values # <<>> /\ "" \notin Elems(values) /\ Unique(values)

Included(i) == i.file \in Files

IncludesRead(m) == \A i \in m.includes : Included(i) /\ (i.of = "enum" => EnumValid(i.values))

Readable(m) == KeysKnown(m) /\ EnvironmentSet(m) /\ IncludesRead(m)

Names(tools) == [i \in DOMAIN tools |-> tools[i].name]

ToolsValid(m) ==
    /\ Unique(Names(m.tools))
    /\ \A t \in Elems(m.tools) : t.name # "" /\ IF t.command THEN t.schema ELSE Known(t.name)

Declared(m) == Elems(Names(m.tools))

SubagentsValid(m) ==
    /\ m.subagents # <<>> => "delegate" \in Declared(m)
    /\ Unique(Names(m.subagents))
    /\ \A s \in Elems(m.subagents) :
         s.name # "" /\ s.described /\ \A t \in s.tools : Known(t) \/ t \in Declared(m)

PolicyValid(m) ==
    /\ m.policy.tools \subseteq {"allow", "ask", "deny"}
    /\ \A r \in m.policy.rules : r.pattern = "ok" /\ r.action \in {"", "deny"}
    /\ \A p \in m.policy.redact : Compiles(p)

LimitsValid(m) ==
    /\ m.output \in {"", "object"}
    /\ \A d \in {m.maxDuration, m.toolTimeout, m.backoff} : d = "" \/ Parses(d)
    /\ m.concurrency >= 0

Hooks(m) == {i \in DOMAIN m.triggers : m.triggers[i].type = "webhook"}
Path(t)  == IF t.path = "" THEN "/hook" ELSE t.path
Addrs(m) == {m.triggers[i].addr : i \in Hooks(m)} \ {""}

RoutesUnique(m) == \A i, j \in Hooks(m) : Path(m.triggers[i]) = Path(m.triggers[j]) => i = j
NamesUnique(m)  == \A i, j \in DOMAIN m.triggers :
                      m.triggers[i].name # "" /\ m.triggers[i].name = m.triggers[j].name => i = j

\* Mutant: a route may be declared twice.
MutantTriggersValid(m) ==
    /\ \A t \in Elems(m.triggers) :
         /\ t.type \in {"every", "daily", "webhook"} /\ t.memory \in {"", "fresh", "persistent"}
         /\ t.type = "daily" => t.at \in Hour
         /\ t.type = "webhook" => Path(t) # "relative"
    /\ Cardinality(Addrs(m)) <= 1 /\ NamesUnique(m)

TriggersValid(m) ==
    /\ \A t \in Elems(m.triggers) :
         /\ t.type \in {"every", "daily", "webhook"} /\ t.memory \in {"", "fresh", "persistent"}
         /\ t.type = "daily" => t.at \in Hour
         /\ t.type = "webhook" => Path(t) # "relative"
    /\ RoutesUnique(m) /\ Cardinality(Addrs(m)) <= 1 /\ NamesUnique(m)

JournalValid(m) ==
    /\ m.journal.backend \in {"", "jsonl", "sqlite"}
    /\ m.journal.backend = "sqlite" /\ m.journal.enabled => m.journal.path

Valid(m) ==
    /\ ToolsValid(m) /\ SubagentsValid(m) /\ PolicyValid(m) /\ LimitsValid(m)
    /\ TriggersValid(m) /\ JournalValid(m)

-----------------------------------------------------------------------------
(* Build and BuildDaemon: why they may refuse.                             *)

\* Load writes the defaults if there is no file yet.
Written(c) == [c EXCEPT !.file = IF @ = "absent" THEN "ollama" ELSE @]

\* The environment comes before the file, the manifest before both.
FromEnvironment(c) == IF c.env # "unset" THEN c.env ELSE Written(c).file
Provider(c, m)     == IF m.provider # "" THEN m.provider ELSE FromEnvironment(c)

\* ollama needs no key, a provider mani does not know an address in the file.
ClientReady(c, p) ==
    \/ p = "ollama"
    \/ p \in Credentials /\ p \in {"openai", "copilot", "openrouter", "anthropic"} \cup c.urls

ToolBuilds(t)   == t.command \/ Known(t.name)
JournalKnown(j) == j.backend \in {"", "jsonl"} \/ (j.backend = "sqlite" /\ j.path)

\* A journal with a path makes its directory; the database is also opened and back-filled.
JournalOpens(c, j) == j.path => "journal" \notin c.unusable

\* With scheduler.path the queue makes its directories.
QueueOpens(c, m) == m.path => "queue" \notin c.unusable

Problem(condition, name) == IF condition THEN {name} ELSE {}

BuildProblems(c, m) ==
    Problem(c.file = "unreadable", "config")
      \cup Problem(~ClientReady(c, Provider(c, m)), "client")
      \cup Problem(m.toolTimeout # "" /\ ~Parses(m.toolTimeout), "timeout")
      \cup Problem(\E t \in Elems(m.tools) : ~ToolBuilds(t), "tool")
      \cup Problem(m.journal.enabled /\ ~JournalKnown(m.journal), "journal")
      \cup Problem(m.journal.enabled /\ ~JournalOpens(c, m.journal), "disk")
      \cup Problem(~(m.mcp \subseteq Servers), "server")

Token(m, t) == IF t.token # "" THEN t.token
               ELSE IF "MANI_WEBHOOK_TOKEN" \in Environment THEN "fallback" ELSE ""

DaemonProblems(c, m) ==
    Problem(~QueueOpens(c, m), "disk")
      \cup Problem(m.backoff # "" /\ ~Parses(m.backoff), "backoff")
      \cup UNION {CASE t.type = "every"   -> Problem(~Parses(t.every), "every")
                    [] t.type = "daily"   -> Problem(t.at \notin Hour, "at")
                    [] t.type = "webhook" -> Problem(Token(m, t) = "" /\ ~m.insecure, "token")
                    [] OTHER -> {"type"} : t \in Elems(m.triggers)}

\* The name, or a hash of what is written.
TriggerId(t) == IF t.name # "" THEN <<t.name>> ELSE <<t.type, t.every, t.at, t.prompt>>

Listens(m) == Addrs(m) # {}

\* http.ServeMux panics on what is no pattern, and on two that match the same requests
\* and neither of which is more special: the same route twice, or "/{a}" and "/{b}".
Wildcards == {"/{a}", "/{b}"}

Clash(p, q) == p = q \/ {p, q} \subseteq Wildcards

RoutesServed(m) ==
    /\ \A i \in Hooks(m) : Path(m.triggers[i]) \notin {"relative", "malformed"}
    /\ \A i, j \in Hooks(m) : i # j => ~Clash(Path(m.triggers[i]), Path(m.triggers[j]))

\* The prompt of a request: none if neither the trigger nor the body says anything.
Prompts(t, body) == t.prompt \notin {"", "{{body}}"} \/ body # ""

MaxPending(m)  == IF m.maxPending <= 0 THEN 64 ELSE m.maxPending
MaxAttempts(m) == IF m.maxAttempts <= 0 THEN 3 ELSE m.maxAttempts
=============================================================================
