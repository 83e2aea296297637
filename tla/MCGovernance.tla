----------------------------- MODULE MCGovernance -----------------------------
(* Small instances of Governance for TLC. *)
EXTENDS Governance

C(t, risky, rule, host, secret) ==
    [tool |-> t, agent |-> "", risky |-> risky, rule |-> rule, host |-> host, secret |-> secret]

Sub    == C("delegate", FALSE, FALSE, FALSE, FALSE)
Read   == C("read", FALSE, FALSE, FALSE, TRUE)
Shell  == C("bash", TRUE, FALSE, FALSE, TRUE)
Wipe   == C("bash", TRUE, TRUE, FALSE, FALSE)
Fetch  == C("fetch", TRUE, FALSE, TRUE, FALSE)
Write  == C("write", TRUE, FALSE, FALSE, FALSE)
Boss   == [Sub EXCEPT !.agent = "boss"]
Helper == [Sub EXCEPT !.agent = "helper"]
AllCalls == {Boss, Helper, Read, Shell, Wipe, Fetch, Write}

\* The root may do all of it; its sub-agents ask and delegate.
MCReplies == [d \in 0..(MaxDepth + 1) |->
    CASE d = 0 -> {<<>>, <<Boss, Helper>>, <<Read, Shell>>, <<Wipe, Fetch>>, <<Write>>}
      [] d = 1 -> {<<>>, <<Shell>>, <<Boss>>}
      [] OTHER -> {<<>>, <<Boss>>, <<Shell>>}]

\* Whom a manifest names, and the tools it lists for each: none is all but `delegate`, and
\* the runtime has no `edit`.
Team(boss, helper) == [n \in {"boss", "helper"} |-> IF n = "boss" THEN boss ELSE helper]
Limits(t, c, n, team) == [tokens |-> t, calls |-> c, iterations |-> n, team |-> team]

\* A boss that may not delegate, two sub-agents at once, one of which has a tool to use, a boss that
\* delegates to itself, and no team, where everybody delegates.
MCManifests ==
    {Limits(1, 0, 2, Team({}, {"edit"})),
     Limits(0, 1, 2, Team({"bash"}, {"read"})),
     Limits(0, 0, 1, Team({"delegate", "read", "bash"}, {"edit"})),
     Limits(0, 0, 1, [n \in {} |-> {}])}

MCPolicy == [t \in {"delegate", "read", "bash", "fetch", "write"} |->
               CASE t = "bash" -> "ask" [] t = "write" -> "deny" [] OTHER -> "allow"]
=============================================================================
