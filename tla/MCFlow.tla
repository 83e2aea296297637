------------------------------- MODULE MCFlow -------------------------------
(* Small instances of Flow for TLC. *)
EXTENDS Flow

CONSTANTS a, b, all, none

S(k, f, j) == [kind |-> k, from |-> f, jobs |-> j]

F(s, t) == [steps |-> s, tokens |-> t]

\* An agent, a script that adds up, an agent on the sum; three with a budget; two that
\* are refused.
Sum    == F(<<S("each", 0, 1), S("command", 1, 1), S("all", 2, 1)>>, 0)
Fetch  == F(<<S("command", 0, 1), S("each", 1, 2)>>, 1)
Review == F(<<S("each", 0, 1), S("all", 1, 1)>>, 1)
Digest == F(<<S("each", 0, 2), S("all", 1, 1)>>, 1)
Cycle  == F(<<S("each", 2, 1), S("each", 0, 1)>>, 0)
Unread == F(<<S("command", 1, 1)>>, 0)
AllFlows == {Sum, Fetch, Review, Digest, Cycle, Unread}

InputFiles == {<<a>>, <<a, b>>, <<>>, <<a, a>>, <<a, none>>}

Outputs == {{a}, {a, b}}
=============================================================================
