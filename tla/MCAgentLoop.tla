---------------------------- MODULE MCAgentLoop ----------------------------
(* Small instances of AgentLoop for TLC. *)
EXTENDS AgentLoop

CONSTANTS read, write, ghost, respond

Says(s, c) == [stop |-> s, calls |-> c]

Replies ==
    {Says("end_turn", <<>>), Says("end_turn", <<read>>), Says("max_tokens", <<read>>),
     Says("tool_use", <<ghost>>),
     Says("tool_use", <<write, read>>), Says("tool_use", <<read, write, write>>),
     Says("tool_use", <<read, respond>>)}
=============================================================================
