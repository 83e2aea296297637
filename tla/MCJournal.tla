------------------------------ MODULE MCJournal ------------------------------
(* Instances of Journal for TLC.                                            *)
EXTENDS Journal

\* The first run has two goroutines at work, the second one, the third none.
MCWork == <<[a |-> <<"llm_response", "tool_result">>, b |-> <<"deny">>],
            [a |-> <<>>, b |-> <<"mask">>],
            [a |-> <<>>, b |-> <<>>]>>
=============================================================================
