----------------------------- MODULE MCAgentTurn -----------------------------
(***************************************************************************)
(* Instances of AgentTurn for TLC.  The batches are those whose calls meet *)
(* each other in a way that matters: work and a finish, a memo set and     *)
(* deleted, calls that ask before and after calls that do not.             *)
(***************************************************************************)
EXTENDS AgentTurn

(* Native tool calls run in parallel, or calls written into the text. *)
MCModes == {[native |-> TRUE, parallel |-> TRUE, ask |-> TRUE],
            [native |-> FALSE, parallel |-> FALSE, ask |-> FALSE]}

MCBatches == {<<"memo">>, <<"memo", "finish">>, <<"finish", "bash">>, <<"bash", "finish", "bash">>,
              <<"bash", "publish", "bash">>}

(* A tool is published before a shell call, and two shell calls. *)
MCPublishing == {<<"publish", "bash">>, <<"bash", "bash">>}
=============================================================================
