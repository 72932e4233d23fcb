----------------------------- MODULE MCCdpProxy -----------------------------
(* Constants for TLC's runs of CdpProxy. *)
EXTENDS CdpProxy, TLC

CONSTANTS c1, c2, c3, c4, c5

\* Two send()s, a message sent by a plan (type, submit, wait), a plan compiled
\* from a recipe with a capture step, and a getPageState().
MCPlan == (c1 :> <<"command">>) @@ (c2 :> <<"command", "command", "local">>)
            @@ (c3 :> <<"command", "capture">>) @@ (c4 :> <<>>) @@ (c5 :> <<"command">>)
MCUnmediated == {c4}
=============================================================================
