---------------------------- MODULE MCGatekeeper ----------------------------
(***************************************************************************)
(* Two sessions that both perform gated actions; c belongs to the control  *)
(* plane and also decides requests, its own included.  The policy prompts  *)
(* for a post, allows a fetch, and denies the command it would also prompt *)
(* for.  s has the budget to ask, act on an approval and try again; c      *)
(* decides, and may ask in between.                                        *)
(***************************************************************************)
EXTENDS Gatekeeper

CONSTANTS g1, g2, g3, c, s
MCEngine == [deny_exec |-> TRUE, prompt_exec |-> TRUE,
             prompt_http |-> FALSE, prompt_post |-> TRUE]
MCVerb == [g \in Sigs |-> CASE g = g1 -> "post" [] g = g2 -> "http_get" [] OTHER -> "exec"]
MCBudget == [x \in Sessions |-> IF x = s THEN 5 ELSE 2]
=============================================================================
