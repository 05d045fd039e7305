--------------------------- MODULE ConsentPolicy ---------------------------
(***************************************************************************)
(* What just-in-time consent means (policy.rs, lines 9-13): consent is a   *)
(* property of a key, the pair of an action signature and the session that *)
(* asked.  An action of a key passes only in a state in which that key has *)
(* been approved, and passing takes the approval away again.  A refusal is *)
(* final.  ConsentLedger, which keeps numbered requests in a hash map,     *)
(* implements this specification.                                          *)
(***************************************************************************)
CONSTANT Keys

VARIABLE consent \* "none", "pending", "approved" or "denied", for each key

CPInit == consent = [k \in Keys |-> "none"]

Move(k, from, to) ==
    /\ consent[k] = from
    /\ consent' = [consent EXCEPT ![k] = to]

Ask(k)     == Move(k, "none", "pending")
Approve(k) == Move(k, "pending", "approved")
Deny(k)    == Move(k, "pending", "denied")
Pass(k)    == Move(k, "approved", "none")

CPNext == \E k \in Keys : Ask(k) \/ Approve(k) \/ Deny(k) \/ Pass(k)

CPSpec == CPInit /\ [][CPNext]_consent
=============================================================================
