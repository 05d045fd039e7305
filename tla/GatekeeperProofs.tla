-------------------------- MODULE GatekeeperProofs --------------------------
(***************************************************************************)
(* Proofs about Gatekeeper for any policy, any sessions and any number of  *)
(* calls: what has taken effect is recorded and approved.                  *)
(*                                                                         *)
(* A call on its way to its effect owes nothing: the consent it consumed,  *)
(* the record of that consent and the intent are each one ahead of what    *)
(* has taken effect, from the step that produced them to the effect.       *)
(***************************************************************************)
EXTENDS Gatekeeper, ConsentLedgerProofs

(***************************************************************************)
(* The audit record                                                        *)
(***************************************************************************)
Copies(e, B) == IF BagIn(e, B) THEN B[e] ELSE 0

\* Adding to a bag adds one copy of the element and takes nothing away.
LEMMA BagAddEffect ==
    ASSUME NEW B, NEW e, IsABag(B)
    PROVE  /\ IsABag(BagAdd(B, e)) /\ DOMAIN BagAdd(B, e) = DOMAIN B \cup {e}
           /\ Copies(e, BagAdd(B, e)) = Copies(e, B) + 1
           /\ \A f : Copies(f, B) \in Nat /\ Copies(f, BagAdd(B, e)) \in Nat
           /\ \A f : Copies(f, BagAdd(B, e)) >= Copies(f, B)
<1> DEFINE Pos == {n \in Nat : n > 0}
<1>1. B \in [DOMAIN B -> Pos] BY DEF IsABag
<1>2. CASE e \in DOMAIN B
  <2>1. BagAdd(B, e) = [f \in DOMAIN B |-> IF f = e THEN B[f] + 1 ELSE B[f]]
    BY <1>2 DEF BagAdd
  <2>2. BagAdd(B, e) \in [DOMAIN B -> Pos] BY <1>1, <2>1
  <2>3. DOMAIN BagAdd(B, e) = DOMAIN B BY <2>1
  <2>4. IsABag(BagAdd(B, e)) BY <2>2, <2>3 DEF IsABag
  <2>5. /\ Copies(e, BagAdd(B, e)) = Copies(e, B) + 1
        /\ \A f : f # e => Copies(f, BagAdd(B, e)) = Copies(f, B)
        /\ \A f : Copies(f, B) \in Nat
    BY <1>1, <1>2, <2>1 DEF Copies, BagIn, BagToSet
  <2> QED BY <1>2, <2>3, <2>4, <2>5
<1>3. CASE e \notin DOMAIN B
  <2>1. BagAdd(B, e) = [f \in DOMAIN B \cup {e} |-> IF f = e THEN 1 ELSE B[f]]
    BY <1>3 DEF BagAdd
  <2>2. BagAdd(B, e) \in [DOMAIN B \cup {e} -> Pos] BY <1>1, <2>1
  <2>3. DOMAIN BagAdd(B, e) = DOMAIN B \cup {e} BY <2>1
  <2>4. IsABag(BagAdd(B, e)) BY <2>2, <2>3 DEF IsABag
  <2>5. /\ Copies(e, BagAdd(B, e)) = Copies(e, B) + 1
        /\ \A f : f # e => Copies(f, BagAdd(B, e)) = Copies(f, B)
        /\ \A f : Copies(f, B) \in Nat
    BY <1>1, <1>3, <2>1 DEF Copies, BagIn, BagToSet
  <2> QED BY <2>3, <2>4, <2>5
<1> QED BY <1>2, <1>3

Event == [op : Ops, key : Keys \cup {NoKey}]

\* Session::audit adds one durable event or breaks the session, loses nothing,
\* and leaves the other sessions alone.
LEMMA AuditEffect ==
    ASSUME GKTypeOK, NEW s \in Sessions, NEW o \in Ops, NEW k \in Keys \cup {NoKey},
           Audit(s, Ev(o, k))
    PROVE  /\ events' \in [Sessions -> Nat] /\ broken' \in [Sessions -> BOOLEAN]
           /\ DOMAIN durable' = Sessions
           /\ \A t \in Sessions : IsABag(durable'[t]) /\ DOMAIN durable'[t] \subseteq Event
           /\ \A t \in Sessions \ {s} : durable'[t] = durable[t] /\ broken'[t] = broken[t]
           /\ broken[s] => broken'[s]
           /\ \A p, l : /\ Recorded(s, p, l) \in Nat /\ Recorded(s, p, l)' \in Nat
                        /\ Recorded(s, p, l)' >= Recorded(s, p, l)
           /\ broken'[s] \/ Recorded(s, o, k)' = Recorded(s, o, k) + 1
<1> DEFINE e == Ev(o, k)
<1>1. /\ IsABag(durable[s]) /\ DOMAIN durable[s] \subseteq Event
      /\ events \in [Sessions -> Nat] /\ broken \in [Sessions -> BOOLEAN]
      /\ e \in Event /\ DOMAIN durable = Sessions
  BY DEF GKTypeOK, Event, Ev
<1>2. CASE AuditOk(s, e)
  <2>1. durable'[s] = BagAdd(durable[s], e) /\ broken' = broken
        /\ \A t \in Sessions \ {s} : durable'[t] = durable[t]
    BY <1>1, <1>2 DEF AuditOk
  <2>2. events' \in [Sessions -> Nat] BY <1>1, <1>2 DEF AuditOk
  <2>3. \A t \in Sessions : IsABag(durable'[t]) /\ DOMAIN durable'[t] \subseteq Event
    <3>1. \A t \in Sessions : IsABag(durable[t]) /\ DOMAIN durable[t] \subseteq Event
      BY DEF GKTypeOK, Event
    <3>2. IsABag(durable'[s]) /\ DOMAIN durable'[s] = DOMAIN durable[s] \cup {e}
      <4>1. /\ IsABag(BagAdd(durable[s], e))
            /\ DOMAIN BagAdd(durable[s], e) = DOMAIN durable[s] \cup {e}
        BY <1>1, BagAddEffect
      <4> QED BY <2>1, <4>1 DEF IsABag
    <3> QED BY <1>1, <2>1, <3>1, <3>2
  <2>4. \A p, l : Recorded(s, p, l) = Copies(Ev(p, l), durable[s])
                 /\ Recorded(s, p, l)' = Copies(Ev(p, l), durable'[s])
    BY DEF Recorded, Copies, Ev
  <2>5. \A f : /\ Copies(f, durable[s]) \in Nat /\ Copies(f, durable'[s]) \in Nat
              /\ Copies(f, durable'[s]) >= Copies(f, durable[s])
    BY <1>1, <2>1, BagAddEffect
  <2>6. Copies(e, durable'[s]) = Copies(e, durable[s]) + 1
    BY <1>1, <2>1, BagAddEffect
  <2>7. DOMAIN durable' = Sessions BY <1>1, <1>2 DEF AuditOk
  <2> QED BY <1>1, <2>1, <2>2, <2>3, <2>4, <2>5, <2>6, <2>7
<1>3. CASE AuditErr(s, e)
  <2>1. durable' = durable /\ broken' = [broken EXCEPT ![s] = TRUE]
        /\ events' = [events EXCEPT ![s] = @ + 1]
    BY <1>3 DEF AuditErr
  <2>2. \A p, l : Recorded(s, p, l) \in Nat /\ Recorded(s, p, l)' = Recorded(s, p, l)
    BY <1>1, <2>1 DEF Recorded, IsABag, BagIn, BagToSet
  <2> QED BY <1>1, <2>1, <2>2 DEF GKTypeOK, Event
<1> QED BY <1>2, <1>3 DEF Audit

(***************************************************************************)
(* The inductive invariant                                                 *)
(***************************************************************************)
\* A call that has passed the gate is for an action of its own session that
\* the policy does not refuse; consent is only recorded where it is asked for.
Gated(s) ==
    call[s].pc \in {"consent", "intent", "effect", "result"} =>
        \E g \in Sigs :
            /\ call[s].key = <<g, s>> /\ Decision(g) # "Deny"
            /\ call[s].pc = "consent" =>
                   Decision(g) = "Prompt" /\ call[s].op = "consent.approved"

On(s, g, pcs) == call[s].pc \in pcs /\ call[s].key = <<g, s>>

\* The intent is recorded before the effect.
IntentAhead(s, g) ==
    /\ acted[<<g, s>>] <= Recorded(s, "intent", <<g, s>>)
    /\ On(s, g, {"effect"}) => acted[<<g, s>>] + 1 <= Recorded(s, "intent", <<g, s>>)

\* So is the consent, unless the session is broken and goes no further.
ConsentAhead(s, g) ==
    /\ acted[<<g, s>>] <= Recorded(s, "consent.approved", <<g, s>>)
    /\ On(s, g, {"intent", "effect"}) /\ ~broken[s] =>
           acted[<<g, s>>] + 1 <= Recorded(s, "consent.approved", <<g, s>>)

\* And the approval was consumed.
PassAhead(s, g) ==
    /\ acted[<<g, s>>] <= passed[<<g, s>>]
    /\ On(s, g, {"consent", "intent", "effect"}) =>
           acted[<<g, s>>] + 1 <= passed[<<g, s>>]

Ahead(s, g) ==
    /\ IntentAhead(s, g)
    /\ Decision(g) = "Prompt" => ConsentAhead(s, g) /\ PassAhead(s, g)
    /\ Decision(g) = "Deny" => acted[<<g, s>>] = 0

Order == \A s \in Sessions : Gated(s) /\ \A g \in Sigs : Ahead(s, g)

GKInv == GKTypeOK /\ CLInv /\ Order

USE DEF PC, NoCall, NoKey

\* What GKTypeOK says of one session and one key.
LEMMA Numbers ==
    ASSUME GKTypeOK, NEW s \in Sessions, NEW g \in Sigs
    PROVE  /\ <<g, s>> \in Keys /\ acted[<<g, s>>] \in Nat
           /\ passed[<<g, s>>] \in Nat /\ approved[<<g, s>>] \in Nat
           /\ \A o \in Ops : Recorded(s, o, <<g, s>>) \in Nat
<1>1. <<g, s>> \in Keys BY DEF Keys
<1>2. \A o \in Ops : Recorded(s, o, <<g, s>>) \in Nat
  BY DEF GKTypeOK, Recorded, IsABag, BagIn, BagToSet
<1> QED BY <1>1, <1>2 DEF GKTypeOK, CLTypeOK

\* A session that does nothing keeps its order, whatever the ledger does for
\* others: passed never decreases.
LEMMA OthersKeep ==
    ASSUME GKTypeOK, NEW t \in Sessions, Gated(t), \A g \in Sigs : Ahead(t, g),
           call'[t] = call[t], durable'[t] = durable[t], broken'[t] = broken[t],
           \A g \in Sigs : /\ acted'[<<g, t>>] = acted[<<g, t>>]
                          /\ passed'[<<g, t>>] \in Nat
                          /\ passed'[<<g, t>>] >= passed[<<g, t>>]
    PROVE  Gated(t)' /\ \A g \in Sigs : Ahead(t, g)'
<1>1. Gated(t)' BY DEF Gated, Decision
<1>2. ASSUME NEW g \in Sigs PROVE Ahead(t, g)'
  <2>1. IntentAhead(t, g)' BY DEF Ahead, IntentAhead, On, Recorded
  <2>2. Decision(g) = "Prompt" => ConsentAhead(t, g)'
    BY DEF Ahead, ConsentAhead, On, Recorded
  <2>3. Decision(g) = "Prompt" => PassAhead(t, g)'
    BY Numbers DEF Ahead, PassAhead, On
  <2> QED BY <2>1, <2>2, <2>3 DEF Ahead, Decision
<1> QED BY <1>1, <1>2

\* A session whose call ends or only notes something keeps its order.
LEMMA EndingKeeps ==
    ASSUME GKTypeOK, NEW s \in Sessions, Gated(s), \A g \in Sigs : Ahead(s, g),
           call'[s].pc \in {"idle", "note"},
           \A o \in Ops, g \in Sigs :
               /\ Recorded(s, o, <<g, s>>)' \in Nat
               /\ Recorded(s, o, <<g, s>>)' >= Recorded(s, o, <<g, s>>),
           \A g \in Sigs : /\ acted'[<<g, s>>] = acted[<<g, s>>]
                          /\ passed'[<<g, s>>] \in Nat
                          /\ passed'[<<g, s>>] >= passed[<<g, s>>]
    PROVE  Gated(s)' /\ \A g \in Sigs : Ahead(s, g)'
<1>1. Gated(s)' BY DEF Gated
<1>2. ASSUME NEW g \in Sigs PROVE Ahead(s, g)'
  <2> \A o \in {"intent", "consent.approved"} : o \in Ops BY DEF Ops
  <2>1. IntentAhead(s, g)' BY Numbers DEF Ahead, IntentAhead, On
  <2>2. Decision(g) = "Prompt" => ConsentAhead(s, g)'
    BY Numbers DEF Ahead, ConsentAhead, On
  <2>3. Decision(g) = "Prompt" => PassAhead(s, g)'
    BY Numbers DEF Ahead, PassAhead, On
  <2> QED BY <2>1, <2>2, <2>3 DEF Ahead, Decision
<1> QED BY <1>1, <1>2

\* The call of one session moves on; those of the others do not.
LEMMA GotoEffect ==
    ASSUME GKTypeOK, NEW s \in Sessions, NEW pc \in PC, NEW k \in Keys \cup {NoKey},
           NEW o \in Ops, Goto(s, pc, k, o)
    PROVE  /\ call' \in [Sessions -> Call]
           /\ call'[s] = [pc |-> pc, key |-> k, op |-> o]
           /\ \A t \in Sessions \ {s} : call'[t] = call[t]
  BY DEF GKTypeOK, Goto, Call

\* The call of one session is over.
LEMMA ReturnEffect ==
    ASSUME GKTypeOK, NEW s \in Sessions, Return(s)
    PROVE  /\ call' \in [Sessions -> Call] /\ call'[s] = NoCall
           /\ \A t \in Sessions \ {s} : call'[t] = call[t]
  BY DEF GKTypeOK, Return, Call

\* Nothing is recorded: the records keep their types and counts.
LEMMA SessKept ==
    ASSUME GKTypeOK, UNCHANGED sess
    PROVE  /\ events' \in [Sessions -> Nat] /\ broken' \in [Sessions -> BOOLEAN]
           /\ DOMAIN durable' = Sessions
           /\ \A t \in Sessions : IsABag(durable'[t]) /\ DOMAIN durable'[t] \subseteq Event
           /\ \A s \in Sessions, o \in Ops, g \in Sigs :
                  /\ Recorded(s, o, <<g, s>>)' = Recorded(s, o, <<g, s>>)
                  /\ Recorded(s, o, <<g, s>>)' \in Nat
<1>1. durable' = durable /\ events' = events /\ broken' = broken BY DEF sess
<1>2. \A s \in Sessions, o \in Ops, g \in Sigs :
          Recorded(s, o, <<g, s>>)' = Recorded(s, o, <<g, s>>)
  BY <1>1 DEF Recorded
<1> QED BY <1>1, <1>2, Numbers DEF GKTypeOK, Event, IsABag

\* The types, put together.
LEMMA TypeFromParts ==
    ASSUME CLTypeOK', call' \in [Sessions -> Call], events' \in [Sessions -> Nat],
           broken' \in [Sessions -> BOOLEAN], DOMAIN durable' = Sessions,
           \A t \in Sessions : IsABag(durable'[t]) /\ DOMAIN durable'[t] \subseteq Event,
           alive' \in [Sessions -> BOOLEAN], acted' \in [Keys -> Nat]
    PROVE  GKTypeOK'
  BY DEF GKTypeOK, Event, IsABag

\* The ledger is not touched.
LEMMA LedgerKept == ASSUME CLInv, UNCHANGED clVars PROVE CLInv'
  BY DEF CLInv, clVars, CLTypeOK, LedgerTypeOK, OneRequestPerKey, ApprovalPassesOnce,
         HasApproval, Found, ledger

\* Nothing is consumed.
LEMMA PassedKept ==
    ASSUME GKTypeOK, UNCHANGED passed
    PROVE  \A t \in Sessions, g \in Sigs :
               passed'[<<g, t>>] \in Nat /\ passed'[<<g, t>>] >= passed[<<g, t>>]
<1>1. \A n \in Nat : n >= n OBVIOUS
<1>2. ASSUME NEW t \in Sessions, NEW g \in Sigs
      PROVE  passed'[<<g, t>>] \in Nat /\ passed'[<<g, t>>] >= passed[<<g, t>>]
  <2>1. passed[<<g, t>>] \in Nat /\ passed' = passed BY Numbers
  <2> QED BY <1>1, <2>1
<1> QED BY <1>2

\* What is left of a step of session s that the others do not notice.
LEMMA OrderStep ==
    ASSUME GKInv, NEW s \in Sessions,
           \A t \in Sessions \ {s} :
               call'[t] = call[t] /\ durable'[t] = durable[t] /\ broken'[t] = broken[t],
           \A t \in Sessions \ {s}, g \in Sigs : acted'[<<g, t>>] = acted[<<g, t>>],
           \A t \in Sessions, g \in Sigs :
               passed'[<<g, t>>] \in Nat /\ passed'[<<g, t>>] >= passed[<<g, t>>],
           Gated(s)', \A g \in Sigs : Ahead(s, g)'
    PROVE  Order'
<1>1. ASSUME NEW t \in Sessions \ {s} PROVE Gated(t)' /\ \A g \in Sigs : Ahead(t, g)'
  BY OthersKeep DEF GKInv, Order
<1> QED BY <1>1 DEF Order

\* The same when nothing takes effect or is consumed, and the call of s ends or
\* notes something.
LEMMA OrderEnding ==
    ASSUME GKInv, NEW s \in Sessions, call'[s].pc \in {"idle", "note"},
           \A t \in Sessions \ {s} :
               call'[t] = call[t] /\ durable'[t] = durable[t] /\ broken'[t] = broken[t],
           \A o \in Ops, g \in Sigs :
               /\ Recorded(s, o, <<g, s>>)' \in Nat
               /\ Recorded(s, o, <<g, s>>)' >= Recorded(s, o, <<g, s>>),
           UNCHANGED <<acted, passed>>
    PROVE  Order'
<1>1. \A t \in Sessions, g \in Sigs :
          /\ acted'[<<g, t>>] = acted[<<g, t>>]
          /\ passed'[<<g, t>>] \in Nat /\ passed'[<<g, t>>] >= passed[<<g, t>>]
  BY PassedKept DEF GKInv
<1>2. Gated(s)' /\ \A g \in Sigs : Ahead(s, g)'
  BY <1>1, EndingKeeps DEF GKInv, Order
<1> QED BY <1>1, <1>2, OrderStep

(***************************************************************************)
(* One lemma per action                                                    *)
(***************************************************************************)
\* gate, the policy allows: nothing is owed for an action that needs no consent.
LEMMA AllowedStep ==
    ASSUME GKInv, NEW s \in Sessions, NEW g \in Sigs,
           Allowed(s, g), UNCHANGED <<sess, alive, acted>>
    PROVE  GKInv'
<1>1. <<g, s>> \in Keys /\ "intent" \in Ops BY DEF Keys, Ops
<1>2. /\ call' \in [Sessions -> Call]
      /\ call'[s] = [pc |-> "intent", key |-> <<g, s>>, op |-> "intent"]
      /\ \A t \in Sessions \ {s} : call'[t] = call[t]
  BY <1>1, GotoEffect DEF GKInv, Allowed
<1>3. UNCHANGED clVars /\ Decision(g) = "Allow" BY DEF Allowed
<1>4. CLInv' BY <1>3, LedgerKept DEF GKInv
<1>5. GKTypeOK' BY <1>2, <1>4, SessKept, TypeFromParts DEF GKInv, CLInv, GKTypeOK
<1>6. \A t \in Sessions, h \in Sigs :
          passed'[<<h, t>>] \in Nat /\ passed'[<<h, t>>] >= passed[<<h, t>>]
  BY <1>3, PassedKept DEF GKInv, clVars
<1>7. Gated(s)' BY <1>2, <1>3 DEF Gated
<1>8. ASSUME NEW h \in Sigs PROVE Ahead(s, h)'
  <2>1. Ahead(s, h) BY DEF GKInv, Order
  <2>2. On(s, h, {"intent", "effect"})' \/ On(s, h, {"consent", "intent", "effect"})' => h = g
    BY <1>2 DEF On
  <2>3. IntentAhead(s, h)' BY <1>2, <2>1 DEF Ahead, IntentAhead, On, Recorded, sess
  <2>4. Decision(h) = "Prompt" => ConsentAhead(s, h)' /\ PassAhead(s, h)'
    BY <1>3, <2>1, <2>2 DEF Ahead, ConsentAhead, PassAhead, Recorded, sess, clVars
  <2> QED BY <2>1, <2>3, <2>4 DEF Ahead
<1>9. Order' BY <1>2, <1>6, <1>7, <1>8, OrderStep DEF sess
<1> QED BY <1>4, <1>5, <1>9 DEF GKInv

\* A step that only notes something and leaves the records alone; the ledger may
\* have registered or decided a request.
LEMMA NotingStep ==
    ASSUME GKInv, CLInv', NEW s \in Sessions, NEW k \in Keys \cup {NoKey}, NEW o \in Ops,
           Goto(s, "note", k, o), UNCHANGED <<sess, acted, passed>>,
           alive' \in [Sessions -> BOOLEAN]
    PROVE  GKInv'
<1>1. /\ call' \in [Sessions -> Call] /\ call'[s].pc = "note"
      /\ \A t \in Sessions \ {s} : call'[t] = call[t]
  <2>1. "note" \in PC /\ GKTypeOK BY DEF GKInv
  <2>2. /\ call' \in [Sessions -> Call]
        /\ call'[s] = [pc |-> "note", key |-> k, op |-> o]
        /\ \A t \in Sessions \ {s} : call'[t] = call[t]
    BY <2>1, GotoEffect
  <2> QED BY <2>2
<1>2. GKTypeOK' BY <1>1, SessKept, TypeFromParts DEF GKInv, CLInv, GKTypeOK
<1>3. \A p \in Ops, g \in Sigs :
          /\ Recorded(s, p, <<g, s>>)' \in Nat
          /\ Recorded(s, p, <<g, s>>)' >= Recorded(s, p, <<g, s>>)
  BY SessKept DEF GKInv
<1>4. \A t \in Sessions \ {s} :
          call'[t] = call[t] /\ durable'[t] = durable[t] /\ broken'[t] = broken[t]
  BY <1>1 DEF sess
<1>5. Order' BY <1>1, <1>3, <1>4, OrderEnding
<1> QED BY <1>2, <1>5 DEF GKInv

\* gate, an approval is consumed: it is what the action may now owe.
LEMMA ConsumedStep ==
    ASSUME GKInv, NEW s \in Sessions, NEW g \in Sigs, Decision(g) = "Prompt",
           Pass(<<g, s>>), Goto(s, "consent", <<g, s>>, "consent.approved"),
           UNCHANGED <<sess, alive, acted>>
    PROVE  GKInv'
<1>1. <<g, s>> \in Keys /\ "consent.approved" \in Ops BY DEF Keys, Ops
<1>2. /\ call' \in [Sessions -> Call]
      /\ call'[s] = [pc |-> "consent", key |-> <<g, s>>, op |-> "consent.approved"]
      /\ \A t \in Sessions \ {s} : call'[t] = call[t]
  BY <1>1, GotoEffect DEF GKInv
<1>3. CLInv' BY <1>1, PassInv DEF GKInv
<1>4. GKTypeOK' BY <1>2, <1>3, SessKept, TypeFromParts DEF GKInv, CLInv, GKTypeOK
<1>5. passed' = Count(passed, <<g, s>>) /\ passed \in [Keys -> Nat]
  BY DEF Pass, GKInv, GKTypeOK, CLTypeOK
<1>6. /\ passed'[<<g, s>>] = passed[<<g, s>>] + 1
      /\ \A t \in Sessions, h \in Sigs :
             passed'[<<h, t>>] \in Nat /\ passed'[<<h, t>>] >= passed[<<h, t>>]
  BY <1>1, <1>5 DEF Count, Keys
<1>7. Gated(s)' BY <1>2 DEF Gated
<1>8. ASSUME NEW h \in Sigs PROVE Ahead(s, h)'
  <2>1. Ahead(s, h) BY DEF GKInv, Order
  <2>2. IntentAhead(s, h)' BY <1>2, <2>1 DEF Ahead, IntentAhead, On, Recorded, sess
  <2>3. Decision(h) = "Prompt" => ConsentAhead(s, h)'
    BY <1>2, <2>1 DEF Ahead, ConsentAhead, On, Recorded, sess
  <2>4. Decision(h) = "Prompt" => PassAhead(s, h)'
    <3>1. acted[<<h, s>>] \in Nat /\ passed[<<h, s>>] \in Nat BY Numbers DEF GKInv
    <3>2. On(s, h, {"consent", "intent", "effect"})' => h = g BY <1>2 DEF On
    <3>3. passed'[<<h, s>>] \in Nat /\ passed'[<<h, s>>] >= passed[<<h, s>>] BY <1>6
    <3> QED BY <1>6, <2>1, <3>1, <3>2, <3>3 DEF Ahead, PassAhead
  <2> QED BY <2>1, <2>2, <2>3, <2>4 DEF Ahead
<1>9. Order' BY <1>2, <1>6, <1>7, <1>8, OrderStep DEF sess
<1> QED BY <1>3, <1>4, <1>9 DEF GKInv

\* gate.
LEMMA GateStep ==
    ASSUME GKInv, NEW s \in Sessions, NEW g \in Sigs, Gate(s, g)
    PROVE  GKInv'
<1>1. UNCHANGED <<sess, alive, acted>> /\ alive' \in [Sessions -> BOOLEAN]
  BY DEF Gate, GKInv, GKTypeOK
<1>2. <<g, s>> \in Keys \cup {NoKey} /\ <<g, s>> \in Keys BY DEF Keys
<1>3. /\ "policy.deny" \in Ops /\ "consent.denied" \in Ops /\ "consent.pending" \in Ops
  BY DEF Ops
<1>4. CASE Allowed(s, g) BY <1>1, <1>4, AllowedStep
<1>5. CASE PolicyDenies(s, g)
  <2>1. UNCHANGED clVars /\ Goto(s, "note", <<g, s>>, "policy.deny")
    BY <1>5 DEF PolicyDenies
  <2>2. CLInv' BY <2>1, LedgerKept DEF GKInv
  <2> QED BY <1>1, <1>2, <1>3, <2>1, <2>2, NotingStep DEF clVars
<1>6. CASE Prompts(s, g)
  <2>1. Decision(g) = "Prompt" BY <1>6 DEF Prompts
  <2>2. CASE Pass(<<g, s>>) /\ Goto(s, "consent", <<g, s>>, "consent.approved")
    BY <1>1, <2>1, <2>2, ConsumedStep
  <2>3. CASE UNCHANGED clVars /\ Goto(s, "note", <<g, s>>, "consent.denied")
    <3>1. CLInv' BY <2>3, LedgerKept DEF GKInv
    <3> QED BY <1>1, <1>2, <1>3, <2>3, <3>1, NotingStep DEF clVars
  <2>4. CASE /\ Request(<<g, s>>) \/ UNCHANGED clVars
             /\ Goto(s, "note", <<g, s>>, "consent.pending")
    <3>1. CLInv' BY <1>2, <2>4, RequestInv, LedgerKept DEF GKInv
    <3>2. UNCHANGED passed BY <2>4 DEF Request, clVars
    <3> QED BY <1>1, <1>2, <1>3, <2>4, <3>1, <3>2, NotingStep
  <2> QED BY <1>6, <2>2, <2>3, <2>4 DEF Prompts
<1> QED BY <1>4, <1>5, <1>6 DEF Gate

\* An audit event at the end of a call.
LEMMA NoteStep ==
    ASSUME GKInv, NEW s \in Sessions, NEW o \in Ops, NEW k \in Keys \cup {NoKey},
           Audit(s, Ev(o, k)), Return(s), UNCHANGED <<clVars, alive, acted>>
    PROVE  GKInv'
<1>1. CLInv' BY LedgerKept DEF GKInv
<1>2. /\ call' \in [Sessions -> Call] /\ call'[s] = NoCall
      /\ \A t \in Sessions \ {s} : call'[t] = call[t]
  BY ReturnEffect DEF GKInv
<1>3. /\ events' \in [Sessions -> Nat] /\ broken' \in [Sessions -> BOOLEAN]
      /\ DOMAIN durable' = Sessions
      /\ \A t \in Sessions : IsABag(durable'[t]) /\ DOMAIN durable'[t] \subseteq Event
      /\ \A t \in Sessions \ {s} : durable'[t] = durable[t] /\ broken'[t] = broken[t]
      /\ \A p, l : /\ Recorded(s, p, l) \in Nat /\ Recorded(s, p, l)' \in Nat
                   /\ Recorded(s, p, l)' >= Recorded(s, p, l)
  BY AuditEffect DEF GKInv
<1>4. GKTypeOK' BY <1>1, <1>2, <1>3, TypeFromParts DEF GKInv, CLInv, GKTypeOK
<1>5. \A p \in Ops, g \in Sigs :
          /\ Recorded(s, p, <<g, s>>)' \in Nat
          /\ Recorded(s, p, <<g, s>>)' >= Recorded(s, p, <<g, s>>)
  BY <1>3
<1>6. call'[s].pc = "idle" BY <1>2
<1>7. \A t \in Sessions \ {s} :
          call'[t] = call[t] /\ durable'[t] = durable[t] /\ broken'[t] = broken[t]
  BY <1>2, <1>3
<1>8. Order' BY <1>5, <1>6, <1>7, OrderEnding DEF clVars
<1> QED BY <1>1, <1>4, <1>8 DEF GKInv

\* What a call that has passed the gate carries.
LEMMA CallKey ==
    ASSUME GKTypeOK, NEW s \in Sessions, call[s].pc \in PC
    PROVE  call[s].key \in Keys \cup {NoKey} /\ call[s].op \in Ops
  BY DEF GKTypeOK, Call

\* gate records the consent: from here on the record is one ahead, or the
\* session is broken.
LEMMA RecordConsentStep ==
    ASSUME GKInv, NEW s \in Sessions, RecordConsent(s)
    PROVE  GKInv'
<1>1. PICK g \in Sigs : /\ call[s].key = <<g, s>> /\ Decision(g) = "Prompt"
                        /\ call[s].op = "consent.approved"
  BY DEF GKInv, Order, Gated, RecordConsent
<1>2. /\ <<g, s>> \in Keys /\ "intent" \in Ops /\ "consent.approved" \in Ops
      /\ "intent" \in PC
  BY DEF Keys, Ops
<1>3. /\ call[s].pc = "consent" /\ Audit(s, Ev("consent.approved", <<g, s>>))
      /\ Goto(s, "intent", <<g, s>>, "intent") /\ UNCHANGED <<clVars, alive, acted>>
  BY <1>1 DEF RecordConsent
<1>4. /\ call' \in [Sessions -> Call]
      /\ call'[s] = [pc |-> "intent", key |-> <<g, s>>, op |-> "intent"]
      /\ \A t \in Sessions \ {s} : call'[t] = call[t]
  BY <1>2, <1>3, GotoEffect DEF GKInv
<1>5. /\ events' \in [Sessions -> Nat] /\ broken' \in [Sessions -> BOOLEAN]
      /\ DOMAIN durable' = Sessions
      /\ \A t \in Sessions : IsABag(durable'[t]) /\ DOMAIN durable'[t] \subseteq Event
      /\ \A t \in Sessions \ {s} : durable'[t] = durable[t] /\ broken'[t] = broken[t]
      /\ \A p, l : /\ Recorded(s, p, l) \in Nat /\ Recorded(s, p, l)' \in Nat
                   /\ Recorded(s, p, l)' >= Recorded(s, p, l)
      /\ \/ broken'[s]
         \/ Recorded(s, "consent.approved", <<g, s>>)'
                 = Recorded(s, "consent.approved", <<g, s>>) + 1
  BY <1>2, <1>3, AuditEffect DEF GKInv
<1>6. CLInv' BY <1>3, LedgerKept DEF GKInv
<1>7. GKTypeOK' BY <1>3, <1>4, <1>5, <1>6, TypeFromParts DEF GKInv, CLInv, GKTypeOK
<1>8. Gated(s)' BY <1>1, <1>4 DEF Gated
<1>9. ASSUME NEW h \in Sigs PROVE Ahead(s, h)'
  <2>1. Ahead(s, h) /\ acted[<<h, s>>] \in Nat BY Numbers DEF GKInv, Order
  <2>2. acted' = acted /\ passed' = passed BY <1>3 DEF clVars
  <2>3. On(s, h, {"intent", "effect"})' => h = g BY <1>4 DEF On
  <2>4. ~On(s, h, {"effect"})' BY <1>4 DEF On
  <2>5. On(s, g, {"consent", "intent", "effect"}) BY <1>1, <1>3 DEF On
  <2>6. IntentAhead(s, h)' BY <1>5, <2>1, <2>2, <2>4 DEF Ahead, IntentAhead
  <2>7. Decision(h) = "Prompt" => ConsentAhead(s, h)'
    BY <1>5, <2>1, <2>2, <2>3 DEF Ahead, ConsentAhead
  <2>8. Decision(h) = "Prompt" => PassAhead(s, h)'
    <3>1. On(s, h, {"consent", "intent", "effect"})' => h = g BY <1>4 DEF On
    <3> QED BY <2>1, <2>2, <2>5, <3>1 DEF Ahead, PassAhead
  <2> QED BY <2>1, <2>2, <2>6, <2>7, <2>8 DEF Ahead
<1>10. Order'
  <2>1. UNCHANGED <<acted, passed>> BY <1>3 DEF clVars
  <2> QED BY <1>4, <1>5, <1>8, <1>9, <2>1, OrderStep, PassedKept DEF GKInv
<1> QED BY <1>6, <1>7, <1>10 DEF GKInv

\* The intent is recorded, or the call is over.
LEMMA IntentStep ==
    ASSUME GKInv, NEW s \in Sessions, Intent(s)
    PROVE  GKInv'
<1>1. PICK g \in Sigs : call[s].key = <<g, s>> /\ Decision(g) # "Deny"
  BY DEF GKInv, Order, Gated, Intent
<1>2. /\ <<g, s>> \in Keys /\ "intent" \in Ops /\ "effect" \in Ops /\ "effect" \in PC
  BY DEF Keys, Ops
<1>3. call[s].pc = "intent" /\ UNCHANGED <<clVars, alive, acted>> BY DEF Intent
<1>4. CASE AuditErr(s, Ev("intent", <<g, s>>)) /\ Return(s)
  BY <1>2, <1>3, <1>4, NoteStep DEF Audit
<1>5. CASE AuditOk(s, Ev("intent", <<g, s>>)) /\ Goto(s, "effect", <<g, s>>, "effect")
  <2>1. /\ call' \in [Sessions -> Call]
        /\ call'[s] = [pc |-> "effect", key |-> <<g, s>>, op |-> "effect"]
        /\ \A t \in Sessions \ {s} : call'[t] = call[t]
    BY <1>2, <1>5, GotoEffect DEF GKInv
  <2>2. Audit(s, Ev("intent", <<g, s>>)) /\ broken' = broken
    BY <1>5 DEF Audit, AuditOk
  <2>3. /\ events' \in [Sessions -> Nat] /\ broken' \in [Sessions -> BOOLEAN]
        /\ DOMAIN durable' = Sessions
        /\ \A t \in Sessions : IsABag(durable'[t]) /\ DOMAIN durable'[t] \subseteq Event
        /\ \A t \in Sessions \ {s} : durable'[t] = durable[t] /\ broken'[t] = broken[t]
        /\ \A p, l : /\ Recorded(s, p, l) \in Nat /\ Recorded(s, p, l)' \in Nat
                     /\ Recorded(s, p, l)' >= Recorded(s, p, l)
    BY <1>2, <2>2, AuditEffect DEF GKInv
  <2>4. Recorded(s, "intent", <<g, s>>)' = Recorded(s, "intent", <<g, s>>) + 1
    <3>1. /\ IsABag(durable[s]) /\ durable'[s] = BagAdd(durable[s], Ev("intent", <<g, s>>))
      BY <1>5 DEF GKInv, GKTypeOK, AuditOk
    <3>2. /\ Recorded(s, "intent", <<g, s>>) = Copies(Ev("intent", <<g, s>>), durable[s])
          /\ Recorded(s, "intent", <<g, s>>)' = Copies(Ev("intent", <<g, s>>), durable'[s])
      BY DEF Recorded, Copies, Ev
    <3>3. Copies(Ev("intent", <<g, s>>), BagAdd(durable[s], Ev("intent", <<g, s>>)))
              = Copies(Ev("intent", <<g, s>>), durable[s]) + 1
      BY <3>1, BagAddEffect
    <3> QED BY <3>1, <3>2, <3>3
  <2>5. CLInv' BY <1>3, LedgerKept DEF GKInv
  <2>6. GKTypeOK'
    BY <1>3, <2>1, <2>3, <2>5, TypeFromParts DEF GKInv, CLInv, GKTypeOK
  <2>7. Gated(s)' BY <1>1, <2>1 DEF Gated
  <2>8. ASSUME NEW h \in Sigs PROVE Ahead(s, h)'
    <3>1. Ahead(s, h) /\ acted[<<h, s>>] \in Nat BY Numbers DEF GKInv, Order
    <3>2. acted' = acted /\ passed' = passed BY <1>3 DEF clVars
    <3>3. \A pcs : On(s, h, pcs)' => h = g BY <2>1 DEF On
    <3>4. On(s, g, {"intent", "effect"}) /\ On(s, g, {"consent", "intent", "effect"})
      BY <1>1, <1>3 DEF On
    <3>5. IntentAhead(s, h)' BY <2>3, <2>4, <3>1, <3>2, <3>3 DEF Ahead, IntentAhead
    <3>6. Decision(h) = "Prompt" => ConsentAhead(s, h)'
      BY <2>2, <2>3, <3>1, <3>2, <3>3, <3>4 DEF Ahead, ConsentAhead
    <3>7. Decision(h) = "Prompt" => PassAhead(s, h)'
      BY <3>1, <3>2, <3>3, <3>4 DEF Ahead, PassAhead
    <3> QED BY <3>1, <3>2, <3>5, <3>6, <3>7 DEF Ahead
  <2>9. Order'
    <3>1. UNCHANGED <<acted, passed>> BY <1>3 DEF clVars
    <3> QED BY <2>1, <2>3, <2>7, <2>8, <3>1, OrderStep, PassedKept DEF GKInv
  <2> QED BY <2>5, <2>6, <2>9 DEF GKInv
<1> QED BY <1>1, <1>4, <1>5 DEF Intent

\* The effect takes place if the session is not broken; then what was ahead is
\* used up.
LEMMA EffectStep ==
    ASSUME GKInv, NEW s \in Sessions, Effect(s)
    PROVE  GKInv'
<1>1. PICK g \in Sigs : call[s].key = <<g, s>> /\ Decision(g) # "Deny"
  BY DEF GKInv, Order, Gated, Effect
<1>2. <<g, s>> \in Keys /\ "result" \in Ops /\ "result" \in PC BY DEF Keys, Ops
<1>3. /\ call[s].pc = "effect" /\ UNCHANGED <<clVars, sess, alive>>
      /\ acted' = IF GetActive(s) THEN Count(acted, <<g, s>>) ELSE acted
      /\ Goto(s, "result", <<g, s>>, "result")
  BY <1>1 DEF Effect
<1>4. /\ call' \in [Sessions -> Call]
      /\ call'[s] = [pc |-> "result", key |-> <<g, s>>, op |-> "result"]
      /\ \A t \in Sessions \ {s} : call'[t] = call[t]
  BY <1>2, <1>3, GotoEffect DEF GKInv
<1>5. acted \in [Keys -> Nat] BY DEF GKInv, GKTypeOK
<1>6. /\ acted' \in [Keys -> Nat]
      /\ \A k \in Keys \ {<<g, s>>} : acted'[k] = acted[k]
      /\ acted'[<<g, s>>] # acted[<<g, s>>] =>
             ~broken[s] /\ acted'[<<g, s>>] = acted[<<g, s>>] + 1
  BY <1>2, <1>3, <1>5 DEF Count, GetActive
<1>7. CLInv' BY <1>3, LedgerKept DEF GKInv
<1>8. GKTypeOK'
  BY <1>3, <1>4, <1>6, <1>7, SessKept, TypeFromParts DEF GKInv, CLInv, GKTypeOK
<1>9. Gated(s)' BY <1>1, <1>4 DEF Gated
<1>10. ASSUME NEW h \in Sigs PROVE Ahead(s, h)'
  <2>1. Ahead(s, h) BY DEF GKInv, Order
  <2>2. passed' = passed /\ durable' = durable BY <1>3 DEF clVars, sess
  <2>3. \A o : Recorded(s, o, <<h, s>>)' = Recorded(s, o, <<h, s>>) BY <2>2 DEF Recorded
  <2>4. /\ ~On(s, h, {"effect"})' /\ ~On(s, h, {"intent", "effect"})'
        /\ ~On(s, h, {"consent", "intent", "effect"})'
    BY <1>4 DEF On
  <2>5. CASE h = g
    <3>1. /\ On(s, h, {"effect"}) /\ On(s, h, {"intent", "effect"})
          /\ On(s, h, {"consent", "intent", "effect"})
      BY <1>1, <1>3, <2>5 DEF On
    <3>2. IntentAhead(s, h)' BY <1>6, <2>1, <2>3, <2>4, <2>5, <3>1 DEF Ahead, IntentAhead
    <3>3. Decision(h) = "Prompt" => ConsentAhead(s, h)'
      BY <1>6, <2>1, <2>3, <2>4, <2>5, <3>1 DEF Ahead, ConsentAhead
    <3>4. Decision(h) = "Prompt" => PassAhead(s, h)'
      BY <1>6, <2>1, <2>2, <2>4, <2>5, <3>1 DEF Ahead, PassAhead
    <3> QED BY <1>1, <2>5, <3>2, <3>3, <3>4 DEF Ahead
  <2>6. CASE h # g
    <3>1. acted'[<<h, s>>] = acted[<<h, s>>] BY <1>6, <2>6 DEF Keys
    <3> QED BY <2>1, <2>2, <2>3, <2>4, <3>1 DEF Ahead, IntentAhead, ConsentAhead, PassAhead
  <2> QED BY <2>5, <2>6
<1>11. Order'
  <2>1. \A t \in Sessions \ {s}, h \in Sigs : acted'[<<h, t>>] = acted[<<h, t>>]
    BY <1>6 DEF Keys
  <2>2. \A t \in Sessions \ {s} :
            call'[t] = call[t] /\ durable'[t] = durable[t] /\ broken'[t] = broken[t]
    BY <1>3, <1>4 DEF sess
  <2>3. UNCHANGED passed BY <1>3 DEF clVars
  <2> QED BY <1>9, <1>10, <2>1, <2>2, <2>3, OrderStep, PassedKept DEF GKInv
<1> QED BY <1>7, <1>8, <1>11 DEF GKInv

\* consent_approve and consent_deny: the ledger first, the event afterwards.
LEMMA DecidingStep ==
    ASSUME GKInv, NEW s \in Approvers, NEW id,
           ConsentApprove(s, id) \/ ConsentDeny(s, id)
    PROVE  GKInv'
<1>1. s \in Sessions BY RolesAssumption
<1>2. CLInv' /\ UNCHANGED <<sess, alive, acted, passed>>
  BY ApproveInv, DenyInv DEF GKInv, ConsentApprove, ConsentDeny, Approve, Deny
<1>3. PICK o \in {"consent.approve", "consent.deny"} :
          Goto(s, "note", KeyOf(reqs[id]), o)
  BY DEF ConsentApprove, ConsentDeny
<1>4. o \in Ops BY DEF Ops
<1>5. KeyOf(reqs[id]) \in Keys
  <2>1. id \in DOMAIN reqs
    BY DEF ConsentApprove, ConsentDeny, Approve, Deny, Decide
  <2>2. reqs[id] \in Req BY <2>1 DEF GKInv, CLInv, CLTypeOK, LedgerTypeOK
  <2> QED BY <2>2 DEF Req, KeyOf, Keys
<1>6. alive' \in [Sessions -> BOOLEAN] BY <1>2 DEF GKInv, GKTypeOK
<1> QED BY <1>1, <1>2, <1>3, <1>4, <1>5, <1>6, NotingStep

\* A decision the ledger refuses leaves it as it is.
LEMMA UnknownStep ==
    ASSUME GKInv, NEW s \in Sessions, ConsentUnknown(s)
    PROVE  GKInv'
<1>1. UNCHANGED <<clVars, sess, alive, acted>> BY DEF ConsentUnknown
<1>2. PICK o \in {"consent.approve", "consent.deny"} : Goto(s, "note", NoKey, o)
  BY DEF ConsentUnknown
<1>3. CLInv' BY <1>1, LedgerKept DEF GKInv
<1>4. alive' \in [Sessions -> BOOLEAN] BY <1>1 DEF GKInv, GKTypeOK
<1>5. o \in Ops /\ UNCHANGED passed BY <1>1 DEF Ops, clVars
<1> QED BY <1>1, <1>2, <1>3, <1>4, <1>5, NotingStep

\* revoke of the session's capability.
LEMMA RevokeStep ==
    ASSUME GKInv, NEW s \in Sessions, Revoke(s)
    PROVE  GKInv'
<1>1. UNCHANGED <<clVars, sess, acted>> /\ Goto(s, "note", NoKey, "revoke") BY DEF Revoke
<1>2. CLInv' BY <1>1, LedgerKept DEF GKInv
<1>3. alive' \in [Sessions -> BOOLEAN] BY DEF GKInv, GKTypeOK, Revoke
<1>4. "revoke" \in Ops /\ UNCHANGED passed BY <1>1 DEF Ops, clVars
<1> QED BY <1>1, <1>2, <1>3, <1>4, NotingStep

(***************************************************************************)
(* The theorems                                                            *)
(***************************************************************************)
\* No session, no request, no event.
LEMMA GKInitInv == GKInit => GKInv
<1> SUFFICES ASSUME GKInit PROVE GKInv OBVIOUS
<1>1. CLInit BY DEF GKInit
<1>2. CLInv
  <2>1. \A k \in Keys : Found(k) = {} BY <1>1 DEF CLInit, Found
  <2>2. CLTypeOK BY <1>1, MaxSeqAssumption DEF CLInit, CLTypeOK, LedgerTypeOK
  <2>3. OneRequestPerKey BY <2>1 DEF OneRequestPerKey
  <2>4. ApprovalPassesOnce
    <3>1. \A k \in Keys : ~HasApproval(k) BY <2>1 DEF HasApproval
    <3>2. \A k \in Keys : approved[k] = 0 /\ passed[k] = 0 BY <1>1 DEF CLInit
    <3>3. 0 = 0 + 0 OBVIOUS
    <3> QED BY <3>1, <3>2, <3>3 DEF ApprovalPassesOnce
  <2> QED BY <2>2, <2>3, <2>4 DEF CLInv
<1>3. \A s \in Sessions : IsABag(durable[s]) /\ DOMAIN durable[s] = {}
  BY DEF GKInit, EmptyBag, SetToBag, IsABag
<1>4. GKTypeOK BY <1>2, <1>3 DEF GKInit, CLInv, GKTypeOK, Call
<1>5. ASSUME NEW s \in Sessions, NEW g \in Sigs PROVE Ahead(s, g)
  <2>1. <<g, s>> \in Keys BY DEF Keys
  <2>2. acted[<<g, s>>] = 0 /\ passed[<<g, s>>] = 0
    BY <1>1, <2>1 DEF GKInit, CLInit
  <2>3. \A o : Recorded(s, o, <<g, s>>) = 0 BY <1>3 DEF Recorded, BagIn, BagToSet
  <2>4. \A pcs : On(s, g, pcs) => "idle" \in pcs BY DEF On, GKInit
  <2> QED BY <2>2, <2>3, <2>4 DEF Ahead, IntentAhead, ConsentAhead, PassAhead
<1>6. \A s \in Sessions : Gated(s) BY DEF GKInit, Gated
<1> QED BY <1>2, <1>4, <1>5, <1>6 DEF GKInv, Order

\* What a call owes is always there, in every interleaving of the sessions.
THEOREM GatekeeperInvariant == GKSpec => []GKInv
<1>1. GKInit => GKInv BY GKInitInv
<1>2. GKInv /\ [GKNext]_gkVars => GKInv'
  <2> SUFFICES ASSUME GKInv, [GKNext]_gkVars PROVE GKInv' OBVIOUS
  <2>1. ASSUME NEW s \in Requesters, Revoke(s) \/ \E g \in Sigs : Gate(s, g) PROVE GKInv'
    <3>1. s \in Sessions BY RolesAssumption
    <3> QED BY <2>1, <3>1, GateStep, RevokeStep
  <2>2. ASSUME NEW s \in Approvers, NEW id \in 1 .. seq,
               ConsentApprove(s, id) \/ ConsentDeny(s, id)
        PROVE  GKInv'
    BY <2>2, DecidingStep
  <2>6. ASSUME NEW s \in Approvers, ConsentUnknown(s) PROVE GKInv'
    BY <2>6, UnknownStep, RolesAssumption
  <2>3. ASSUME NEW s \in Sessions, Note(s) \/ Result(s) PROVE GKInv'
    <3>1. call[s].key \in Keys \cup {NoKey} /\ call[s].op \in Ops /\ "result" \in Ops
      BY <2>3, CallKey DEF Note, Result, GKInv, Ops
    <3>2. PICK o \in {call[s].op, "result"} :
              Audit(s, Ev(o, call[s].key)) /\ Return(s) /\ UNCHANGED <<clVars, alive, acted>>
      BY <2>3 DEF Note, Result
    <3> QED BY <3>1, <3>2, NoteStep
  <2>4. ASSUME NEW s \in Sessions, RecordConsent(s) \/ Intent(s) \/ Effect(s) PROVE GKInv'
    BY <2>4, RecordConsentStep, IntentStep, EffectStep
  <2>5. CASE UNCHANGED gkVars
    <3>1. CLInv' BY <2>5, LedgerKept DEF GKInv, gkVars
    <3>2. UNCHANGED <<sess, call, alive, acted>> /\ passed' = passed BY <2>5 DEF gkVars, clVars
    <3>3. GKTypeOK'
      BY <3>1, <3>2, SessKept, TypeFromParts DEF GKInv, CLInv, GKTypeOK
    <3>4. ASSUME NEW t \in Sessions PROVE Gated(t)' /\ \A g \in Sigs : Ahead(t, g)'
      <4>1. /\ call'[t] = call[t] /\ durable'[t] = durable[t] /\ broken'[t] = broken[t]
            /\ \A g \in Sigs : acted'[<<g, t>>] = acted[<<g, t>>]
        BY <3>2 DEF sess
      <4>2. \A g \in Sigs :
                passed'[<<g, t>>] \in Nat /\ passed'[<<g, t>>] >= passed[<<g, t>>]
        BY <3>2, PassedKept DEF GKInv
      <4> QED BY <4>1, <4>2, OthersKeep DEF GKInv, Order
    <3> QED BY <3>1, <3>3, <3>4 DEF GKInv, Order
  <2> QED BY <2>1, <2>2, <2>3, <2>4, <2>5, <2>6 DEF GKNext
<1> QED BY <1>1, <1>2, PTL DEF GKSpec

\* Calls, events, records and capabilities have their types.
THEOREM GatekeeperTypeCorrect == GKSpec => []GKTypeOK
<1>1. GKInv => GKTypeOK BY DEF GKInv
<1> QED BY <1>1, GatekeeperInvariant, PTL

\* No effect without its durable intent and the durable record of its consent,
\* although gate ignores the outcome of the latter.
THEOREM EffectsHaveRecords == GKSpec => []EffectsAreRecorded
<1>1. GKInv => EffectsAreRecorded
  BY DEF GKInv, Order, Ahead, IntentAhead, ConsentAhead, EffectsAreRecorded
<1> QED BY <1>1, GatekeeperInvariant, PTL

\* No effect without an approval of its own key, and none of a command that the
\* policy denies.
THEOREM EffectsHaveApprovals == GKSpec => []EffectsAreApproved
<1>1. GKInv => EffectsAreApproved
  <2> SUFFICES ASSUME GKInv, NEW g \in Sigs, NEW s \in Sessions
               PROVE  /\ Decision(g) = "Prompt" => acted[<<g, s>>] <= approved[<<g, s>>]
                      /\ Denied(Verb[g]) => acted[<<g, s>>] = 0
    BY DEF EffectsAreApproved
  <2>1. Ahead(s, g) /\ <<g, s>> \in Keys BY DEF GKInv, Order, Keys
  <2>2. passed[<<g, s>>] <= approved[<<g, s>>]
    <3>1. /\ acted[<<g, s>>] \in Nat /\ passed[<<g, s>>] \in Nat
          /\ approved[<<g, s>>] \in Nat
      BY Numbers DEF GKInv
    <3>2. \/ approved[<<g, s>>] = passed[<<g, s>>] + 1
          \/ approved[<<g, s>>] = passed[<<g, s>>] + 0
      BY <2>1, Zenon DEF GKInv, CLInv, ApprovalPassesOnce
    <3> QED BY <3>1, <3>2
  <2>3. /\ acted[<<g, s>>] \in Nat /\ passed[<<g, s>>] \in Nat
        /\ approved[<<g, s>>] \in Nat
    BY Numbers DEF GKInv
  <2>4. Decision(g) = "Prompt" => acted[<<g, s>>] <= approved[<<g, s>>]
    BY <2>1, <2>2, <2>3 DEF Ahead, PassAhead
  <2>5. Denied(Verb[g]) => acted[<<g, s>>] = 0 BY <2>1 DEF Ahead, Decision
  <2> QED BY <2>4, <2>5
<1> QED BY <1>1, GatekeeperInvariant, PTL
=============================================================================
