----------------------------- MODULE Gatekeeper -----------------------------
(***************************************************************************)
(* How a session performs an action with an outside effect (Session::exec, *)
(* http_get, post and post_from of capable-broker/src/lib.rs): the policy  *)
(* gate, the intent record, the effect, the result record.  Sessions run   *)
(* in threads of their own and share the consent ledger and the audit      *)
(* sink; between two uses of a shared object any other session may move.   *)
(*                                                                         *)
(* The sink is used as DurableLog describes it: a record call either makes *)
(* its event durable and answers Ok or answers Err.  Whatever else exec_i, *)
(* http_get_i or post_bytes check is Registry's subject; here a session    *)
(* holds one capability, and get_active looks at its state and at          *)
(* audit_broken.                                                           *)
(*                                                                         *)
(* A definition whose name starts with Bug_ is a defect of the definition  *)
(* that follows it; the specification never uses one.                      *)
(***************************************************************************)
EXTENDS ConsentLedger, Bags, BagsExt

CONSTANTS
    Engine,     \* the PolicyEngine, the same for every session of the service
    Verb,       \* the verb each signature was made for
    Requesters, \* sessions that perform gated actions
    Approvers,  \* sessions of the control plane that decide requests
    Budget      \* bound: a session starts no call after that many events

ASSUME EngineAssumption ==
    /\ Engine \in [deny_exec : BOOLEAN, prompt_exec : BOOLEAN,
                   prompt_http : BOOLEAN, prompt_post : BOOLEAN]
    /\ Verb \in [Sigs -> {"exec", "http_get", "post", "post_from"}]
ASSUME RolesAssumption == Sessions = Requesters \cup Approvers
ASSUME BudgetAssumption == Budget \in [Sessions -> Nat]

VARIABLES
    call,    \* the call each session is in the middle of
    events,  \* length of Session.audit, the in-memory events of each session
    durable, \* the bag of those events whose record call answered Ok
    broken,  \* Session.audit_broken
    alive,   \* whether the session's capability is active
    acted    \* history: how often the action of each key took effect

sess == <<events, durable, broken>>
gkVars == <<clVars, call, sess, alive, acted>>

NoCall == [pc |-> "idle"]
PC == {"note", "consent", "intent", "effect", "result"}
Ops == {"policy.deny", "consent.approved", "consent.denied", "consent.pending",
        "intent", "effect", "result", "consent.approve", "consent.deny", "revoke"}
NoKey == << >>
Call == {NoCall} \cup [pc : PC, key : Keys \cup {NoKey}, op : Ops]
Ev(o, k) == [op |-> o, key |-> k]

GKInit ==
    /\ CLInit
    /\ call = [s \in Sessions |-> NoCall]
    /\ events = [s \in Sessions |-> 0]
    /\ durable = [s \in Sessions |-> EmptyBag]
    /\ broken = [s \in Sessions |-> FALSE]
    /\ alive = [s \in Sessions |-> TRUE]
    /\ acted = [k \in Keys |-> 0]

(***************************************************************************)
(* Session::audit                                                          *)
(***************************************************************************)
\* The event is kept in memory in any case; it is durable when record says Ok,
\* and otherwise the session is broken from now on.
AuditOk(s, e) ==
    /\ events' = [events EXCEPT ![s] = @ + 1]
    /\ durable' = [durable EXCEPT ![s] = BagAdd(@, e)]
    /\ UNCHANGED broken

AuditErr(s, e) ==
    /\ events' = [events EXCEPT ![s] = @ + 1]
    /\ broken' = [broken EXCEPT ![s] = TRUE]
    /\ UNCHANGED durable

Audit(s, e) == AuditOk(s, e) \/ AuditErr(s, e)

(***************************************************************************)
(* PolicyEngine::decide and Session::gate                                  *)
(***************************************************************************)
\* A refusal of exec takes precedence over a prompt for it.
Denied(verb) == verb = "exec" /\ Engine.deny_exec
Prompted(verb) ==
    \/ verb = "exec" /\ Engine.prompt_exec
    \/ verb = "http_get" /\ Engine.prompt_http
    \/ verb \in {"post", "post_from"} /\ Engine.prompt_post

Decision(g) ==
    IF Denied(Verb[g]) THEN "Deny" ELSE IF Prompted(Verb[g]) THEN "Prompt" ELSE "Allow"

Ready(s) == call[s].pc = "idle" /\ events[s] < Budget[s]
Goto(s, pc, k, o) == call' = [call EXCEPT ![s] = [pc |-> pc, key |-> k, op |-> o]]
Return(s) == call' = [call EXCEPT ![s] = NoCall]

Allowed(s, g) ==
    /\ Decision(g) = "Allow"
    /\ Goto(s, "intent", <<g, s>>, "intent")
    /\ UNCHANGED clVars

PolicyDenies(s, g) ==
    /\ Decision(g) = "Deny"
    /\ Goto(s, "note", <<g, s>>, "policy.deny")
    /\ UNCHANGED clVars

Bug_PendingPasses(s, g) ==
    /\ Decision(g) = "Prompt"
    /\ \/ Pass(<<g, s>>) /\ Goto(s, "consent", <<g, s>>, "consent.approved")
       \/ /\ Request(<<g, s>>) \/ (Waiting(<<g, s>>) /\ UNCHANGED clVars)
          /\ Goto(s, "consent", <<g, s>>, "consent.pending")

\* request_or_check: only an approval that has just been consumed goes on.  Every
\* session has a ledger, as serve gives it one; without, the call would be
\* refused here and change nothing.
Prompts(s, g) ==
    /\ Decision(g) = "Prompt"
    /\ \/ Pass(<<g, s>>) /\ Goto(s, "consent", <<g, s>>, "consent.approved")
       \/ /\ Refused(<<g, s>>) /\ UNCHANGED clVars
          /\ Goto(s, "note", <<g, s>>, "consent.denied")
       \/ /\ Request(<<g, s>>) \/ (Waiting(<<g, s>>) /\ UNCHANGED clVars)
          /\ Goto(s, "note", <<g, s>>, "consent.pending")

Gate(s, g) ==
    /\ Ready(s)
    /\ Allowed(s, g) \/ PolicyDenies(s, g) \/ Prompts(s, g)
    /\ UNCHANGED <<sess, alive, acted>>

\* An audit event whose outcome the code ignores, at the end of a call.
Note(s) ==
    /\ call[s].pc = "note"
    /\ Audit(s, Ev(call[s].op, call[s].key))
    /\ Return(s)
    /\ UNCHANGED <<clVars, alive, acted>>

\* gate ignores the outcome of this event too, but lets the action go on.
RecordConsent(s) ==
    /\ call[s].pc = "consent"
    /\ Audit(s, Ev(call[s].op, call[s].key))
    /\ Goto(s, "intent", call[s].key, "intent")
    /\ UNCHANGED <<clVars, alive, acted>>

(***************************************************************************)
(* exec, http_get, post, post_from after the gate                          *)
(***************************************************************************)
\* The intent record comes first; if it fails, the action is refused.
Intent(s) ==
    /\ call[s].pc = "intent"
    /\ \/ AuditOk(s, Ev("intent", call[s].key))
          /\ Goto(s, "effect", call[s].key, "effect")
       \/ AuditErr(s, Ev("intent", call[s].key)) /\ Return(s)
    /\ UNCHANGED <<clVars, alive, acted>>

\* get_active, which exec_i and the like start with.
Bug_GetActiveIgnoresAudit(s) == alive[s]
GetActive(s) == ~broken[s] /\ alive[s]

Effect(s) ==
    /\ call[s].pc = "effect"
    /\ acted' = IF GetActive(s) THEN Count(acted, call[s].key) ELSE acted
    /\ Goto(s, "result", call[s].key, "result")
    /\ UNCHANGED <<clVars, sess, alive>>

Result(s) ==
    /\ call[s].pc = "result"
    /\ Audit(s, Ev("result", call[s].key))
    /\ Return(s)
    /\ UNCHANGED <<clVars, alive, acted>>

(***************************************************************************)
(* consent_approve, consent_deny, revoke                                   *)
(***************************************************************************)
\* The ledger changes first; the event follows, and its outcome is ignored.
ConsentApprove(s, id) ==
    /\ Ready(s)
    /\ Approve(id)
    /\ Goto(s, "note", KeyOf(reqs[id]), "consent.approve")
    /\ UNCHANGED <<sess, alive, acted>>

ConsentDeny(s, id) ==
    /\ Ready(s)
    /\ Deny(id)
    /\ Goto(s, "note", KeyOf(reqs[id]), "consent.deny")
    /\ UNCHANGED <<sess, alive, acted>>

\* An id that is not, or no longer, one of a pending request: the ledger refuses
\* it, and that is recorded too.
ConsentUnknown(s) ==
    /\ Ready(s)
    /\ \E op \in {"consent.approve", "consent.deny"} : Goto(s, "note", NoKey, op)
    /\ UNCHANGED <<clVars, sess, alive, acted>>

Revoke(s) ==
    /\ Ready(s)
    /\ alive[s]
    /\ alive' = [alive EXCEPT ![s] = FALSE]
    /\ Goto(s, "note", NoKey, "revoke")
    /\ UNCHANGED <<clVars, sess, acted>>

GKNext ==
    \/ \E s \in Requesters : Revoke(s) \/ \E g \in Sigs : Gate(s, g)
    \/ \E s \in Approvers :
           \/ ConsentUnknown(s)
           \/ \E id \in 1 .. seq : ConsentApprove(s, id) \/ ConsentDeny(s, id)
    \/ \E s \in Sessions :
           Note(s) \/ RecordConsent(s) \/ Intent(s) \/ Effect(s) \/ Result(s)

GKSpec == GKInit /\ [][GKNext]_gkVars

(***************************************************************************)
(* Properties                                                              *)
(***************************************************************************)
GKTypeOK ==
    /\ CLTypeOK
    /\ call \in [Sessions -> Call]
    /\ events \in [Sessions -> Nat]
    /\ DOMAIN durable = Sessions
    /\ \A s \in Sessions :
           /\ IsABag(durable[s])
           /\ DOMAIN durable[s] \subseteq [op : Ops, key : Keys \cup {NoKey}]
    /\ broken \in [Sessions -> BOOLEAN]
    /\ alive \in [Sessions -> BOOLEAN]
    /\ acted \in [Keys -> Nat]

\* How many durable events of session s are this one.
Recorded(s, o, k) ==
    IF BagIn(Ev(o, k), durable[s]) THEN durable[s][Ev(o, k)] ELSE 0

\* What cannot be recorded does not happen: every effect is covered by an
\* intent of its session that is on the disk and, when the policy asks for
\* consent, by the durable record that the consent was given (gate ignores the
\* outcome of that record; get_active's look at audit_broken makes up for it).
EffectsAreRecorded ==
    \A g \in Sigs, s \in Sessions :
        /\ acted[<<g, s>>] <= Recorded(s, "intent", <<g, s>>)
        /\ Decision(g) = "Prompt" =>
               acted[<<g, s>>] <= Recorded(s, "consent.approved", <<g, s>>)

\* No approval, no effect: an action that needs consent has taken effect at
\* most as often as its own key was approved, whoever asked, approved or
\* repeated the call in between; a denied verb never has.
EffectsAreApproved ==
    \A g \in Sigs, s \in Sessions :
        /\ Decision(g) = "Prompt" => acted[<<g, s>>] <= approved[<<g, s>>]
        /\ Denied(Verb[g]) => acted[<<g, s>>] = 0

\* deploy/README.md claims that every consent decision is in the audit chain:
\* once the approver's call is over, an approval that was used is on record.
ApprovalsAreRecorded ==
    (\A s \in Approvers : call[s].pc # "note") =>
        \A k \in Keys : acted[k] # 0 /\ Decision(k[1]) = "Prompt" =>
            \E s \in Approvers : Recorded(s, "consent.approve", k) # 0
=============================================================================
