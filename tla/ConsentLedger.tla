--------------------------- MODULE ConsentLedger ---------------------------
(***************************************************************************)
(* The just-in-time consent ledger of capable-broker/src/policy.rs, shared *)
(* by all sessions of the service behind one mutex.  A requester registers *)
(* a request or finds an earlier one of the same key; the control plane    *)
(* decides a request by its id; a requester that finds its request         *)
(* approved takes it out and may act once.                                 *)
(*                                                                         *)
(* Each operation holds the mutex from start to end and is one action.  An *)
(* operation that only reports (an id that is still pending, a refusal, an *)
(* error) changes nothing and appears as a state predicate.                *)
(*                                                                         *)
(* A definition whose name starts with Bug_ is a defect of the definition  *)
(* that follows it; the specification never uses one.                      *)
(***************************************************************************)
EXTENDS Naturals, FiniteSets, Functions

CONSTANTS
    Sigs,     \* action signatures (action_sig)
    Sessions, \* session keys
    MaxSeq    \* bound on the ids given out

ASSUME MaxSeqAssumption == MaxSeq \in Nat

VARIABLES
    reqs,     \* ConsentLedger.reqs: id -> Req
    seq,      \* ConsentLedger.seq
    approved, \* history: how often the control plane approved each key
    passed    \* history: how often each key was let through

ledger == <<reqs, seq>>
clVars == <<reqs, seq, approved, passed>>

Keys   == Sigs \X Sessions
Status == {"Pending", "Approved", "Denied"}
Req    == [sig : Sigs, session : Sessions, status : Status]

KeyOf(q) == <<q.sig, q.session>>

\* The requests request_or_check may find: HashMap::iter().find() stops at any
\* one of them.
Bug_FoundForAnySession(k) == {id \in DOMAIN reqs : reqs[id].sig = k[1]}
Found(k) == {id \in DOMAIN reqs : KeyOf(reqs[id]) = k}

CLInit ==
    /\ reqs = [id \in {} |-> {}]
    /\ seq = 0
    /\ approved = [k \in Keys |-> 0]
    /\ passed = [k \in Keys |-> 0]

(***************************************************************************)
(* request_or_check, one case per outcome                                  *)
(***************************************************************************)
\* None: a new id, and the request waits under it.
Bug_IdFromSize(k) ==
    LET id == Cardinality(DOMAIN reqs) + 1
    IN  /\ Found(k) = {}
        /\ seq < MaxSeq
        /\ seq' = seq + 1
        /\ reqs' = [i \in DOMAIN reqs \cup {id} |->
                      IF i = id
                        THEN [sig |-> k[1], session |-> k[2], status |-> "Pending"]
                        ELSE reqs[i]]

Bug_IdBeforeCount(k) ==
    /\ Found(k) = {}
    /\ seq < MaxSeq
    /\ seq' = seq + 1
    /\ reqs' = [i \in DOMAIN reqs \cup {seq} |->
                  IF i = seq
                    THEN [sig |-> k[1], session |-> k[2], status |-> "Pending"]
                    ELSE reqs[i]]

Bug_RegisterUnchecked(k) ==
    /\ seq < MaxSeq
    /\ seq' = seq + 1
    /\ reqs' = [i \in DOMAIN reqs \cup {seq + 1} |->
                  IF i = seq + 1
                    THEN [sig |-> k[1], session |-> k[2], status |-> "Pending"]
                    ELSE reqs[i]]

Register(k) ==
    /\ Found(k) = {}
    /\ seq < MaxSeq
    /\ seq' = seq + 1
    /\ reqs' = [i \in DOMAIN reqs \cup {seq + 1} |->
                  IF i = seq + 1
                    THEN [sig |-> k[1], session |-> k[2], status |-> "Pending"]
                    ELSE reqs[i]]

\* Approved: the request is removed and the action passes.
Consume(k) ==
    \E id \in Found(k) :
        /\ reqs[id].status = "Approved"
        /\ reqs' = Restrict(reqs, DOMAIN reqs \ {id})
        /\ UNCHANGED seq

\* Denied and Pending: reported, nothing changes.
Refused(k) == \E id \in Found(k) : reqs[id].status = "Denied"
Waiting(k) == \E id \in Found(k) : reqs[id].status = "Pending"

(***************************************************************************)
(* approve, deny                                                           *)
(***************************************************************************)
Decide(id, status) ==
    /\ id \in DOMAIN reqs
    /\ reqs[id].status = "Pending"
    /\ reqs' = [reqs EXCEPT ![id].status = status]
    /\ UNCHANGED seq

(***************************************************************************)
(* The ledger on its own, used by any number of sessions in any order      *)
(***************************************************************************)
Count(f, k) == [f EXCEPT ![k] = @ + 1]

Request(k) == Register(k) /\ UNCHANGED <<approved, passed>>
Pass(k)    == Consume(k) /\ passed' = Count(passed, k) /\ UNCHANGED approved
Approve(id) ==
    /\ Decide(id, "Approved")
    /\ approved' = Count(approved, KeyOf(reqs[id]))
    /\ UNCHANGED passed
Deny(id) == Decide(id, "Denied") /\ UNCHANGED <<approved, passed>>

CLNext ==
    \/ \E k \in Keys : Request(k) \/ Pass(k)
    \/ \E id \in 1 .. seq : Approve(id) \/ Deny(id)

CLSpec == CLInit /\ [][CLNext]_clVars

(***************************************************************************)
(* Properties                                                              *)
(***************************************************************************)
LedgerTypeOK ==
    /\ seq \in 0 .. MaxSeq
    /\ DOMAIN reqs \subseteq 1 .. seq
    /\ reqs \in [DOMAIN reqs -> Req]

CLTypeOK ==
    /\ LedgerTypeOK
    /\ approved \in [Keys -> Nat]
    /\ passed \in [Keys -> Nat]

\* request_or_check takes whichever matching request the hash map yields first;
\* that is sound only because a key never has two requests.
OneRequestPerKey == \A k \in Keys : \A i, j \in Found(k) : i = j

HasApproval(k) == \E id \in Found(k) : reqs[id].status = "Approved"

\* An approval lets its own key through exactly once: what has passed is what
\* was approved, less the approval that has not been used yet.
ApprovalPassesOnce ==
    \A k \in Keys : approved[k] = passed[k] + IF HasApproval(k) THEN 1 ELSE 0

\* An id the control plane has seen never comes to stand for another action or
\* another session, so a decision made on a stale list cannot be misdirected;
\* and a refusal is never turned into anything else.
IdKeepsItsMeaning ==
    [][\A id \in 1 .. seq : id \in DOMAIN reqs' =>
         /\ id \in DOMAIN reqs
         /\ KeyOf(reqs'[id]) = KeyOf(reqs[id])
         /\ reqs[id].status # "Pending" => reqs'[id] = reqs[id]]_clVars

\* The ledger implements the consent policy: the consent of a key is the status
\* of its request.
ConsentOf(k) ==
    IF Found(k) = {} THEN "none"
    ELSE CASE HasApproval(k) -> "approved"
           [] Refused(k)     -> "denied"
           [] OTHER          -> "pending"

CP == INSTANCE ConsentPolicy WITH consent <- [k \in Keys |-> ConsentOf(k)]
ImplementsConsentPolicy == CP!CPSpec
=============================================================================
