------------------------ MODULE ConsentLedgerProofs ------------------------
(***************************************************************************)
(* Proofs about ConsentLedger for any set of signatures and sessions and   *)
(* any bound: the invariants, the constancy of ids, and the refinement of  *)
(* ConsentPolicy.                                                          *)
(*                                                                         *)
(* The inductive invariant is the conjunction of the three invariants that *)
(* TLC checks.  They need each other: an approval is consumed once because *)
(* removing one request removes the only one its key has, and a key has    *)
(* only one because a request is registered under a new id, and only when  *)
(* none is found.                                                          *)
(***************************************************************************)
EXTENDS ConsentLedger, TLAPS

CLInv == CLTypeOK /\ OneRequestPerKey /\ ApprovalPassesOnce

(***************************************************************************)
(* What each operation does to the requests of the ledger                  *)
(***************************************************************************)
\* Registering a request gives a key that had none a pending one under an id
\* that was not in use (request_or_check, the None case).
LEMMA RegisterEffect ==
    ASSUME CLTypeOK, NEW k \in Keys, Register(k)
    PROVE  /\ LedgerTypeOK'
           /\ seq + 1 \notin DOMAIN reqs
           /\ DOMAIN reqs' = DOMAIN reqs \cup {seq + 1}
           /\ \A i \in DOMAIN reqs : reqs'[i] = reqs[i]
           /\ reqs'[seq + 1] \in Req
           /\ KeyOf(reqs'[seq + 1]) = k
           /\ reqs'[seq + 1].status = "Pending"
           /\ seq' = seq + 1
<1>1. seq + 1 \notin DOMAIN reqs
  BY DEF CLTypeOK, LedgerTypeOK
<1>2. DOMAIN reqs' = DOMAIN reqs \cup {seq + 1} /\ seq' = seq + 1
  BY DEF Register
<1>3. \A i \in DOMAIN reqs : reqs'[i] = reqs[i]
  BY <1>1 DEF Register
<1>4. reqs'[seq + 1] = [sig |-> k[1], session |-> k[2], status |-> "Pending"]
  BY DEF Register
<1>5. /\ reqs'[seq + 1] \in Req
      /\ KeyOf(reqs'[seq + 1]) = k
      /\ reqs'[seq + 1].status = "Pending"
  BY <1>4 DEF Keys, Req, Status, KeyOf
<1>6. seq' \in 0 .. MaxSeq /\ DOMAIN reqs' \subseteq 1 .. seq'
  BY <1>2, MaxSeqAssumption DEF CLTypeOK, LedgerTypeOK, Register
<1>7. reqs' \in [DOMAIN reqs' -> Req]
  <2>1. \A i \in DOMAIN reqs' : reqs'[i] \in Req
    BY <1>2, <1>3, <1>5 DEF CLTypeOK, LedgerTypeOK
  <2>2. reqs' = [i \in DOMAIN reqs' |-> reqs'[i]]
    BY DEF Register
  <2> QED BY <2>1, <2>2
<1> QED BY <1>1, <1>2, <1>3, <1>5, <1>6, <1>7 DEF LedgerTypeOK

\* Consuming an approval removes exactly that request.
LEMMA ConsumeEffect ==
    ASSUME CLTypeOK, NEW k \in Keys, Consume(k)
    PROVE  /\ LedgerTypeOK' /\ seq' = seq
           /\ \E id \in Found(k) :
                  /\ reqs[id].status = "Approved"
                  /\ DOMAIN reqs' = DOMAIN reqs \ {id}
                  /\ \A i \in DOMAIN reqs' : reqs'[i] = reqs[i]
<1>1. PICK id \in Found(k) :
          /\ reqs[id].status = "Approved"
          /\ reqs' = Restrict(reqs, DOMAIN reqs \ {id})
          /\ seq' = seq
  BY DEF Consume
<1>2. /\ DOMAIN reqs' = DOMAIN reqs \ {id}
      /\ \A i \in DOMAIN reqs' : reqs'[i] = reqs[i]
      /\ reqs' = [i \in DOMAIN reqs' |-> reqs'[i]]
  BY <1>1 DEF Restrict
<1>3. LedgerTypeOK'
  BY <1>1, <1>2 DEF CLTypeOK, LedgerTypeOK
<1> QED BY <1>1, <1>2, <1>3

\* A decision changes the status of one pending request and nothing else.
LEMMA DecideEffect ==
    ASSUME CLTypeOK, NEW id, NEW status \in {"Approved", "Denied"}, Decide(id, status)
    PROVE  /\ LedgerTypeOK' /\ seq' = seq
           /\ id \in DOMAIN reqs /\ reqs[id].status = "Pending"
           /\ DOMAIN reqs' = DOMAIN reqs
           /\ \A i \in DOMAIN reqs \ {id} : reqs'[i] = reqs[i]
           /\ \A i \in DOMAIN reqs : KeyOf(reqs'[i]) = KeyOf(reqs[i])
           /\ KeyOf(reqs[id]) \in Keys
           /\ reqs'[id].status = status
<1>1. /\ id \in DOMAIN reqs /\ reqs[id].status = "Pending" /\ seq' = seq
      /\ reqs' = [reqs EXCEPT ![id].status = status]
  BY DEF Decide
<1>2. \A i \in DOMAIN reqs : reqs[i] \in Req
  BY DEF CLTypeOK, LedgerTypeOK
<1>3. DOMAIN reqs' = DOMAIN reqs /\ \A i \in DOMAIN reqs \ {id} : reqs'[i] = reqs[i]
  BY <1>1
<1>4. reqs'[id] = [reqs[id] EXCEPT !.status = status]
  BY <1>1
<1>5. /\ reqs'[id] \in Req /\ KeyOf(reqs'[id]) = KeyOf(reqs[id])
      /\ reqs'[id].status = status /\ KeyOf(reqs[id]) \in Keys
  BY <1>1, <1>2, <1>4 DEF Req, Status, KeyOf, Keys
<1>6. reqs' \in [DOMAIN reqs' -> Req]
  BY <1>1, <1>2, <1>3, <1>5
<1>7. LedgerTypeOK'
  BY <1>1, <1>3, <1>6 DEF CLTypeOK, LedgerTypeOK
<1> QED BY <1>1, <1>3, <1>5, <1>7

(***************************************************************************)
(* The history counters                                                    *)
(***************************************************************************)
\* Count adds one to one key and leaves the others.
LEMMA CountType ==
    ASSUME NEW f \in [Keys -> Nat], NEW k \in Keys
    PROVE  /\ Count(f, k) \in [Keys -> Nat]
           /\ Count(f, k)[k] = f[k] + 1
           /\ \A j \in Keys \ {k} : Count(f, k)[j] = f[j]
BY DEF Count

(***************************************************************************)
(* Each operation preserves the invariant                                  *)
(***************************************************************************)
\* request_or_check that registers a request.
LEMMA RequestInv ==
    ASSUME CLInv, NEW k \in Keys, Request(k)
    PROVE  CLInv'
<1> USE DEF CLInv
<1>1. Register(k) /\ approved' = approved /\ passed' = passed
  BY DEF Request
<1>2. /\ LedgerTypeOK' /\ seq + 1 \notin DOMAIN reqs
      /\ DOMAIN reqs' = DOMAIN reqs \cup {seq + 1}
      /\ \A i \in DOMAIN reqs : reqs'[i] = reqs[i]
      /\ KeyOf(reqs'[seq + 1]) = k /\ reqs'[seq + 1].status = "Pending"
  BY <1>1, RegisterEffect
<1>3. Found(k) = {}
  BY <1>1 DEF Register
<1>4. Found(k)' = {seq + 1} /\ \A j \in Keys \ {k} : Found(j)' = Found(j)
  BY <1>2, <1>3 DEF Found
<1>5. CLTypeOK'
  BY <1>1, <1>2 DEF CLTypeOK
<1>6. OneRequestPerKey'
  BY <1>4 DEF OneRequestPerKey
<1>7. \A j \in Keys : HasApproval(j)' <=> HasApproval(j)
  <2>1. ~HasApproval(k) /\ ~HasApproval(k)'
    BY <1>2, <1>3, <1>4 DEF HasApproval
  <2>2. \A j \in Keys \ {k} : \A i \in Found(j) : reqs'[i] = reqs[i]
    BY <1>2 DEF Found
  <2>3. \A j \in Keys \ {k} : HasApproval(j)' <=> HasApproval(j)
    BY <1>4, <2>2 DEF HasApproval
  <2> QED BY <2>1, <2>3
<1>8. ApprovalPassesOnce'
  BY <1>1, <1>7 DEF ApprovalPassesOnce
<1> QED BY <1>5, <1>6, <1>8

\* request_or_check that consumes an approval.
LEMMA PassInv ==
    ASSUME CLInv, NEW k \in Keys, Pass(k)
    PROVE  CLInv'
<1> USE DEF CLInv
<1>1. Consume(k) /\ approved' = approved /\ passed' = Count(passed, k)
  BY DEF Pass
<1>2. PICK id \in Found(k) :
          /\ reqs[id].status = "Approved"
          /\ DOMAIN reqs' = DOMAIN reqs \ {id}
          /\ \A i \in DOMAIN reqs' : reqs'[i] = reqs[i]
  BY <1>1, ConsumeEffect
<1>3. LedgerTypeOK'
  BY <1>1, ConsumeEffect
<1>4. Found(k) = {id}
  BY <1>2 DEF OneRequestPerKey
<1>5. Found(k)' = {} /\ \A j \in Keys \ {k} : Found(j)' = Found(j)
  BY <1>2, <1>4 DEF Found
<1>6. passed \in [Keys -> Nat] /\ approved \in [Keys -> Nat]
  BY DEF CLTypeOK
<1>7. CLTypeOK'
  BY <1>1, <1>3, <1>6, CountType DEF CLTypeOK
<1>8. OneRequestPerKey'
  BY <1>5 DEF OneRequestPerKey
<1>9. HasApproval(k) /\ ~HasApproval(k)'
  BY <1>2, <1>5 DEF HasApproval
<1>10. \A j \in Keys \ {k} : HasApproval(j)' <=> HasApproval(j)
  <2>1. \A j \in Keys \ {k} : \A i \in Found(j) : reqs'[i] = reqs[i]
    BY <1>2, <1>4 DEF Found
  <2> QED BY <1>5, <2>1 DEF HasApproval
<1>11. ASSUME NEW j \in Keys
       PROVE  approved'[j] = passed'[j] + IF HasApproval(j)' THEN 1 ELSE 0
  <2>1. CASE j = k
    <3>1. approved[k] = passed[k] + 1
      BY <1>9 DEF ApprovalPassesOnce
    <3>2. passed'[k] = passed[k] + 1
      BY <1>1, <1>6, CountType
    <3>3. passed'[k] + 0 = passed[k] + 1
      BY <3>2, <1>6
    <3> QED BY <1>1, <1>9, <2>1, <3>1, <3>3
  <2>2. CASE j # k
    <3>1. passed'[j] = passed[j]
      BY <1>1, <1>6, <2>2, CountType
    <3> QED BY <1>1, <1>10, <2>2, <3>1 DEF ApprovalPassesOnce
  <2> QED BY <2>1, <2>2
<1>12. ApprovalPassesOnce'
  BY <1>11 DEF ApprovalPassesOnce
<1> QED BY <1>7, <1>8, <1>12

\* A decision concerns the one request of its key.
LEMMA DecideFound ==
    ASSUME CLInv, NEW id, NEW status \in {"Approved", "Denied"}, Decide(id, status),
           NEW k, k = KeyOf(reqs[id])
    PROVE  /\ \A j \in Keys : Found(j)' = Found(j)
           /\ Found(k) = {id} /\ ~HasApproval(k)
           /\ HasApproval(k)' <=> status = "Approved"
           /\ \A j \in Keys \ {k} : HasApproval(j)' <=> HasApproval(j)
<1> USE DEF CLInv
<1>1. /\ id \in DOMAIN reqs /\ reqs[id].status = "Pending"
      /\ DOMAIN reqs' = DOMAIN reqs
      /\ \A i \in DOMAIN reqs \ {id} : reqs'[i] = reqs[i]
      /\ \A i \in DOMAIN reqs : KeyOf(reqs'[i]) = KeyOf(reqs[i])
      /\ k \in Keys /\ reqs'[id].status = status
  BY DecideEffect
<1>2. \A j \in Keys : Found(j)' = Found(j)
  BY <1>1 DEF Found
<1>3. Found(k) = {id}
  BY <1>1 DEF Found, OneRequestPerKey
<1>4. Found(k)' = {id}
  BY <1>1, <1>2, <1>3
<1>5. ~HasApproval(k)
  BY <1>1, <1>3 DEF HasApproval
<1>6. (\E i \in Found(k)' : reqs'[i].status = "Approved") <=> status = "Approved"
  BY <1>1, <1>4
<1>7. \A j \in Keys \ {k} : HasApproval(j)' <=> HasApproval(j)
  <2>1. \A j \in Keys \ {k} : id \notin Found(j)
    BY DEF Found
  <2>2. \A j \in Keys \ {k} : \A i \in Found(j) : reqs'[i] = reqs[i]
    BY <1>1, <2>1 DEF Found
  <2> QED BY <1>2, <2>2 DEF HasApproval
<1> QED BY <1>1, <1>2, <1>3, <1>5, <1>6, <1>7 DEF HasApproval

\* approve.
LEMMA ApproveInv ==
    ASSUME CLInv, NEW id, Approve(id)
    PROVE  CLInv'
<1> USE DEF CLInv
<1>k. PICK k : k = KeyOf(reqs[id])
  OBVIOUS
<1>1. /\ Decide(id, "Approved")
      /\ approved' = Count(approved, k) /\ passed' = passed
  BY <1>k DEF Approve
<1>2. LedgerTypeOK' /\ k \in Keys
  BY <1>1, <1>k, DecideEffect
<1>3. /\ \A j \in Keys : Found(j)' = Found(j)
      /\ ~HasApproval(k) /\ HasApproval(k)'
      /\ \A j \in Keys \ {k} : HasApproval(j)' <=> HasApproval(j)
  BY <1>1, <1>k, DecideFound
<1>4. passed \in [Keys -> Nat] /\ approved \in [Keys -> Nat]
  BY DEF CLTypeOK
<1>5. CLTypeOK'
  BY <1>1, <1>2, <1>4, CountType DEF CLTypeOK
<1>6. OneRequestPerKey'
  BY <1>3 DEF OneRequestPerKey
<1>7. ASSUME NEW j \in Keys
      PROVE  approved'[j] = passed'[j] + IF HasApproval(j)' THEN 1 ELSE 0
  <2>1. CASE j = k
    <3>1. approved[k] = passed[k] + 0
      BY <1>2, <1>3 DEF ApprovalPassesOnce
    <3>2. approved'[k] = passed'[k] + 1
      BY <1>1, <1>2, <1>4, <3>1, CountType
    <3> QED BY <1>3, <2>1, <3>2
  <2>2. CASE j # k
    <3>1. approved'[j] = approved[j]
      BY <1>1, <1>2, <1>4, <2>2, CountType
    <3> QED BY <1>1, <1>3, <2>2, <3>1 DEF ApprovalPassesOnce
  <2> QED BY <2>1, <2>2
<1>8. ApprovalPassesOnce'
  BY <1>7 DEF ApprovalPassesOnce
<1> QED BY <1>5, <1>6, <1>8

\* deny.
LEMMA DenyInv ==
    ASSUME CLInv, NEW id, Deny(id)
    PROVE  CLInv'
<1> USE DEF CLInv
<1>k. PICK k : k = KeyOf(reqs[id])
  OBVIOUS
<1>1. Decide(id, "Denied") /\ approved' = approved /\ passed' = passed
  BY DEF Deny
<1>2. LedgerTypeOK'
  BY <1>1, DecideEffect
<1>3. /\ \A j \in Keys : Found(j)' = Found(j)
      /\ ~HasApproval(k) /\ ~HasApproval(k)'
      /\ \A j \in Keys \ {k} : HasApproval(j)' <=> HasApproval(j)
  BY <1>1, <1>k, DecideFound
<1>4. CLTypeOK'
  BY <1>1, <1>2 DEF CLTypeOK
<1>5. OneRequestPerKey'
  BY <1>3 DEF OneRequestPerKey
<1>6. \A j \in Keys : HasApproval(j)' <=> HasApproval(j)
  BY <1>3
<1>7. ApprovalPassesOnce'
  BY <1>1, <1>6 DEF ApprovalPassesOnce
<1> QED BY <1>4, <1>5, <1>7

\* Every request of a key is found under one id, and its approvals and passes
\* balance, in every state the ledger can reach (policy.rs, ConsentLedger).
THEOREM LedgerInvariant == CLSpec => []CLInv
<1>1. CLInit => CLInv
  <2> SUFFICES ASSUME CLInit PROVE CLInv
    OBVIOUS
  <2>1. CLTypeOK
    BY MaxSeqAssumption DEF CLInit, CLTypeOK, LedgerTypeOK
  <2>2. \A k \in Keys : Found(k) = {}
    BY DEF CLInit, Found
  <2>3. OneRequestPerKey
    BY <2>2 DEF OneRequestPerKey
  <2>4. \A k \in Keys : ~HasApproval(k)
    BY <2>2 DEF HasApproval
  <2>5. ApprovalPassesOnce
    BY <2>4 DEF ApprovalPassesOnce, CLInit
  <2> QED BY <2>1, <2>3, <2>5 DEF CLInv
<1>2. CLInv /\ [CLNext]_clVars => CLInv'
  <2> SUFFICES ASSUME CLInv, [CLNext]_clVars PROVE CLInv'
    OBVIOUS
  <2>1. ASSUME NEW k \in Keys, Request(k) PROVE CLInv'
    BY <2>1, RequestInv
  <2>2. ASSUME NEW k \in Keys, Pass(k) PROVE CLInv'
    BY <2>2, PassInv
  <2>3. ASSUME NEW id, Approve(id) PROVE CLInv'
    BY <2>3, ApproveInv
  <2>4. ASSUME NEW id, Deny(id) PROVE CLInv'
    BY <2>4, DenyInv
  <2>5. CASE UNCHANGED clVars
    <3>1. reqs' = reqs /\ seq' = seq /\ approved' = approved /\ passed' = passed
      BY <2>5 DEF clVars
    <3> QED BY <3>1 DEF CLInv, CLTypeOK, LedgerTypeOK, OneRequestPerKey,
                        ApprovalPassesOnce, HasApproval, Found
  <2> QED BY <2>1, <2>2, <2>3, <2>4, <2>5 DEF CLNext
<1> QED BY <1>1, <1>2, PTL DEF CLSpec

\* The types of ids, requests and counters (ConsentLedger, Req).
THEOREM LedgerTypeCorrect == CLSpec => []CLTypeOK
<1>1. CLInv => CLTypeOK
  BY DEF CLInv
<1> QED BY <1>1, LedgerInvariant, PTL

\* request_or_check never has two requests of one key to choose from.
THEOREM OneRequest == CLSpec => []OneRequestPerKey
<1>1. CLInv => OneRequestPerKey
  BY DEF CLInv
<1> QED BY <1>1, LedgerInvariant, PTL

\* An approval is consumed by exactly one pass of its own key.
THEOREM PassesOnce == CLSpec => []ApprovalPassesOnce
<1>1. CLInv => ApprovalPassesOnce
  BY DEF CLInv
<1> QED BY <1>1, LedgerInvariant, PTL

(***************************************************************************)
(* Ids                                                                     *)
(***************************************************************************)
\* An id never changes its key, comes back, or is decided twice (request_or_check
\* counts ids up; approve and deny insist on a pending request).
THEOREM IdsKeepTheirMeaning == CLSpec => IdKeepsItsMeaning
<1> DEFINE Keeps == \A id \in 1 .. seq : id \in DOMAIN reqs' =>
                      /\ id \in DOMAIN reqs
                      /\ KeyOf(reqs'[id]) = KeyOf(reqs[id])
                      /\ reqs[id].status # "Pending" => reqs'[id] = reqs[id]
<1>1. CLInv /\ [CLNext]_clVars => [Keeps]_clVars
  <2> SUFFICES ASSUME CLInv, CLNext PROVE Keeps
    OBVIOUS
  <2> USE DEF CLInv
  <2>1. ASSUME NEW k \in Keys, Request(k) PROVE Keeps
    <3>1. Register(k)
      BY <2>1 DEF Request
    <3>2. /\ DOMAIN reqs' = DOMAIN reqs \cup {seq + 1}
          /\ \A i \in DOMAIN reqs : reqs'[i] = reqs[i]
      BY <3>1, RegisterEffect
    <3>3. seq + 1 \notin 1 .. seq
      BY DEF CLTypeOK, LedgerTypeOK
    <3> QED BY <3>2, <3>3
  <2>2. ASSUME NEW k \in Keys, Pass(k) PROVE Keeps
    <3>1. Consume(k)
      BY <2>2 DEF Pass
    <3>2. \E id \in Found(k) :
              /\ DOMAIN reqs' = DOMAIN reqs \ {id}
              /\ \A i \in DOMAIN reqs' : reqs'[i] = reqs[i]
      BY <3>1, ConsumeEffect
    <3> QED BY <3>2
  <2>3. ASSUME NEW id, Approve(id) \/ Deny(id) PROVE Keeps
    <3>1. PICK status \in {"Approved", "Denied"} : Decide(id, status)
      BY <2>3 DEF Approve, Deny
    <3>2. /\ reqs[id].status = "Pending"
          /\ DOMAIN reqs' = DOMAIN reqs
          /\ \A i \in DOMAIN reqs \ {id} : reqs'[i] = reqs[i]
          /\ \A i \in DOMAIN reqs : KeyOf(reqs'[i]) = KeyOf(reqs[i])
      BY <3>1, DecideEffect
    <3> QED BY <3>2
  <2> QED BY <2>1, <2>2, <2>3 DEF CLNext
<1> QED BY <1>1, LedgerInvariant, PTL DEF CLSpec, IdKeepsItsMeaning

(***************************************************************************)
(* Refinement of ConsentPolicy                                             *)
(***************************************************************************)
ConsentBar == [k \in Keys |-> ConsentOf(k)]

\* The consent of a key depends on nothing but the requests found for it.
LEMMA ConsentDependsOnFound ==
    ASSUME NEW k, Found(k)' = Found(k), \A i \in Found(k) : reqs'[i] = reqs[i]
    PROVE  ConsentOf(k)' = ConsentOf(k)
<1>1. (HasApproval(k)' <=> HasApproval(k)) /\ (Refused(k)' <=> Refused(k))
  BY DEF HasApproval, Refused
<1> QED BY <1>1 DEF ConsentOf

\* With one request, the consent of a key is the status of that request.
LEMMA ConsentIsStatus ==
    ASSUME NEW k, NEW id, Found(k) = {id}
    PROVE  /\ reqs[id].status = "Pending" => ConsentOf(k) = "pending"
           /\ reqs[id].status = "Approved" => ConsentOf(k) = "approved"
           /\ reqs[id].status = "Denied" => ConsentOf(k) = "denied"
<1>1. /\ HasApproval(k) <=> reqs[id].status = "Approved"
      /\ Refused(k) <=> reqs[id].status = "Denied"
  BY DEF HasApproval, Refused
<1>2. Found(k) # {}
  OBVIOUS
<1> QED BY <1>1, <1>2 DEF ConsentOf

\* A step that moves one key and leaves the requests of the others alone is a
\* Move of the policy.
LEMMA MoveOfBar ==
    ASSUME NEW k \in Keys, NEW from, NEW to,
           ConsentOf(k) = from, ConsentOf(k)' = to,
           \A j \in Keys \ {k} : ConsentOf(j)' = ConsentOf(j)
    PROVE  CP!Move(k, from, to)
<1>1. ConsentBar[k] = from
  BY DEF ConsentBar
<1>2. ConsentBar' = [ConsentBar EXCEPT ![k] = to]
  BY DEF ConsentBar
<1> QED BY <1>1, <1>2 DEF CP!Move, ConsentBar

\* Each step of the ledger is a step or a stutter of ConsentPolicy.
LEMMA StepImplementsPolicy ==
    ASSUME CLInv, CLNext
    PROVE  CP!CPNext
<1> USE DEF CLInv
<1>1. ASSUME NEW k \in Keys, Request(k) PROVE CP!Ask(k)
  <2>1. Register(k) /\ Found(k) = {}
    BY <1>1 DEF Request, Register
  <2>2. /\ DOMAIN reqs' = DOMAIN reqs \cup {seq + 1} /\ seq + 1 \notin DOMAIN reqs
        /\ \A i \in DOMAIN reqs : reqs'[i] = reqs[i]
        /\ KeyOf(reqs'[seq + 1]) = k /\ reqs'[seq + 1].status = "Pending"
    BY <2>1, RegisterEffect
  <2>3. Found(k)' = {seq + 1} /\ \A j \in Keys \ {k} : Found(j)' = Found(j)
    BY <2>1, <2>2 DEF Found
  <2>4. ConsentOf(k) = "none"
    BY <2>1 DEF ConsentOf
  <2>5. ConsentOf(k)' = "pending"
    <3>1. ~HasApproval(k)' /\ ~Refused(k)'
      BY <2>2, <2>3 DEF HasApproval, Refused
    <3>2. Found(k)' # {}
      BY <2>3
    <3> QED BY <3>1, <3>2 DEF ConsentOf
  <2>6. \A j \in Keys \ {k} : ConsentOf(j)' = ConsentOf(j)
    <3>1. \A j \in Keys \ {k} : \A i \in Found(j) : reqs'[i] = reqs[i]
      BY <2>2 DEF Found
    <3> QED BY <2>3, <3>1, ConsentDependsOnFound
  <2> QED BY <2>4, <2>5, <2>6, MoveOfBar DEF CP!Ask
<1>2. ASSUME NEW k \in Keys, Pass(k) PROVE CP!Pass(k)
  <2>1. Consume(k)
    BY <1>2 DEF Pass
  <2>2. PICK id \in Found(k) :
            /\ reqs[id].status = "Approved"
            /\ DOMAIN reqs' = DOMAIN reqs \ {id}
            /\ \A i \in DOMAIN reqs' : reqs'[i] = reqs[i]
    BY <2>1, ConsumeEffect
  <2>3. Found(k) = {id}
    BY <2>2 DEF OneRequestPerKey
  <2>4. Found(k)' = {} /\ \A j \in Keys \ {k} : Found(j)' = Found(j)
    BY <2>2, <2>3 DEF Found
  <2>5. ConsentOf(k) = "approved" /\ ConsentOf(k)' = "none"
    <3>1. ConsentOf(k) = "approved"
      BY <2>2, <2>3, ConsentIsStatus
    <3>2. ConsentOf(k)' = "none"
      BY <2>4 DEF ConsentOf
    <3> QED BY <3>1, <3>2
  <2>6. \A j \in Keys \ {k} : ConsentOf(j)' = ConsentOf(j)
    <3>1. \A j \in Keys \ {k} : \A i \in Found(j) : reqs'[i] = reqs[i]
      BY <2>2, <2>3 DEF Found
    <3> QED BY <2>4, <3>1, ConsentDependsOnFound
  <2> QED BY <2>5, <2>6, MoveOfBar DEF CP!Pass
<1>3. ASSUME NEW id, NEW status \in {"Approved", "Denied"}, Decide(id, status),
             NEW k, k = KeyOf(reqs[id])
      PROVE  /\ k \in Keys
             /\ CP!Move(k, "pending", IF status = "Approved" THEN "approved" ELSE "denied")
  <2>1. /\ k \in Keys /\ reqs[id].status = "Pending" /\ reqs'[id].status = status
        /\ \A i \in DOMAIN reqs \ {id} : reqs'[i] = reqs[i]
    BY <1>3, DecideEffect
  <2>2. /\ \A j \in Keys : Found(j)' = Found(j)
        /\ Found(k) = {id}
    BY <1>3, DecideFound
  <2>3. ConsentOf(k) = "pending"
    BY <2>1, <2>2, ConsentIsStatus
  <2>4. Found(k)' = {id}
    BY <2>1, <2>2
  <2>5. ConsentOf(k)' = IF status = "Approved" THEN "approved" ELSE "denied"
    <3>1. /\ HasApproval(k)' <=> status = "Approved"
          /\ Refused(k)' <=> status = "Denied"
      BY <2>1, <2>4 DEF HasApproval, Refused
    <3> QED BY <1>3, <2>4, <3>1 DEF ConsentOf
  <2>6. \A j \in Keys \ {k} : ConsentOf(j)' = ConsentOf(j)
    <3>1. \A j \in Keys \ {k} : \A i \in Found(j) : reqs'[i] = reqs[i]
      BY <1>3, <2>1 DEF Found
    <3> QED BY <2>2, <3>1, ConsentDependsOnFound
  <2> QED BY <2>1, <2>3, <2>5, <2>6, MoveOfBar
<1>4. ASSUME NEW id, Approve(id) PROVE \E k \in Keys : CP!Approve(k)
  <2>1. Decide(id, "Approved")
    BY <1>4 DEF Approve
  <2>2. PICK k : k = KeyOf(reqs[id])
    OBVIOUS
  <2>3. k \in Keys /\ CP!Move(k, "pending", "approved")
    BY <1>3, <2>1, <2>2
  <2> QED BY <2>3 DEF CP!Approve
<1>5. ASSUME NEW id, Deny(id) PROVE \E k \in Keys : CP!Deny(k)
  <2>1. Decide(id, "Denied")
    BY <1>5 DEF Deny
  <2>2. PICK k : k = KeyOf(reqs[id])
    OBVIOUS
  <2>3. k \in Keys /\ CP!Move(k, "pending", "denied")
    BY <1>3, <2>1, <2>2
  <2> QED BY <2>3 DEF CP!Deny
<1> QED BY <1>1, <1>2, <1>4, <1>5 DEF CLNext, CP!CPNext

\* The numbered requests of the hash map behave as one consent per key: none,
\* pending, approved until used, or denied for good (policy.rs, lines 9-13).
THEOREM ImplementsPolicy == CLSpec => ImplementsConsentPolicy
<1>1. CLInit => CP!CPInit
  <2> SUFFICES ASSUME CLInit PROVE CP!CPInit
    OBVIOUS
  <2>1. \A k \in Keys : ConsentOf(k) = "none"
    BY DEF CLInit, Found, ConsentOf
  <2> QED BY <2>1 DEF CP!CPInit
<1>2. CLInv /\ [CLNext]_clVars => [CP!CPNext]_ConsentBar
  <2>1. CLInv /\ CLNext => CP!CPNext
    BY StepImplementsPolicy
  <2>2. UNCHANGED clVars => UNCHANGED ConsentBar
    BY DEF clVars, ConsentBar, ConsentOf, HasApproval, Refused, Found
  <2> QED BY <2>1, <2>2
<1>3. (CLInv /\ [CLNext]_clVars => [CP!CPNext]_[k \in Keys |-> ConsentOf(k)])
  BY <1>2 DEF ConsentBar
<1> QED BY <1>1, <1>3, LedgerInvariant, PTL DEF CLSpec, ImplementsConsentPolicy, CP!CPSpec
=============================================================================
