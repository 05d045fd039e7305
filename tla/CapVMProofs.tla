----------------------------- MODULE CapVMProofs -----------------------------
(***************************************************************************)
(* Proofs about CapVM for any tree of directories and any bounds: the      *)
(* types, that an open handle keeps its meaning, and confinement.          *)
(*                                                                         *)
(* Every step of a host or of a guest is a step of the registry or leaves  *)
(* the registry alone, so RegInv of RegistryProofs holds, references stay  *)
(* and a capability keeps its parent (KeepsParents).  Confined speaks of   *)
(* all sets of references closed under `parent': cut down to the old       *)
(* references, such a set is still closed, because no old capability has a *)
(* new parent.  A derived capability is in such a set together with the    *)
(* capability it was derived from, which the guest holds.                  *)
(***************************************************************************)
EXTENDS CapVM, RegistryProofs

\* A set of references that contains the parents of its members.
Closed(chain) ==
    chain \in SUBSET Refs /\ \A x \in chain : caps[x].parent \in chain \cup {None}

\* Every closed set around reference r has something in it the host lent.
Reaches(r) == \A chain : Closed(chain) /\ r \in chain => chain \cap lent # {}

VMInv == RegInv /\ VMTypeOK /\ Confined

LEMMA ConfinedIsReach == Confined <=> \A r \in Held : Reaches(r)
BY DEF Confined, Reaches, Closed

(***************************************************************************)
(* The table of handles                                                    *)
(***************************************************************************)
\* install overwrites a free slot or adds one at the end.
LEMMA PlacedKeepsLive ==
    ASSUME NEW S, NEW t \in Seq(S), NEW r \in S
    PROVE  /\ Placed(t, r) \in Seq(S)
           /\ \A h \in Live(t) : Placed(t, r)[h] = t[h]
           /\ \A h \in DOMAIN Placed(t, r) :
                  Placed(t, r)[h] = r \/ (h \in DOMAIN t /\ Placed(t, r)[h] = t[h])
<1>1. Len(t) \in Nat /\ DOMAIN t = 1 .. Len(t) /\ Live(t) \subseteq DOMAIN t
  BY LenProperties DEF Live
<1>2. CASE Live(t) = DOMAIN t
  <2>1. Placed(t, r) = Append(t, r)
    BY <1>2 DEF Placed
  <2>2. /\ Append(t, r) \in Seq(S) /\ Len(Append(t, r)) = Len(t) + 1
        /\ \A h \in 1 .. Len(t) : Append(t, r)[h] = t[h]
        /\ Append(t, r)[Len(t) + 1] = r
        /\ DOMAIN Append(t, r) = 1 .. Len(t) + 1
    BY AppendProperties, LenProperties
  <2> QED BY <1>1, <2>1, <2>2
<1>3. CASE Live(t) # DOMAIN t
  <2> DEFINE IsFree(h) == t[h] = None /\ \A i \in 1 .. h - 1 : t[i] # None
             free == CHOOSE h \in DOMAIN t : IsFree(h)
             empty == {h \in DOMAIN t : t[h] = None}
  <2>1. empty \in SUBSET Nat /\ empty # {}
    BY <1>1, <1>3 DEF Live
  <2>2. PICK x \in empty : \A y \in empty : x <= y
    BY <2>1, LeastNat
  <2>3. IsFree(x)
    BY <1>1, <2>2
  <2>4. free \in DOMAIN t /\ t[free] = None
    BY <2>2, <2>3
  <2>5. Placed(t, r) = [t EXCEPT ![free] = r]
    BY <1>3 DEF Placed
  <2> HIDE DEF free
  <2>6. Placed(t, r) \in Seq(S) /\ DOMAIN Placed(t, r) = DOMAIN t
    BY <2>4, <2>5, ExceptSeq
  <2> QED BY <1>1, <2>4, <2>5, <2>6 DEF Live
<1> QED BY <1>2, <1>3

(***************************************************************************)
(* The registry under a guest                                              *)
(***************************************************************************)
\* References stay, and so does what a capability was derived from.
KeepsParents ==
    /\ Refs \subseteq Refs'
    /\ \A r \in Refs : caps'[r].parent = caps[r].parent

LEMMA StepsKeepParents ==
    ASSUME RegInv, [RegNext]_regVars
    PROVE  KeepsParents
<1> USE DEF RegInv
<1>1. ASSUME NEW c, Adds(c) PROVE KeepsParents
  BY <1>1, AddsKeepsOld DEF KeepsParents
<1>2. CASE Revokes
  BY <1>2, RevokesKeepsRest DEF KeepsParents
<1>3. CASE UNCHANGED regVars
  BY <1>3 DEF regVars, KeepsParents, Refs
<1> QED BY <1>1, <1>2, <1>3, OthersRevoke

\* The host's use of the session and the guest's system calls are operations of
\* the registry; the table alone is the host's and the guest's.
LEMMA StepsOfRegistry ==
    ASSUME VMInv, [VMNext]_vmVars
    PROVE  [RegNext]_regVars
<1>1. ASSUME NEW h \in DOMAIN clist, NEW ok \in BOOLEAN, CapUse(h, ok) PROVE [RegNext]_regVars
  <2>1. clist[h] \in Refs
    BY <1>1, ElementOfSeq DEF VMInv, VMTypeOK, CapUse, Resolves, Live
  <2> QED BY <1>1, <2>1 DEF CapUse, RegNext, Inspect, Invoke
<1>2. ASSUME NEW h \in DOMAIN clist, NEW ok \in BOOLEAN, NEW d \in Dirs, CapDeriveSub(h, d, ok)
      PROVE  [RegNext]_regVars
  <2>1. clist[h] \in Refs
    BY <1>2, ElementOfSeq DEF VMInv, VMTypeOK, CapDeriveSub, Resolves, Live
  <2> QED BY <1>2, <2>1 DEF CapDeriveSub, RegNext, Derive
<1>3. CASE Host
  BY <1>3 DEF Host
<1>4. CASE NewProcess \/ EndProcess \/ (\E r \in Refs : Install(r))
           \/ (\E h \in DOMAIN clist : CapClose(h))
  BY <1>4 DEF NewProcess, EndProcess, Install, CapClose
<1>5. CASE UNCHANGED vmVars
  BY <1>5 DEF vmVars
<1> QED BY <1>1, <1>2, <1>3, <1>4, <1>5 DEF VMNext

\* What is closed after a step was, within the old references, closed before.
LEMMA ClosedBefore ==
    ASSUME RegInv, KeepsParents, NEW chain, Closed(chain)'
    PROVE  Closed(chain \cap Refs)
<1> USE DEF RegInv
<1>1. SUFFICES ASSUME NEW x \in chain \cap Refs
               PROVE  caps[x].parent \in (chain \cap Refs) \cup {None}
  BY DEF Closed
<1>2. caps[x].parent \in chain \cup {None}
  BY DEF Closed, KeepsParents
<1>3. caps[x].parent \in Nat /\ caps[x].parent < x /\ x \in 1 .. Len(caps)
  BY CapAt DEF ParentsAreEarlier, Cap
<1>4. caps[x].parent # None => caps[x].parent \in Refs
  BY <1>3, CapAt DEF None
<1> QED BY <1>2, <1>4

\* As long as nothing lent is taken back, what reaches it still does.
LEMMA ReachKept ==
    ASSUME RegInv, KeepsParents, lent \subseteq lent', NEW r \in Refs, Reaches(r)
    PROVE  Reaches(r)'
<1> SUFFICES ASSUME NEW chain, Closed(chain)', r \in chain
             PROVE  chain \cap lent' # {}
  BY DEF Reaches
<1>1. Closed(chain \cap Refs) /\ r \in chain \cap Refs
  BY ClosedBefore
<1> QED BY <1>1 DEF Reaches

(***************************************************************************)
(* The actions of the host and of the guest                                *)
(***************************************************************************)
\* What a guest holds is a reference of its session.
LEMMA HeldAreRefs ==
    ASSUME VMTypeOK
    PROVE  /\ Held \subseteq Refs /\ None \notin Held
           /\ clist = << >> => Held = {}
<1>1. \A h \in Live(clist) : clist[h] \in Refs /\ clist[h] # None
  BY ElementOfSeq DEF VMTypeOK, Live
<1> QED BY <1>1 DEF Held, Live

\* The part of the invariant that is about the table and what was lent.
TableOK ==
    /\ running \in BOOLEAN
    /\ clist \in Seq(Refs \cup {None})
    /\ lent \subseteq Refs
    /\ ~running => clist = << >> /\ lent = {}
    /\ \A r \in Held : Reaches(r)

\* The table is empty before and after, or the step leaves it alone.
LEMMA IdleStep ==
    ASSUME VMInv, KeepsParents, Host \/ NewProcess \/ EndProcess
    PROVE  TableOK'
<1>1. clist' = << >> /\ running' \in BOOLEAN /\ lent' = {}
  BY DEF Host, NewProcess, EndProcess, VMInv, VMTypeOK
<1>2. Held' = {}
  BY <1>1 DEF Held, Live
<1>3. clist' \in Seq(Refs' \cup {None})
  BY <1>1
<1> QED BY <1>1, <1>2, <1>3 DEF TableOK

\* A reference r is put into the table next to what is there.
LEMMA PlaceStep ==
    ASSUME VMInv, KeepsParents, lent \subseteq lent', lent' \subseteq Refs',
           running, running', NEW r \in Refs', r # None, clist' = Placed(clist, r), Reaches(r)'
    PROVE  TableOK'
<1>1. /\ clist \in Seq(Refs' \cup {None}) /\ Held \subseteq Refs
      /\ \A q \in Held : Reaches(q)
  BY HeldAreRefs, SeqMonotonic, ConfinedIsReach DEF VMInv, VMTypeOK, KeepsParents
<1>2. /\ clist' \in Seq(Refs' \cup {None})
      /\ \A h \in DOMAIN clist' : clist'[h] = r \/ (h \in DOMAIN clist /\ clist'[h] = clist[h])
  BY <1>1, PlacedKeepsLive
<1>3. Held' \subseteq Held \cup {r}
  BY <1>2 DEF Held, Live
<1>4. \A q \in Held : Reaches(q)'
  BY <1>1, ReachKept DEF VMInv
<1> QED BY <1>2, <1>3, <1>4 DEF TableOK, VMInv

\* install: the host lends what it puts into the table.
LEMMA InstallStep ==
    ASSUME VMInv, KeepsParents, NEW r \in Refs, Install(r)
    PROVE  TableOK'
<1>1. /\ lent' = lent \cup {r} /\ clist' = Placed(clist, r) /\ running /\ running'
      /\ caps' = caps
  BY DEF Install, Place, regVars
<1>2. r \in Refs' /\ r # None
  BY <1>1, CapAt DEF VMInv, RegInv, Refs, None
<1>3. Reaches(r)'
  BY <1>1 DEF Reaches
<1>4. lent' \subseteq Refs'
  BY <1>1, <1>2 DEF VMInv, VMTypeOK, Refs
<1> QED BY <1>1, <1>2, <1>3, <1>4, PlaceStep

\* cap_derive_sub: what is derived belongs to every closed set only together
\* with the capability it was derived from.
LEMMA DeriveStep ==
    ASSUME VMInv, KeepsParents, NEW h \in DOMAIN clist, NEW d \in Dirs, NEW ok \in BOOLEAN,
           CapDeriveSub(h, d, ok)
    PROVE  TableOK'
<1>1. PICK p : p = clist[h]
  OBVIOUS
<1>2. PICK n : n = Len(caps')
  OBVIOUS
<1>3. p \in Held /\ p \in Refs /\ p # None /\ Reaches(p)
  BY <1>1, HeldAreRefs, ConfinedIsReach DEF CapDeriveSub, Resolves, VMInv, Held
<1>4. /\ caps' = Append(caps, DirCap(d, caps[p].ops, caps[p].taint, p))
      /\ clist' = Placed(clist, n) /\ running /\ running' /\ lent' = lent
  BY <1>1, <1>2 DEF CapDeriveSub, DeriveSub, Insert, Place
<1>5. caps \in Seq(Cap) /\ Refs = 1 .. Len(caps) /\ Len(caps) \in Nat
  BY CapAt DEF VMInv, RegInv, RegTypeOK
<1>6. DirCap(d, caps[p].ops, caps[p].taint, p).parent = p
  BY DEF DirCap, Plain
<1>7. n = Len(caps) + 1 /\ caps'[n].parent = p /\ Refs' = 1 .. n
  BY <1>2, <1>4, <1>5, <1>6 DEF Refs
<1>8. n \in Refs' /\ n # None
  BY <1>5, <1>7 DEF None
<1>9. Reaches(p)'
  BY <1>3, <1>4, ReachKept DEF VMInv
<1>10. Reaches(n)'
  <2> SUFFICES ASSUME NEW chain, Closed(chain)', n \in chain
               PROVE  chain \cap lent' # {}
    BY DEF Reaches
  <2>1. p \in chain
    BY <1>3, <1>7 DEF Closed
  <2> QED BY <1>9, <2>1 DEF Reaches
<1>11. lent' \subseteq Refs'
  BY <1>4 DEF VMInv, VMTypeOK, KeepsParents
<1> QED BY <1>4, <1>8, <1>10, <1>11, PlaceStep

\* A use, a close, or nothing: the table at most shrinks.
LEMMA ShrinkStep ==
    ASSUME VMInv, KeepsParents,
           \/ UNCHANGED <<running, clist, lent>>
           \/ \E h \in DOMAIN clist : CapClose(h)
    PROVE  TableOK'
<1>1. running' = running /\ lent' = lent /\ lent' \subseteq Refs'
  BY DEF CapClose, VMInv, VMTypeOK, KeepsParents
<1>2. /\ clist \in Seq(Refs' \cup {None}) /\ Held \subseteq Refs
      /\ \A q \in Held : Reaches(q)
  BY HeldAreRefs, SeqMonotonic, ConfinedIsReach DEF VMInv, VMTypeOK, KeepsParents
<1>3. /\ clist' \in Seq(Refs' \cup {None}) /\ Held' \subseteq Held
      /\ clist = << >> => clist' = << >>
  <2>1. CASE clist' = clist
    BY <1>2, <2>1 DEF Held, Live
  <2>2. ASSUME NEW h \in DOMAIN clist, CapClose(h)
        PROVE  /\ clist' \in Seq(Refs' \cup {None}) /\ Held' \subseteq Held
               /\ clist = << >> => clist' = << >>
    <3>1. clist' = [clist EXCEPT ![h] = None]
      BY <2>2 DEF CapClose
    <3>2. clist' \in Seq(Refs' \cup {None}) /\ DOMAIN clist' = DOMAIN clist
      BY <1>2, <3>1, ExceptSeq
    <3>3. Held' \subseteq Held /\ clist # << >>
      BY <3>1, <3>2 DEF Held, Live
    <3> QED BY <3>2, <3>3
  <2> QED BY <2>1, <2>2
<1>4. \A q \in Held : Reaches(q)'
  BY <1>1, <1>2, ReachKept DEF VMInv
<1> QED BY <1>1, <1>3, <1>4 DEF TableOK, VMInv, VMTypeOK

\* Every step keeps the table in order.
LEMMA TableStep ==
    ASSUME VMInv, [VMNext]_vmVars
    PROVE  TableOK'
<1>1. KeepsParents
  BY StepsOfRegistry, StepsKeepParents DEF VMInv
<1>2. ASSUME NEW h \in DOMAIN clist, NEW ok \in BOOLEAN, CapUse(h, ok) PROVE TableOK'
  BY <1>1, <1>2, ShrinkStep DEF CapUse
<1>3. CASE UNCHANGED vmVars
  BY <1>1, <1>3, ShrinkStep DEF vmVars
<1> QED BY <1>1, <1>2, <1>3, IdleStep, InstallStep, DeriveStep, ShrinkStep DEF VMNext

\* A handle that was open before and after a step means the same capability.
LEMMA HandlesStep ==
    ASSUME VMInv, [VMNext]_vmVars, running, running'
    PROVE  \A h \in Live(clist) : clist'[h] \in {clist[h], None}
<1> SUFFICES ASSUME NEW h \in Live(clist) PROVE clist'[h] \in {clist[h], None}
  OBVIOUS
<1>1. ASSUME NEW r, r # None, Place(r) PROVE clist'[h] = clist[h]
  <2>1. PICK S : S = Refs \cup {None, r}
    OBVIOUS
  <2>2. clist \in Seq(S) /\ r \in S
    BY <2>1, SeqMonotonic DEF VMInv, VMTypeOK
  <2>3. \A g \in Live(clist) : Placed(clist, r)[g] = clist[g]
    BY <2>2, PlacedKeepsLive
  <2> QED BY <1>1, <2>3 DEF Place
<1>2. ASSUME NEW r \in Refs, Install(r) PROVE clist'[h] = clist[h]
  <2>1. r # None
    BY CapAt DEF VMInv, RegInv, None
  <2> QED BY <1>1, <1>2, <2>1 DEF Install
<1>3. ASSUME NEW g \in DOMAIN clist, NEW d \in Dirs, NEW ok \in BOOLEAN, CapDeriveSub(g, d, ok)
      PROVE  clist'[h] = clist[h]
  <2>1. caps \in Seq(Cap) /\ Len(caps') = Len(caps) + 1 /\ Len(caps) \in Nat
    BY <1>3, CapAt DEF CapDeriveSub, DeriveSub, Insert, VMInv, RegInv, RegTypeOK
  <2> QED BY <1>1, <1>3, <2>1 DEF CapDeriveSub, None
<1>4. ASSUME NEW g \in DOMAIN clist, CapClose(g) PROVE clist'[h] \in {clist[h], None}
  BY <1>4 DEF CapClose, Live, VMInv, VMTypeOK
<1>5. ASSUME NEW g \in DOMAIN clist, NEW ok \in BOOLEAN, CapUse(g, ok) PROVE clist' = clist
  BY <1>5 DEF CapUse
<1>6. CASE UNCHANGED vmVars \/ Host \/ NewProcess \/ EndProcess
  BY <1>6 DEF vmVars, Host, NewProcess, EndProcess
<1> QED BY <1>2, <1>3, <1>4, <1>5, <1>6 DEF VMNext

(***************************************************************************)
(* Theorems                                                                *)
(***************************************************************************)
\* The inductive invariant of a session with guests.
THEOREM VMInvariant == VMSpec => []VMInv
<1>1. VMInit => VMInv
  <2> SUFFICES ASSUME VMInit PROVE VMInv
    OBVIOUS
  <2>1. RegInv
    BY RegInitHolds DEF VMInit
  <2>2. clist = << >> /\ lent = {} /\ running = FALSE
    BY DEF VMInit
  <2>3. VMTypeOK
    <3>1. clist \in Seq(Refs \cup {None})
      BY <2>2
    <3> QED BY <2>1, <2>2, <3>1 DEF VMTypeOK, RegInv
  <2>4. Confined
    BY <2>2 DEF Confined, Held, Live
  <2> QED BY <2>1, <2>3, <2>4 DEF VMInv
<1>2. VMInv /\ [VMNext]_vmVars => VMInv'
  <2> SUFFICES ASSUME VMInv, [VMNext]_vmVars PROVE VMInv'
    OBVIOUS
  <2>1. RegInv'
    BY StepsOfRegistry, RegInvStep DEF VMInv
  <2>2. TableOK'
    BY TableStep
  <2>3. Confined'
    BY <2>2 DEF TableOK, Confined, Reaches, Closed
  <2>4. VMTypeOK'
    BY <2>1, <2>2 DEF TableOK, VMTypeOK, RegInv
  <2> QED BY <2>1, <2>3, <2>4 DEF VMInv
<1> QED BY <1>1, <1>2, PTL DEF VMSpec

\* The table holds references of the session, and is empty between processes.
THEOREM VMTypeCorrect == VMSpec => []VMTypeOK
<1>1. VMInv => VMTypeOK
  BY DEF VMInv
<1> QED BY <1>1, VMInvariant, PTL

\* No sequence of system calls gives a guest a capability that was not lent to
\* it or derived from one that was.
THEOREM GuestsAreConfined == VMSpec => []Confined
<1>1. VMInv => Confined
  BY DEF VMInv
<1> QED BY <1>1, VMInvariant, PTL

\* install and cap_derive_sub reuse slots, but only closed ones.
THEOREM HandlesKeepTheirMeaning == VMSpec => OpenHandlesAreStable
<1>1. VMInv /\ [VMNext]_vmVars =>
        [running /\ running' => \A h \in Live(clist) : clist'[h] \in {clist[h], None}]_vmVars
  BY HandlesStep
<1> QED BY <1>1, VMInvariant, PTL DEF VMSpec, OpenHandlesAreStable
=============================================================================
