------------------------------- MODULE CapVM -------------------------------
(***************************************************************************)
(* The handle-indexed system calls of a guest (capable-broker/src/capvm.rs)*)
(* on top of the registry of its session.  A GuestProcess holds a table of *)
(* handles (the C-list) and the only reference to the Session; the host    *)
(* puts capabilities into the table, and the guest names what it uses by   *)
(* its handle and nothing else.  As long as the process exists the session *)
(* is lent to it, so the host uses the session directly only between two   *)
(* processes.                                                              *)
(*                                                                         *)
(* A system call on a handle that does not resolve changes nothing; one on *)
(* a handle that does is the registry's operation, refused or not.         *)
(*                                                                         *)
(* A definition whose name starts with Bug_ is a defect of the definition  *)
(* that follows it; the specification never uses one.                      *)
(***************************************************************************)
EXTENDS Registry

CONSTANT MaxHandles \* bound on the handles a process has open at a time

ASSUME MaxHandlesAssumption == MaxHandles \in Nat

VARIABLES
    running, \* whether there is a GuestProcess
    clist,   \* CList.entries: the reference of each handle, or None
    lent     \* history: what the host has installed in this process

vmVars == <<regVars, running, clist, lent>>

Live(t) == {h \in DOMAIN t : t[h] # None}
Resolves(h) == h \in Live(clist)

VMInit ==
    /\ RegInit
    /\ running = FALSE
    /\ clist = << >> /\ lent = {}

(***************************************************************************)
(* CList                                                                   *)
(***************************************************************************)
\* install: the lowest free slot, or a new one at the end.
Bug_SlotAfterLast(t, r) ==
    LET h == Cardinality(Live(t)) + 1
    IN  [i \in DOMAIN t \cup {h} |-> IF i = h THEN r ELSE t[i]]

Placed(t, r) ==
    IF Live(t) = DOMAIN t
      THEN Append(t, r)
      ELSE LET free == CHOOSE h \in DOMAIN t :
                           t[h] = None /\ \A i \in 1 .. h - 1 : t[i] # None
           IN  [t EXCEPT ![free] = r]

Place(r) ==
    /\ Cardinality(Live(clist)) < MaxHandles
    /\ clist' = Placed(clist, r)

(***************************************************************************)
(* The host                                                                *)
(***************************************************************************)
Host == ~running /\ RegNext /\ UNCHANGED <<running, clist, lent>>

NewProcess ==
    /\ ~running
    /\ running' = TRUE
    /\ UNCHANGED <<regVars, clist, lent>>

Install(r) ==
    /\ running
    /\ Place(r)
    /\ lent' = lent \cup {r}
    /\ UNCHANGED <<regVars, running>>

\* The process is dropped with its table, and the session is free again.
Bug_TableSurvives ==
    /\ running
    /\ running' = FALSE
    /\ lent' = {}
    /\ UNCHANGED <<regVars, clist>>

EndProcess ==
    /\ running
    /\ running' = FALSE
    /\ clist' = << >> /\ lent' = {}
    /\ UNCHANGED regVars

(***************************************************************************)
(* Syscalls                                                                *)
(***************************************************************************)
\* cap_read, cap_list and cap_exec resolve the handle and pass on.
CapUse(h, ok) ==
    /\ running /\ Resolves(h)
    /\ \/ Read(clist[h], ok) \/ ListDir(clist[h], ok) \/ Exec(clist[h], ok)
       \/ RefusedUse(ok)
    /\ UNCHANGED <<running, clist, lent>>

Bug_SubIsGranted(h, d, ok) ==
    /\ running /\ Resolves(h)
    /\ GrantDir(d, caps[clist[h]].ops, caps[clist[h]].taint, ok)
    /\ Place(Len(caps'))
    /\ UNCHANGED <<running, lent>>

CapDeriveSub(h, d, ok) ==
    /\ running /\ Resolves(h)
    /\ DeriveSub(clist[h], d, ok)
    /\ Place(Len(caps'))
    /\ UNCHANGED <<running, lent>>

CapClose(h) ==
    /\ running /\ Resolves(h)
    /\ clist' = [clist EXCEPT ![h] = None]
    /\ UNCHANGED <<regVars, running, lent>>

VMNext ==
    \/ Host \/ NewProcess \/ EndProcess
    \/ \E r \in Refs : Install(r)
    \/ \E h \in DOMAIN clist :
           \/ CapClose(h)
           \/ \E ok \in BOOLEAN : CapUse(h, ok) \/ \E d \in Dirs : CapDeriveSub(h, d, ok)

VMSpec == VMInit /\ [][VMNext]_vmVars

(***************************************************************************)
(* Properties                                                              *)
(***************************************************************************)
VMTypeOK ==
    /\ RegTypeOK
    /\ running \in BOOLEAN
    /\ clist \in Seq(Refs \cup {None})
    /\ lent \subseteq Refs
    /\ ~running => clist = << >> /\ lent = {}

Held == {clist[h] : h \in Live(clist)}

\* Confinement: whatever a guest holds is something the host lent to this very
\* process, or was derived from that; no sequence of system calls gets it more.
\* (A lineage is contained in every set that holds the capability and, with each
\* of its members, the member's parent.)
Confined ==
    \A r \in Held : \A chain \in SUBSET Refs :
        r \in chain /\ (\A x \in chain : caps[x].parent \in chain \cup {None})
            => chain \cap lent # {}

\* Slots are reused, but never under a guest that still has the handle open: an
\* open handle means the same capability until it is closed.
OpenHandlesAreStable ==
    [][running /\ running' =>
         \A h \in Live(clist) : clist'[h] \in {clist[h], None}]_vmVars
=============================================================================
