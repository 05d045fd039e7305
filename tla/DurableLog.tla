----------------------------- MODULE DurableLog -----------------------------
(***************************************************************************)
(* What the persistent audit sink promises to the sessions that share it,  *)
(* with no word about files, anchors or the order of system calls:         *)
(* a line that has reached the disk is never lost, a record call answers   *)
(* Ok only for a line that is on the disk, and a call that answers Err     *)
(* makes its session fail closed until the broker is restarted.            *)
(* AuditSink implements this specification; Gatekeeper is built on it.     *)
(***************************************************************************)
CONSTANTS Sessions, \* connections that share the sink
          Lines     \* everything a record call can ask to persist

VARIABLES stored, \* lines on the disk
          acked,  \* lines whose record call answered Ok
          broken  \* Session.audit_broken of each session

dlVars == <<stored, acked, broken>>

DLInit ==
    /\ stored = {}
    /\ acked = {}
    /\ broken = [s \in Sessions |-> FALSE]

\* Lines become durable.  The session that asked for one of them has not been
\* told yet, and lines of earlier calls that failed may come along.
Store ==
    /\ stored \subseteq stored' /\ stored' \subseteq Lines
    /\ UNCHANGED <<acked, broken>>

\* record answers Ok: only for a line that is durable.
Ack ==
    /\ acked \subseteq acked' /\ acked' \subseteq stored
    /\ UNCHANGED <<stored, broken>>

\* record answers Err: the line may or may not be on the disk.
Err(s) ==
    /\ broken' = [broken EXCEPT ![s] = TRUE]
    /\ UNCHANGED <<stored, acked>>

\* The broker dies, and with it every session.  What the file system had not
\* forced out may still have reached the disk; nothing that was there goes.
Crash ==
    /\ broken' = [s \in Sessions |-> FALSE]
    /\ stored \subseteq stored' /\ stored' \subseteq Lines
    /\ UNCHANGED acked

DLNext ==
    \/ Store \/ Ack
    \/ \E s \in Sessions : Err(s)
    \/ Crash

DLSpec == DLInit /\ [][DLNext]_dlVars
=============================================================================
