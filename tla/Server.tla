------------------------------- MODULE Server -------------------------------
(***************************************************************************)
(* The connection side of the service (capable-rpc/src/main.rs, serve, and *)
(* proto.rs): one thread accepts, a counter bounds the connections, and    *)
(* each admitted connection gets a thread and a session of its own that    *)
(* read a frame, handle it and write the reply, until the peer ends, fails *)
(* or stays silent for the read timeout.                                   *)
(*                                                                         *)
(* A frame is a verb.  What the verbs do to the capabilities of a session  *)
(* is Registry's subject, what they do to ledger and sink Gatekeeper's;    *)
(* here it matters how the thread goes on, and what handle lets through    *)
(* for the role of the service.                                            *)
(*                                                                         *)
(* A definition whose name starts with Bug_ is a defect of the definition  *)
(* that follows it; the specification never uses one.                      *)
(***************************************************************************)
EXTENDS Naturals, Sequences, FiniteSets

CONSTANTS
    Clients,  \* peers; each has at most one connection at a time
    MaxConns, \* MAX_CONNS
    MaxRoots  \* bound on the capabilities minted over one connection

ASSUME MaxConnsAssumption == MaxConns \in Nat
ASSUME MaxRootsAssumption == MaxRoots \in Nat \ {0}
ASSUME ClientsFinite == IsFiniteSet(Clients)

VARIABLES
    role,    \* Policy.role, the same for every connection
    conns,   \* the static counter CONNS
    main,    \* where the accepting thread is
    backlog, \* connections the listener has not handed out yet
    pc,      \* where the thread of each connection is
    boot,    \* whether the session's bootstrap capability can still be taken
    roots,   \* history: capabilities handed over this connection, not derived
    silent,  \* the peer keeps the connection open and sends nothing any more
    deaf,    \* the peer does not read any more
    leaked   \* history: slots of connections whose thread has panicked

srvVars == <<role, conns, main, backlog, pc, boot, roots, silent, deaf, leaked>>
perConn == <<boot, roots, silent, deaf>>

None == "none"
NoThread == "none"
\* reading, in a command started by exec, writing a reply that fits the socket
\* buffer or one that does not, past the loop, past the release of the slot
ThreadPC == {NoThread, "read", "exec", "write", "writeLong", "end", "close"}
AtAccept == [pc |-> "accept", c |-> None]
AtExit   == [pc |-> "down", c |-> None]
Main == {AtAccept, AtExit} \cup [pc : {"over", "spawn"}, c : Clients]

SrvInit ==
    /\ role \in {"Control", "Guest"}
    /\ conns = 0 /\ leaked = 0
    /\ main = AtAccept /\ backlog = << >>
    /\ pc = [c \in Clients |-> NoThread]
    /\ boot = [c \in Clients |-> FALSE]
    /\ roots = [c \in Clients |-> 0]
    /\ silent = [c \in Clients |-> FALSE]
    /\ deaf = [c \in Clients |-> FALSE]

(***************************************************************************)
(* Peers                                                                   *)
(***************************************************************************)
Queued(c) == \E i \in DOMAIN backlog : backlog[i] = c
Connected(c) == Queued(c) \/ main.c = c \/ pc[c] # NoThread

Connect(c) ==
    /\ main # AtExit
    /\ ~Connected(c)
    /\ backlog' = Append(backlog, c)
    /\ UNCHANGED <<role, conns, main, pc, perConn, leaked>>

FallSilent(c) ==
    /\ pc[c] # NoThread /\ ~silent[c]
    /\ silent' = [silent EXCEPT ![c] = TRUE]
    /\ UNCHANGED <<role, conns, main, backlog, pc, boot, roots, deaf, leaked>>

TurnDeaf(c) ==
    /\ pc[c] # NoThread /\ ~deaf[c]
    /\ deaf' = [deaf EXCEPT ![c] = TRUE]
    /\ UNCHANGED <<role, conns, main, backlog, pc, boot, roots, silent, leaked>>

(***************************************************************************)
(* The accepting thread                                                    *)
(***************************************************************************)
\* accept, and CONNS.fetch_add, which returns the old value.
Bug_LimitOffByOne ==
    /\ main = AtAccept /\ backlog # << >>
    /\ backlog' = Tail(backlog)
    /\ conns' = conns + 1
    /\ main' = [pc |-> IF conns > MaxConns THEN "over" ELSE "spawn", c |-> Head(backlog)]
    /\ UNCHANGED <<role, pc, perConn, leaked>>

Bug_AcceptWaits ==
    /\ main = AtAccept /\ backlog # << >>
    /\ conns < MaxConns
    /\ backlog' = Tail(backlog)
    /\ conns' = conns + 1
    /\ main' = [pc |-> "spawn", c |-> Head(backlog)]
    /\ UNCHANGED <<role, pc, perConn, leaked>>

Accept ==
    /\ main = AtAccept /\ backlog # << >>
    /\ backlog' = Tail(backlog)
    /\ conns' = conns + 1
    /\ main' = [pc |-> IF conns >= MaxConns THEN "over" ELSE "spawn", c |-> Head(backlog)]
    /\ UNCHANGED <<role, pc, perConn, leaked>>

\* Over the limit: CONNS.fetch_sub, and the connection is dropped.
Bug_RefuseKeepsSlot ==
    /\ main.pc = "over"
    /\ main' = AtAccept
    /\ UNCHANGED <<role, conns, backlog, pc, perConn, leaked>>

Refuse ==
    /\ main.pc = "over"
    /\ conns' = conns - 1
    /\ main' = AtAccept
    /\ UNCHANGED <<role, backlog, pc, perConn, leaked>>

\* A thread and a session; a guest's session is given its workspace root, which
\* opens or does not.
Spawn ==
    /\ main.pc = "spawn"
    /\ pc' = [pc EXCEPT ![main.c] = "read"]
    /\ \E opens \in BOOLEAN :
           boot' = [boot EXCEPT ![main.c] = (role = "Guest" /\ opens)]
    /\ main' = AtAccept
    /\ UNCHANGED <<role, conns, backlog, roots, silent, deaf, leaked>>

\* listener.incoming() yields an error, or no thread can be created: serve
\* returns or panics, the process exits, and every connection ends with it.
ServeEnds ==
    /\ main # AtExit
    /\ main' = AtExit
    /\ backlog' = << >>
    /\ pc' = [c \in Clients |-> NoThread]
    /\ boot' = [c \in Clients |-> FALSE]
    /\ roots' = [c \in Clients |-> 0]
    /\ silent' = [c \in Clients |-> FALSE]
    /\ deaf' = [c \in Clients |-> FALSE]
    /\ conns' = 0 /\ leaked' = 0
    /\ UNCHANGED role

(***************************************************************************)
(* handle                                                                  *)
(***************************************************************************)
MintVerbs == {"GRANT_DIR", "GRANT_SINK", "GRANT_HTTP", "GRANT_MSG", "GRANT_CMD"}
ConsentVerbs == {"CONSENT_APPROVE", "CONSENT_DENY", "CONSENT_DESCRIBE", "CONSENT_LIST"}
OtherVerbs == {"BOOTSTRAP", "DERIVE", "INVOKE", "REVOKE", "DESCRIBE", "AUDIT", "unknown"}
Verbs == MintVerbs \cup ConsentVerbs \cup OtherVerbs

\* deny_guest_mint, and the same test in front of the consent verbs.
Permitted(v) == role = "Control" \/ v \notin MintVerbs \cup ConsentVerbs

\* What a verb does to the session: a mint adds a root unless its own checks
\* refuse it, BOOTSTRAP hands out the injected one, once.
Mints(c, v) ==
    /\ v \in MintVerbs /\ Permitted(v)
    /\ roots[c] < MaxRoots
    /\ roots' = [roots EXCEPT ![c] = @ + 1]
    /\ UNCHANGED boot

Bug_BootstrapAgain(c, v) ==
    /\ v = "BOOTSTRAP" /\ boot[c]
    /\ roots' = [roots EXCEPT ![c] = @ + 1]
    /\ UNCHANGED boot

TakesBootstrap(c, v) ==
    /\ v = "BOOTSTRAP" /\ boot[c]
    /\ roots' = [roots EXCEPT ![c] = @ + 1]
    /\ boot' = [boot EXCEPT ![c] = FALSE]

LeavesRoots(c, v) ==
    /\ v = "BOOTSTRAP" => ~boot[c]
    /\ UNCHANGED <<boot, roots>>

\* read_frame returns a frame and handle a reply, longer than the socket buffer
\* or not; an INVOKE may first have to wait for the command it runs.
Serve(c, v) ==
    /\ pc[c] = "read" /\ ~silent[c]
    /\ Mints(c, v) \/ TakesBootstrap(c, v) \/ LeavesRoots(c, v)
    /\ \E next \in {"write", "writeLong"} \cup (IF v = "INVOKE" THEN {"exec"} ELSE {}) :
           pc' = [pc EXCEPT ![c] = next]
    /\ UNCHANGED <<role, conns, main, backlog, silent, deaf, leaked>>

\* The command ends when it ends: exec has no timeout.
CommandEnds(c) ==
    /\ pc[c] = "exec"
    /\ pc' = [pc EXCEPT ![c] = "write"]
    /\ UNCHANGED <<role, conns, main, backlog, perConn, leaked>>

\* handle panics (short cuts a reference inside a character, a poisoned lock is
\* unwrapped), on a request or after the command it ran: the thread unwinds past
\* the release of its slot.
Panics(c) ==
    /\ (pc[c] = "read" /\ ~silent[c]) \/ pc[c] = "exec"
    /\ pc' = [pc EXCEPT ![c] = "close"]
    /\ leaked' = leaked + 1
    /\ UNCHANGED <<role, conns, main, backlog, perConn>>

(***************************************************************************)
(* read_frame and write_frame                                              *)
(***************************************************************************)
\* The peer closes, cuts a frame short, announces one that is too long, or an
\* error other than the timeout occurs: the loop ends.
ReadEnds(c) ==
    /\ pc[c] = "read" /\ ~silent[c]
    /\ pc' = [pc EXCEPT ![c] = "end"]
    /\ UNCHANGED <<role, conns, main, backlog, perConn, leaked>>

\* READ_TIMEOUT, in the header or in the body of a frame.
Bug_TimeoutRetried(c) ==
    /\ pc[c] = "read" /\ silent[c]
    /\ pc' = [pc EXCEPT ![c] = "read"]
    /\ UNCHANGED <<role, conns, main, backlog, perConn, leaked>>

ReadTimesOut(c) ==
    /\ pc[c] = "read" /\ silent[c]
    /\ pc' = [pc EXCEPT ![c] = "end"]
    /\ UNCHANGED <<role, conns, main, backlog, perConn, leaked>>

\* A reply that does not fit waits for the peer to read: there is no write
\* timeout.
WriteReply(c) ==
    /\ pc[c] = "write" \/ (pc[c] = "writeLong" /\ ~deaf[c])
    /\ pc' = [pc EXCEPT ![c] = "read"]
    /\ UNCHANGED <<role, conns, main, backlog, perConn, leaked>>

Bug_BreakReleases(c) ==
    /\ pc[c] \in {"write", "writeLong"} /\ ~silent[c]
    /\ pc' = [pc EXCEPT ![c] = "end"]
    /\ conns' = conns - 1
    /\ UNCHANGED <<role, main, backlog, perConn, leaked>>

WriteFails(c) ==
    /\ pc[c] \in {"write", "writeLong"} /\ ~silent[c]
    /\ pc' = [pc EXCEPT ![c] = "end"]
    /\ UNCHANGED <<role, conns, main, backlog, perConn, leaked>>

\* CONNS.fetch_sub, and only then the end of the closure, which drops stream
\* and session.
Release(c) ==
    /\ pc[c] = "end"
    /\ pc' = [pc EXCEPT ![c] = "close"]
    /\ conns' = conns - 1
    /\ UNCHANGED <<role, main, backlog, perConn, leaked>>

Drop(c) ==
    /\ pc[c] = "close"
    /\ pc' = [pc EXCEPT ![c] = NoThread]
    /\ boot' = [boot EXCEPT ![c] = FALSE]
    /\ roots' = [roots EXCEPT ![c] = 0]
    /\ silent' = [silent EXCEPT ![c] = FALSE]
    /\ deaf' = [deaf EXCEPT ![c] = FALSE]
    /\ UNCHANGED <<role, conns, main, backlog, leaked>>

AcceptLoop == Accept \/ Refuse \/ Spawn
\* What a thread does by itself; a command ends, and a frame comes, as they may.
Thread(c) == ReadTimesOut(c) \/ WriteReply(c) \/ Release(c) \/ Drop(c)

SrvNext ==
    \/ AcceptLoop \/ ServeEnds
    \/ \E c \in Clients :
           \/ Connect(c) \/ FallSilent(c) \/ TurnDeaf(c)
           \/ \E v \in Verbs : Serve(c, v)
           \/ CommandEnds(c) \/ Panics(c)
           \/ ReadEnds(c) \/ WriteFails(c)
           \/ Thread(c)

\* The operating system schedules every runnable thread, reports the expiry of
\* a read timeout and takes what fits into a socket buffer.
Fairness == WF_srvVars(AcceptLoop) /\ \A c \in Clients : WF_srvVars(Thread(c))

SrvSpec == SrvInit /\ [][SrvNext]_srvVars /\ Fairness

(***************************************************************************)
(* Properties                                                              *)
(***************************************************************************)
SrvTypeOK ==
    /\ role \in {"Control", "Guest"}
    /\ conns \in 0 .. MaxConns + 1
    /\ main \in Main
    /\ backlog \in Seq(Clients)
    /\ pc \in [Clients -> ThreadPC]
    /\ boot \in [Clients -> BOOLEAN]
    /\ roots \in [Clients -> 0 .. MaxRoots]
    /\ silent \in [Clients -> BOOLEAN] /\ deaf \in [Clients -> BOOLEAN]
    /\ leaked \in 0 .. MaxConns

\* Threads that still hold the slot their connection was counted with.
Serving(c) == pc[c] \in {"read", "exec", "write", "writeLong", "end"}
Holders == {c \in Clients : Serving(c)}

\* CONNS is exact: it counts the connections being served, the one that is
\* being decided on, and the slots that panics have lost for good.
SlotsAccounted ==
    conns = Cardinality(Holders) + leaked + IF main.pc \in {"over", "spawn"} THEN 1 ELSE 0

\* MAX_CONNS bounds the connections served at a time, in every interleaving of
\* the accepting thread with connections that end, lost slots included.
AtMostMaxConns == Cardinality(Holders) + leaked <= MaxConns

\* Over a guest's connection at most one underived capability is ever handed
\* out, whatever requests are made in whatever order, and a new connection
\* starts afresh (deny_guest_mint, take_bootstrap).
OneRootPerGuest ==
    role = "Guest" =>
        \A c \in Clients : roots[c] + (IF boot[c] THEN 1 ELSE 0) <= 1

\* Every connection is admitted or turned away: slow, silent and stuck
\* connections do not hold up the accepting thread.
BacklogDrains == \A c \in Clients : Queued(c) ~> ~Queued(c)

\* A thread that waits for a peer that has gone silent gives its slot back
\* (set_read_timeout).
SilentReadersEnd ==
    \A c \in Clients : (pc[c] = "read" /\ silent[c]) ~> ~Serving(c)
=============================================================================
