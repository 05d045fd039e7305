---------------------------- MODULE ServerProofs ----------------------------
(***************************************************************************)
(* Proofs about Server for any number of peers and any limit: the types,   *)
(* the exactness of the connection counter, the limit, and the single root *)
(* of a guest's connection.                                                *)
(*                                                                         *)
(* The counter is exact only if a connection is never in two places, the   *)
(* backlog, the hands of the accepting thread or a thread of its own, and  *)
(* the limit holds only if a connection about to get a thread leaves room  *)
(* for itself (Room): between fetch_add and spawn other threads release    *)
(* slots, but only the accepting thread takes one.  The single root needs  *)
(* that a connection starts without any (Fresh).                           *)
(***************************************************************************)
EXTENDS Server, FiniteSetTheorems, SequenceTheorems, TLAPS

Deciding == main.pc \in {"over", "spawn"}

Shape ==
    /\ role \in {"Control", "Guest"}
    /\ conns \in Nat /\ leaked \in Nat
    /\ main \in Main
    /\ backlog \in Seq(Clients)
    /\ pc \in [Clients -> ThreadPC]
    /\ boot \in [Clients -> BOOLEAN]
    /\ roots \in [Clients -> 0 .. MaxRoots]
    /\ silent \in [Clients -> BOOLEAN] /\ deaf \in [Clients -> BOOLEAN]

\* A connection is in one place at a time.
Apart ==
    /\ \A i, j \in DOMAIN backlog : backlog[i] = backlog[j] => i = j
    /\ \A c \in Clients : Queued(c) => pc[c] = NoThread
    /\ Deciding => ~Queued(main.c) /\ pc[main.c] = NoThread

\* A connection that has no thread has no root, neither taken nor to take.
Fresh == \A c \in Clients : pc[c] = NoThread => ~boot[c] /\ roots[c] = 0

\* Only a guest's session has a root to take.
BootIsGuests == \A c \in Clients : boot[c] => role = "Guest"

\* The limit, with room for the connection that is about to get a thread.
Room ==
    /\ Cardinality(Holders) + leaked <= MaxConns
    /\ main.pc = "spawn" => Cardinality(Holders) + leaked < MaxConns

SrvInv ==
    /\ Shape /\ Apart
    /\ Fresh /\ BootIsGuests /\ OneRootPerGuest
    /\ SlotsAccounted /\ Room

(***************************************************************************)
(* Data                                                                    *)
(***************************************************************************)
\* There are finitely many peers, hence holders.
LEMMA HoldersFinite ==
    /\ IsFiniteSet(Holders) /\ Cardinality(Holders) \in Nat
    /\ IsFiniteSet(Holders)' /\ Cardinality(Holders)' \in Nat
<1>1. Holders \in SUBSET Clients /\ Holders' \in SUBSET Clients
  BY DEF Holders
<1> QED BY <1>1, ClientsFinite, FS_Subset, FS_CardinalityType

\* The accepting thread holds a connection exactly between accept and spawn or refusal.
LEMMA DecidingIsClient ==
    ASSUME Shape
    PROVE  /\ Deciding => main.c \in Clients
           /\ ~Deciding => main = AtAccept \/ main = AtExit
BY DEF Shape, Main, Deciding, AtAccept, AtExit

\* A thread that moves within the loop or in front of the release of its slot
\* holds it before and after.
LEMMA HolderMoves ==
    ASSUME Shape, NEW c \in Clients, Serving(c),
           NEW to \in {"read", "exec", "write", "writeLong", "end"},
           pc' = [pc EXCEPT ![c] = to]
    PROVE  Holders' = Holders
BY DEF Shape, Holders, Serving

\* A thread that leaves the loop by releasing its slot or by a panic.
LEMMA HolderLeaves ==
    ASSUME Shape, NEW c \in Clients, Serving(c), pc' = [pc EXCEPT ![c] = "close"]
    PROVE  Cardinality(Holders)' = Cardinality(Holders) - 1
<1>1. Holders' = Holders \ {c} /\ c \in Holders
  BY DEF Shape, Holders, Serving
<1> QED BY <1>1, HoldersFinite, FS_RemoveElement

\* What a frame does to the roots of its connection.
LEMMA RootsOfServe ==
    ASSUME SrvInv, NEW c \in Clients, NEW v \in Verbs, Serve(c, v)
    PROVE  /\ boot' \in [Clients -> BOOLEAN] /\ roots' \in [Clients -> 0 .. MaxRoots]
           /\ \A x \in Clients : boot'[x] => boot[x]
           /\ \A x \in Clients \ {c} : boot'[x] = boot[x] /\ roots'[x] = roots[x]
           /\ role = "Guest" => roots'[c] + (IF boot'[c] THEN 1 ELSE 0) <= 1
<1> USE DEF SrvInv, Shape
<1>1. CASE Mints(c, v)
  <2>1. role # "Guest"
    BY <1>1 DEF Mints, Permitted
  <2>2. boot' = boot /\ roots' = [roots EXCEPT ![c] = roots[c] + 1] /\ roots[c] < MaxRoots
    BY <1>1 DEF Mints
  <2>3. roots' \in [Clients -> 0 .. MaxRoots]
    BY <2>2, MaxRootsAssumption
  <2> QED BY <2>1, <2>2, <2>3
<1>2. CASE TakesBootstrap(c, v)
  <2>1. boot[c] /\ role = "Guest" /\ roots[c] = 0
    <3>1. boot[c] /\ role = "Guest"
      BY <1>2 DEF TakesBootstrap, BootIsGuests
    <3>2. roots[c] + 1 <= 1 /\ roots[c] \in Nat
      BY <3>1 DEF OneRootPerGuest
    <3> QED BY <3>1, <3>2
  <2>2. roots' = [roots EXCEPT ![c] = 1] /\ boot' = [boot EXCEPT ![c] = FALSE]
    BY <1>2, <2>1 DEF TakesBootstrap
  <2>3. roots' \in [Clients -> 0 .. MaxRoots]
    BY <2>2, MaxRootsAssumption
  <2>4. boot' \in [Clients -> BOOLEAN]
    BY <2>2
  <2>5. roots'[c] = 1 /\ boot'[c] = FALSE
    BY <2>2
  <2>6. \A x \in Clients \ {c} : boot'[x] = boot[x] /\ roots'[x] = roots[x]
    BY <2>2
  <2>7. \A x \in Clients : boot'[x] => boot[x]
    BY <2>5, <2>6
  <2> QED BY <2>3, <2>4, <2>5, <2>6, <2>7
<1>3. CASE LeavesRoots(c, v)
  BY <1>3 DEF LeavesRoots, OneRootPerGuest
<1> QED BY <1>1, <1>2, <1>3 DEF Serve

(***************************************************************************)
(* Counting: the counter, the room under the limit                         *)
(***************************************************************************)
\* Whoever gives a slot back is counted.
LEMMA ReleasersAreCounted ==
    ASSUME SrvInv
    PROVE  /\ Deciding => conns >= 1
           /\ \A c \in Clients : Serving(c) => conns >= 1
<1>1. Cardinality(Holders) \in Nat /\ leaked \in Nat
  BY HoldersFinite DEF SrvInv, Shape
<1>2. ASSUME NEW c \in Clients, Serving(c) PROVE Cardinality(Holders) >= 1
  <2>1. c \in Holders
    BY <1>2 DEF Holders
  <2>2. Cardinality(Holders) # 0
    BY <2>1, HoldersFinite, FS_EmptySet
  <2> QED BY <2>2, <1>1
<1> QED BY <1>1, <1>2 DEF SrvInv, SlotsAccounted, Deciding

\* Steps that leave the counter, the accepting thread and the holders alone.
LEMMA CountsKept ==
    ASSUME SrvInv, UNCHANGED <<conns, main, leaked>>, Holders' = Holders
    PROVE  SlotsAccounted' /\ Room'
BY DEF SrvInv, SlotsAccounted, Room

\* fetch_add counts the connection being decided on; with room left it may spawn.
LEMMA CountsOfAccept ==
    ASSUME SrvInv, Accept
    PROVE  SlotsAccounted' /\ Room'
<1>1. Holders' = Holders /\ leaked' = leaked
  BY DEF Accept, Holders, Serving
<1>2. conns = Cardinality(Holders) + leaked
  BY HoldersFinite DEF SrvInv, Shape, SlotsAccounted, Accept, AtAccept
<1>3. /\ main'.pc = IF conns >= MaxConns THEN "over" ELSE "spawn"
      /\ conns' = conns + 1
  BY DEF Accept
<1>4. Cardinality(Holders) \in Nat /\ leaked \in Nat /\ conns \in Nat
  BY HoldersFinite DEF SrvInv, Shape
<1>5. SlotsAccounted'
  BY <1>1, <1>2, <1>3, <1>4 DEF SlotsAccounted
<1>6. Room'
  BY <1>1, <1>2, <1>3, <1>4, MaxConnsAssumption DEF SrvInv, Room
<1> QED BY <1>5, <1>6

\* fetch_sub takes the refused connection out again.
LEMMA CountsOfRefuse ==
    ASSUME SrvInv, Refuse
    PROVE  SlotsAccounted' /\ Room'
<1>1. Holders' = Holders /\ leaked' = leaked
  BY DEF Refuse, Holders, Serving
<1>2. conns = Cardinality(Holders) + leaked + 1 /\ conns' = conns - 1
  BY DEF SrvInv, SlotsAccounted, Refuse
<1>3. main'.pc = "accept"
  BY DEF Refuse, AtAccept
<1>4. Cardinality(Holders) \in Nat /\ leaked \in Nat /\ conns \in Nat
  BY HoldersFinite DEF SrvInv, Shape
<1> QED BY <1>1, <1>2, <1>3, <1>4 DEF SrvInv, SlotsAccounted, Room

\* The connection decided on becomes a holder, within the room kept for it.
LEMMA CountsOfSpawn ==
    ASSUME SrvInv, Spawn
    PROVE  SlotsAccounted' /\ Room'
<1>1. PICK k \in Clients : k = main.c
  BY DecidingIsClient DEF SrvInv, Spawn, Deciding
<1>2. pc[k] = NoThread
  BY <1>1 DEF SrvInv, Apart, Spawn, Deciding
<1>3. pc' = [pc EXCEPT ![k] = "read"]
  BY <1>1 DEF Spawn
<1>4. Holders' = Holders \cup {k} /\ k \notin Holders
  BY <1>2, <1>3 DEF SrvInv, Shape, Holders, Serving, NoThread
<1>5. Cardinality(Holders)' = Cardinality(Holders) + 1
  BY <1>4, HoldersFinite, FS_AddElement
<1>6. /\ conns = Cardinality(Holders) + leaked + 1
      /\ Cardinality(Holders) + leaked < MaxConns
  BY DEF SrvInv, SlotsAccounted, Room, Spawn
<1>7. main'.pc = "accept" /\ conns' = conns /\ leaked' = leaked
  BY DEF Spawn, AtAccept
<1>8. Cardinality(Holders) \in Nat /\ leaked \in Nat /\ conns \in Nat
  BY HoldersFinite DEF SrvInv, Shape
<1> QED BY <1>5, <1>6, <1>7, <1>8, MaxConnsAssumption DEF SlotsAccounted, Room

\* The end of the process.
LEMMA CountsOfServeEnds ==
    ASSUME SrvInv, ServeEnds
    PROVE  SlotsAccounted' /\ Room'
<1>1. Holders' = {}
  BY DEF ServeEnds, Holders, Serving, NoThread
<1>2. Cardinality(Holders)' = 0
  BY <1>1, FS_EmptySet
<1>3. conns' = 0 /\ leaked' = 0 /\ main'.pc = "down"
  BY DEF ServeEnds, AtExit
<1> QED BY <1>2, <1>3, MaxConnsAssumption DEF SlotsAccounted, Room

\* A panic turns a holder into a lost slot.
LEMMA CountsOfPanics ==
    ASSUME SrvInv, NEW c \in Clients, Panics(c)
    PROVE  SlotsAccounted' /\ Room'
<1>1. Cardinality(Holders)' = Cardinality(Holders) - 1
  BY HolderLeaves DEF SrvInv, Panics, Serving
<1>2. conns' = conns /\ main' = main /\ leaked' = leaked + 1
  BY DEF Panics
<1>3. Cardinality(Holders) \in Nat /\ leaked \in Nat /\ conns \in Nat
  BY HoldersFinite DEF SrvInv, Shape
<1>4. Cardinality(Holders)' + leaked' = Cardinality(Holders) + leaked
  BY <1>1, <1>2, <1>3
<1> QED BY <1>2, <1>4 DEF SrvInv, SlotsAccounted, Room

\* fetch_sub at the end of the loop.
LEMMA CountsOfRelease ==
    ASSUME SrvInv, NEW c \in Clients, Release(c)
    PROVE  SlotsAccounted' /\ Room'
<1>1. Cardinality(Holders)' = Cardinality(Holders) - 1
  BY HolderLeaves DEF SrvInv, Release, Serving
<1>2. conns' = conns - 1 /\ main' = main /\ leaked' = leaked
  BY DEF Release
<1>3. Cardinality(Holders) \in Nat /\ leaked \in Nat /\ conns \in Nat
  BY HoldersFinite DEF SrvInv, Shape
<1> QED BY <1>1, <1>2, <1>3, MaxConnsAssumption DEF SrvInv, SlotsAccounted, Room

\* CONNS stays exact and the limit keeps its room in every step.
LEMMA CountsStep ==
    ASSUME SrvInv, SrvNext
    PROVE  SlotsAccounted' /\ Room'
<1>1. CASE AcceptLoop
  BY <1>1, CountsOfAccept, CountsOfRefuse, CountsOfSpawn DEF AcceptLoop
<1>2. CASE ServeEnds
  BY <1>2, CountsOfServeEnds
<1>3. ASSUME NEW c \in Clients, Connect(c) \/ FallSilent(c) \/ TurnDeaf(c)
      PROVE  SlotsAccounted' /\ Room'
  <2>1. Holders' = Holders /\ UNCHANGED <<conns, main, leaked>>
    BY <1>3 DEF Connect, FallSilent, TurnDeaf, Holders, Serving
  <2> QED BY <2>1, CountsKept
<1>4. ASSUME NEW c \in Clients, NEW v \in Verbs, Serve(c, v)
      PROVE  SlotsAccounted' /\ Room'
  <2>1. PICK next \in {"write", "writeLong", "exec"} : pc' = [pc EXCEPT ![c] = next]
    BY <1>4 DEF Serve
  <2>2. Holders' = Holders
    BY <1>4, <2>1, HolderMoves DEF Serve, Serving, SrvInv
  <2> QED BY <1>4, <2>2, CountsKept DEF Serve
<1>5. ASSUME NEW c \in Clients,
             \/ CommandEnds(c) \/ ReadEnds(c) \/ WriteFails(c)
             \/ ReadTimesOut(c) \/ WriteReply(c)
      PROVE  SlotsAccounted' /\ Room'
  <2>1. PICK to \in {"read", "write", "end"} : pc' = [pc EXCEPT ![c] = to]
    BY <1>5 DEF CommandEnds, ReadEnds, WriteFails, ReadTimesOut, WriteReply
  <2>2. Serving(c) /\ UNCHANGED <<conns, main, leaked>>
    BY <1>5 DEF CommandEnds, ReadEnds, WriteFails, ReadTimesOut, WriteReply, Serving
  <2>3. Holders' = Holders
    BY <2>1, <2>2, HolderMoves DEF SrvInv
  <2> QED BY <2>2, <2>3, CountsKept
<1>6. ASSUME NEW c \in Clients, Drop(c)
      PROVE  SlotsAccounted' /\ Room'
  <2>1. Holders' = Holders
    BY <1>6 DEF SrvInv, Shape, Drop, Holders, Serving, NoThread
  <2> QED BY <1>6, <2>1, CountsKept DEF Drop
<1> QED BY <1>1, <1>2, <1>3, <1>4, <1>5, <1>6, CountsOfPanics, CountsOfRelease
        DEF SrvNext, Thread

(***************************************************************************)
(* Places: types, and a connection is in one of them                       *)
(***************************************************************************)
\* Types; a slot is given back only by whoever is counted.
LEMMA ShapeStep ==
    ASSUME SrvInv, SrvNext
    PROVE  Shape'
<1> USE DEF SrvInv, Shape
<1>1. CASE Accept
  <2>1. /\ Head(backlog) \in Clients
        /\ Tail(backlog) \in Seq(Clients)
    BY <1>1, HeadTailProperties DEF Accept
  <2>2. main' \in Main
    BY <1>1, <2>1 DEF Accept, Main
  <2>3. /\ UNCHANGED <<role, pc, boot, roots, silent, deaf, leaked>>
        /\ conns' = conns + 1 /\ backlog' = Tail(backlog)
    BY <1>1 DEF Accept, perConn
  <2> QED BY <2>1, <2>2, <2>3
<1>2. CASE Refuse
  <2>1. conns' \in Nat
    BY <1>2, ReleasersAreCounted DEF Refuse, Deciding
  <2> QED BY <1>2, <2>1 DEF Refuse, perConn, Main
<1>3. CASE Spawn
  <2>1. pc' \in [Clients -> ThreadPC] /\ main' \in Main
    BY <1>3 DEF Spawn, ThreadPC, Main
  <2>2. boot' \in [Clients -> BOOLEAN]
    <3>1. PICK b \in BOOLEAN : boot' = [boot EXCEPT ![main.c] = b]
      <4>1. PICK opens \in BOOLEAN :
                boot' = [boot EXCEPT ![main.c] = (role = "Guest" /\ opens)]
        BY <1>3 DEF Spawn
      <4> QED BY <4>1
    <3> QED BY <3>1
  <2> QED BY <1>3, <2>1, <2>2 DEF Spawn
<1>4. CASE ServeEnds
  <2>1. << >> \in Seq(Clients)
    OBVIOUS
  <2>2. main' \in Main /\ pc' \in [Clients -> ThreadPC]
    BY <1>4 DEF ServeEnds, Main, ThreadPC
  <2>3. /\ boot' \in [Clients -> BOOLEAN]
        /\ silent' \in [Clients -> BOOLEAN] /\ deaf' \in [Clients -> BOOLEAN]
    BY <1>4 DEF ServeEnds
  <2>4. roots' \in [Clients -> 0 .. MaxRoots]
    BY <1>4, MaxRootsAssumption DEF ServeEnds
  <2> QED BY <1>4, <2>1, <2>2, <2>3, <2>4 DEF ServeEnds
<1>5. ASSUME NEW c \in Clients, Connect(c) PROVE Shape'
  <2>1. backlog' \in Seq(Clients)
    BY <1>5, AppendProperties DEF Connect
  <2> QED BY <1>5, <2>1 DEF Connect, perConn
<1>6. ASSUME NEW c \in Clients, FallSilent(c) \/ TurnDeaf(c) PROVE Shape'
  <2>1. silent' \in [Clients -> BOOLEAN] /\ deaf' \in [Clients -> BOOLEAN]
    BY <1>6 DEF FallSilent, TurnDeaf
  <2>2. UNCHANGED <<role, conns, main, backlog, pc, boot, roots, leaked>>
    BY <1>6 DEF FallSilent, TurnDeaf
  <2> QED BY <2>1, <2>2
<1>7. ASSUME NEW c \in Clients, NEW v \in Verbs, Serve(c, v) PROVE Shape'
  <2>1. pc' \in [Clients -> ThreadPC]
    BY <1>7 DEF Serve, ThreadPC
  <2>2. boot' \in [Clients -> BOOLEAN] /\ roots' \in [Clients -> 0 .. MaxRoots]
    BY <1>7, RootsOfServe
  <2> QED BY <1>7, <2>1, <2>2 DEF Serve
<1>8. ASSUME NEW c \in Clients,
             \/ CommandEnds(c) \/ ReadEnds(c) \/ WriteFails(c)
             \/ ReadTimesOut(c) \/ WriteReply(c)
      PROVE  Shape'
  <2>1. pc' \in [Clients -> ThreadPC]
    BY <1>8 DEF CommandEnds, ReadEnds, WriteFails, ReadTimesOut, WriteReply, ThreadPC
  <2>2. UNCHANGED <<role, conns, main, backlog, boot, roots, silent, deaf, leaked>>
    BY <1>8 DEF CommandEnds, ReadEnds, WriteFails, ReadTimesOut, WriteReply, perConn
  <2> QED BY <2>1, <2>2
<1>9. ASSUME NEW c \in Clients, Panics(c) \/ Release(c) PROVE Shape'
  <2>1. pc' \in [Clients -> ThreadPC]
    BY <1>9 DEF Panics, Release, ThreadPC
  <2>2. conns' \in Nat /\ leaked' \in Nat
    BY <1>9, ReleasersAreCounted DEF Panics, Release, Serving
  <2>3. UNCHANGED <<role, main, backlog, boot, roots, silent, deaf>>
    BY <1>9 DEF Panics, Release, perConn
  <2> QED BY <2>1, <2>2, <2>3
<1>10. ASSUME NEW c \in Clients, Drop(c) PROVE Shape'
  <2>1. pc' \in [Clients -> ThreadPC]
    BY <1>10 DEF Drop, ThreadPC
  <2>2. /\ boot' \in [Clients -> BOOLEAN]
        /\ silent' \in [Clients -> BOOLEAN] /\ deaf' \in [Clients -> BOOLEAN]
    BY <1>10 DEF Drop
  <2>3. roots' \in [Clients -> 0 .. MaxRoots]
    BY <1>10, MaxRootsAssumption DEF Drop
  <2> QED BY <1>10, <2>1, <2>2, <2>3 DEF Drop
<1> QED BY <1>1, <1>2, <1>3, <1>4, <1>5, <1>6, <1>7, <1>8, <1>9, <1>10
        DEF SrvNext, AcceptLoop, Thread

\* A thread that moves, or ends, does not put its connection anywhere else.
LEMMA ApartOfThread ==
    ASSUME SrvInv, NEW c \in Clients, pc[c] # NoThread, NEW to,
           pc' = [pc EXCEPT ![c] = to], UNCHANGED <<main, backlog>>
    PROVE  Apart'
<1>1. \A x \in Clients : x # c => pc'[x] = pc[x]
  BY DEF SrvInv, Shape
<1>2. ~Queued(c) /\ (Deciding => main.c # c)
  BY DEF SrvInv, Apart
<1>3. /\ \A i, j \in DOMAIN backlog' : backlog'[i] = backlog'[j] => i = j
      /\ \A x \in Clients : Queued(x)' = Queued(x)
  BY DEF SrvInv, Apart, Queued
<1>4. \A x \in Clients : Queued(x)' => pc'[x] = NoThread
  BY <1>1, <1>2, <1>3 DEF SrvInv, Apart
<1>5. Deciding' => ~Queued(main.c)' /\ pc'[main'.c] = NoThread
  <2> SUFFICES ASSUME Deciding PROVE ~Queued(main.c)' /\ pc'[main.c] = NoThread
    BY DEF Deciding
  <2>1. PICK k \in Clients : k = main.c
    BY DecidingIsClient DEF SrvInv
  <2>2. ~Queued(k) /\ pc[k] = NoThread /\ k # c
    BY <2>1, <1>2 DEF SrvInv, Apart
  <2>3. ~Queued(main.c)'
    BY <2>1, <2>2 DEF Queued
  <2>4. pc'[k] = NoThread
    BY <1>1, <2>2
  <2> QED BY <2>1, <2>3, <2>4
<1> QED BY <1>3, <1>4, <1>5 DEF Apart

\* The head of the backlog moves to the accepting thread.
LEMMA ApartOfAccept ==
    ASSUME SrvInv, Accept
    PROVE  Apart'
<1>1. /\ backlog \in Seq(Clients) /\ backlog # << >>
      /\ backlog' = Tail(backlog) /\ pc' = pc /\ main'.c = Head(backlog)
  BY DEF SrvInv, Shape, Accept
<1>2. /\ DOMAIN backlog' = 1 .. Len(backlog) - 1
      /\ \A i \in DOMAIN backlog' : backlog'[i] = backlog[i + 1] /\ i + 1 \in DOMAIN backlog
      /\ Head(backlog) = backlog[1] /\ 1 \in DOMAIN backlog
  <2>1. Len(backlog) \in Nat \ {0} /\ DOMAIN backlog = 1 .. Len(backlog)
    BY <1>1, EmptySeq, LenProperties
  <2> QED BY <1>1, <2>1, HeadTailProperties
<1>3. \A i, j \in DOMAIN backlog : backlog[i] = backlog[j] => i = j
  BY DEF SrvInv, Apart
<1>4. \A i, j \in DOMAIN backlog' : backlog'[i] = backlog'[j] => i = j
  <2> TAKE i, j \in DOMAIN backlog'
  <2> HAVE backlog'[i] = backlog'[j]
  <2>1. i + 1 = j + 1
    BY <1>2, <1>3
  <2> QED BY <2>1, <1>2
<1>5. \A x : Queued(x)' => Queued(x)
  BY <1>2 DEF Queued
<1>6. \A x \in Clients : Queued(x)' => pc'[x] = NoThread
  BY <1>1, <1>5 DEF SrvInv, Apart
<1>7. PICK k \in Clients : k = Head(backlog)
  BY <1>1, HeadTailProperties
<1>8. pc'[k] = NoThread
  BY <1>1, <1>2, <1>7 DEF SrvInv, Apart, Queued
<1>9. ~Queued(main.c)'
  <2> SUFFICES ASSUME NEW i \in DOMAIN backlog', backlog'[i] = main'.c PROVE FALSE
    BY DEF Queued
  <2>1. backlog[i + 1] = backlog[1]
    BY <1>1, <1>2
  <2>2. i + 1 = 1
    BY <2>1, <1>2, <1>3
  <2> QED BY <2>2, <1>2
<1> QED BY <1>1, <1>4, <1>6, <1>7, <1>8, <1>9 DEF Apart

\* Only a peer without a connection enters the backlog.
LEMMA ApartOfConnect ==
    ASSUME SrvInv, NEW c \in Clients, Connect(c)
    PROVE  Apart'
<1>1. /\ backlog \in Seq(Clients) /\ backlog' = Append(backlog, c)
      /\ UNCHANGED <<pc, main>>
      /\ ~Queued(c) /\ main.c # c /\ pc[c] = NoThread
  BY DEF SrvInv, Shape, Connect, Connected
<1>2. /\ Len(backlog) \in Nat /\ DOMAIN backlog = 1 .. Len(backlog)
      /\ DOMAIN backlog' = 1 .. Len(backlog) + 1
      /\ \A i \in DOMAIN backlog : backlog'[i] = backlog[i]
      /\ backlog'[Len(backlog) + 1] = c
  BY <1>1, LenProperties, AppendProperties
<1>3. \A i \in DOMAIN backlog' : i \in DOMAIN backlog \/ i = Len(backlog) + 1
  BY <1>2
<1>4. \A i \in DOMAIN backlog : backlog[i] # c
  BY <1>1 DEF Queued
<1>5. \A i, j \in DOMAIN backlog' : backlog'[i] = backlog'[j] => i = j
  <2>1. \A i, j \in DOMAIN backlog : backlog[i] = backlog[j] => i = j
    BY DEF SrvInv, Apart
  <2> QED BY <2>1, <1>2, <1>3, <1>4
<1>6. \A x : Queued(x)' => Queued(x) \/ x = c
  BY <1>2, <1>3 DEF Queued
<1>7. \A x \in Clients : Queued(x)' => pc'[x] = NoThread
  BY <1>1, <1>6 DEF SrvInv, Apart
<1>8. Deciding' => ~Queued(main.c)' /\ pc'[main'.c] = NoThread
  <2> SUFFICES ASSUME Deciding PROVE ~Queued(main.c)' /\ pc[main.c] = NoThread
    BY <1>1 DEF Deciding
  <2>1. ~Queued(main.c) /\ pc[main.c] = NoThread
    BY DEF SrvInv, Apart
  <2>2. ~Queued(main.c)'
    <3> SUFFICES ASSUME NEW i \in DOMAIN backlog', backlog'[i] = main.c PROVE FALSE
      BY <1>1 DEF Queued
    <3> QED BY <1>1, <1>2, <1>3, <2>1 DEF Queued
  <2> QED BY <2>1, <2>2
<1> QED BY <1>5, <1>7, <1>8 DEF Apart

\* The accepting thread lets go of its connection.
LEMMA ApartOfMain ==
    ASSUME SrvInv, Refuse \/ Spawn \/ ServeEnds
    PROVE  Apart'
<1>1. ~Deciding'
  BY DEF Refuse, Spawn, ServeEnds, AtAccept, AtExit, Deciding
<1>2. CASE Refuse
  BY <1>1, <1>2 DEF SrvInv, Apart, Refuse, Queued
<1>3. CASE Spawn
  <2>1. ~Queued(main.c)
    BY <1>3 DEF Spawn, Deciding, SrvInv, Apart
  <2>2. backlog' = backlog /\ \A x \in Clients : x # main.c => pc'[x] = pc[x]
    BY <1>3 DEF Spawn, SrvInv, Shape
  <2>3. \A x \in Clients : Queued(x)' => Queued(x)
    BY <2>2 DEF Queued
  <2>4. \A x \in Clients : Queued(x)' => pc'[x] = NoThread
    BY <2>1, <2>2, <2>3 DEF SrvInv, Apart
  <2> QED BY <1>1, <2>2, <2>4 DEF SrvInv, Apart
<1>4. CASE ServeEnds
  BY <1>1, <1>4 DEF ServeEnds, Apart, Queued
<1> QED BY <1>2, <1>3, <1>4

\* A connection is in one place after every step.
LEMMA ApartStep ==
    ASSUME SrvInv, SrvNext
    PROVE  Apart'
<1>1. ASSUME NEW c \in Clients, FallSilent(c) \/ TurnDeaf(c) PROVE Apart'
  BY <1>1 DEF SrvInv, Apart, FallSilent, TurnDeaf, Deciding, Queued
<1>2. ASSUME NEW c \in Clients,
             \/ \E v \in Verbs : Serve(c, v)
             \/ CommandEnds(c) \/ Panics(c) \/ ReadEnds(c) \/ WriteFails(c) \/ Thread(c)
      PROVE  Apart'
  <2>1. \E to \in ThreadPC : pc' = [pc EXCEPT ![c] = to]
    BY <1>2 DEF Serve, CommandEnds, Panics, ReadEnds, WriteFails, Thread,
                ReadTimesOut, WriteReply, Release, Drop, ThreadPC, NoThread
  <2>2. pc[c] # NoThread /\ UNCHANGED <<main, backlog>>
    BY <1>2 DEF Serve, CommandEnds, Panics, ReadEnds, WriteFails, Thread,
                ReadTimesOut, WriteReply, Release, Drop, NoThread
  <2> QED BY <2>1, <2>2, ApartOfThread
<1> QED BY <1>1, <1>2, ApartOfAccept, ApartOfConnect, ApartOfMain DEF SrvNext, AcceptLoop

(***************************************************************************)
(* Roots                                                                   *)
(***************************************************************************)
\* Steps that leave the roots alone and do not end a connection.
LEMMA RootsKept ==
    ASSUME SrvInv, UNCHANGED <<role, boot, roots>>,
           \A x \in Clients : pc'[x] = NoThread => pc[x] = NoThread
    PROVE  Fresh' /\ BootIsGuests' /\ OneRootPerGuest'
BY DEF SrvInv, Fresh, BootIsGuests, OneRootPerGuest

\* A new session has at most the injected root.
LEMMA RootsOfSpawn ==
    ASSUME SrvInv, Spawn
    PROVE  Fresh' /\ BootIsGuests' /\ OneRootPerGuest'
<1>1. PICK k \in Clients : k = main.c
  BY DecidingIsClient DEF SrvInv, Spawn, Deciding
<1>2. PICK opens \in BOOLEAN : boot' = [boot EXCEPT ![k] = (role = "Guest" /\ opens)]
  BY <1>1 DEF Spawn
<1>3. pc' = [pc EXCEPT ![k] = "read"] /\ UNCHANGED <<role, roots>>
  BY <1>1 DEF Spawn
<1>4. ~boot[k] /\ roots[k] = 0
  BY <1>1 DEF SrvInv, Apart, Fresh, Spawn, Deciding
<1>5. boot'[k] => role = "Guest"
  BY <1>2 DEF SrvInv, Shape
<1>6. \A x \in Clients : x # k => boot'[x] = boot[x] /\ pc'[x] = pc[x]
  BY <1>2, <1>3 DEF SrvInv, Shape
<1>7. pc'[k] # NoThread
  BY <1>3 DEF SrvInv, Shape, NoThread
<1>8. Fresh' /\ BootIsGuests'
  BY <1>3, <1>5, <1>6, <1>7 DEF SrvInv, Fresh, BootIsGuests
<1>9. OneRootPerGuest'
  BY <1>3, <1>4, <1>6 DEF SrvInv, OneRootPerGuest
<1> QED BY <1>8, <1>9

\* The end of a session takes its roots with it.
LEMMA RootsOfDrop ==
    ASSUME SrvInv, NEW c \in Clients, Drop(c)
    PROVE  Fresh' /\ BootIsGuests' /\ OneRootPerGuest'
<1>1. /\ boot'[c] = FALSE /\ roots'[c] = 0 /\ role' = role
      /\ \A x \in Clients : x # c =>
            boot'[x] = boot[x] /\ roots'[x] = roots[x] /\ pc'[x] = pc[x]
  BY DEF SrvInv, Shape, Drop
<1>2. Fresh' /\ BootIsGuests'
  BY <1>1 DEF SrvInv, Fresh, BootIsGuests
<1>3. OneRootPerGuest'
  BY <1>1 DEF SrvInv, OneRootPerGuest
<1> QED BY <1>2, <1>3

\* One frame.
LEMMA RootsOfFrame ==
    ASSUME SrvInv, NEW c \in Clients, NEW v \in Verbs, Serve(c, v)
    PROVE  Fresh' /\ BootIsGuests' /\ OneRootPerGuest'
<1>1. /\ pc'[c] # NoThread /\ role' = role
      /\ \A x \in Clients : x # c => pc'[x] = pc[x]
  BY DEF Serve, SrvInv, Shape, NoThread
<1>2. /\ \A x \in Clients : boot'[x] => boot[x]
      /\ \A x \in Clients : x # c => boot'[x] = boot[x] /\ roots'[x] = roots[x]
      /\ role = "Guest" => roots'[c] + (IF boot'[c] THEN 1 ELSE 0) <= 1
  BY RootsOfServe
<1>3. Fresh' /\ BootIsGuests'
  BY <1>1, <1>2 DEF SrvInv, Fresh, BootIsGuests
<1>4. OneRootPerGuest'
  BY <1>1, <1>2 DEF SrvInv, OneRootPerGuest
<1> QED BY <1>3, <1>4

\* A guest's connection keeps its single root in every step.
LEMMA RootsStep ==
    ASSUME SrvInv, SrvNext
    PROVE  Fresh' /\ BootIsGuests' /\ OneRootPerGuest'
<1>1. CASE Accept \/ Refuse
  BY <1>1, RootsKept DEF Accept, Refuse, perConn
<1>2. CASE ServeEnds
  <2>1. \A x \in Clients : boot'[x] = FALSE /\ roots'[x] = 0
    BY <1>2 DEF ServeEnds
  <2>2. Fresh' /\ BootIsGuests'
    BY <2>1 DEF Fresh, BootIsGuests
  <2>3. OneRootPerGuest'
    BY <2>1 DEF OneRootPerGuest
  <2> QED BY <2>2, <2>3
<1>3. ASSUME NEW c \in Clients, Connect(c) \/ FallSilent(c) \/ TurnDeaf(c)
      PROVE  Fresh' /\ BootIsGuests' /\ OneRootPerGuest'
  BY <1>3, RootsKept DEF Connect, FallSilent, TurnDeaf, perConn
<1>4. ASSUME NEW c \in Clients,
             \/ CommandEnds(c) \/ Panics(c) \/ ReadEnds(c) \/ WriteFails(c)
             \/ ReadTimesOut(c) \/ WriteReply(c) \/ Release(c)
      PROVE  Fresh' /\ BootIsGuests' /\ OneRootPerGuest'
  <2>1. UNCHANGED <<role, boot, roots>>
    BY <1>4 DEF CommandEnds, Panics, ReadEnds, WriteFails, ReadTimesOut, WriteReply,
                Release, perConn
  <2>2. \E to \in ThreadPC \ {NoThread} : pc' = [pc EXCEPT ![c] = to]
    BY <1>4 DEF CommandEnds, Panics, ReadEnds, WriteFails, ReadTimesOut, WriteReply,
                Release, ThreadPC, NoThread
  <2>3. \A x \in Clients : pc'[x] = NoThread => pc[x] = NoThread
    BY <2>2 DEF SrvInv, Shape
  <2> QED BY <2>1, <2>3, RootsKept
<1> QED BY <1>1, <1>2, <1>3, <1>4, RootsOfSpawn, RootsOfDrop, RootsOfFrame
        DEF SrvNext, AcceptLoop, Thread

(***************************************************************************)
(* Theorems                                                                *)
(***************************************************************************)
\* The service starts without connections.
LEMMA SrvInitHolds == SrvInit => SrvInv
<1> SUFFICES ASSUME SrvInit PROVE SrvInv
  OBVIOUS
<1> USE DEF SrvInit
<1>1. Shape
  <2>1. << >> \in Seq(Clients)
    OBVIOUS
  <2>2. main \in Main /\ pc \in [Clients -> ThreadPC]
    BY DEF Main, ThreadPC
  <2>3. roots \in [Clients -> 0 .. MaxRoots]
    BY MaxRootsAssumption
  <2> QED BY <2>1, <2>2, <2>3 DEF Shape
<1>2. Apart
  BY DEF Apart, Queued, Deciding, AtAccept
<1>3. Fresh /\ BootIsGuests
  BY DEF Fresh, BootIsGuests
<1>4. OneRootPerGuest
  <2>1. \A c \in Clients : roots[c] = 0 /\ boot[c] = FALSE
    OBVIOUS
  <2> QED BY <2>1 DEF OneRootPerGuest
<1>5. Cardinality(Holders) = 0
  <2>1. Holders = {}
    BY DEF Holders, Serving, NoThread
  <2> QED BY <2>1, FS_EmptySet
<1>6. SlotsAccounted /\ Room
  BY <1>5, MaxConnsAssumption DEF SlotsAccounted, Room, AtAccept
<1> QED BY <1>1, <1>2, <1>3, <1>4, <1>6 DEF SrvInv

\* The inductive invariant of the service: types, a connection in one place at
\* a time, fresh roots, an exact counter, and room for whoever gets a thread.
THEOREM ServerInvariant == SrvSpec => []SrvInv
<1>1. SrvInit => SrvInv
  BY SrvInitHolds
<1>2. SrvInv /\ [SrvNext]_srvVars => SrvInv'
  <2> SUFFICES ASSUME SrvInv, [SrvNext]_srvVars PROVE SrvInv'
    OBVIOUS
  <2>1. CASE SrvNext
    BY <2>1, ShapeStep, ApartStep, RootsStep, CountsStep DEF SrvInv
  <2>2. CASE UNCHANGED srvVars
    BY <2>2 DEF srvVars, SrvInv, Shape, Apart, Queued, Deciding, Fresh, BootIsGuests,
                OneRootPerGuest, SlotsAccounted, Room, Holders, Serving
  <2> QED BY <2>1, <2>2
<1> QED BY <1>1, <1>2, PTL DEF SrvSpec

\* The counter of connections never exceeds MAX_CONNS by more than the one
\* connection that is about to be turned away, and the other types.
THEOREM ServerTypeCorrect == SrvSpec => []SrvTypeOK
<1>1. SrvInv => SrvTypeOK
  <2> SUFFICES ASSUME SrvInv PROVE SrvTypeOK
    OBVIOUS
  <2>1. Cardinality(Holders) \in Nat /\ leaked \in Nat /\ conns \in Nat
    BY HoldersFinite DEF SrvInv, Shape
  <2>2. conns \in 0 .. MaxConns + 1 /\ leaked \in 0 .. MaxConns
    BY <2>1, MaxConnsAssumption DEF SrvInv, SlotsAccounted, Room
  <2> QED BY <2>2 DEF SrvInv, Shape, SrvTypeOK
<1> QED BY <1>1, ServerInvariant, PTL

\* CONNS counts exactly the connections being served, the one being decided on
\* and the slots that panics have lost.
THEOREM CounterIsExact == SrvSpec => []SlotsAccounted
<1>1. SrvInv => SlotsAccounted
  BY DEF SrvInv
<1> QED BY <1>1, ServerInvariant, PTL

\* At most MAX_CONNS connections are served at a time, for any number of peers.
THEOREM LimitHolds == SrvSpec => []AtMostMaxConns
<1>1. SrvInv => AtMostMaxConns
  BY DEF SrvInv, Room, AtMostMaxConns
<1> QED BY <1>1, ServerInvariant, PTL

\* A guest's connection is handed at most one underived capability.
THEOREM GuestsHaveOneRoot == SrvSpec => []OneRootPerGuest
<1>1. SrvInv => OneRootPerGuest
  BY DEF SrvInv
<1> QED BY <1>1, ServerInvariant, PTL
=============================================================================
