-------------------------- MODULE AuditSinkProofs --------------------------
(***************************************************************************)
(* Proofs about AuditSink for any set of sessions, any payloads and any    *)
(* bounds: the type invariant, the durability of what record has           *)
(* acknowledged, the order of log and anchor, the append-only log, the     *)
(* refinement of DurableLog, and that a sink without a failed record call  *)
(* is at rest in a verifiable state whose chain has every acknowledged     *)
(* event.                                                                  *)
(*                                                                         *)
(* TypeOK says nothing about the line a call in progress has written, so   *)
(* the two safety invariants are not inductive.  SinkInv adds what the     *)
(* order of the system calls in `record' guarantees at each program point, *)
(* and that a fragment at the end of the log of a running broker has never *)
(* been forced out: otherwise the next write would change a durable entry. *)
(* ChainInv, on top of it, says how log, anchor, count and head belong     *)
(* together in the middle of a call.  That open keeps what is acknowledged *)
(* in the chain needs the one argument here about a whole log: in a log    *)
(* that replays, the hash of every line commits to all lines before it     *)
(* (HashesChain), by the least position at which it would not.             *)
(***************************************************************************)
EXTENDS AuditSink, SequenceTheorems, FiniteSetTheorems, WellFoundedInduction, TLAPS

\* A write completes the log's last entry only if that entry is not durable.
FragmentNotDurable ==
    (status = "up" /\ EndsInFragment(log)) => synced < Len(log)

\* record, before sync_data: its line is the last of the log.
WrittenIsLast ==
    call.pc = "written" =>
        /\ log # << >>
        /\ log[Len(log)].rec = call.line

\* record, after sync_data: its line is on the disk.
SyncedIsDurable ==
    call.pc \in {"synced", "renamed"} => call.line \in OnDisk

SinkInv ==
    /\ TypeOK
    /\ FragmentNotDurable
    /\ WrittenIsLast
    /\ SyncedIsDurable
    /\ AckedIsDurable
    /\ AnchorNamesDurableLine

(***************************************************************************)
(* Data                                                                    *)
(***************************************************************************)
\* A fragment is not a line: it commits to no event.
LEMMA FragmentIsNoLine == Fragment \notin Line
<1>1. ASSUME NEW e \in Event PROVE e # << >>
  BY DEF Event
<1> QED BY <1>1 DEF Fragment, Line

\* The line of a new call, and the hash it hands to its successor.
LEMMA NewLineType ==
    ASSUME TypeOK, NEW s \in Sessions, NEW o \in Ops
    PROVE  NewLine(s, o) \in Line
BY DEF TypeOK, NewLine, Line, Event

\* A hash commits to a line; the next position is a number.
LEMMA HashType ==
    ASSUME NEW l \in Line
    PROVE  HashOf(l) \in Hash /\ l.seq + 1 \in Nat
BY DEF HashOf, Hash, Line

\* An entry of the log, intact or damaged, has its type.
LEMMA EntryType ==
    ASSUME NEW l \in Line \cup {Fragment}
    PROVE  /\ Clean(l) \in Entry /\ Clean(l).rec = l
           /\ Torn(l) \in Entry /\ Torn(l).rec = l
BY DEF Clean, Torn, Entry

\* A log ends in a fragment if its last entry is one.
LEMMA LastIsIndexed ==
    ASSUME NEW f
    PROVE  EndsInFragment(f) <=> f # << >> /\ f[Len(f)].rec = Fragment
BY DEF EndsInFragment, Last

\* writeln! on the log adds one entry or completes the fragment at the end.
LEMMA WriteEffect ==
    ASSUME NEW f \in Seq(Entry), NEW l \in Line
    PROVE  /\ Write(f, l) \in Seq(Entry)
           /\ Write(f, l) # << >>
           /\ Len(f) <= Len(Write(f, l))
           /\ Write(f, l)[Len(Write(f, l))].rec = l
           /\ \A i \in 1 .. Len(f) :
                  (i < Len(f) \/ ~EndsInFragment(f)) => Write(f, l)[i] = f[i]
<1>1. Clean(l) \in Entry /\ Torn(l) \in Entry /\ Clean(l).rec = l /\ Torn(l).rec = l
  BY EntryType
<1>2. CASE EndsInFragment(f)
  <2>1. f # << >>
    BY <1>2 DEF EndsInFragment
  <2>2. Len(f) \in 1 .. Len(f)
    BY <2>1, EmptySeq
  <2>3. Write(f, l) = [f EXCEPT ![Len(f)] = Torn(l)]
    BY <1>2 DEF Write
  <2>4. /\ Write(f, l) \in Seq(Entry) /\ Len(Write(f, l)) = Len(f)
        /\ \A j \in 1 .. Len(f) : Write(f, l)[j] = IF j = Len(f) THEN Torn(l) ELSE f[j]
    BY <1>1, <2>2, <2>3, ExceptSeq
  <2>5. Write(f, l) # << >>
    BY <2>2, <2>4, EmptySeq
  <2> QED BY <1>1, <1>2, <2>2, <2>4, <2>5
<1>3. CASE ~EndsInFragment(f)
  <2>1. Write(f, l) = Append(f, Clean(l))
    BY <1>3 DEF Write
  <2>2. /\ Write(f, l) \in Seq(Entry) /\ Write(f, l) # << >>
        /\ Len(Write(f, l)) = Len(f) + 1
        /\ \A i \in 1 .. Len(f) : Write(f, l)[i] = f[i]
        /\ Write(f, l)[Len(f) + 1] = Clean(l)
    BY <1>1, <2>1, AppendProperties
  <2>3. Len(f) \in Nat
    BY LenProperties
  <2> QED BY <1>1, <2>2, <2>3
<1> QED BY <1>2, <1>3

\* A write stopped half way changes no entry and leaves a fragment at the end.
LEMMA FragmentEffect ==
    ASSUME NEW f \in Seq(Entry)
    PROVE  /\ WriteFragment(f) \in Seq(Entry)
           /\ WriteFragment(f) = f \/ Len(WriteFragment(f)) = Len(f) + 1
           /\ \A i \in 1 .. Len(f) : WriteFragment(f)[i] = f[i]
<1>1. Torn(Fragment) \in Entry
  BY EntryType
<1>2. CASE EndsInFragment(f)
  BY <1>2 DEF WriteFragment
<1>3. CASE ~EndsInFragment(f)
  BY <1>1, <1>3, AppendProperties DEF WriteFragment
<1> QED BY <1>2, <1>3

\* What a crash leaves keeps every durable entry.
LEMMA CrashEffect ==
    ASSUME TypeOK, NEW f \in LogsAfterCrash
    PROVE  /\ f \in Seq(Entry)
           /\ synced <= Len(f)
           /\ \A i \in 1 .. synced : f[i] = log[i]
<1>1. Len(log) \in Nat /\ synced \in 0 .. Len(log) /\ log \in Seq(Entry)
  BY LenProperties DEF TypeOK
<1>2. ASSUME NEW k \in synced .. Len(log)
      PROVE  /\ SubSeq(log, 1, k) \in Seq(Entry) /\ Len(SubSeq(log, 1, k)) = k
             /\ \A i \in 1 .. k : SubSeq(log, 1, k)[i] = log[i]
  <2>1. \A i \in 1 .. k : log[i] \in Entry
    BY <1>1, ElementOfSeq
  <2> QED BY <1>1, <2>1, SubSeqProperties
<1>3. CASE \E k \in synced .. Len(log) : f = SubSeq(log, 1, k)
  BY <1>1, <1>2, <1>3
<1>4. CASE \E k \in synced .. Len(log) : f = Append(SubSeq(log, 1, k), Torn(Fragment))
  <2>1. PICK k \in synced .. Len(log) : f = Append(SubSeq(log, 1, k), Torn(Fragment))
    BY <1>4
  <2>2. Torn(Fragment) \in Entry
    BY EntryType
  <2>3. f \in Seq(Entry) /\ Len(f) = k + 1 /\ \A i \in 1 .. k : f[i] = SubSeq(log, 1, k)[i]
    BY <1>2, <2>1, <2>2, AppendProperties
  <2> QED BY <1>1, <1>2, <2>3
<1> QED BY <1>3, <1>4 DEF LogsAfterCrash

(***************************************************************************)
(* The durable part of the log only grows                                  *)
(***************************************************************************)
\* The durable entries are still there after the step, at their places.
Keeps ==
    /\ synced' \in Nat
    /\ synced <= synced' /\ synced' <= Len(log')
    /\ \A i \in 1 .. synced : log'[i] = log[i]

\* Every step of the sink keeps what is durable: a write touches at most the
\* fragment at the end, a crash cuts the log behind its forced prefix.
LEMMA StepKeeps ==
    ASSUME SinkInv, [Next]_vars
    PROVE  Keeps /\ log' \in Seq(Entry)
<1> USE DEF SinkInv
<1>1. log \in Seq(Entry) /\ Len(log) \in Nat /\ synced \in 0 .. Len(log)
  BY LenProperties DEF TypeOK
<1>2. CASE \E s \in Sessions, o \in Ops : AppendLine(s, o)
  <2>1. PICK s \in Sessions, o \in Ops : AppendLine(s, o)
    BY <1>2
  <2>2. NewLine(s, o) \in Line
    BY NewLineType
  <2>3. log' = Write(log, NewLine(s, o)) /\ synced' = synced
    BY <2>1 DEF AppendLine
  <2>4. /\ log' \in Seq(Entry) /\ Len(log) <= Len(log')
        /\ \A i \in 1 .. Len(log) :
               (i < Len(log) \/ ~EndsInFragment(log)) => log'[i] = log[i]
    BY <1>1, <2>2, <2>3, WriteEffect
  <2>5. EndsInFragment(log) => synced < Len(log)
    BY <2>1 DEF AppendLine, Idle, FragmentNotDurable
  <2>6. Len(log') \in Nat
    BY <2>4, LenProperties
  <2> QED BY <1>1, <2>3, <2>4, <2>5, <2>6 DEF Keeps
<1>3. CASE \E s \in Sessions : AppendFails(s)
  <2>1. log' \in {log, WriteFragment(log)} /\ synced' = synced
    BY <1>3 DEF AppendFails
  <2>2. /\ log' \in Seq(Entry) /\ (log' = log \/ Len(log') = Len(log) + 1)
        /\ \A i \in 1 .. Len(log) : log'[i] = log[i]
    BY <1>1, <2>1, FragmentEffect
  <2> QED BY <1>1, <2>1, <2>2 DEF Keeps
<1>4. CASE Sync
  BY <1>1, <1>4 DEF Sync, Keeps
<1>5. CASE Rename \/ Finish \/ StepFails \/ ProcessEnds \/ Open \/ UNCHANGED vars
  <2>1. log' = log /\ synced' = synced
    BY <1>5 DEF Rename, Finish, StepFails, ProcessEnds, Open, vars, files
  <2> QED BY <1>1, <2>1 DEF Keeps
<1>6. CASE Crash
  <2>1. log' \in LogsAfterCrash /\ synced' = Len(log')
    BY <1>6 DEF Crash
  <2>2. /\ log' \in Seq(Entry) /\ synced <= Len(log')
        /\ \A i \in 1 .. synced : log'[i] = log[i]
    BY <2>1, CrashEffect
  <2>3. Len(log') \in Nat
    BY <2>2, LenProperties
  <2> QED BY <2>1, <2>2, <2>3 DEF Keeps
<1> QED BY <1>2, <1>3, <1>4, <1>5, <1>6 DEF Next

\* Forcing out more of the log only adds to what is on the disk.
LEMMA OnDiskGrows ==
    ASSUME TypeOK, Keeps
    PROVE  OnDisk \subseteq OnDisk'
<1>1. synced \in Nat /\ synced' \in Nat /\ synced <= synced'
  BY LenProperties DEF TypeOK, Keeps
<1>2. \A i \in 1 .. synced : i \in 1 .. synced' /\ log'[i].rec = log[i].rec
  BY <1>1 DEF Keeps
<1> QED BY <1>2 DEF OnDisk

\* A step that keeps the forced prefix and its length keeps what is on the disk.
LEMMA OnDiskSame ==
    ASSUME Keeps, synced' = synced
    PROVE  OnDisk' = OnDisk
BY DEF Keeps, OnDisk

\* What is on the disk are lines.
LEMMA OnDiskType == TypeOK => OnDisk \subseteq Line
<1> SUFFICES ASSUME TypeOK PROVE OnDisk \subseteq Line
  OBVIOUS
<1>1. \A i \in 1 .. synced : log[i] \in Entry
  BY ElementOfSeq, LenProperties DEF TypeOK
<1> QED BY <1>1 DEF OnDisk, Entry

(***************************************************************************)
(* Each conjunct of the invariant is preserved                             *)
(***************************************************************************)
\* TypeOK is preserved.
LEMMA TypeStep ==
    ASSUME SinkInv, [Next]_vars
    PROVE  TypeOK'
<1> USE DEF SinkInv
<1>1. log' \in Seq(Entry) /\ synced' \in 0 .. Len(log')
  <2>1. Keeps /\ log' \in Seq(Entry)
    BY StepKeeps
  <2>2. Len(log') \in Nat
    BY <2>1, LenProperties
  <2> QED BY <2>1, <2>2 DEF Keeps
<1>2. call.pc # "idle" => /\ status = "up" /\ call.line \in Line
                         /\ call \in [pc : {"written", "synced", "renamed"}, line : Line]
  BY DEF TypeOK, Call, NoCall
<1>3. ASSUME NEW s \in Sessions, NEW o \in Ops, AppendLine(s, o) PROVE TypeOK'
  <2>1. NewLine(s, o) \in Line
    BY NewLineType
  <2>2. call' \in Call /\ status' = "up"
    BY <1>3, <2>1 DEF AppendLine, Idle, Call, memory
  <2> QED BY <1>1, <1>3, <2>2 DEF AppendLine, TypeOK, memory, history
<1>4. ASSUME NEW s \in Sessions, Fail(s), UNCHANGED <<anchor, anchorD>> PROVE TypeOK'
  BY <1>1, <1>4 DEF Fail, TypeOK, Call
<1>5. ASSUME NEW s \in Sessions, AppendFails(s) PROVE TypeOK'
  BY <1>4, <1>5 DEF AppendFails
<1>6. CASE Sync
  <2>1. call' \in Call /\ status' = "up"
    BY <1>2, <1>6 DEF Sync, Call, memory
  <2> QED BY <1>1, <1>6, <2>1 DEF Sync, TypeOK, memory, history
<1>7. CASE Rename
  <2>1. call' \in Call /\ status' = "up"
    BY <1>2, <1>7 DEF Rename, Call, memory
  <2>2. anchor' \in Anchor
    BY <1>2, <1>7, HashType DEF Rename, Anchor
  <2> QED BY <1>1, <1>7, <2>1, <2>2 DEF Rename, TypeOK, memory, history
<1>8. CASE Finish
  <2>1. call.line \in Line /\ count' \in Nat /\ head' \in Hash
    BY <1>2, <1>8, HashType DEF Finish
  <2> QED BY <1>1, <1>8, <2>1 DEF Finish, TypeOK, Call
<1>9. CASE StepFails
  <2>1. CallerOf(call) \in Sessions
    BY <1>2, <1>9 DEF StepFails, CallerOf, Line, Event
  <2> QED BY <1>4, <1>9, <2>1 DEF StepFails, files
<1>10. CASE ProcessEnds \/ Crash
  <2>1. CASE ProcessEnds
    BY <1>1, <2>1, BoundsAssumption DEF ProcessEnds, TypeOK, Call, files
  <2>2. CASE Crash
    BY <1>1, <2>2, BoundsAssumption DEF Crash, TypeOK, Call
  <2> QED BY <1>10, <2>1, <2>2
<1>11. CASE Open
  <2>1. Accepts => ReplayHead(log) \in Hash
    <3> SUFFICES ASSUME Accepts PROVE ReplayHead(log) \in Hash
      OBVIOUS
    <3>1. CASE log = << >>
      BY <3>1 DEF ReplayHead, GENESIS, Hash
    <3>2. CASE log # << >>
      <4>1. Len(log) \in DOMAIN log /\ log[Len(log)] \in Entry
        BY <3>2, EmptySeq, LenProperties, ElementOfSeq DEF TypeOK
      <4>2. log[Len(log)].rec \in Line
        BY <4>1 DEF Accepts, ReplayOk, Entry
      <4> QED BY <3>2, <4>2, HashType DEF ReplayHead, Last
    <3> QED BY <3>1, <3>2
  <2>2. Len(log) \in Nat
    BY LenProperties DEF TypeOK
  <2>3. CASE status' = "up"
    BY <1>1, <1>11, <2>1, <2>2, <2>3 DEF Open, TypeOK, files
  <2>4. CASE status' = "refused"
    BY <1>1, <1>11, <2>4 DEF Open, TypeOK, files
  <2> QED BY <1>11, <2>3, <2>4 DEF Open
<1>12. CASE UNCHANGED vars
  BY <1>12 DEF vars, files, memory, history, TypeOK
<1> QED
  BY <1>3, <1>5, <1>6, <1>7, <1>8, <1>9, <1>10, <1>11, <1>12 DEF Next

\* FragmentNotDurable is preserved: only the failure of a write leaves a
\* fragment in a running broker, and it leaves it behind the forced prefix.
LEMMA FragmentStep ==
    ASSUME SinkInv, [Next]_vars
    PROVE  FragmentNotDurable'
<1> USE DEF SinkInv
<1>1. log \in Seq(Entry) /\ Len(log) \in Nat /\ synced \in 0 .. Len(log)
  BY LenProperties DEF TypeOK
<1>2. CASE \E s \in Sessions, o \in Ops : AppendLine(s, o)
  <2>1. PICK s \in Sessions, o \in Ops : AppendLine(s, o)
    BY <1>2
  <2>2. NewLine(s, o) \in Line
    BY NewLineType
  <2>3. log' = Write(log, NewLine(s, o)) /\ log'[Len(log')].rec = NewLine(s, o)
    BY <1>1, <2>1, <2>2, WriteEffect DEF AppendLine
  <2>4. ~EndsInFragment(log')
    BY <2>2, <2>3, FragmentIsNoLine, LastIsIndexed
  <2> QED BY <2>4 DEF FragmentNotDurable
<1>3. CASE \E s \in Sessions : AppendFails(s)
  <2>1. log' \in {log, WriteFragment(log)} /\ synced' = synced /\ status = "up"
    BY <1>3 DEF AppendFails, Idle
  <2>2. log' = log \/ Len(log') = Len(log) + 1
    BY <1>1, <2>1, FragmentEffect
  <2>3. log' = log => (EndsInFragment(log') => synced < Len(log))
    BY <2>1 DEF FragmentNotDurable
  <2> QED BY <1>1, <2>1, <2>2, <2>3 DEF FragmentNotDurable
<1>4. CASE Sync
  <2>1. call.pc = "written" /\ log' = log /\ call.line \in Line
    BY <1>4 DEF Sync, TypeOK, Call, NoCall
  <2>2. ~EndsInFragment(log')
    BY <2>1, FragmentIsNoLine, LastIsIndexed DEF WrittenIsLast
  <2> QED BY <2>2 DEF FragmentNotDurable
<1>5. CASE Rename \/ Finish \/ StepFails \/ UNCHANGED vars
  <2>1. log' = log /\ synced' = synced /\ status' = status
    BY <1>5 DEF Rename, Finish, StepFails, Fail, vars, files, memory
  <2> QED BY <2>1 DEF FragmentNotDurable
<1>6. CASE ProcessEnds \/ Crash
  BY <1>6 DEF ProcessEnds, Crash, FragmentNotDurable
<1>7. CASE Open
  <2>1. log' = log
    BY <1>7 DEF Open, files
  <2>2. ASSUME Accepts PROVE ~EndsInFragment(log)
    <3>1. log # << >> => Len(log) \in DOMAIN log
      BY <1>1, EmptySeq, LenProperties
    <3> QED BY <2>2, <3>1, LastIsIndexed DEF Accepts, ReplayOk
  <2>3. CASE Accepts
    BY <2>1, <2>2, <2>3 DEF FragmentNotDurable
  <2>4. CASE status' = "refused"
    BY <2>4 DEF FragmentNotDurable
  <2> QED BY <1>7, <2>3, <2>4 DEF Open
<1> QED BY <1>2, <1>3, <1>4, <1>5, <1>6, <1>7 DEF Next

\* WrittenIsLast is preserved: the mutex keeps other writes out until the call
\* has gone on to sync_data.
LEMMA WrittenStep ==
    ASSUME SinkInv, [Next]_vars
    PROVE  WrittenIsLast'
<1> USE DEF SinkInv
<1>1. CASE \E s \in Sessions, o \in Ops : AppendLine(s, o)
  <2>1. PICK s \in Sessions, o \in Ops : AppendLine(s, o)
    BY <1>1
  <2>2. NewLine(s, o) \in Line /\ log \in Seq(Entry)
    BY NewLineType DEF TypeOK
  <2>3. log' = Write(log, NewLine(s, o)) /\ call'.line = NewLine(s, o)
    BY <2>1 DEF AppendLine
  <2> QED BY <2>2, <2>3, WriteEffect DEF WrittenIsLast
<1>2. CASE UNCHANGED vars
  BY <1>2 DEF vars, files, WrittenIsLast
<1>3. CASE Open
  BY <1>3 DEF Open, files, WrittenIsLast
<1>4. CASE Sync \/ Rename
  <2>1. call'.pc # "written"
    BY <1>4 DEF Sync, Rename, TypeOK, Call, NoCall
  <2> QED BY <2>1 DEF WrittenIsLast
<1>5. CASE (\E s \in Sessions : AppendFails(s)) \/ Finish \/ StepFails
              \/ ProcessEnds \/ Crash
  <2>1. call'.pc # "written"
    BY <1>5 DEF AppendFails, Finish, StepFails, ProcessEnds, Crash, Fail, NoCall
  <2> QED BY <2>1 DEF WrittenIsLast
<1> QED BY <1>1, <1>2, <1>3, <1>4, <1>5 DEF Next

\* SyncedIsDurable is preserved: sync_data makes the line durable, and what is
\* durable stays.
LEMMA SyncedStep ==
    ASSUME SinkInv, [Next]_vars
    PROVE  SyncedIsDurable'
<1> USE DEF SinkInv
<1>1. OnDisk \subseteq OnDisk'
  BY StepKeeps, OnDiskGrows
<1>2. CASE Sync
  <2>1. call.pc = "written" /\ call.line \in Line /\ call'.line = call.line
    BY <1>2 DEF Sync, TypeOK, Call, NoCall
  <2>2. Len(log) \in 1 .. Len(log) /\ log[Len(log)].rec = call.line
    BY <2>1, EmptySeq DEF WrittenIsLast, TypeOK
  <2>3. log' = log /\ synced' = Len(log)
    BY <1>2 DEF Sync
  <2>4. call.line \in OnDisk'
    BY <2>1, <2>2, <2>3, FragmentIsNoLine DEF OnDisk
  <2> QED BY <2>1, <2>4 DEF SyncedIsDurable
<1>3. CASE Rename
  <2>1. call.pc = "synced" /\ call'.line = call.line
    BY <1>3 DEF Rename, TypeOK, Call, NoCall
  <2> QED BY <1>1, <2>1 DEF SyncedIsDurable
<1>4. CASE UNCHANGED vars \/ Open
  BY <1>1, <1>4 DEF vars, Open, SyncedIsDurable
<1>5. CASE \/ \E s \in Sessions : AppendFails(s) \/ \E o \in Ops : AppendLine(s, o)
           \/ Finish \/ StepFails
              \/ ProcessEnds \/ Crash
  <2>1. call'.pc \notin {"synced", "renamed"}
    BY <1>5 DEF AppendLine, AppendFails, Finish, StepFails, ProcessEnds, Crash, Fail, NoCall
  <2> QED BY <2>1 DEF SyncedIsDurable
<1> QED BY <1>2, <1>3, <1>4, <1>5 DEF Next

\* AckedIsDurable is preserved: record acknowledges only after sync_data.
LEMMA AckedStep ==
    ASSUME SinkInv, [Next]_vars
    PROVE  AckedIsDurable'
<1> USE DEF SinkInv
<1>1. OnDisk \subseteq OnDisk'
  BY StepKeeps, OnDiskGrows
<1>2. CASE Finish
  <2>1. acked' = acked \cup {call.line} /\ call.line \in OnDisk
    BY <1>2 DEF Finish, SyncedIsDurable
  <2> QED BY <1>1, <2>1 DEF AckedIsDurable
<1>3. CASE ~Finish
  <2>1. acked' = acked
    BY <1>3 DEF Next, AppendLine, AppendFails, Fail, Sync, Rename, StepFails, ProcessEnds, Crash,
                Open, vars, history
  <2> QED BY <1>1, <2>1 DEF AckedIsDurable
<1> QED BY <1>2, <1>3

\* AnchorNamesDurableLine is preserved: the anchor is renamed into place only
\* after sync_data, and a crash falls back to an anchor that was good before.
LEMMA AnchorStep ==
    ASSUME SinkInv, [Next]_vars
    PROVE  AnchorNamesDurableLine'
<1> USE DEF SinkInv
<1> DEFINE Names(a, l) == a = [count |-> l.seq + 1, head |-> HashOf(l)]
<1>1. OnDisk \subseteq OnDisk'
  BY StepKeeps, OnDiskGrows
<1>2. \A a \in {anchor, anchorD} \ {NoAnchor} : \E l \in OnDisk' : Names(a, l)
  BY <1>1 DEF AnchorNamesDurableLine
<1>3. CASE Rename
  <2>1. call.line \in OnDisk /\ Names(anchor', call.line) /\ anchorD' = anchorD
    BY <1>3 DEF Rename, SyncedIsDurable
  <2> QED BY <1>1, <1>2, <2>1 DEF AnchorNamesDurableLine
<1>4. CASE ~Rename
  <2>1. {anchor', anchorD'} \subseteq {anchor, anchorD}
    BY <1>4 DEF Next, AppendLine, AppendFails, Sync, StepFails, Finish, ProcessEnds, Crash,
                Open, vars, files
  <2> QED BY <1>2, <2>1 DEF AnchorNamesDurableLine
<1> QED BY <1>3, <1>4

\* A new log satisfies the invariant.
LEMMA InitInv == Init => SinkInv
<1> SUFFICES ASSUME Init PROVE SinkInv
  OBVIOUS
<1> USE DEF Init
<1>1. TypeOK
  <2>1. log \in Seq(Entry) /\ Len(log) = 0 /\ head \in Hash
    BY EmptySeq DEF GENESIS, Hash
  <2>2. anchor \in Anchor
    BY EmptySeq DEF NoAnchor, Anchor, GENESIS, Hash
  <2>3. broken \in [Sessions -> BOOLEAN] /\ faulted \in BOOLEAN
    OBVIOUS
  <2>4. synced \in 0 .. Len(log) /\ crashes \in 0 .. MaxCrashes
    BY <2>1, BoundsAssumption
  <2> QED BY <2>1, <2>2, <2>3, <2>4 DEF TypeOK, Call
<1>2. FragmentNotDurable /\ AckedIsDurable /\ AnchorNamesDurableLine
  BY DEF FragmentNotDurable, EndsInFragment, AckedIsDurable, AnchorNamesDurableLine
<1>3. WrittenIsLast /\ SyncedIsDurable
  BY DEF WrittenIsLast, SyncedIsDurable, NoCall
<1> QED BY <1>1, <1>2, <1>3 DEF SinkInv

(***************************************************************************)
(* The chain                                                               *)
(***************************************************************************)
\* How the files and the memory of a sink without a failed call belong
\* together, between two calls of record and at each point of one.
CleanChain ==
    (status = "up" /\ ~faulted) =>
        /\ ReplayOk(log)
        /\ call.pc = "idle" =>
               /\ count = Len(log) /\ head = ReplayHead(log)
               /\ log # << >> => anchor = [count |-> count, head |-> head]
        /\ call.pc # "idle" =>
               /\ log # << >> /\ Len(log) = count + 1
               /\ log[Len(log)].rec = call.line
               /\ call.line.seq = count /\ call.line.prev = head
        /\ call.pc = "renamed" =>
               anchor = [count |-> call.line.seq + 1, head |-> HashOf(call.line)]

ChainInv == SinkInv /\ CleanChain /\ AckedInChain

\* A non-empty set of natural numbers has a least element: strict inclusion of
\* finite sets is well founded, and so is that of the intervals 1 .. x.
LEMMA LeastNat ==
    ASSUME NEW T \in SUBSET Nat, T # {}
    PROVE  \E x \in T : \A y \in T : x <= y
<1> DEFINE I(x) == 1 .. x
           W    == {I(x) : x \in T}
<1>1. \A x \in T : I(x) \in FiniteSubsetsOf(Nat)
  <2> TAKE x \in T
  <2>1. IsFiniteSet(1 .. x)
    BY FS_Interval
  <2> QED BY <2>1 DEF FiniteSubsetsOf
<1>2. W \subseteq FiniteSubsetsOf(Nat) /\ W # {}
  BY <1>1
<1>3. IsWellFoundedOn(StrictSubsetOrdering(Nat), FiniteSubsetsOf(Nat))
  BY FS_StrictSubsetOrderingWellFounded
<1>4. PICK A \in W : \A B \in W : ~(<<B, A>> \in StrictSubsetOrdering(Nat))
  <2> HIDE DEF W
  <2> QED BY <1>2, <1>3, WFMin
<1>5. PICK x \in T : A = I(x)
  BY <1>4
<1>6. ASSUME NEW y \in T, y < x PROVE FALSE
  <2>1. I(y) \subseteq I(x) /\ x \in I(x) /\ x \notin I(y)
    BY <1>6
  <2>2. I(y) \in SUBSET Nat /\ I(x) \in SUBSET Nat /\ I(y) # I(x)
    BY <2>1
  <2>3. <<I(y), I(x)>> \in StrictSubsetOrdering(Nat)
    BY <2>1, <2>2 DEF StrictSubsetOrdering
  <2> QED BY <1>4, <1>5, <2>3
<1>7. \A y \in T : x <= y
  BY <1>6
<1> QED BY <1>7

\* A prefix agrees with the whole in all its elements.
LEMMA PrefixByElement ==
    ASSUME NEW S, NEW s \in Seq(S), NEW t \in Seq(S)
    PROVE  IsPrefix(s, t) <=> Len(s) <= Len(t) /\ \A k \in 1 .. Len(s) : s[k] = t[k]
<1>1. Len(s) \in Nat /\ Len(t) \in Nat
  BY LenProperties
<1>2. SubSeq(s, 1, Len(s)) = s
  BY SubSeqFull
<1>3. ASSUME Len(s) <= Len(t)
      PROVE  SubSeq(t, 1, Len(s)) = s <=> \A k \in 1 .. Len(s) : s[k] = t[k]
  <2>1. \A k \in 1 .. Len(s) : t[k] \in S
    BY <1>1, <1>3, ElementOfSeq
  <2>2. /\ SubSeq(t, 1, Len(s)) \in Seq(S) /\ Len(SubSeq(t, 1, Len(s))) = Len(s)
        /\ \A k \in 1 .. Len(s) : SubSeq(t, 1, Len(s))[k] = t[k]
    BY <1>1, <2>1, SubSeqProperties
  <2>3. (\A k \in 1 .. Len(s) : s[k] = t[k]) => SubSeq(t, 1, Len(s)) = s
    BY <2>2, SeqEqual
  <2> QED BY <2>2, <2>3
<1> QED BY <1>2, <1>3 DEF IsPrefix

\* The prefix order on hashes: reflexive, transitive, and an event extends it.
LEMMA PrefixOrder ==
    ASSUME NEW S, NEW s \in Seq(S), NEW t \in Seq(S), NEW e \in S, IsPrefix(s, t)
    PROVE  IsPrefix(s, Append(t, e)) /\ IsPrefix(t, t)
<1>1. /\ Append(t, e) \in Seq(S) /\ Len(Append(t, e)) = Len(t) + 1
      /\ \A k \in 1 .. Len(t) : Append(t, e)[k] = t[k]
  BY AppendProperties
<1>2. Len(s) \in Nat /\ Len(t) \in Nat /\ Len(s) <= Len(t)
      /\ \A k \in 1 .. Len(s) : s[k] = t[k]
  BY LenProperties, PrefixByElement
<1>3. IsPrefix(s, Append(t, e))
  <2>1. PICK u \in Seq(S) : u = Append(t, e)
    BY <1>1
  <2>2. Len(s) <= Len(u) /\ \A k \in 1 .. Len(s) : s[k] = u[k]
    BY <1>1, <1>2, <2>1
  <2>3. IsPrefix(s, u)
    BY <2>2, PrefixByElement
  <2> QED BY <2>1, <2>3
<1>4. IsPrefix(t, t)
  BY <1>2, PrefixByElement
<1> QED BY <1>3, <1>4

\* In a log that replays, every entry is a line, and each but the first points
\* at the hash of the one before it.
LEMMA ReplayedLines ==
    ASSUME NEW f \in Seq(Entry), ReplayOk(f)
    PROVE  /\ \A i \in DOMAIN f : f[i].rec \in Line /\ HashOf(f[i].rec) \in Hash
           /\ \A i \in DOMAIN f : i # 1 => f[i].rec.prev = HashOf(f[i - 1].rec)
<1>1. \A i \in DOMAIN f : f[i] \in Entry
  BY ElementOfSeq, LenProperties
<1>2. \A i \in DOMAIN f : f[i].rec \in Line
  BY <1>1 DEF ReplayOk, Entry
<1> QED BY <1>2, HashType DEF ReplayOk

\* In a log that replays, a hash commits to all the lines before it.
LEMMA HashesChain ==
    ASSUME NEW f \in Seq(Entry), ReplayOk(f), NEW i \in DOMAIN f
    PROVE  \A j \in DOMAIN f : i <= j => IsPrefix(HashOf(f[i].rec), HashOf(f[j].rec))
<1> DEFINE Chained(j) == IsPrefix(HashOf(f[i].rec), HashOf(f[j].rec))
           bad == {j \in DOMAIN f : i <= j /\ ~Chained(j)}
<1>1. DOMAIN f = 1 .. Len(f) /\ Len(f) \in Nat
  BY LenProperties
<1>2. ASSUME bad # {} PROVE FALSE
  <2>1. PICK j \in bad : \A k \in bad : j <= k
    <3>1. bad \in SUBSET Nat
      BY <1>1
    <3> HIDE DEF bad
    <3> QED BY <1>2, <3>1, LeastNat
  <2>2. HashOf(f[i].rec) \in Hash
    BY ReplayedLines
  <2>3. Chained(i)
    BY <2>2, LenProperties, PrefixByElement DEF Hash
  <2>4. i < j /\ j - 1 \in DOMAIN f /\ i <= j - 1 /\ j # 1
    BY <1>1, <2>1, <2>3
  <2>5. Chained(j - 1)
    BY <1>1, <2>1, <2>4
  <2>6. /\ f[j].rec \in Line /\ HashOf(f[j - 1].rec) \in Hash
        /\ f[j].rec.prev = HashOf(f[j - 1].rec)
    BY <2>1, <2>4, ReplayedLines
  <2>7. HashOf(f[j].rec) = Append(HashOf(f[j - 1].rec), f[j].rec.ev) /\ f[j].rec.ev \in Event
    BY <2>6 DEF HashOf, Line
  <2>8. Chained(j)
    BY <2>2, <2>5, <2>6, <2>7, PrefixOrder DEF Hash
  <2> QED BY <2>1, <2>8
<1> QED BY <1>2

\* The next line of an intact sink continues the log.
LEMMA AppendContinues ==
    ASSUME ChainInv, ~faulted, NEW s \in Sessions, NEW o \in Ops, AppendLine(s, o)
    PROVE  CleanChain'
<1> USE DEF ChainInv, SinkInv
<1> DEFINE l == NewLine(s, o)
<1>1. /\ log \in Seq(Entry) /\ Len(log) \in Nat /\ DOMAIN log = 1 .. Len(log)
      /\ ReplayOk(log) /\ count = Len(log) /\ head = ReplayHead(log)
  BY LenProperties DEF TypeOK, CleanChain, AppendLine, Idle
<1>2. l \in Line /\ l.seq = count /\ l.prev = head /\ l # Fragment
  BY NewLineType, FragmentIsNoLine DEF NewLine
<1>3. ~EndsInFragment(log)
  <2>1. log # << >> => Len(log) \in DOMAIN log
    BY <1>1, EmptySeq
  <2> QED BY <1>1, <2>1, LastIsIndexed DEF ReplayOk
<1>4. log' = Append(log, Clean(l)) /\ call' = [pc |-> "written", line |-> l]
      /\ count' = count /\ head' = head
  BY <1>3 DEF AppendLine, Write, memory
<1> HIDE DEF l
<1>5. Clean(l) \in Entry /\ Clean(l).rec = l /\ Clean(l).clean
  BY <1>2, EntryType DEF Clean
<1>6. /\ log' \in Seq(Entry) /\ log' # << >> /\ Len(log') = Len(log) + 1
      /\ \A i \in 1 .. Len(log) : log'[i] = log[i]
      /\ log'[Len(log) + 1] = Clean(l) /\ DOMAIN log' = 1 .. Len(log) + 1
  BY <1>1, <1>4, <1>5, AppendProperties, LenProperties
<1>7. l.prev = IF Len(log) + 1 = 1 THEN GENESIS ELSE HashOf(log'[Len(log)].rec)
  <2>1. CASE log = << >>
    BY <1>1, <1>2, <2>1 DEF ReplayHead
  <2>2. CASE log # << >>
    BY <1>1, <1>2, <1>6, <2>2, EmptySeq DEF ReplayHead, Last
  <2> QED BY <2>1, <2>2
<1>8. ReplayOk(log')
  <2> SUFFICES ASSUME NEW i \in 1 .. Len(log) + 1
               PROVE  /\ log'[i].clean /\ log'[i].rec # Fragment /\ log'[i].rec.seq = i - 1
                      /\ log'[i].rec.prev = IF i = 1 THEN GENESIS ELSE HashOf(log'[i - 1].rec)
    BY <1>6 DEF ReplayOk
  <2>1. CASE i = Len(log) + 1
    BY <1>1, <1>2, <1>5, <1>6, <1>7, <2>1
  <2>2. CASE i \in 1 .. Len(log)
    <3>1. i # 1 => i - 1 \in 1 .. Len(log)
      BY <1>1, <2>2
    <3> QED BY <1>1, <1>6, <2>2, <3>1 DEF ReplayOk
  <2> QED BY <1>1, <2>1, <2>2
<1> QED BY <1>1, <1>2, <1>4, <1>5, <1>6, <1>8 DEF CleanChain

\* CleanChain is preserved: after a failed call nothing is claimed until open.
LEMMA CleanStep ==
    ASSUME ChainInv, [Next]_vars
    PROVE  CleanChain'
<1> USE DEF ChainInv, SinkInv
<1>1. CASE \E s \in Sessions, o \in Ops : AppendLine(s, o)
  <2>1. CASE faulted
    BY <1>1, <2>1 DEF AppendLine, history, CleanChain
  <2>2. CASE ~faulted
    BY <1>1, <2>2, AppendContinues
  <2> QED BY <2>1, <2>2
<1>2. CASE (\E s \in Sessions : AppendFails(s)) \/ StepFails \/ ProcessEnds \/ Crash
  BY <1>2 DEF AppendFails, StepFails, Fail, ProcessEnds, Crash, CleanChain
<1>3. CASE Sync \/ Rename
  <2>1. /\ call.pc \in {"written", "synced"} /\ call'.line = call.line
        /\ call'.pc \in {"synced", "renamed"}
        /\ UNCHANGED <<log, count, head, status, faulted>>
        /\ call'.pc = "renamed" =>
               anchor' = [count |-> call.line.seq + 1, head |-> HashOf(call.line)]
    BY <1>3 DEF Sync, Rename, TypeOK, Call, NoCall, memory, history
  <2> QED BY <2>1 DEF CleanChain
<1>4. CASE Finish
  <2>1. /\ call.pc = "renamed" /\ call' = NoCall /\ UNCHANGED <<log, anchor, status, faulted>>
        /\ count' = call.line.seq + 1 /\ head' = HashOf(call.line)
    BY <1>4 DEF Finish
  <2> QED BY <2>1 DEF CleanChain, NoCall, ReplayHead, Last
<1>5. CASE Open
  <2>1. call.pc = "idle" /\ call' = call /\ log' = log /\ anchor' = anchor
    BY <1>5 DEF Open, files, TypeOK, NoCall
  <2>2. CASE status' = "up"
    BY <1>5, <2>1, <2>2 DEF Open, Accepts, CleanChain
  <2>3. CASE status' = "refused"
    BY <2>3 DEF CleanChain
  <2> QED BY <1>5, <2>2, <2>3 DEF Open
<1>6. CASE UNCHANGED vars
  BY <1>6 DEF vars, files, memory, history, CleanChain
<1> QED BY <1>1, <1>2, <1>3, <1>4, <1>5, <1>6 DEF Next

\* AckedInChain is preserved: record extends the chain by the line it
\* acknowledges, and open continues from a log that has every durable line.
LEMMA ChainStep ==
    ASSUME ChainInv, [Next]_vars
    PROVE  AckedInChain'
<1> USE DEF ChainInv, SinkInv
<1>1. CASE UNCHANGED <<head, acked, status, faulted>>
  BY <1>1 DEF AckedInChain
<1>2. CASE (\E s \in Sessions : AppendFails(s)) \/ StepFails \/ ProcessEnds \/ Crash
  BY <1>2 DEF AppendFails, StepFails, Fail, ProcessEnds, Crash, AckedInChain
<1>3. CASE Finish
  <2> SUFFICES ASSUME status = "up", ~faulted, NEW l \in acked \cup {call.line}
               PROVE  IsPrefix(HashOf(l), head')
    BY <1>3 DEF Finish, AckedInChain
  <2>1. /\ call.pc = "renamed" /\ call.line \in Line /\ head \in Seq(Event)
        /\ call.line.prev = head
    BY <1>3 DEF Finish, TypeOK, Call, NoCall, CleanChain, Hash
  <2>2. head' = Append(head, call.line.ev) /\ call.line.ev \in Event
    BY <1>3, <2>1 DEF Finish, HashOf, Line
  <2>3. CASE l \in acked
    <3>1. HashOf(l) \in Seq(Event) /\ IsPrefix(HashOf(l), head)
      BY <2>3, HashType DEF TypeOK, Hash, AckedInChain
    <3> QED BY <2>1, <2>2, <3>1, PrefixOrder
  <2>4. CASE l = call.line
    <3>1. head' = HashOf(l) /\ HashOf(l) \in Seq(Event)
      BY <1>3, <2>1, <2>4, HashType DEF Finish, Hash
    <3> QED BY <3>1, LenProperties, PrefixByElement
  <2> QED BY <2>3, <2>4
<1>4. CASE Open
  <2>1. CASE status' = "refused"
    BY <2>1 DEF AckedInChain
  <2>2. CASE status' = "up" /\ Accepts
    <3> SUFFICES ASSUME NEW l \in acked PROVE IsPrefix(HashOf(l), head')
      BY <1>4 DEF Open, AckedInChain
    <3>1. /\ log \in Seq(Entry) /\ DOMAIN log = 1 .. Len(log) /\ Len(log) \in Nat
          /\ synced \in 0 .. Len(log) /\ ReplayOk(log)
      BY <2>2, LenProperties DEF TypeOK, Accepts
    <3>2. PICK i \in 1 .. synced : log[i].rec = l
      BY DEF AckedIsDurable, OnDisk
    <3>3. i \in DOMAIN log /\ Len(log) \in DOMAIN log /\ i <= Len(log) /\ log # << >>
      BY <3>1, <3>2
    <3>4. IsPrefix(HashOf(log[i].rec), HashOf(log[Len(log)].rec))
      BY <3>1, <3>3, HashesChain
    <3>5. head' = HashOf(log[Len(log)].rec)
      BY <1>4, <2>2, <3>3 DEF Open, ReplayHead, Last
    <3> QED BY <3>2, <3>4, <3>5
  <2> QED BY <1>4, <2>1, <2>2 DEF Open
<1> QED BY <1>1, <1>2, <1>3, <1>4
        DEF Next, AppendLine, Sync, Rename, vars, memory, history

(***************************************************************************)
(* The theorems                                                            *)
(***************************************************************************)
\* The inductive invariant of the sink: the order write, sync_data, anchor,
\* acknowledge of `record', under any failure and any crash.
THEOREM SinkInvariant == Spec => []SinkInv
<1>1. SinkInv /\ [Next]_vars => SinkInv'
  BY TypeStep, FragmentStep, WrittenStep, SyncedStep, AckedStep, AnchorStep DEF SinkInv
<1> QED BY <1>1, InitInv, PTL DEF Spec

\* The types of the files, of the sink's memory and of the call in progress.
THEOREM SinkTypeCorrect == Spec => []TypeOK
<1>1. SinkInv => TypeOK
  BY DEF SinkInv
<1> QED BY <1>1, SinkInvariant, PTL

\* A record call that answers Ok has put its line on the disk for good.
THEOREM AcknowledgedLinesAreDurable == Spec => []AckedIsDurable
<1>1. SinkInv => AckedIsDurable
  BY DEF SinkInv
<1> QED BY <1>1, SinkInvariant, PTL

\* The anchor, the durable one included, always names a durable line.
THEOREM AnchorNeverRunsAhead == Spec => []AnchorNamesDurableLine
<1>1. SinkInv => AnchorNamesDurableLine
  BY DEF SinkInv
<1> QED BY <1>1, SinkInvariant, PTL

\* The chain of a sink, through failures, crashes and restarts.
THEOREM ChainInvariant == Spec => []ChainInv
<1>1. Init => ChainInv
  <2> SUFFICES ASSUME Init PROVE ChainInv
    OBVIOUS
  <2>1. log = << >> /\ Len(log) = 0 /\ count = 0 /\ head = GENESIS /\ call.pc = "idle"
    BY DEF Init, NoCall
  <2>2. CleanChain
    BY <2>1 DEF CleanChain, ReplayOk, ReplayHead
  <2>3. AckedInChain
    BY DEF Init, AckedInChain
  <2> QED BY <2>2, <2>3, InitInv DEF ChainInv
<1>2. ChainInv /\ [Next]_vars => ChainInv'
  BY TypeStep, FragmentStep, WrittenStep, SyncedStep, AckedStep, AnchorStep,
     CleanStep, ChainStep DEF ChainInv, SinkInv
<1> QED BY <1>1, <1>2, PTL DEF Spec

\* Between two calls of record, a sink none of whose calls has failed is in a
\* state that verify_persisted accepts and open continues from.
THEOREM CleanSinksVerify == Spec => []CleanSinkVerifies
<1>1. ChainInv => CleanSinkVerifies
  <2> SUFFICES ASSUME ChainInv, Idle, ~faulted
               PROVE  /\ ReplayOk(log) /\ count = Len(log) /\ head = ReplayHead(log)
                      /\ log # << >> => VerifyPersisted
    BY DEF CleanSinkVerifies
  <2>1. /\ ReplayOk(log) /\ count = Len(log) /\ head = ReplayHead(log)
        /\ log # << >> => anchor = [count |-> Len(log), head |-> ReplayHead(log)]
    BY DEF ChainInv, CleanChain, Idle
  <2>2. log # << >> => Len(log) # 0
    BY EmptySeq DEF ChainInv, SinkInv, TypeOK
  <2>3. log # << >> => anchor # NoAnchor
    BY <2>1, <2>2 DEF NoAnchor
  <2> QED BY <2>1, <2>3 DEF VerifyPersisted
<1> QED BY <1>1, ChainInvariant, PTL

\* open never continues from a chain that has lost an acknowledged event.
THEOREM NothingAcknowledgedIsLost == Spec => []AckedInChain
<1>1. ChainInv => AckedInChain
  BY DEF ChainInv
<1> QED BY <1>1, ChainInvariant, PTL

\* No step, a crash and a restart included, changes or cuts the durable log.
THEOREM LogIsAppendOnly == Spec => AppendOnly
<1>1. SinkInv /\ [Next]_vars =>
          synced <= synced' /\ SubSeq(log', 1, synced) = SubSeq(log, 1, synced)
  <2> SUFFICES ASSUME SinkInv, [Next]_vars
               PROVE  synced <= synced' /\ SubSeq(log', 1, synced) = SubSeq(log, 1, synced)
    OBVIOUS
  <2>1. Keeps /\ log' \in Seq(Entry) /\ log \in Seq(Entry) /\ synced \in 0 .. Len(log)
    BY StepKeeps DEF SinkInv, TypeOK
  <2>2. Len(log) \in Nat /\ Len(log') \in Nat
    BY <2>1, LenProperties
  <2>3. \A i \in 1 .. synced : log[i] \in Entry /\ log'[i] \in Entry
    BY <2>1, <2>2, ElementOfSeq DEF Keeps
  <2>4. /\ SubSeq(log, 1, synced) \in Seq(Entry) /\ SubSeq(log', 1, synced) \in Seq(Entry)
        /\ Len(SubSeq(log, 1, synced)) = synced /\ Len(SubSeq(log', 1, synced)) = synced
        /\ \A i \in 1 .. synced : /\ SubSeq(log, 1, synced)[i] = log[i]
                                  /\ SubSeq(log', 1, synced)[i] = log'[i]
    BY <2>1, <2>2, <2>3, SubSeqProperties
  <2>5. SubSeq(log', 1, synced) = SubSeq(log, 1, synced)
    BY <2>1, <2>4, SeqEqual DEF Keeps
  <2> QED BY <2>1, <2>5 DEF Keeps
<1> QED BY <1>1, SinkInvariant, PTL DEF Spec, AppendOnly

\* The files, the anchor and the mutex implement a log whose lines are never
\* lost, that acknowledges only durable lines and fails closed (DurableLog).
THEOREM ImplementsLog == Spec => ImplementsDurableLog
<1>1. Init => DL!DLInit
  BY DEF Init, DL!DLInit, OnDisk
<1>2. SinkInv /\ SinkInv' /\ [Next]_vars => [DL!DLNext]_<<OnDisk, acked, broken>>
  <2> SUFFICES ASSUME SinkInv, SinkInv', [Next]_vars
               PROVE  DL!DLNext \/ UNCHANGED <<OnDisk, acked, broken>>
    OBVIOUS
  <2> USE DEF SinkInv
  <2>1. Keeps /\ OnDisk \subseteq OnDisk'
    BY StepKeeps, OnDiskGrows
  <2>2. OnDisk' \subseteq Line
    <3>1. (TypeOK => OnDisk \subseteq Line)'
      BY OnDiskType, PTL
    <3> QED BY <3>1
  <2>3. ASSUME NEW s \in Sessions, Fail(s), synced' = synced
        PROVE  DL!Err(s)
    BY <2>1, <2>3, OnDiskSame DEF Fail, DL!Err
  <2>4. CASE \E s \in Sessions : AppendFails(s)
    BY <2>3, <2>4 DEF AppendFails, DL!DLNext
  <2>5. CASE StepFails
    <3>1. CallerOf(call) \in Sessions
      BY <2>5 DEF StepFails, CallerOf, TypeOK, Call, NoCall, Line, Event
    <3> QED BY <2>3, <2>5, <3>1 DEF StepFails, files, DL!DLNext
  <2>6. CASE Sync
    BY <2>1, <2>2, <2>6 DEF Sync, memory, history, DL!DLNext, DL!Store
  <2>7. CASE Finish
    <3>1. OnDisk' = OnDisk
      BY <2>1, <2>7, OnDiskSame DEF Finish
    <3>2. acked \subseteq acked' /\ acked' \subseteq OnDisk
      BY <2>7, <3>1 DEF Finish, AckedIsDurable
    <3> QED BY <2>7, <3>1, <3>2 DEF Finish, DL!DLNext, DL!Ack
  <2>8. CASE Crash
    BY <2>1, <2>2, <2>8 DEF Crash, DL!DLNext, DL!Crash
  <2>9. CASE \/ \E s \in Sessions, o \in Ops : AppendLine(s, o)
             \/ Rename \/ Open \/ UNCHANGED vars
    <3>1. synced' = synced /\ acked' = acked /\ broken' = broken
      BY <2>9 DEF AppendLine, Rename, Open, vars, files, memory, history
    <3> QED BY <2>1, <3>1, OnDiskSame
  <2>10. CASE ProcessEnds
    <3>1. OnDisk' = OnDisk /\ acked' = acked
      BY <2>1, <2>10, OnDiskSame DEF ProcessEnds, files
    <3> QED BY <2>2, <2>10, <3>1 DEF ProcessEnds, DL!DLNext, DL!Crash
  <2> QED BY <2>4, <2>5, <2>6, <2>7, <2>8, <2>9, <2>10 DEF Next
<1> QED BY <1>1, <1>2, SinkInvariant, PTL
        DEF Spec, ImplementsDurableLog, DL!DLSpec, DL!dlVars
=============================================================================
