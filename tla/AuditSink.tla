------------------------------ MODULE AuditSink ------------------------------
(***************************************************************************)
(* The persistent audit log of the broker (capable-broker/src/audit.rs):   *)
(* an append-only log file with a hash chain, an anchor file that holds    *)
(* the count and the head of the chain, and the in-memory count and head   *)
(* of the one AuditSink that all sessions share behind a mutex.            *)
(*                                                                         *)
(* `record' is a sequence of system calls under the mutex.  It is modelled *)
(* one call at a time, because any of them can fail and because the        *)
(* process or the machine can stop between two of them.                    *)
(*                                                                         *)
(* A hash is modelled by what it commits to: the sequence of events of the *)
(* chain that ends in the line (an ideal, collision-free SHA-256), so      *)
(* GENESIS is the empty sequence.  What the file system guarantees (fsync, *)
(* atomic rename) is external and is modelled from the way audit.rs uses   *)
(* it.                                                                     *)
(*                                                                         *)
(* A definition whose name starts with Bug_ is a defect of the definition  *)
(* that follows it, kept to show which property would expose it; the       *)
(* specification never uses one.                                           *)
(***************************************************************************)
EXTENDS Integers, Sequences, FiniteSets, SequencesExt

CONSTANTS
    Sessions,   \* connections sharing the sink
    Ops,        \* the payload of an event: op, detail, decision
    MaxLines,   \* bound on the lines of the log
    MaxCrashes  \* bound on how often the process or the machine stops

ASSUME BoundsAssumption == MaxLines \in Nat /\ MaxCrashes \in Nat

VARIABLES
    log,     \* the log file as a reader sees it: a sequence of Entry
    synced,  \* length of the prefix of log that sync_data has forced out
    anchor,  \* the anchor file as a reader sees it
    anchorD, \* the anchor that is certain to survive a power failure
    status,  \* "up", "down" (stopped) or "refused" (open returned Err)
    count,   \* AuditSink.count
    head,    \* AuditSink.head
    call,    \* the record call that holds the mutex
    broken,  \* Session.audit_broken of each session
    acked,   \* history: lines whose record call returned Ok
    faulted, \* history: some record call has failed since the sink was opened
    crashes  \* history: how often process or machine stopped, for the bound

files   == <<log, synced, anchor, anchorD>>
memory  == <<status, count, head, broken>>
history == <<acked, faulted, crashes>>
vars    == <<files, memory, call, history>>

(***************************************************************************)
(* Data                                                                    *)
(***************************************************************************)
Event == Sessions \X Ops
Hash  == Seq(Event)
GENESIS == << >>

\* A line of the log.  Its own hash field is not stored: it is HashOf(line).
Line == [seq : Nat, ev : Event, prev : Hash]
HashOf(l) == Append(l.prev, l.ev)

\* A write that fails half way leaves a fragment without a line end; the next
\* write is glued to it, and the two read as one malformed line.
Fragment == [seq |-> 0, ev |-> << >>, prev |-> << >>]
Entry    == [rec : Line \cup {Fragment}, clean : BOOLEAN]
Clean(l) == [rec |-> l, clean |-> TRUE]
Torn(l)  == [rec |-> l, clean |-> FALSE]

\* The anchor file, or its absence: record never writes a count of zero.
Anchor   == [count : Nat, head : Hash]
NoAnchor == [count |-> 0, head |-> GENESIS]

NoCall == [pc |-> "idle", line |-> Fragment]
Call   == {NoCall} \cup [pc : {"written", "synced", "renamed"}, line : Line]

EndsInFragment(f) == f # << >> /\ Last(f).rec = Fragment

\* writeln!(self.log, ...) on a file opened with append(true).
Write(f, l) ==
    IF EndsInFragment(f)
      THEN [f EXCEPT ![Len(f)] = Torn(l)]
      ELSE Append(f, Clean(l))

\* The same write stopped half way.
WriteFragment(f) ==
    IF EndsInFragment(f) THEN f ELSE Append(f, Torn(Fragment))

(***************************************************************************)
(* replay, verify_persisted                                                *)
(***************************************************************************)
\* replay returns Ok: every line parses, has the next sequence number and
\* points at the hash of the line before it.
ReplayOk(f) ==
    \A i \in DOMAIN f :
        /\ f[i].clean
        /\ f[i].rec # Fragment
        /\ f[i].rec.seq = i - 1
        /\ f[i].rec.prev = IF i = 1 THEN GENESIS ELSE HashOf(f[i - 1].rec)

\* The head replay returns for such a log (its count is Len(f)).
ReplayHead(f) == IF f = << >> THEN GENESIS ELSE HashOf(Last(f).rec)

VerifyPersisted ==
    /\ anchor # NoAnchor
    /\ ReplayOk(log)
    /\ anchor = [count |-> Len(log), head |-> ReplayHead(log)]

(***************************************************************************)
(* record                                                                  *)
(***************************************************************************)
Init ==
    /\ log = << >> /\ synced = 0
    /\ anchor = NoAnchor /\ anchorD = NoAnchor
    /\ status = "up" /\ count = 0 /\ head = GENESIS
    /\ broken = [s \in Sessions |-> FALSE]
    /\ call = NoCall
    /\ acked = {} /\ faulted = FALSE /\ crashes = 0

Idle == status = "up" /\ call.pc = "idle"
NewLine(s, o) == [seq |-> count, ev |-> <<s, o>>, prev |-> head]

\* record returns Err: Session.audit sets audit_broken.  count and head keep
\* their values whatever has already reached the files.
Fail(s) ==
    /\ broken' = [broken EXCEPT ![s] = TRUE]
    /\ call' = NoCall
    /\ faulted' = TRUE
    /\ UNCHANGED <<status, count, head, acked, crashes>>

CallerOf(c) == c.line.ev[1]

\* A session takes the mutex and the write of its line succeeds.
AppendLine(s, o) ==
    /\ Idle
    /\ Len(log) < MaxLines
    /\ log' = Write(log, NewLine(s, o))
    /\ call' = [pc |-> "written", line |-> NewLine(s, o)]
    /\ UNCHANGED <<synced, anchor, anchorD, memory, history>>

\* The write fails: nothing, or a fragment, is in the file.
AppendFails(s) ==
    /\ Idle
    /\ Len(log) < MaxLines
    /\ log' \in {log, WriteFragment(log)}
    /\ Fail(s)
    /\ UNCHANGED <<synced, anchor, anchorD>>

\* self.log.sync_data() succeeds: the whole file is on the disk.
Bug_SyncOmitted ==
    /\ call.pc = "written"
    /\ call' = [call EXCEPT !.pc = "synced"]
    /\ UNCHANGED <<files, memory, history>>

Sync ==
    /\ call.pc = "written"
    /\ synced' = Len(log)
    /\ call' = [call EXCEPT !.pc = "synced"]
    /\ UNCHANGED <<log, anchor, anchorD, memory, history>>

\* write_anchor_atomic up to and including the rename.
Bug_AnchorBeforeSync ==
    /\ call.pc \in {"written", "synced"}
    /\ anchor' = [count |-> call.line.seq + 1, head |-> HashOf(call.line)]
    /\ call' = [call EXCEPT !.pc = "renamed"]
    /\ UNCHANGED <<log, synced, anchorD, memory, history>>

Rename ==
    /\ call.pc = "synced"
    /\ anchor' = [count |-> call.line.seq + 1, head |-> HashOf(call.line)]
    /\ call' = [call EXCEPT !.pc = "renamed"]
    /\ UNCHANGED <<log, synced, anchorD, memory, history>>

\* sync_data, or the temporary anchor file, or the rename, or the fsync of the
\* directory fails; the files stay as the earlier calls left them.
StepFails ==
    /\ call.pc # "idle"
    /\ Fail(CallerOf(call))
    /\ UNCHANGED files

\* The directory is forced out; count and head advance; record returns Ok.
Bug_HeadNotAdvanced ==
    /\ call.pc = "renamed"
    /\ anchorD' = anchor
    /\ count' = call.line.seq + 1
    /\ acked' = acked \cup {call.line}
    /\ call' = NoCall
    /\ UNCHANGED <<log, synced, anchor, head, status, broken, faulted, crashes>>

Finish ==
    /\ call.pc = "renamed"
    /\ anchorD' = anchor
    /\ count' = call.line.seq + 1
    /\ head' = HashOf(call.line)
    /\ acked' = acked \cup {call.line}
    /\ call' = NoCall
    /\ UNCHANGED <<log, synced, anchor, status, broken, faulted, crashes>>

(***************************************************************************)
(* The end of the process, a crash of the machine, and open                *)
(***************************************************************************)
\* What the disk may hold after a crash: any part of the log that contains the
\* forced prefix, with its last line possibly cut short.
LogsAfterCrash ==
    LET kept == {SubSeq(log, 1, k) : k \in synced .. Len(log)}
    IN  kept \cup {Append(SubSeq(log, 1, k), Torn(Fragment)) :
                       k \in {j \in synced .. Len(log) : j < Len(log)}}

\* The process ends, between two system calls or inside record: the files are
\* what readers have seen, forced out or not.
ProcessEnds ==
    /\ status = "up"
    /\ crashes < MaxCrashes
    /\ crashes' = crashes + 1
    /\ status' = "down"
    /\ call' = NoCall
    /\ broken' = [s \in Sessions |-> FALSE]
    /\ UNCHANGED <<files, count, head, acked, faulted>>

\* The machine stops, with or without a broker running on it.
Crash ==
    /\ crashes < MaxCrashes
    /\ crashes' = crashes + 1
    /\ log' \in LogsAfterCrash
    /\ synced' = Len(log')
    /\ anchor' \in {anchor, anchorD}
    /\ anchorD' = anchor'
    /\ status' = "down"
    /\ call' = NoCall
    /\ broken' = [s \in Sessions |-> FALSE]
    /\ UNCHANGED <<count, head, acked, faulted>>

\* The test open makes before it accepts the two files.
Bug_AnchorNotCompared == ReplayOk(log)

Accepts ==
    /\ ReplayOk(log)
    /\ (log # << >> \/ anchor # NoAnchor) =>
           anchor = [count |-> Len(log), head |-> ReplayHead(log)]

Bug_OpenTruncates ==
    /\ status # "up"
    /\ status' = IF Accepts THEN "up" ELSE "refused"
    /\ log' = << >> /\ synced' = 0
    /\ count' = 0 /\ head' = GENESIS
    /\ faulted' = FALSE
    /\ UNCHANGED <<anchor, anchorD, call, broken, acked, crashes>>

Bug_CountIsLastSeq ==
    /\ status # "up"
    /\ status' = IF Accepts THEN "up" ELSE "refused"
    /\ count' = Len(log) - 1
    /\ head' = ReplayHead(log)
    /\ faulted' = FALSE
    /\ UNCHANGED <<files, call, broken, acked, crashes>>

\* The broker is started (again).  open returns Err if the files do not agree or
\* one of them cannot be opened or read.
Open ==
    /\ status # "up"
    /\ \/ /\ Accepts
          /\ status' = "up"
          /\ count' = Len(log)
          /\ head' = ReplayHead(log)
          /\ faulted' = FALSE
       \/ /\ status' = "refused"
          /\ UNCHANGED <<count, head, faulted>>
    /\ UNCHANGED <<files, call, broken, acked, crashes>>

Next ==
    \/ \E s \in Sessions : AppendFails(s) \/ \E o \in Ops : AppendLine(s, o)
    \/ Sync \/ Rename \/ Finish \/ StepFails
    \/ ProcessEnds \/ Crash \/ Open

Spec == Init /\ [][Next]_vars

(***************************************************************************)
(* Properties                                                              *)
(***************************************************************************)
TypeOK ==
    /\ log \in Seq(Entry)
    /\ synced \in 0 .. Len(log)
    /\ anchor \in Anchor /\ anchorD \in Anchor
    /\ status \in {"up", "down", "refused"}
    /\ count \in Nat /\ head \in Hash
    /\ call \in Call /\ (status # "up" => call = NoCall)
    /\ broken \in [Sessions -> BOOLEAN]
    /\ acked \subseteq Line
    /\ faulted \in BOOLEAN
    /\ crashes \in 0 .. MaxCrashes

\* The lines that are certain to be on the disk.
OnDisk == {log[i].rec : i \in 1 .. synced} \ {Fragment}

\* Every line whose record call returned Ok is on the disk, whatever fails
\* afterwards and however often the broker crashes: a session that acts after
\* its intent record can always be held to account (record, sync_data).
AckedIsDurable == acked \subseteq OnDisk

\* The anchor never runs ahead of the log: what it names is a line on the disk
\* at that position (record writes the anchor after sync_data has returned).
AnchorNamesDurableLine ==
    \A a \in {anchor, anchorD} \ {NoAnchor} :
        \E l \in OnDisk : a = [count |-> l.seq + 1, head |-> HashOf(l)]

\* As long as no record call has failed since open, the sink is at rest in a
\* state that verify_persisted accepts and from which open would continue with
\* the same count and head: no crash can lead to a wrong continuation.
CleanSinkVerifies ==
    (Idle /\ ~faulted) =>
        /\ ReplayOk(log) /\ count = Len(log) /\ head = ReplayHead(log)
        /\ log # << >> => VerifyPersisted

\* open never continues from a chain that has lost an acknowledged event: in a
\* sink whose record calls have all succeeded, every acknowledged line, those
\* of earlier runs of the broker included, is part of the current chain.
AckedInChain ==
    (status = "up" /\ ~faulted) => \A l \in acked : IsPrefix(HashOf(l), head)

\* The log is append-only: what has been forced out is never changed or cut,
\* neither by a later record nor by a crash nor by open.
AppendOnly ==
    [][/\ synced <= synced'
       /\ SubSeq(log', 1, synced) = SubSeq(log, 1, synced)]_vars

\* The sink implements DurableLog.
DL == INSTANCE DurableLog WITH Lines <- Line, stored <- OnDisk
ImplementsDurableLog == DL!DLSpec

\* audit.rs claims that sessions sharing one sink still write one continuous
\* chain: after a record call that has answered Ok, the log it ended up in
\* replays, whatever became of earlier calls.
OneGlobalChain ==
    (Idle /\ log # << >> /\ Last(log).rec \in acked) => ReplayOk(log)
=============================================================================
