# capsulevm in TLA+

A verification project for the capability broker of this repository
(`src/crates/capable-broker`) and the service in front of it
(`src/crates/capable-rpc`). It holds TLA+ modules of the parts that decide about
authority, consent, audit and connections, TLC configurations that check them on
small instances, and theorems checked by TLAPS for every value of the constants.

`PROJECT.json` is the index: components, runs, the source lines behind every
definition, hazards, findings, mutants and theorems.

## 1. The system

A **broker** process holds capabilities. A **client** (a guest agent, a shell, an
orchestrator) connects over a Unix socket, gets a **session** of its own and names
capabilities by unforgeable references. Every use is decided and audited by the
broker. Sessions share two objects behind mutexes: the audit sink and the consent
ledger.

| Component | State | Operations | Why it is hard |
|---|---|---|---|
| Audit log, `audit.rs` | log file, anchor file, count and head in memory | `open`, `record`, `verify_persisted` | a call is five system calls; each can fail, the machine can stop between two, several sessions share the chain |
| Consent ledger, `policy.rs` | requests by id, a counter | `request_or_check`, `approve`, `deny` | asked in one session, decided in another, used later; one use per approval |
| Policy gate, `lib.rs` | audit health and events of each session | `gate`, `audit`, `exec`, `http_get`, `post`, `post_from`, `consent_*` | four uses of shared objects per call, other sessions between any two, any audit write may fail and some failures are ignored |
| Capability registry, `lib.rs` | capabilities, parents, mailboxes, bootstrap root, mitigation state | `grant_*`, `derive_*`, `read`, `list`, `exec`, `send`, `post*`, `mailbox_read`, `revoke`, `set_mitigation_reduced` | long sequences of legal calls: attenuation, cascading revocation, one-shot facets, taint |
| Service, `main.rs`, `proto.rs` | connection counter, one thread and session per connection, role | accept loop, connection loop, `handle` | threads, limits, timeouts, peers that do nothing, panics |
| CapVM handle table, `capvm.rs` | handles of a guest process | `install`, `cap_read`, `cap_list`, `cap_exec`, `cap_derive_sub`, `cap_close` | slots are reused; authority must stay what was lent |
| HTTP client, `net.rs`, `http_get_i` | none kept; one request at a time per session | host check, canonical target, allow list, address check, bounded GET | strings read three times, by the list, the request and the server; name servers that change their answers; servers that stall or never stop |
| Exec sandbox, `os.rs`, `exec_i` | the forked child: limits, Landlock domain, filter, identities, descriptors | `sandbox::apply` call by call, `execve`, the report to the broker | a dozen system calls in a fixed order, each may fail, in a fork of a threaded process, some after the filter that could refuse them |
| Directory access, `os.rs` | none | `openat2`, `getdents64` | single kernel calls |
| SHA-256, `sha256.rs` | none | hash | pure |
| capsh, `capsh/` | shell environment | parser, evaluator | a client; decides nothing |

How they interact: `serve` hands each admitted connection to a thread; the thread
calls `handle` with its session; `handle` calls one operation of the session;
gated operations call `gate`, which takes the ledger's mutex; every operation
calls `audit`, which takes the sink's mutex. `exec` forks a child that restricts
itself and waits for it; `http_get` resolves, checks and talks to a server from the
session's own thread. A CapVM guest process borrows a
session exclusively and goes through the same operations by handle.

## 2. Modules

```
   ConsentPolicy          DurableLog                 abstract specifications
        ^  implemented by     ^  implemented by
   ConsentLedger          AuditSink                  shared objects
        ^  EXTENDS            .  assumed as
   Gatekeeper . . . . . . . . .                      sessions using both
   Registry  <--EXTENDS--  CapVM                     one session; a guest on top
   Server                                            connections and threads
   Sandbox                                           the child of exec
   HttpTarget <--EXTENDS-- HttpEgress                one use of an HTTP capability
   MCGatekeeper, MCRegistry, MCCapVM, MCSandbox,
   MCHttpEgress                                      constants for TLC
   ConsentLedgerProofs <--EXTENDS-- GatekeeperProofs
   RegistryProofs <--EXTENDS-- CapVMProofs
   AuditSinkProofs, ServerProofs, SandboxProofs,
   HttpEgressProofs                                  theorems
```

* **DurableLog** is what the sink promises: a line that has reached the disk is
  never lost, Ok is answered only for a line on the disk, and a call that
  answers Err makes its session fail closed.
* **AuditSink** models `audit.rs` one system call at a time. `AppendLine`,
  `Sync`, `Rename`, `Finish` are the steps of `record` under the mutex (the
  variable `call`); `AppendFails` and `StepFails` are its error returns, which
  leave count and head as they were. `ProcessEnds` is the end of the process,
  which leaves the files as they are; `Crash` is the end of the machine, after
  which any part of the log that contains the forced prefix may be there, its last
  line cut short. `Open` replays and compares with the anchor; it refuses when the
  two disagree, or when a file cannot be opened or read. A hash is modelled by the sequence of events it commits to.
* **ConsentPolicy** is consent as a property of a key (action signature and
  session): none, pending, approved until used, denied for good.
* **ConsentLedger** models `policy.rs`: requests under increasing ids, found by
  key in unspecified order (`Found`), `Register` / `Consume` / `Refused` /
  `Waiting` as the outcomes of `request_or_check`, `Decide` for `approve` and
  `deny`.
* **Gatekeeper** is the pattern common to `exec`, `http_get`, `post` and
  `post_from`. `Decision` is `PolicyEngine::decide` for the engine `Engine` and the
  verb `Verb[g]` of an action. A call is `Gate`, then `Note` (refused; the event's outcome is ignored) or
  `RecordConsent` (passed; ignored too), `Intent` (not ignored), `Effect` (after
  `get_active`), `Result`. Each is a step of its own session and other sessions move in
  between. `ConsentApprove` and `ConsentDeny` change the ledger and record
  afterwards, as the code does; `ConsentUnknown` is either of them with an id that
  is not pending, which is recorded too. The sink is used as DurableLog describes it:
  each record is durable or makes its session broken.
* **Registry** is one session's registry. A session belongs to one thread, so a
  handler is one step; the outcome of its audit event is the parameter `ok`. A
  failing check, a missing reference or a refused intent is `RefusedUse`. The
  history variable `did` names what the last step disclosed or effected and
  through which capability. For `exec`, `http_get`, `send` and posting the step
  starts after the intent has been recorded; the steps before it are
  Gatekeeper's.
* **CapVM** extends Registry with the handle table. While a guest process exists
  the session is lent to it (`&mut`), so `Host` steps need `~running`.
* **Server** models the accepting thread (`main`), the counter `conns` and one
  thread per connection (`pc`) with its peer's condition: `silent` (sends nothing
  any more) and `deaf` (does not read). Verbs are sorted by what they do to the
  connection and by what the role permits.
* **Sandbox** is one call of `exec_i` from the fork on. The child's position in
  `sandbox::apply` is `pc`; each action is one system call and what it leaves
  behind in `sec` (what restricts the child) and `fds`. `KernelFails` is a call
  that fails for a reason of the kernel's own, `Refused` one that cannot succeed
  in the child's situation (a closed descriptor, a missing privilege, the filter
  just installed). Both end in `Report`, the standard library's error message over
  its pipe, which has to get past the filter too. `Learn` and `Output` are the
  broker's side. The seccomp program is built as the code builds it (`Filter`) and
  run by an interpreter (`Verdict`). The program then makes any system call, by
  the entry of x86_64 or of i386 (`TryCall`), or opens `/proc` (`OpenProc`). Which
  calls yield a socket comes from the kernel's tables and not from the code's list:
  `Source` needs nothing else, `Passing` (accept, recvmsg, recvmmsg) needs a socket
  already held. On a kernel with the x32 ABI (`world.x32`) a number with `X32Bit`
  stands for a call as well (`Meant`).
* **HttpTarget** holds the string functions `canonical_request_target` and
  `path_matches`, on sequences of characters, and beside them what they are meant
  to compute: how a lenient server reads a target (`Resource`) and when a pattern
  and a path agree (`Agrees`). The functions are written by the places of the
  string they keep (`Picked`): `Split` takes the pieces that begin behind a slash,
  `DotFree` those that no later `..` takes back, `Decoded` the characters that are
  not inside an escape. `Char` is the alphabet.
* **HttpEgress** is one use of an HTTP capability in the order of `http_get_i`:
  `Grant` (`valid_host`), `Canonicalise`, `Allow`, `Resolve` (`resolve_checked`
  with `is_blocked_ip`), `Connect`, `Write`, `Read`/`Check` (the loop of
  `fetch_get`), `Parse`. The name server picks an answer each time it is asked.

Definitions named `Bug_...` stand before the definition they are a defect of. No
specification uses them; they are the mutants that show that each property can
fail.

## 3. Runs

| Run | Module | Instance | States | Shows |
|---|---|---|---|---|
| AuditSink | AuditSink | 2 sessions, 3 lines, 2 crashes | 22 705 | invariants, append-only, refinement of DurableLog |
| AuditSinkChain | AuditSink | the same | | violation of `OneGlobalChain` |
| ConsentLedger | ConsentLedger | 2 actions, 2 sessions, 4 ids | 15 718 | invariants, id stability, refinement of ConsentPolicy |
| Gatekeeper | MCGatekeeper | requester and approver, 3 actions (prompt, allow, deny), 2 ids | 477 171 | effects are recorded and approved |
| GatekeeperApprovals | MCGatekeeper | the same | | violation of `ApprovalsAreRecorded` |
| Registry | MCRegistry | 3 capabilities, 2 messages, a directory with a secret subdirectory, a secret file | 206 537 | the registry's properties |
| RegistryOps, RegistryEgress | MCRegistry | the same | | two violations |
| Server | Server | 2 peers, limit 1, 2 roots per connection | 4 558 | slots, limit, bootstrap, liveness |
| CapVM | MCCapVM | 2 capabilities, 3 handles | 95 337 | confinement and handle stability |
| Sandbox | MCSandbox | 2 system directories, one of which a host may lack, 4 policies, every program, privilege and descriptor flag; 19 call numbers | 84 432 | nothing runs half confined, no socket, the broker learns what happened |
| HttpEgress | MCHttpEgress | every target of up to 4 tokens against 2 allow lists; 12 hosts; 65 addresses; limits 0 to 4 | 71 608 | allow list, addresses, limit, termination |

Why the bounds are enough for what they show:

* AuditSink: three lines and two crashes allow a failed line between two good
  ones, a crash during recovery of an earlier crash's log, and a second run of
  the broker that continues the first one's chain. `MaxLines` only stops new
  calls.
* ConsentLedger: four ids for four keys, or four rounds of one key, which is
  where reuse of ids and double requests would show. `MaxSeq` caps `seq`, a
  64-bit counter in the code.
* Gatekeeper: `Budget` caps the calls a session starts by the events it has. The
  requester can ask, act on an approval and try again; the approver can decide
  and ask in between.
* Registry: three capabilities give a grandparent, a parent and a child, or a
  secret source, an owner facet and a delegate; two messages are what a one-shot
  facet must not deliver. `MaxSegments` = 1 distinguishes an empty prefix from a
  matching and a missing one. Grants ask for List so that a Read that appears
  was made by the code.
* Server: with two peers and one slot there is a connection inside, one refused,
  and a slot released while the other is decided on. `MaxRoots` caps the
  capabilities minted by a control connection.
* CapVM: two capabilities make a lent directory and one derived from it; three
  handles let a slot be freed below a live one and reused.
* Sandbox: one directory that is always there and one that may be missing give
  the two ways through the loop over the system directories. The four policies
  are the code's default, the empty one, one that drops both identities and one
  that drops the user alone; a system call fails at any one place of a run. A
  program's calls (`MCCalls`) are all that yield or pass on a socket on x86_64, two
  that do on i386, a harmless one, and an x32 call of each kind; the theorem is
  about any set of numbers.
* HttpEgress: four tokens (slash, dot, a letter, a bare percent sign, a question
  mark, a backslash, the escapes of dot, slash and backslash and a harmless one)
  make every combination of two escapes with what stands around them, `..` after
  a segment and before one, and queries. The two lists have `*`, `**` at the
  front, in the middle and at the end, and a trailing slash. The addresses are the
  two sides of every border of every reserved range, in IPv4 and in both IPv6
  forms. The theorems are about all addresses. Targets, hosts, addresses and
  limits are varied one at a time, since the code decides on them one after the
  other and keeps nothing between.

Deadlock is not checked where the bounds, a sink that refuses to open, or the end
of the one call that is modelled (Sandbox, HttpEgress) let a system stop.

**Fairness** is assumed where a thread of the broker goes on by itself.

* Server: weak fairness of the accept loop and, for each connection, of what its
  thread does alone (`Thread`): a read timeout expires, a reply that can be written
  is written, the loop is left, the slot released, the closure ended. There is none
  for peers, for commands started by `exec`, for handlers (a frame need not come),
  or for `ServeEnds`.
* Sandbox: weak fairness of the child up to `execve` (`Child`: it makes one system
  call after the other and none of them waits for anybody) and of the broker's read
  of the pipe (`Learn`). None for the program, which may run for ever.
* HttpEgress: weak fairness of the whole request. Connecting, writing and each
  read return after ten seconds at the latest (`Fails`), which the code sees to.
  Resolution has no bound in the code: `to_socket_addrs` returns when the system's
  resolver gives up, so that `FetchEnds` rests on the resolver's own timeouts. The
  server is given no fairness: it may go on sending for ever, and `FetchEnds` holds
  nevertheless.

The operating system's scheduler justifies the first two.

### Properties worth knowing

* `AckedInChain`, `CleanSinkVerifies`: a sink whose calls have all succeeded has
  every acknowledged event in the chain it will continue, across crashes.
* `EffectsAreRecorded`: every effect has its durable intent and, where consent
  was needed, its durable consent record. `gate` ignores the outcome of the
  latter; the property holds because `get_active` looks at `audit_broken` once
  more. Removing only the check of the intent's outcome is not caught for the
  same reason: the two guards cover for each other.
* `UseNeedsLiveLineage`, `RevocationIsFinal`: cascading revocation, at the
  moment of use and for good. The lineage is computed by a walk of its own and not
  by the operator `IsActive` that the actions use.
* `LiteralOnlyToSelf`: text a caller supplies is labelled Green without a look at
  it, which is sound because it only goes into the mailbox of the facet it was
  posted by; no sequence of derivations yields another facet that may post it.
* `NoSocketInside`: on a kernel without the x32 ABI. That the filter lets `recvmmsg`
  through does no harm, since a first socket is missing.
* `SlotsAccounted`: the counter equals the connections that hold a slot, plus
  the one being decided on, plus the slots lost to panics.
* `FailuresReachTheCaller`: the standard library takes the end of its pipe for
  success. Marking the descriptors close-on-exec instead of closing them is what
  keeps a refused `setuid` or `execve` from looking like a command that printed
  nothing.
* `RefusalsHaveAReason`: the sandbox does not stand in its own way. The filter
  precedes the dropping of privileges and `execve`, the user id takes the right to
  drop the others with it, and Landlock applies to `execve` itself; a command is
  refused only for reasons outside of this.
* `SpawnIsDecided`: no error path of the child allocates, so a lock that another
  thread held at the fork cannot stop it.
* `AllowListIsKept`: what a server finds that undoes escapes, takes backslashes for
  slashes and resolves dots is, segment by segment, what the allow list was asked
  about, and no path that agrees with a pattern is refused.
* `OnlyPublicAddresses`: what is connected to is one of the addresses that were
  checked, and the masks and octet tests of `is_blocked_ip` cover the ranges that
  its comments name.

### Findings (runs that end in a violation)

Each checks a sentence of the repository; the quotation and the lines are in
`PROJECT.json`.

1. `OneGlobalChain`: a `record` whose write stops half way leaves a fragment in
   the log. The next one, of the same session or of another, writes its line behind
   it and is acknowledged; the two are one malformed line and the log does not
   replay. The next `open` refuses, so the chain is not silently wrong, but it is
   not continuous.
2. `ApprovalsAreRecorded`: an approval whose audit event failed stays in force.
3. `OpsNeverGrow`: `derive_readonly` gives Read and List to a child of a parent
   that has neither.
4. `ReducedHoldsNoEgress`: `grant_message` does not look at
   `mitigation_reduced` (`ReducedHoldsNoHttp`, for HTTP, holds).

One more disagreement has no run of its own: a facet derived from a one-shot facet
is not one-shot (`derive_msg_prefix`, `lib.rs:575`), while CAPSULEVM.md:79 says that
derivation only narrows and :102 counts a limited number of uses among what it
narrows. `OneShotDeliversOnce` is about the facet itself.

Two observations that no sentence of the repository contradicts: a thread has no
timeout while it waits in a write or for a command (`SilentReadersEnd` covers the
readers); `valid_host` takes an IPv6 literal only in brackets, while
`to_socket_addrs` resolves it only without, so that such a host passes the grant and
never an address check.

## 4. Proofs

Each theorem holds for every value of the constants that satisfies the ASSUMEs
of its module. A safety property is proved from an inductive invariant: it holds
initially, every action preserves it, and it implies the property.

**ConsentLedgerProofs** (assumes `MaxSeqAssumption`). The invariant `CLInv` is the
conjunction of `CLTypeOK`, `OneRequestPerKey` and `ApprovalPassesOnce`. They need
each other: an approval is consumed once because removing one request removes the
only one its key has; a key has only one because a request gets a new id and is
registered only when none is found. `IdsKeepTheirMeaning` (an action property) and
`ImplementsPolicy` (the refinement of ConsentPolicy, a step or a stutter for every
step) follow from the same invariant.

**AuditSinkProofs** (assumes the bounds named in AuditSink). `SinkInv` adds to
`TypeOK`, `AckedIsDurable` and `AnchorNamesDurableLine` what the order of the
system calls of `record` guarantees at each point: after the write the line is the
log's last (`WrittenIsLast`), after `sync_data` it is on the disk
(`SyncedIsDurable`), and a fragment at the end of a running broker's log has never
been forced out (`FragmentNotDurable`), since otherwise the next write would
change a durable entry. `AppendOnly` and the refinement of DurableLog follow. The
mapping takes the set of lines of the forced prefix for the durable lines.
`ChainInv` adds what holds while no call has failed since `open` (`CleanChain`):
the log replays, memory and anchor agree with it between two calls, and during one
the log is exactly one line ahead. `open` establishes it because it accepts only a
log that replays to the anchor; and since the anchor names a durable line, every
acknowledged line is among those replayed. That a hash of an earlier line is a
prefix of the hash of every later one (`HashesChain`) is shown for the first
position at which it would fail.

**ServerProofs** (assumes finitely many peers, `MaxConns` a natural number and
`MaxRoots` a positive one). `SrvInv` adds to `SlotsAccounted` and `OneRootPerGuest`:
a connection is in one place, the backlog, the hands of the accepting thread or a
thread of its own (`Apart`), without which spawning could count a connection
twice; a connection about to get a thread leaves room for itself (`Room`), because
between `fetch_add` and the spawn other threads only give slots back; a connection
without a thread has no root (`Fresh`), and only a guest's session has one to take
(`BootIsGuests`).

**RegistryProofs** (assumes the tree, grant and bound assumptions of Registry). A
step either adds one capability at the end (`Adds`), whose parent exists already,
or raises `revoked` flags (`Revokes`), and changes nothing else of a capability;
every action is classified once and the conjuncts of `RegInv` are then proved from
the two cases. A parent precedes its children (`ParentsAreEarlier`), so a new
capability is in no old lineage and nothing is revived (`NoRevival`): that is
`RevocationIsFinal`, and `ReducedHoldsNoHttp` rests on it. `ReachNeverGrows` needs
`FacetsArePlain`, `LiteralOnlyToSelf` needs `ReceiversOwnTheirMailbox`, and
`OneShotDeliversOnce` that a one-shot facet that has delivered is revoked
(`SpentAreRevoked`). `BrokenSessionsStop` says that a session whose audit has failed
once does nothing more and that a file, a listing or a message is only returned when
its event was recorded; it says nothing of the sort about `exec` and `http_get`, which
return their output although the event of the result failed. `UseNeedsLiveLineage` compares the walk `Lineage`, a recursive
function, with the closed sets by which `IsActive` is defined: the walk exists
(`WalkExists`) and stays in every such set (`LineageInChain`). Writing the
proof showed that the types need `MaxCaps > 0`: a guest's session starts with a
capability.

**CapVMProofs** (extends RegistryProofs). A step of the host or of the guest is a
step of the registry or leaves it alone, so `RegInv` holds along the way.
`Confined` speaks of all sets closed under `parent`; no step gives an old
capability a new parent, so a closed set of the new state, cut down to the old
references, is one of the old state, and a derived capability lies in one only
together with the capability the guest derived it from.

**GatekeeperProofs** (extends ConsentLedgerProofs; any engine, any verbs). Effects,
intents, consumed approvals and their records are counted per action and session.
`Order` says how far each may be ahead of the effects at each point of a call
(`IntentAhead`, `ConsentAhead`, `PassAhead`): one, from the step that produces it
to the effect, unless the session is broken, in which case `get_active` stops the
call. That a prompted action has consumed an approval rests on `CLInv`.

**SandboxProofs** (assumes that `Outside` is no system directory and that the two
descriptors made on the way are new). `SandboxInv` says what is in force at each
`pc` and what the broker knows. The filter is proved for every call number: the
layout of the program (`FilterLayout`), a run of the interpreter exists
(`RunExists`), and from the i-th comparison on it refuses the i-th and later calls
of the list (`RunRefuses`); a call of another architecture is killed. That is
`FilterRefusesTheList`. With it `SealedInvariant` shows, for any set of calls a
program may make, that without x32 none of them yields a first socket, so that those
which pass one on have nothing to pass, and that whatever a step of the child needs
is still there.

**HttpEgressProofs** (assumes that paths and patterns are strings over an alphabet
with `/`, `.`, `\` and the letter g, that answers are sequences of addresses, a
buffer of positive size and natural limits). `ReservedIsBlocked` is arithmetic about
octets and words, for every address: `is_blocked_ip` refuses all of the reserved
ranges. `HttpInv` carries that the addresses at `connect` have been checked, that
more than the limit is held only between a read and its check, and (`Vetted`) that
behind the two checks the target is the canonical form of the path asked for and
has matched a pattern. `AllowListHolds`, that `AllowListIsKept` is an invariant for
strings and patterns of any length, needs two facts about strings besides:

* `CanonicalNamesTheResource`: what a lenient server finds behind a canonical
  target are the segments named in it, decoded. A path that passed is `Harmless`:
  no backslash, and every `%` begins a complete escape of something other than a
  dot, a slash or a backslash. An escape therefore hides no slash and reaches over
  none, so that splitting and decoding can change places
  (`SplitCommutesWithDecoding`); a decoded segment is empty or made of dots only if
  it was so before (`NoHiddenDots`), and those are gone; and `Join` makes a path
  that is split into the segments it was made of (`SplitJoin`).
* `SegMatchIsAgreement`: the table of `seg_match` has a match exactly if the path
  can be cut so that every element of the pattern gets a piece of its kind. The
  table is computed from its end, and its i-th row is the set of places from which
  such a cut exists for the rest of the pattern (`PlacesUnfold`).

Both rest on a description of each function by places, proved once: `Picked` by the
ascending list of the places chosen (`PickedBy`; a set has one such list,
`AscendsOnce`), `Split` by a cut at the slashes (`SplitIs`), `Decoded` by the places
it shows (`DecodedIs`). The model defines the functions by places for this
reason: folds and `SelectSeq` can be evaluated, but the provers cannot expand them.

**How induction is done.** The provers cannot use the library's induction theorems,
which take an operator. Positions of a log, of a walk, of the handle table or of
the filter, and places of a string, are natural numbers, so a statement about all of them is proved from the
least one at which it fails (`LeastNat`: strict inclusion of finite sets is well
founded, hence so is that of the intervals `1 .. x`). Recursive functions are
defined by CHOOSE: a lemma shows that a function with the equation exists, and the
equation is then used.

Only model-checked:

* liveness, which needs fairness and ENABLED: `BacklogDrains`, `SilentReadersEnd`,
  `SpawnIsDecided`, `FetchEnds`;
* the findings, which are counterexamples.

All other properties of the passing runs are stated by a theorem.

## 5. What is not modelled

* `openat2` and `getdents64` of `os.rs`: one kernel call each and no state. What
  they guarantee, that an open directory keeps its identity and a name leads only
  below it, is the tree `Child` of Registry. Symbolic links are left out: `openat2`
  follows those that stay below the directory, and the label of what is read is
  decided from the name that was asked for (`lib.rs:930`). In the model a name is a
  file, and no property says what is behind one.
* Calls of the x32 ABI under the filter: the model has them, and no property is
  claimed for a kernel that takes them.
* A session without a consent ledger: `gate` refuses a prompted action and changes
  nothing. `serve` gives every session a ledger.
* `sha256.rs`: a hash is modelled by the sequence of events it commits to, that is,
  as free of collisions. Bit-level arithmetic is tested by the vectors beside it.
* The base64 and frame encodings of `proto.rs`; `read_frame` appears by its
  outcomes.
* The text of an HTTP request (headers, authority) and the name service library:
  only which target is sent to which address matters to the properties.
* The text of an action signature: Gatekeeper has one value per action, the code
  one string, and that two actions have different strings is not examined.
* The kernel's side of Landlock and seccomp beyond what the code relies on; the
  environment and the output pipes of a command.
* The in-memory hash chain of a session (`verify_audit`): single-threaded and
  rebuilt from its own list.
* `describe`, `list_pending`, `pending_count`, DESCRIBE and AUDIT: they only
  read.
* capsh, the demo client, deployment.
* Secret detection by path is a set of directories and files
  (`SecretDirs`, `SecretFiles`); what `is_secret_path` matches in a string is not
  examined.
* Message bodies are reduced to where they came from; subjects and prefixes are
  sequences of segments although the code compares strings.

## 6. Plan

Done: AuditSink with DurableLog, ConsentLedger with ConsentPolicy, Gatekeeper,
Registry, Server, CapVM, Sandbox, HttpTarget with HttpEgress, and the proofs
listed above.

What could follow, by importance:

1. A composition of Gatekeeper with AuditSink itself in place of DurableLog, so
   that `OneGlobalChain` is seen from the sessions.
2. Several sessions with registries of their own behind Server, so that the role
   of a connection and the authority of its session appear together.
3. `read_frame` byte by byte, with a peer that sends a frame in pieces.
4. Larger instances: three peers with two slots, four capabilities in Registry.
