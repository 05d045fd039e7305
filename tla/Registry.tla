------------------------------ MODULE Registry ------------------------------
(***************************************************************************)
(* The capability registry of one session (Session in                      *)
(* capable-broker/src/lib.rs): granting, deriving, using and revoking      *)
(* capabilities, the mailboxes behind message capabilities, the bootstrap  *)
(* root of a guest and the coupling of egress to the mitigation state.     *)
(*                                                                         *)
(* A session belongs to one thread and its registry to the session, so a   *)
(* whole handler is one step.  The audit sink is shared: each audit call   *)
(* of a handler may fail, which is the parameter ok of the actions (the    *)
(* sink is AuditSink's subject, the policy gate in front of exec, http_get *)
(* and post is Gatekeeper's).                                              *)
(*                                                                         *)
(* A reference is the position of its capability in the order of creation  *)
(* (128 random bits in the code, so a fresh one is new).  A directory is   *)
(* named by its path; `Child' is the tree.  A subject and a subject prefix *)
(* are sequences of segments.                                              *)
(*                                                                         *)
(* A definition whose name starts with Bug_ is a defect of the definition  *)
(* that follows it; the specification never uses one.                      *)
(***************************************************************************)
EXTENDS Naturals, Sequences, FiniteSets, SequencesExt

CONSTANTS
    Dirs,        \* directories a DirCap can stand for
    Child,       \* pairs <<d, e>> with e a subdirectory of d
    NoDir,       \* the absence of a directory
    Workspace,   \* the directory a guest is given at the start
    SecretDirs,  \* directories whose path is_secret_path recognises
    Files,       \* names a caller reads in a directory
    SecretFiles, \* those is_secret_path recognises
    GrantOps,    \* operation sets the control plane asks for in grant_dir
    GrantTaints, \* taints it labels directories with
    Segments,    \* segments of subjects and prefixes
    MaxSegments, \* bound on the length of a subject or prefix
    MaxCaps,     \* bound on the capabilities of a session
    MaxPosts     \* bound on the messages posted in a session

ASSUME TreeAssumption ==
    /\ Workspace \in Dirs /\ NoDir \notin Dirs
    /\ Child \subseteq Dirs \X Dirs
    /\ SecretDirs \subseteq Dirs
    /\ SecretFiles \subseteq Files
\* The path of a subdirectory contains the path of its parent.
ASSUME SecretInherited == \A p \in Child : p[1] \in SecretDirs => p[2] \in SecretDirs
ASSUME GrantAssumption ==
    /\ GrantOps \subseteq SUBSET {"Read", "Write", "Delete", "List", "Exec"}
    /\ GrantTaints \subseteq {"Green", "Yellow", "Project", "Secret", "External",
                         "AgentGenerated"}
ASSUME RegistryBounds == MaxSegments \in Nat /\ MaxCaps \in Nat \ {0} /\ MaxPosts \in Nat

VARIABLES
    caps,      \* Session.caps, in the order of creation
    posted,    \* Session.mailboxes: all messages in the order of delivery
    broken,    \* Session.audit_broken
    bootstrap, \* Session.bootstrap
    reduced,   \* Session.mitigation_reduced
    did        \* history: what the last step disclosed or effected, if anything

regVars == <<caps, posted, broken, bootstrap, reduced, did>>

(***************************************************************************)
(* Data                                                                    *)
(***************************************************************************)
Op    == {"Read", "Write", "Delete", "List", "Exec"}
Taint == {"Green", "Yellow", "Project", "Secret", "External", "AgentGenerated"}
Kind  == {"dir", "sink", "command", "http", "message"}
None  == 0

Subjects == UNION {[1 .. n -> Segments] : n \in 0 .. MaxSegments}

\* MsgSpec.  A mailbox is named by the owner facet it was made with.
MsgSpec == [mbox : Nat \ {0}, prefix : Seq(Segments), oneShot : BOOLEAN, canReceive : BOOLEAN]
NoMsg == [mbox |-> None, prefix |-> << >>, oneShot |-> FALSE, canReceive |-> FALSE]

\* Cap.  `dir' stands for root and dir_fd, `http' for an HttpSpec and `argv'
\* for a non-empty argument vector.
Cap == [kind : Kind, revoked : BOOLEAN, dir : Dirs \cup {NoDir}, ops : SUBSET Op,
        taint : Taint, argv : BOOLEAN, http : BOOLEAN, msg : MsgSpec \cup {NoMsg},
        parent : Nat]

\* A capability of kind k with every other field at its empty value.
Plain(k, t) ==
    [kind |-> k, revoked |-> FALSE, dir |-> NoDir, ops |-> {}, taint |-> t,
     argv |-> FALSE, http |-> FALSE, msg |-> NoMsg, parent |-> None]

DirCap(d, ops, t, p) ==
    [Plain("dir", t) EXCEPT !.dir = d, !.ops = ops, !.parent = p]

\* PostedMsg, with the facet used and whether the caller supplied the body or
\* the broker read it.
Source  == {"literal", "read"}
Message == [mbox : Nat, subject : Subjects, taint : Taint, via : Nat, src : Source]

Refs    == DOMAIN caps
Nothing == [what |-> "none", via |-> None]
Did(what, r) == did' = [what |-> what, via |-> r]
Disclosures == {"read", "list", "mailbox"}
Effects     == {"exec", "http", "send", "post"}

(***************************************************************************)
(* Activity                                                                *)
(***************************************************************************)
\* is_active: the capability and every capability it was derived from exist
\* and are not revoked.  The code walks up the parents; here a set of
\* references closed under `parent' stands for the walk.
Bug_OnlyOwnFlag(r) == r \in Refs /\ ~caps[r].revoked

IsActive(r) ==
    \E chain \in SUBSET Refs :
        /\ r \in chain
        /\ \A x \in chain : ~caps[x].revoked /\ caps[x].parent \in chain \cup {None}

GetActive(r) == ~broken /\ IsActive(r)

\* Session::audit, with ok its result.
Audit(ok) == broken' = (broken \/ ~ok)

\* insert, followed by an audit event whose outcome is ignored.
Insert(c, ok) ==
    /\ Len(caps) < MaxCaps
    /\ caps' = Append(caps, c)
    /\ Audit(ok)
    /\ did' = Nothing

RegInit ==
    /\ \/ caps = << >> /\ bootstrap = None /\ broken = FALSE
       \/ /\ caps = <<DirCap(Workspace, {"Read", "List"}, "Project", None)>>
          /\ bootstrap = 1
          /\ broken \in BOOLEAN
    /\ posted = << >>
    /\ reduced = FALSE
    /\ did = Nothing

(***************************************************************************)
(* Grants                                                                  *)
(***************************************************************************)
GrantDir(d, ops, t, ok) ==
    /\ Insert(DirCap(d, ops, t, None), ok)
    /\ UNCHANGED <<posted, bootstrap, reduced>>

GrantSink(ok) ==
    /\ Insert(Plain("sink", "Green"), ok)
    /\ UNCHANGED <<posted, bootstrap, reduced>>

\* A new mailbox and its owner facet.
Bug_MailboxOfLast(ok) ==
    /\ Insert([Plain("message", "Green") EXCEPT
                   !.msg = [mbox |-> Len(caps), prefix |-> << >>,
                            oneShot |-> FALSE, canReceive |-> TRUE]], ok)
    /\ UNCHANGED <<posted, bootstrap, reduced>>

GrantMessage(ok) ==
    /\ Insert([Plain("message", "Green") EXCEPT
                   !.msg = [mbox |-> Len(caps) + 1, prefix |-> << >>,
                            oneShot |-> FALSE, canReceive |-> TRUE]], ok)
    /\ UNCHANGED <<posted, bootstrap, reduced>>

\* The working directory must be a DirCap; the command is not derived from it.
GrantCommand(cwd, argv, ok) ==
    /\ caps[cwd].kind = "dir"
    /\ GetActive(cwd)
    /\ Insert([Plain("command", "Yellow") EXCEPT
                   !.dir = caps[cwd].dir, !.ops = {"Exec"}, !.argv = argv], ok)
    /\ UNCHANGED <<posted, bootstrap, reduced>>

\* Refused, but audited, while mitigation is reduced.
Bug_GrantHttpAnyway(ok) ==
    /\ Insert([Plain("http", "External") EXCEPT !.http = TRUE], ok)
    /\ UNCHANGED <<posted, bootstrap, reduced>>

GrantHttp(ok) ==
    /\ IF reduced
         THEN Audit(ok) /\ did' = Nothing /\ UNCHANGED caps
         ELSE Insert([Plain("http", "External") EXCEPT !.http = TRUE], ok)
    /\ UNCHANGED <<posted, bootstrap, reduced>>

TakeBootstrap ==
    /\ bootstrap # None
    /\ bootstrap' = None
    /\ did' = Nothing
    /\ UNCHANGED <<caps, posted, broken, reduced>>

(***************************************************************************)
(* Derivations.  A refused derivation changes nothing and is not audited.  *)
(***************************************************************************)
DeriveSub(r, d, ok) ==
    /\ caps[r].kind = "dir"
    /\ <<caps[r].dir, d>> \in Child
    /\ GetActive(r)
    /\ Insert(DirCap(d, caps[r].ops, caps[r].taint, r), ok)
    /\ UNCHANGED <<posted, bootstrap, reduced>>

\* Any kind of capability; the operations are set to Read and List.
DeriveReadonly(r, ok) ==
    /\ GetActive(r)
    /\ Insert([Plain(caps[r].kind, caps[r].taint) EXCEPT
                   !.dir = caps[r].dir, !.ops = {"Read", "List"}, !.parent = r], ok)
    /\ UNCHANGED <<posted, bootstrap, reduced>>

\* insert_msg_facet: a facet that can only deliver.
Bug_FacetInheritsReceive(r, prefix, oneShot) ==
    [Plain("message", "Green") EXCEPT
        !.parent = r,
        !.msg = [caps[r].msg EXCEPT !.prefix = prefix, !.oneShot = oneShot]]

MsgFacet(r, prefix, oneShot) ==
    [Plain("message", "Green") EXCEPT
        !.parent = r,
        !.msg = [mbox |-> caps[r].msg.mbox, prefix |-> prefix,
                 oneShot |-> oneShot, canReceive |-> FALSE]]

Bug_PrefixReplaced(r, add, ok) ==
    /\ caps[r].msg # NoMsg
    /\ GetActive(r)
    /\ Insert(MsgFacet(r, add, FALSE), ok)
    /\ UNCHANGED <<posted, bootstrap, reduced>>

DeriveMsgPrefix(r, add, ok) ==
    /\ caps[r].msg # NoMsg
    /\ GetActive(r)
    /\ Insert(MsgFacet(r, caps[r].msg.prefix \o add, FALSE), ok)
    /\ UNCHANGED <<posted, bootstrap, reduced>>

DeriveMsgOneshot(r, ok) ==
    /\ caps[r].msg # NoMsg
    /\ GetActive(r)
    /\ Insert(MsgFacet(r, caps[r].msg.prefix, TRUE), ok)
    /\ UNCHANGED <<posted, bootstrap, reduced>>

(***************************************************************************)
(* Uses that are refused.  An unknown reference, a check that fails or an  *)
(* intent event that cannot be persisted: the handler audits what happened *)
(* (all but mailbox_read do, and post_bytes before anything is delivered)  *)
(* and ends.                                                               *)
(***************************************************************************)
RefusedUse(ok) ==
    /\ Audit(ok)
    /\ did' = Nothing
    /\ UNCHANGED <<caps, posted, bootstrap, reduced>>

(***************************************************************************)
(* Uses that disclose something: executed first, then audited; the result  *)
(* of a successful use is withheld if its event cannot be persisted.       *)
(***************************************************************************)
CanRead(r)    == "Read" \in caps[r].ops /\ caps[r].dir # NoDir /\ GetActive(r)
CanList(r)    == "List" \in caps[r].ops /\ caps[r].dir # NoDir /\ GetActive(r)
CanReceive(r) == caps[r].msg # NoMsg /\ caps[r].msg.canReceive /\ GetActive(r)

Disclose(what, r, ok) ==
    /\ Audit(ok)
    /\ IF ok THEN Did(what, r) ELSE did' = Nothing
    /\ UNCHANGED <<caps, posted, bootstrap, reduced>>

Read(r, ok)        == CanRead(r) /\ Disclose("read", r, ok)
ListDir(r, ok)     == CanList(r) /\ Disclose("list", r, ok)
MailboxRead(r, ok) == CanReceive(r) /\ Disclose("mailbox", r, ok)

(***************************************************************************)
(* Uses with an outside effect, once their intent is on record: the        *)
(* checks, the effect, and then the result event with outcome ok.          *)
(***************************************************************************)
Use(what, r, ok) ==
    /\ Audit(ok)
    /\ Did(what, r)
    /\ UNCHANGED <<bootstrap, reduced>>

Exec(r, ok) ==
    /\ "Exec" \in caps[r].ops /\ caps[r].argv /\ caps[r].dir # NoDir
    /\ GetActive(r)
    /\ Use("exec", r, ok)
    /\ UNCHANGED <<caps, posted>>

\* The request has passed the capability's allow lists and the address check.
HttpGet(r, ok) ==
    /\ caps[r].http /\ GetActive(r)
    /\ Use("http", r, ok)
    /\ UNCHANGED <<caps, posted>>

\* The caller labels the data; what it labels Secret is refused.
Send(r, ok) ==
    /\ caps[r].kind = "sink" /\ GetActive(r)
    /\ Use("send", r, ok)
    /\ UNCHANGED <<caps, posted>>

\* read_i: the taint of what is read is decided by the names on the path.  The
\* file may have others: openat2 follows links that stay below the directory.
TaintOfRead(r, f) ==
    IF caps[r].dir \in SecretDirs \/ f \in SecretFiles THEN "Secret" ELSE caps[r].taint

\* post_bytes: the checks, the delivery, and the end of a one-shot facet.
CanPost(r, subject, taint) ==
    /\ caps[r].msg # NoMsg
    /\ taint # "Secret"
    /\ IsPrefix(caps[r].msg.prefix, subject)
    /\ GetActive(r)

Bug_OneShotSurvives(r, subject, taint, src) ==
    /\ posted' = Append(posted, [mbox |-> caps[r].msg.mbox, subject |-> subject,
                                 taint |-> taint, via |-> r, src |-> src])
    /\ UNCHANGED caps

Deliver(r, subject, taint, src) ==
    /\ posted' = Append(posted, [mbox |-> caps[r].msg.mbox, subject |-> subject,
                                 taint |-> taint, via |-> r, src |-> src])
    /\ caps' = IF caps[r].msg.oneShot THEN [caps EXCEPT ![r].revoked = TRUE] ELSE caps

PostBytes(r, subject, taint, src, ok) ==
    /\ Len(posted) < MaxPosts
    /\ Deliver(r, subject, taint, src)
    /\ Use("post", r, ok)

\* Literal text, by an owner facet only.
CanPostLiteral(r, subject) == CanPost(r, subject, "Green") /\ caps[r].msg.canReceive

Post(r, subject, ok) ==
    /\ CanPostLiteral(r, subject)
    /\ PostBytes(r, subject, "Green", "literal", ok)

PostFrom(r, subject, src, f, ok) ==
    LET t == TaintOfRead(src, f)
    IN  /\ CanRead(src) /\ CanPost(r, subject, t)
        /\ PostBytes(r, subject, t, "read", ok)

(***************************************************************************)
(* revoke, set_mitigation_reduced                                          *)
(***************************************************************************)
Revoke(r, ok) ==
    /\ caps' = [caps EXCEPT ![r].revoked = TRUE]
    /\ Audit(ok)
    /\ did' = Nothing
    /\ UNCHANGED <<posted, bootstrap, reduced>>

Egress == {r \in Refs : caps[r].kind \in {"http", "message"}}

Bug_RestoreRevives(b, ok) ==
    /\ reduced' = b
    /\ caps' = [r \in Refs |-> IF r \in Egress THEN [caps[r] EXCEPT !.revoked = b] ELSE caps[r]]
    /\ Audit(ok)
    /\ did' = Nothing
    /\ UNCHANGED <<posted, bootstrap>>

\* One audit event per revoked capability and one for the switch.
SetMitigationReduced(b, ok) ==
    /\ reduced' = b
    /\ caps' = IF b THEN [r \in Refs |-> IF r \in Egress
                                           THEN [caps[r] EXCEPT !.revoked = TRUE]
                                           ELSE caps[r]]
                    ELSE caps
    /\ Audit(ok)
    /\ did' = Nothing
    /\ UNCHANGED <<posted, bootstrap>>

(***************************************************************************)
(* The session                                                             *)
(***************************************************************************)
Grant(ok) ==
    \/ \E d \in Dirs, ops \in GrantOps, t \in GrantTaints : GrantDir(d, ops, t, ok)
    \/ GrantSink(ok) \/ GrantMessage(ok) \/ GrantHttp(ok)
    \/ \E r \in Refs, argv \in BOOLEAN : GrantCommand(r, argv, ok)

Derive(r, ok) ==
    \/ \E d \in Dirs : DeriveSub(r, d, ok)
    \/ DeriveReadonly(r, ok)
    \/ DeriveMsgOneshot(r, ok)
    \/ \E add \in Subjects :
           /\ Len(caps[r].msg.prefix) + Len(add) <= MaxSegments
           /\ DeriveMsgPrefix(r, add, ok)

Inspect(r, ok) == Read(r, ok) \/ ListDir(r, ok) \/ MailboxRead(r, ok)

Invoke(r, ok) ==
    \/ Exec(r, ok) \/ HttpGet(r, ok) \/ Send(r, ok)
    \/ \E subject \in Subjects :
           \/ Post(r, subject, ok)
           \/ \E src \in Refs, f \in Files : PostFrom(r, subject, src, f, ok)

RegNext ==
    \/ \E ok \in BOOLEAN :
           \/ Grant(ok)
           \/ \E r \in Refs :
                  Derive(r, ok) \/ Inspect(r, ok) \/ Invoke(r, ok) \/ Revoke(r, ok)
           \/ \E b \in BOOLEAN : SetMitigationReduced(b, ok)
           \/ RefusedUse(ok)
    \/ TakeBootstrap

RegSpec == RegInit /\ [][RegNext]_regVars

(***************************************************************************)
(* Properties                                                              *)
(***************************************************************************)
RegTypeOK ==
    /\ caps \in Seq(Cap) /\ Len(caps) <= MaxCaps
    /\ posted \in Seq(Message) /\ Len(posted) <= MaxPosts
    /\ broken \in BOOLEAN /\ reduced \in BOOLEAN
    /\ bootstrap \in Refs \cup {None}
    /\ did \in [what : {"none"} \cup Disclosures \cup Effects, via : Nat]

Derived == {r \in Refs : caps[r].parent # None}

\* The capability a reference was derived from, that one's parent, and so on:
\* the walk is_active makes.
Lineage(ref) ==
    LET up[r \in Refs] ==
          IF caps[r].parent = None THEN {r} ELSE {r} \cup up[caps[r].parent]
    IN  up[ref]

\* Revocation cascades: nothing is disclosed or effected through a capability
\* any ancestor of which has been revoked, however the capability came about
\* and whatever happened since (is_active, get_active).
UseNeedsLiveLineage ==
    [][did'.what # "none" =>
         \A a \in Lineage(did'.via) : ~caps[a].revoked]_regVars

\* Revocation is final: no later grant, derivation, delivery or change of the
\* mitigation state brings a dead capability back to life.
RevocationIsFinal ==
    [][\A r \in Refs : IsActive(r)' => IsActive(r)]_regVars

\* What a derived capability reaches lies within what its parent reaches: the
\* same directory or one below it under the same taint, the same mailbox under
\* an extended prefix; and no derivation hands on the right to receive.
ReachNeverGrows ==
    \A r \in Derived :
        LET c == caps[r]
            p == caps[c.parent]
        IN  /\ c.kind = p.kind /\ c.taint = p.taint
            /\ c.dir = p.dir \/ <<p.dir, c.dir>> \in Child
            /\ c.http => p.http
            /\ c.argv => p.argv
            /\ c.msg # NoMsg => /\ c.msg.mbox = p.msg.mbox
                               /\ IsPrefix(p.msg.prefix, c.msg.prefix)
            /\ ~c.msg.canReceive

\* Text a caller supplies, which is labelled Green, only ever goes into a mailbox
\* by the facet it was made with: no sequence of derivations gives a delegate a
\* facet by which it could label so what it has read elsewhere (the argument of
\* post for letting owners supply text).
LiteralOnlyToSelf ==
    \A i \in DOMAIN posted : posted[i].src = "literal" => posted[i].via = posted[i].mbox

\* A one-shot facet delivers at most one message.
OneShotDeliversOnce ==
    \A r \in Refs : caps[r].msg.oneShot =>
        \A i, j \in DOMAIN posted : posted[i].via = r /\ posted[j].via = r => i = j

\* E1: a session in reduced mitigation holds no usable HTTP capability, whether
\* granted before or during the reduction or derived from one that was.
ReducedHoldsNoHttp ==
    reduced => \A r \in Refs : caps[r].kind = "http" => ~IsActive(r)

\* Fail closed: the first audit event that cannot be persisted breaks the session
\* for good, and a broken session discloses and effects nothing more.  What read,
\* list and mailbox_read found is withheld if it is their own event that failed;
\* exec and http_get hand out their output even then, their intent being on record.
FailClosed ==
    [][/\ broken => broken' /\ did'.what = "none"
       /\ did'.what \in Disclosures => ~broken']_regVars

\* CAPSULEVM.md: authority can only be narrowed, never widened.
OpsNeverGrow == \A r \in Derived : caps[r].ops \subseteq caps[caps[r].parent].ops

\* lib.rs, Session: in reduced mitigation the subject holds no network or
\* egress capability of any kind.
ReducedHoldsNoEgress ==
    reduced => \A r \in Egress : ~IsActive(r)
=============================================================================
