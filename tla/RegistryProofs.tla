--------------------------- MODULE RegistryProofs ---------------------------
(***************************************************************************)
(* Proofs about Registry for any tree of directories, any grants and any   *)
(* bounds: the types, attenuation, the finality of revocation, what may be *)
(* posted, the coupling of HTTP capabilities to the mitigation state, and  *)
(* that a session with a broken audit does nothing.                        *)
(*                                                                         *)
(* The argument is about the lineage of a capability.  A step either adds  *)
(* one capability at the end, whose parent exists already, or raises       *)
(* `revoked' flags; it changes nothing else of a capability.  As a parent  *)
(* precedes its children (ParentsAreEarlier), a new capability is never    *)
(* part of the lineage of an old one, so no step can make an inactive      *)
(* capability active.  This in turn is what ReducedHoldsNoHttp rests on.   *)
(* ReachNeverGrows needs that a facet of a mailbox carries nothing else    *)
(* (FacetsArePlain), LiteralOnlyToSelf that only owners receive, and       *)
(* OneShotDeliversOnce that a one-shot facet which has delivered is        *)
(* revoked (SpentAreRevoked), as only an active facet delivers.            *)
(* UseNeedsLiveLineage needs that the recursive walk of Lineage is defined *)
(* and stays within any set closed under `parent'; both follow from the    *)
(* least capability for which it would not.                                *)
(***************************************************************************)
EXTENDS Registry, SequenceTheorems, FiniteSetTheorems, WellFoundedInduction, TLAPS

ParentsAreEarlier == \A r \in Refs : caps[r].parent < r

\* The right to receive stays with the facet a mailbox was made with.
ReceiversOwnTheirMailbox == \A r \in Refs : caps[r].msg.canReceive => caps[r].msg.mbox = r

\* A facet of a mailbox is nothing else, and its taint is Green.
FacetsArePlain ==
    \A r \in Refs : caps[r].msg # NoMsg =>
        caps[r].kind = "message" /\ caps[r].taint = "Green" /\ caps[r].dir = NoDir

\* A one-shot facet that has delivered is revoked.
SpentAreRevoked ==
    \A i \in DOMAIN posted :
        /\ posted[i].via \in Refs
        /\ caps[posted[i].via].msg.oneShot => caps[posted[i].via].revoked

\* What capability c reaches lies within what p reaches.
Within(c, p) ==
    /\ c.kind = p.kind /\ c.taint = p.taint
    /\ c.dir = p.dir \/ <<p.dir, c.dir>> \in Child
    /\ c.http => p.http
    /\ c.argv => p.argv
    /\ c.msg # NoMsg => /\ c.msg.mbox = p.msg.mbox
                       /\ IsPrefix(p.msg.prefix, c.msg.prefix)
    /\ ~c.msg.canReceive

RegInv ==
    /\ RegTypeOK
    /\ ParentsAreEarlier
    /\ FacetsArePlain /\ ReachNeverGrows
    /\ ReceiversOwnTheirMailbox
    /\ LiteralOnlyToSelf
    /\ SpentAreRevoked /\ OneShotDeliversOnce
    /\ ReducedHoldsNoHttp

(***************************************************************************)
(* What a step does to the capabilities                                    *)
(***************************************************************************)
\* insert, with what every caller guarantees about the new capability.
Adds(c) ==
    /\ c \in Cap
    /\ caps' = Append(caps, c) /\ Len(caps) < MaxCaps
    /\ c.parent \in Nat /\ c.parent <= Len(caps)
    /\ c.msg.canReceive => c.msg.mbox = Len(caps) + 1
    /\ c.msg # NoMsg => c.kind = "message" /\ c.taint = "Green" /\ c.dir = NoDir
    /\ c.parent # None => Within(c, caps[c.parent])
    /\ c.kind = "http" /\ reduced =>
           \E p \in Refs : caps[p].kind = "http" /\ IsActive(p)
    /\ UNCHANGED <<posted, bootstrap, reduced>>

\* No capability comes or goes; some may be revoked.
Revokes ==
    /\ DOMAIN caps' = Refs
    /\ caps' \in Seq(Cap)
    /\ \A r \in Refs : caps'[r] = caps[r] \/ caps'[r] = [caps[r] EXCEPT !.revoked = TRUE]

\* References are positions, and what stands there is a capability.
LEMMA CapAt ==
    ASSUME RegTypeOK
    PROVE  /\ Len(caps) \in Nat /\ Refs = 1 .. Len(caps)
           /\ \A r \in Refs : caps[r] \in Cap /\ r \in Nat
BY LenProperties, ElementOfSeq DEF RegTypeOK, Refs

\* A capability of any kind without a parent, an argument vector, a host list
\* or a mailbox.
LEMMA PlainType ==
    ASSUME NEW k \in Kind, NEW t \in Taint
    PROVE  Plain(k, t) \in Cap
BY DEF Plain, Cap, None

\* The owner facet of a new mailbox, and a delivering facet of an old one.
LEMMA FacetType ==
    ASSUME NEW p \in Nat, NEW m \in MsgSpec
    PROVE  [Plain("message", "Green") EXCEPT !.parent = p, !.msg = m] \in Cap
BY DEF Plain, Cap, Kind, Taint

\* A directory capability as granted or derived.
LEMMA DirCapType ==
    ASSUME NEW d \in Dirs, NEW ops \in SUBSET Op, NEW t \in Taint, NEW p \in Nat
    PROVE  /\ DirCap(d, ops, t, p) \in Cap
           /\ DirCap(d, ops, t, p).parent = p
           /\ DirCap(d, ops, t, p).kind = "dir"
           /\ DirCap(d, ops, t, p).dir = d /\ DirCap(d, ops, t, p).taint = t
           /\ DirCap(d, ops, t, p).msg = NoMsg
           /\ ~DirCap(d, ops, t, p).http /\ ~DirCap(d, ops, t, p).argv
BY DEF DirCap, Plain, Cap, Kind

\* The use of a capability that is not active is refused, so is one of a
\* reference that names nothing.
LEMMA ActiveExists ==
    ASSUME NEW r, GetActive(r)
    PROVE  r \in Refs /\ IsActive(r) /\ ~broken
BY DEF GetActive, IsActive

(***************************************************************************)
(* Grants and derivations add one capability                               *)
(***************************************************************************)
\* A grant adds a capability without a parent, or is refused.
LEMMA GrantsAdd ==
    ASSUME RegTypeOK, NEW ok \in BOOLEAN, Grant(ok)
    PROVE  (\E c : Adds(c)) \/ UNCHANGED <<caps, posted, bootstrap, reduced>>
<1> USE CapAt
<1>1. ASSUME NEW d \in Dirs, NEW ops \in GrantOps, NEW t \in GrantTaints, GrantDir(d, ops, t, ok)
      PROVE  Adds(DirCap(d, ops, t, None))
  <2>1. ops \in SUBSET Op /\ t \in Taint
    BY GrantAssumption DEF Op, Taint
  <2> QED BY <1>1, <2>1, DirCapType DEF GrantDir, Insert, Adds, None, NoMsg
<1>2. ASSUME GrantSink(ok) PROVE Adds(Plain("sink", "Green"))
  <2>1. Plain("sink", "Green") \in Cap
    BY PlainType DEF Kind, Taint
  <2> QED BY <1>2, <2>1 DEF GrantSink, Insert, Adds, Plain, None, NoMsg
<1>3. ASSUME GrantMessage(ok) PROVE \E c : Adds(c)
  <2> DEFINE m == [mbox |-> Len(caps) + 1, prefix |-> << >>,
                   oneShot |-> FALSE, canReceive |-> TRUE]
             c == [Plain("message", "Green") EXCEPT !.msg = m]
  <2>1. m \in MsgSpec
    BY EmptySeq DEF MsgSpec
  <2>2. c \in Cap
    BY <2>1 DEF Plain, Cap, Kind, Taint, None
  <2>3. /\ c.parent = 0 /\ c.kind = "message" /\ c.msg.mbox = Len(caps) + 1
        /\ c.taint = "Green" /\ c.dir = NoDir
    BY DEF Plain, None
  <2>4. caps' = Append(caps, c) /\ Len(caps) < MaxCaps /\ UNCHANGED <<posted, bootstrap, reduced>>
    BY <1>3 DEF GrantMessage, Insert
  <2>5. Adds(c)
    BY <2>2, <2>3, <2>4 DEF Adds, None
  <2> QED BY <2>5
<1>4. ASSUME GrantHttp(ok)
      PROVE  (\E c : Adds(c)) \/ UNCHANGED <<caps, posted, bootstrap, reduced>>
  <2>1. CASE reduced
    BY <1>4, <2>1 DEF GrantHttp
  <2>2. CASE ~reduced
    <3> DEFINE c == [Plain("http", "External") EXCEPT !.http = TRUE]
    <3>1. c \in Cap
      BY DEF Plain, Cap, Kind, Taint, None
    <3>2. c.parent = 0 /\ c.msg = NoMsg
      BY DEF Plain, None
    <3>3. Adds(c)
      BY <1>4, <2>2, <3>1, <3>2 DEF GrantHttp, Insert, Adds, None, NoMsg
    <3> QED BY <3>3
  <2> QED BY <2>1, <2>2
<1>5. ASSUME NEW r \in Refs, NEW argv \in BOOLEAN, GrantCommand(r, argv, ok)
      PROVE  \E c : Adds(c)
  <2> DEFINE c == [Plain("command", "Yellow") EXCEPT
                      !.dir = caps[r].dir, !.ops = {"Exec"}, !.argv = argv]
  <2>1. caps[r].dir \in Dirs \cup {NoDir}
    BY DEF Cap
  <2>2. c \in Cap
    BY <2>1 DEF Plain, Cap, Kind, Taint, None, Op
  <2>3. c.parent = 0 /\ c.msg = NoMsg /\ c.kind = "command"
    BY DEF Plain, None
  <2>4. Adds(c)
    BY <1>5, <2>2, <2>3 DEF GrantCommand, Insert, Adds, None, NoMsg
  <2> QED BY <2>4
<1> QED BY <1>1, <1>2, <1>3, <1>4, <1>5 DEF Grant

\* A prefix grows at its end.
LEMMA PrefixOfConcat ==
    ASSUME NEW S, NEW s \in Seq(S), NEW t \in Seq(S)
    PROVE  IsPrefix(s, s \o t)
<1>1. /\ Len(s) \in Nat /\ Len(t) \in Nat
      /\ s \o t \in Seq(S) /\ Len(s \o t) = Len(s) + Len(t)
  BY LenProperties, ConcatProperties
<1>2. SubSeq(s \o t, 1, Len(s)) = s /\ SubSeq(s, 1, Len(s)) = s
  BY SubSeqOfConcat1, SubSeqFull
<1> QED BY <1>1, <1>2 DEF IsPrefix

\* A derivation adds a capability within its parent's reach.
LEMMA DerivationsAdd ==
    ASSUME RegTypeOK, FacetsArePlain, NEW r \in Refs, NEW ok \in BOOLEAN, Derive(r, ok)
    PROVE  \E c : Adds(c)
<1> USE CapAt
<1>1. ASSUME NEW d \in Dirs, DeriveSub(r, d, ok)
      PROVE  Adds(DirCap(d, caps[r].ops, caps[r].taint, r))
  <2>1. caps[r].ops \in SUBSET Op /\ caps[r].taint \in Taint
    BY DEF Cap
  <2> DEFINE c == DirCap(d, caps[r].ops, caps[r].taint, r)
  <2>2. /\ c \in Cap /\ c.parent = r /\ c.kind = "dir" /\ c.dir = d
        /\ c.taint = caps[r].taint /\ c.msg = NoMsg /\ ~c.http /\ ~c.argv
    BY <2>1, DirCapType
  <2>3. /\ caps[r].kind = "dir" /\ <<caps[r].dir, d>> \in Child
        /\ caps' = Append(caps, c) /\ Len(caps) < MaxCaps
        /\ UNCHANGED <<posted, bootstrap, reduced>>
    BY <1>1 DEF DeriveSub, Insert
  <2> HIDE DEF c
  <2>4. Within(c, caps[r])
    BY <2>2, <2>3 DEF Within, NoMsg
  <2>5. Adds(c)
    BY <2>2, <2>3, <2>4 DEF Adds, NoMsg
  <2> QED BY <2>5 DEF c
<1>2. ASSUME DeriveReadonly(r, ok) PROVE \E c : Adds(c)
  <2> DEFINE c == [Plain(caps[r].kind, caps[r].taint) EXCEPT
                      !.dir = caps[r].dir, !.ops = {"Read", "List"}, !.parent = r]
  <2>1. caps[r].kind \in Kind /\ caps[r].taint \in Taint /\ caps[r].dir \in Dirs \cup {NoDir}
    BY DEF Cap
  <2>2. c \in Cap
    BY <2>1 DEF Plain, Cap, Op
  <2>3. /\ c.parent = r /\ c.msg = NoMsg /\ c.kind = caps[r].kind
        /\ Within(c, caps[r])
    BY DEF Plain, NoMsg, Within
  <2>4. IsActive(r)
    BY <1>2, ActiveExists DEF DeriveReadonly
  <2>5. caps' = Append(caps, c) /\ Len(caps) < MaxCaps /\ UNCHANGED <<posted, bootstrap, reduced>>
    BY <1>2 DEF DeriveReadonly, Insert
  <2> HIDE DEF c
  <2>6. Adds(c)
    BY <2>2, <2>3, <2>4, <2>5 DEF Adds, NoMsg
  <2> QED BY <2>6
<1>3. ASSUME NEW prefix \in Seq(Segments), NEW oneShot \in BOOLEAN, caps[r].msg # NoMsg,
             IsPrefix(caps[r].msg.prefix, prefix),
             Insert(MsgFacet(r, prefix, oneShot), ok), UNCHANGED <<posted, bootstrap, reduced>>
      PROVE  Adds(MsgFacet(r, prefix, oneShot))
  <2> DEFINE m == [mbox |-> caps[r].msg.mbox, prefix |-> prefix,
                   oneShot |-> oneShot, canReceive |-> FALSE]
  <2>1. m \in MsgSpec
    BY <1>3 DEF Cap, MsgSpec
  <2>2. MsgFacet(r, prefix, oneShot) \in Cap
    BY <2>1, FacetType DEF MsgFacet
  <2>3. /\ MsgFacet(r, prefix, oneShot).parent = r
        /\ MsgFacet(r, prefix, oneShot).kind = "message"
        /\ MsgFacet(r, prefix, oneShot).taint = "Green"
        /\ MsgFacet(r, prefix, oneShot).dir = NoDir
        /\ MsgFacet(r, prefix, oneShot).msg = m
        /\ ~MsgFacet(r, prefix, oneShot).http /\ ~MsgFacet(r, prefix, oneShot).argv
    BY DEF MsgFacet, Plain
  <2>4. Within(MsgFacet(r, prefix, oneShot), caps[r])
    BY <1>3, <2>3 DEF Within, FacetsArePlain
  <2> QED BY <1>3, <2>2, <2>3, <2>4 DEF Insert, Adds
<1>4. caps[r].msg # NoMsg => caps[r].msg.prefix \in Seq(Segments)
  BY DEF Cap, MsgSpec
<1>5. ASSUME DeriveMsgOneshot(r, ok) PROVE \E c : Adds(c)
  <2>1. caps[r].msg.prefix \in Seq(Segments) /\ caps[r].msg # NoMsg
    BY <1>4, <1>5 DEF DeriveMsgOneshot
  <2>2. IsPrefix(caps[r].msg.prefix, caps[r].msg.prefix)
    BY <2>1, LenProperties DEF IsPrefix
  <2> QED BY <1>3, <1>5, <2>1, <2>2 DEF DeriveMsgOneshot
<1>6. ASSUME NEW add \in Subjects, DeriveMsgPrefix(r, add, ok) PROVE \E c : Adds(c)
  <2>1. add \in Seq(Segments)
    BY IsASeq, RegistryBounds DEF Subjects
  <2>2. caps[r].msg.prefix \o add \in Seq(Segments)
    BY <1>4, <1>6, <2>1, ConcatProperties DEF DeriveMsgPrefix
  <2>3. IsPrefix(caps[r].msg.prefix, caps[r].msg.prefix \o add)
    BY <1>4, <1>6, <2>1, PrefixOfConcat DEF DeriveMsgPrefix
  <2> QED BY <1>3, <1>6, <2>2, <2>3 DEF DeriveMsgPrefix
<1> QED BY <1>1, <1>2, <1>5, <1>6 DEF Derive

(***************************************************************************)
(* The other steps at most revoke and deliver                              *)
(***************************************************************************)
\* What a delivered message is, whatever posted it.
Delivers(m) ==
    /\ m \in Message
    /\ posted' = Append(posted, m) /\ Len(posted) < MaxPosts
    /\ m.via \in Refs /\ ~caps[m.via].revoked
    /\ caps[m.via].msg.oneShot => caps'[m.via].revoked
    /\ m.src = "literal" => caps[m.via].msg.canReceive /\ m.mbox = caps[m.via].msg.mbox

\* A revoked capability is still one.
LEMMA RevokedType ==
    ASSUME RegTypeOK, NEW r \in Refs
    PROVE  [caps[r] EXCEPT !.revoked = TRUE] \in Cap
BY CapAt DEF Cap

\* Raising the flag of one capability.
LEMMA RevokesOne ==
    ASSUME RegTypeOK, NEW r \in Refs, caps' = [caps EXCEPT ![r].revoked = TRUE]
    PROVE  Revokes
<1>1. [caps[r] EXCEPT !.revoked = TRUE] \in Cap
  BY RevokedType
<1>2. caps' = [caps EXCEPT ![r] = [caps[r] EXCEPT !.revoked = TRUE]]
  OBVIOUS
<1>3. caps' \in Seq(Cap) /\ DOMAIN caps' = DOMAIN caps
  BY <1>1, <1>2, ExceptSeq DEF RegTypeOK, Refs
<1> QED BY <1>2, <1>3, CapAt DEF Revokes, Refs

\* Nothing revoked is a case of Revokes.
LEMMA RevokesNone ==
    ASSUME RegTypeOK, caps' = caps
    PROVE  Revokes
BY DEF RegTypeOK, Revokes, Refs

\* post_bytes delivers one message and revokes at most the facet used.
LEMMA PostBytesDelivers ==
    ASSUME RegTypeOK, NEW r \in Refs, NEW subject \in Subjects, NEW t \in Taint,
           NEW src \in Source, NEW ok \in BOOLEAN,
           CanPost(r, subject, t), PostBytes(r, subject, t, src, ok)
    PROVE  /\ Revokes
           /\ posted' = Append(posted, [mbox |-> caps[r].msg.mbox, subject |-> subject,
                                        taint |-> t, via |-> r, src |-> src])
           /\ [mbox |-> caps[r].msg.mbox, subject |-> subject,
               taint |-> t, via |-> r, src |-> src] \in Message
           /\ Len(posted) < MaxPosts
           /\ ~caps[r].revoked
           /\ caps[r].msg.oneShot => caps'[r].revoked
<1>1. Revokes
  <2>1. CASE caps' = caps
    BY <2>1, RevokesNone
  <2>2. CASE caps' = [caps EXCEPT ![r].revoked = TRUE]
    BY <2>2, RevokesOne
  <2> QED BY <2>1, <2>2 DEF PostBytes, Deliver
<1>2. caps[r].msg.mbox \in Nat
  BY CapAt DEF Cap, MsgSpec, NoMsg, None
<1>3. [mbox |-> caps[r].msg.mbox, subject |-> subject,
       taint |-> t, via |-> r, src |-> src] \in Message
  BY <1>2, CapAt DEF Message
<1>4. ~caps[r].revoked
  BY DEF CanPost, GetActive, IsActive
<1>5. caps[r].msg.oneShot => caps'[r].revoked
  <2>1. ASSUME caps' = [caps EXCEPT ![r].revoked = TRUE] PROVE caps'[r].revoked
    BY <2>1, CapAt DEF Cap
  <2> QED BY <2>1 DEF PostBytes, Deliver
<1> QED BY <1>1, <1>3, <1>4, <1>5 DEF PostBytes, Deliver

\* post: literal text, by an owner facet.
LEMMA PostDelivers ==
    ASSUME RegTypeOK, NEW r \in Refs, NEW subject \in Subjects, NEW ok \in BOOLEAN,
           Post(r, subject, ok)
    PROVE  Revokes /\ \E m : Delivers(m)
<1> DEFINE m == [mbox |-> caps[r].msg.mbox, subject |-> subject,
                 taint |-> "Green", via |-> r, src |-> "literal"]
<1>1. /\ Revokes /\ posted' = Append(posted, m) /\ m \in Message
      /\ Len(posted) < MaxPosts
      /\ ~caps[r].revoked /\ (caps[r].msg.oneShot => caps'[r].revoked)
  BY PostBytesDelivers DEF Post, CanPostLiteral, Taint, Source
<1>2. Delivers(m)
  BY <1>1 DEF Delivers, Post, CanPostLiteral
<1> QED BY <1>1, <1>2

\* post_from: what the broker has read itself.
LEMMA PostFromDelivers ==
    ASSUME RegTypeOK, NEW r \in Refs, NEW subject \in Subjects, NEW src \in Refs,
           NEW f \in Files, NEW ok \in BOOLEAN, PostFrom(r, subject, src, f, ok)
    PROVE  Revokes /\ \E m : Delivers(m)
<1> DEFINE t == TaintOfRead(src, f)
           m == [mbox |-> caps[r].msg.mbox, subject |-> subject,
                 taint |-> t, via |-> r, src |-> "read"]
<1>1. t \in Taint
  BY CapAt DEF TaintOfRead, Cap, Taint
<1>2. CanPost(r, subject, t) /\ PostBytes(r, subject, t, "read", ok)
  BY DEF PostFrom
<1> HIDE DEF t
<1>3. /\ Revokes /\ posted' = Append(posted, m) /\ m \in Message
      /\ Len(posted) < MaxPosts
      /\ ~caps[r].revoked /\ (caps[r].msg.oneShot => caps'[r].revoked)
  BY <1>1, <1>2, PostBytesDelivers DEF Source
<1>4. Delivers(m)
  BY <1>3 DEF Delivers
<1> QED BY <1>3, <1>4

\* Every step other than a grant or a derivation keeps the capabilities but for
\* their flags, and delivers at most one message.
LEMMA OthersRevoke ==
    ASSUME RegTypeOK, FacetsArePlain, RegNext
    PROVE  \/ \E c : Adds(c)
           \/ Revokes /\ (posted' = posted \/ \E m : Delivers(m))
<1>1. ASSUME NEW ok \in BOOLEAN, Grant(ok) PROVE (\E c : Adds(c)) \/ (Revokes /\ posted' = posted)
  BY <1>1, GrantsAdd, RevokesNone
<1>2. ASSUME NEW ok \in BOOLEAN, NEW r \in Refs, Derive(r, ok) PROVE \E c : Adds(c)
  BY <1>2, DerivationsAdd
<1>3. ASSUME NEW ok \in BOOLEAN, NEW r \in Refs, Inspect(r, ok) PROVE Revokes /\ posted' = posted
  BY <1>3, RevokesNone DEF Inspect, Read, ListDir, MailboxRead, Disclose
<1>4. ASSUME NEW ok \in BOOLEAN, NEW r \in Refs, Invoke(r, ok)
      PROVE  Revokes /\ (posted' = posted \/ \E m : Delivers(m))
  <2>1. CASE Exec(r, ok) \/ HttpGet(r, ok) \/ Send(r, ok)
    BY <2>1, RevokesNone DEF Exec, HttpGet, Send
  <2> QED BY <1>4, <2>1, PostDelivers, PostFromDelivers DEF Invoke
<1>5. ASSUME NEW ok \in BOOLEAN, NEW r \in Refs, Revoke(r, ok) PROVE Revokes /\ posted' = posted
  BY <1>5, RevokesOne DEF Revoke
<1>6. ASSUME NEW ok \in BOOLEAN, NEW b \in BOOLEAN, SetMitigationReduced(b, ok)
      PROVE  Revokes /\ posted' = posted
  <2>1. CASE b
    <3>1. caps' = [r \in Refs |-> IF r \in Egress THEN [caps[r] EXCEPT !.revoked = TRUE]
                                                  ELSE caps[r]]
      BY <1>6, <2>1 DEF SetMitigationReduced
    <3>2. \A r \in Refs : caps'[r] \in Cap
      BY <3>1, RevokedType, CapAt
    <3>3. caps' \in [1 .. Len(caps) -> Cap]
      BY <3>1, <3>2, CapAt
    <3>4. caps' \in Seq(Cap)
      BY <3>3, CapAt, IsASeq
    <3> QED BY <1>6, <3>1, <3>4 DEF Revokes, SetMitigationReduced
  <2>2. CASE ~b
    BY <1>6, <2>2, RevokesNone DEF SetMitigationReduced
  <2> QED BY <2>1, <2>2
<1>7. ASSUME NEW ok \in BOOLEAN, RefusedUse(ok) PROVE Revokes /\ posted' = posted
  BY <1>7, RevokesNone DEF RefusedUse
<1>8. CASE TakeBootstrap
  BY <1>8, RevokesNone DEF TakeBootstrap
<1> QED BY <1>1, <1>2, <1>3, <1>4, <1>5, <1>6, <1>7, <1>8 DEF RegNext

(***************************************************************************)
(* Finality of revocation                                                  *)
(***************************************************************************)
\* After an insert the old capabilities are where they were.
LEMMA AddsKeepsOld ==
    ASSUME RegTypeOK, NEW c, Adds(c)
    PROVE  /\ caps' \in Seq(Cap) /\ Len(caps') = Len(caps) + 1
           /\ Refs' = Refs \cup {Len(caps) + 1}
           /\ \A r \in Refs : caps'[r] = caps[r]
           /\ caps'[Len(caps) + 1] = c
<1>1. caps \in Seq(Cap) /\ c \in Cap /\ caps' = Append(caps, c)
  BY DEF RegTypeOK, Adds
<1>2. /\ caps' \in Seq(Cap) /\ Len(caps') = Len(caps) + 1
      /\ \A i \in 1 .. Len(caps) : caps'[i] = caps[i]
      /\ caps'[Len(caps) + 1] = c
  BY <1>1, AppendProperties
<1>3. Refs' = 1 .. Len(caps) + 1
  BY <1>2, LenProperties DEF Refs
<1> QED BY <1>2, <1>3, CapAt

\* Revoking does not touch parent, kind and message spec.
LEMMA RevokesKeepsRest ==
    ASSUME RegTypeOK, Revokes
    PROVE  /\ Refs' = Refs /\ caps' \in Seq(Cap) /\ Len(caps') = Len(caps)
           /\ \A r \in Refs : /\ caps'[r].parent = caps[r].parent
                              /\ caps'[r].kind = caps[r].kind
                              /\ caps'[r].msg = caps[r].msg
                              /\ caps'[r].taint = caps[r].taint
                              /\ caps'[r].dir = caps[r].dir
                              /\ caps'[r].http = caps[r].http
                              /\ caps'[r].argv = caps[r].argv
                              /\ caps[r].revoked => caps'[r].revoked
<1>1. Refs' = Refs /\ caps' \in Seq(Cap)
  BY DEF Revokes, Refs
<1>2. Len(caps') = Len(caps)
  BY <1>1, LenProperties DEF Refs, RegTypeOK
<1>3. ASSUME NEW r \in Refs
      PROVE  /\ caps'[r].parent = caps[r].parent
             /\ caps'[r].kind = caps[r].kind
             /\ caps'[r].msg = caps[r].msg
             /\ caps'[r].taint = caps[r].taint
             /\ caps'[r].dir = caps[r].dir
             /\ caps'[r].http = caps[r].http
             /\ caps'[r].argv = caps[r].argv
             /\ caps[r].revoked => caps'[r].revoked
  BY <1>3, CapAt DEF Revokes, Cap
<1> QED BY <1>1, <1>2, <1>3

\* A lineage that is alive after a step was alive before it: a new capability
\* is nobody's ancestor, and no flag is ever lowered.
LEMMA NoRevival ==
    ASSUME RegInv, RegNext, NEW r \in Refs, IsActive(r)'
    PROVE  IsActive(r)
<1> USE DEF RegInv
<1>1. PICK chain \in SUBSET Refs' :
        /\ r \in chain
        /\ \A x \in chain : ~caps'[x].revoked /\ caps'[x].parent \in chain \cup {None}
  BY DEF IsActive
<1>2. ASSUME NEW c, Adds(c) PROVE IsActive(r)
  <2> DEFINE old == chain \cap Refs
  <2>1. \A x \in old : ~caps[x].revoked /\ caps[x].parent \in chain \cup {None}
    BY <1>1, <1>2, AddsKeepsOld
  <2>2. \A x \in old : caps[x].parent \in Nat /\ caps[x].parent <= Len(caps)
    BY CapAt DEF ParentsAreEarlier, Cap
  <2>3. \A x \in old : caps[x].parent \in old \cup {None}
    <3> TAKE x \in old
    <3>1. CASE caps[x].parent = None
      BY <3>1
    <3>2. CASE caps[x].parent # None
      <4>1. caps[x].parent \in 1 .. Len(caps)
        BY <2>2, <3>2, CapAt DEF None
      <4> QED BY <4>1, <3>2, <2>1, CapAt
    <3> QED BY <3>1, <3>2
  <2>4. old \in SUBSET Refs /\ r \in old
    BY <1>1
  <2> QED BY <2>1, <2>3, <2>4 DEF IsActive
<1>3. CASE Revokes
  <2>1. chain \in SUBSET Refs
    BY <1>3, RevokesKeepsRest
  <2>2. \A x \in chain : ~caps[x].revoked /\ caps[x].parent \in chain \cup {None}
    BY <1>1, <1>3, <2>1, RevokesKeepsRest
  <2> QED BY <1>1, <2>1, <2>2 DEF IsActive
<1> QED BY <1>2, <1>3, OthersRevoke

(***************************************************************************)
(* The other variables                                                     *)
(***************************************************************************)
DidType == [what : {"none"} \cup Disclosures \cup Effects, via : Nat]

\* A disclosure or an effect is named after a capability of the session.
LEMMA DidTypes ==
    /\ Nothing \in DidType
    /\ \A what \in Disclosures \cup Effects, r \in Nat : [what |-> what, via |-> r] \in DidType
BY DEF Nothing, DidType, None

\* Grants and derivations disclose nothing.
LEMMA InsertsDoNothing ==
    ASSUME NEW ok \in BOOLEAN, Grant(ok) \/ \E r \in Refs : Derive(r, ok)
    PROVE  Audit(ok) /\ did' = Nothing /\ UNCHANGED <<bootstrap, reduced>>
<1>1. CASE Grant(ok)
  BY <1>1 DEF Grant, GrantDir, GrantSink, GrantMessage, GrantHttp, GrantCommand, Insert
<1>2. CASE \E r \in Refs : Derive(r, ok)
  BY <1>2 DEF Derive, DeriveSub, DeriveReadonly, DeriveMsgOneshot, DeriveMsgPrefix, Insert
<1> QED BY <1>1, <1>2

\* What is handed out has its event, and only an intact session hands it out.
LEMMA InspectionsDisclose ==
    ASSUME RegTypeOK, NEW ok \in BOOLEAN, NEW r \in Refs, Inspect(r, ok)
    PROVE  /\ Audit(ok) /\ UNCHANGED <<bootstrap, reduced>>
           /\ did' \in DidType
           /\ ~broken /\ (did'.what # "none" => ok)
<1>1. ~broken /\ \E what \in Disclosures : Disclose(what, r, ok)
  BY DEF Inspect, Read, ListDir, MailboxRead, CanRead, CanList, CanReceive, GetActive,
         Disclosures
<1>2. PICK what \in Disclosures : Disclose(what, r, ok)
  BY <1>1
<1>3. Audit(ok) /\ UNCHANGED <<bootstrap, reduced>>
  BY <1>2 DEF Disclose
<1>4. did' \in DidType
  BY <1>2, DidTypes, CapAt DEF Disclose, Did
<1>5. did'.what # "none" => ok
  BY <1>2 DEF Disclose, Nothing
<1> QED BY <1>1, <1>3, <1>4, <1>5

\* Only an intact session acts on the world.
LEMMA InvocationsAct ==
    ASSUME RegTypeOK, NEW ok \in BOOLEAN, NEW r \in Refs, Invoke(r, ok)
    PROVE  /\ Audit(ok) /\ UNCHANGED <<bootstrap, reduced>>
           /\ did' \in DidType /\ did'.what \in Effects
           /\ ~broken
<1>1. ~broken /\ \E what \in Effects : Use(what, r, ok)
  BY DEF Invoke, Exec, HttpGet, Send, Post, PostFrom, PostBytes, CanPostLiteral, CanPost,
         GetActive, Effects
<1>2. PICK what \in Effects : Use(what, r, ok)
  BY <1>1
<1>3. did' = [what |-> what, via |-> r]
  BY <1>2 DEF Use, Did
<1>4. did' \in DidType /\ did'.what \in Effects
  BY <1>3, DidTypes, CapAt
<1> QED BY <1>1, <1>2, <1>4 DEF Use

\* What a step does apart from capabilities and messages.
SideEffects ==
    /\ broken' \in BOOLEAN /\ (broken => broken')
    /\ bootstrap' = bootstrap \/ bootstrap' = None
    /\ did' \in DidType
    /\ did'.what # "none" => ~broken /\ (did'.what \in Disclosures => ~broken')
    /\ \/ reduced' = reduced
       \/ reduced' = FALSE
       \/ /\ reduced' = TRUE
          /\ \A r \in Refs : caps[r].kind = "http" => caps'[r].revoked

\* Every step audits at most once more, keeps or takes the bootstrap root, and
\* discloses or effects something only in an intact session.
LEMMA StepEffects ==
    ASSUME RegTypeOK, RegNext
    PROVE  SideEffects
<1>0. \A ok \in BOOLEAN : Audit(ok) => broken' \in BOOLEAN /\ (broken => broken')
  BY DEF Audit
<1>a. Nothing \in DidType /\ Nothing.what = "none"
  BY DidTypes DEF Nothing
<1>1. ASSUME NEW ok \in BOOLEAN, Grant(ok) \/ \E r \in Refs : Derive(r, ok) PROVE SideEffects
  BY <1>0, <1>a, <1>1, InsertsDoNothing DEF SideEffects
<1>2. ASSUME NEW ok \in BOOLEAN, NEW r \in Refs, Inspect(r, ok) PROVE SideEffects
  <2>1. /\ Audit(ok) /\ UNCHANGED <<bootstrap, reduced>>
        /\ did' \in DidType
        /\ ~broken /\ (did'.what # "none" => ok)
    BY <1>2, InspectionsDisclose
  <2>2. ok => ~broken'
    BY <2>1 DEF Audit
  <2> QED BY <1>0, <2>1, <2>2 DEF SideEffects
<1>3. ASSUME NEW ok \in BOOLEAN, NEW r \in Refs, Invoke(r, ok) PROVE SideEffects
  <2>1. \A x \in Effects : x \notin Disclosures
    BY DEF Effects, Disclosures
  <2> QED BY <1>0, <1>3, <2>1, InvocationsAct DEF SideEffects
<1>4. ASSUME NEW ok \in BOOLEAN, NEW r \in Refs, Revoke(r, ok) PROVE SideEffects
  BY <1>0, <1>a, <1>4 DEF Revoke, SideEffects
<1>5. ASSUME NEW ok \in BOOLEAN, NEW b \in BOOLEAN, SetMitigationReduced(b, ok)
      PROVE  SideEffects
  <2>1. Audit(ok) /\ did' = Nothing /\ bootstrap' = bootstrap /\ reduced' = b
    BY <1>5 DEF SetMitigationReduced
  <2>2. ASSUME b = TRUE, NEW r \in Refs, caps[r].kind = "http" PROVE caps'[r].revoked
    <3>1. caps'[r] = [caps[r] EXCEPT !.revoked = TRUE]
      BY <1>5, <2>2 DEF SetMitigationReduced, Egress
    <3> QED BY <3>1, CapAt DEF Cap
  <2> QED BY <1>0, <1>a, <2>1, <2>2 DEF SideEffects
<1>6. ASSUME NEW ok \in BOOLEAN, RefusedUse(ok) PROVE SideEffects
  BY <1>0, <1>a, <1>6 DEF RefusedUse, SideEffects
<1>7. ASSUME TakeBootstrap PROVE SideEffects
  BY <1>a, <1>7 DEF TakeBootstrap, RegTypeOK, SideEffects
<1> QED BY <1>1, <1>2, <1>3, <1>4, <1>5, <1>6, <1>7 DEF RegNext

(***************************************************************************)
(* The lineage of a capability                                             *)
(***************************************************************************)
\* A non-empty set of natural numbers has a least element: strict inclusion of
\* finite sets is well founded, and so is that of the intervals 1 .. x.
LEMMA LeastNat ==
    ASSUME NEW T \in SUBSET Nat, T # {}
    PROVE  \E x \in T : \A y \in T : x <= y
<1> DEFINE I(x) == 1 .. x
           W    == {I(x) : x \in T}
<1>1. \A x \in T : I(x) \in FiniteSubsetsOf(Nat)
  <2> TAKE x \in T
  <2>1. IsFiniteSet(1 .. x)
    BY FS_Interval
  <2> QED BY <2>1 DEF FiniteSubsetsOf
<1>2. W \subseteq FiniteSubsetsOf(Nat) /\ W # {}
  BY <1>1
<1>3. IsWellFoundedOn(StrictSubsetOrdering(Nat), FiniteSubsetsOf(Nat))
  BY FS_StrictSubsetOrderingWellFounded
<1>4. PICK A \in W : \A B \in W : ~(<<B, A>> \in StrictSubsetOrdering(Nat))
  <2> HIDE DEF W
  <2> QED BY <1>2, <1>3, WFMin
<1>5. PICK x \in T : A = I(x)
  BY <1>4
<1>6. ASSUME NEW y \in T, y < x PROVE FALSE
  <2>1. I(y) \subseteq I(x) /\ x \in I(x) /\ x \notin I(y)
    BY <1>6
  <2>2. I(y) \in SUBSET Nat /\ I(x) \in SUBSET Nat /\ I(y) # I(x)
    BY <2>1
  <2>3. <<I(y), I(x)>> \in StrictSubsetOrdering(Nat)
    BY <2>1, <2>2 DEF StrictSubsetOrdering
  <2> QED BY <1>4, <1>5, <2>3
<1>7. \A y \in T : x <= y
  BY <1>6
<1> QED BY <1>7

\* One round of the walk up the parents, on the first n capabilities.
IsWalk(f, n) ==
    f = [r \in 1 .. n |-> IF caps[r].parent = None THEN {r} ELSE {r} \cup f[caps[r].parent]]

\* The walk ends, because parents precede their children.
LEMMA WalkExists ==
    ASSUME RegTypeOK, ParentsAreEarlier
    PROVE  \E f : IsWalk(f, Len(caps))
<1> DEFINE bad == {n \in 0 .. Len(caps) : ~\E f : IsWalk(f, n)}
<1>1. Len(caps) \in Nat /\ \A r \in 1 .. Len(caps) : caps[r].parent \in Nat /\ caps[r].parent < r
  BY CapAt DEF ParentsAreEarlier, Cap
<1>2. ASSUME bad # {} PROVE FALSE
  <2>1. PICK n \in bad : \A k \in bad : n <= k
    <3>1. bad \in SUBSET Nat
      BY <1>1
    <3> HIDE DEF bad
    <3> QED BY <1>2, <3>1, LeastNat
  <2>2. n \in 0 .. Len(caps) /\ ~\E f : IsWalk(f, n)
    BY <2>1
  <2>3. n # 0
    <3>1. IsWalk([r \in 1 .. 0 |-> {}], 0)
      BY DEF IsWalk
    <3> QED BY <2>2, <3>1
  <2>4. n - 1 \in 0 .. Len(caps) /\ n - 1 \notin bad
    BY <1>1, <2>1, <2>2, <2>3
  <2>5. PICK f : IsWalk(f, n - 1)
    BY <2>4
  <2> DEFINE up(r) == IF caps[r].parent = None THEN {r} ELSE {r} \cup f[caps[r].parent]
             g     == [r \in 1 .. n |-> up(r)]
  <2>6. \A r \in 1 .. n - 1 : f[r] = up(r)
    BY <2>5 DEF IsWalk
  <2>7. \A r \in 1 .. n : caps[r].parent # None => caps[r].parent \in 1 .. n - 1
    BY <1>1, <2>2, <2>3 DEF None
  <2>8. \A r \in 1 .. n - 1 : g[r] = f[r]
    <3>1. \A r \in 1 .. n - 1 : r \in 1 .. n
      BY <1>1, <2>2
    <3> HIDE DEF up
    <3> QED BY <2>6, <3>1
  <2>9. IsWalk(g, n)
    <3>1. \A r \in 1 .. n :
              up(r) = IF caps[r].parent = None THEN {r} ELSE {r} \cup g[caps[r].parent]
      <4> HIDE DEF g
      <4> QED BY <2>7, <2>8
    <3> HIDE DEF up
    <3> QED BY <3>1 DEF IsWalk
  <2> QED BY <2>2, <2>9
<1>3. Len(caps) \in 0 .. Len(caps) /\ Len(caps) \notin bad
  BY <1>1, <1>2
<1> QED BY <1>3

\* Lineage follows the parents.
LEMMA LineageUnfolds ==
    ASSUME RegTypeOK, ParentsAreEarlier, NEW r \in Refs
    PROVE  Lineage(r) = IF caps[r].parent = None THEN {r} ELSE {r} \cup Lineage(caps[r].parent)
<1> DEFINE up == CHOOSE f : IsWalk(f, Len(caps))
<1>1. IsWalk(up, Len(caps))
  BY WalkExists
<1>2. Refs = 1 .. Len(caps)
  BY CapAt
<1>3. \A x : Lineage(x) = up[x]
  BY <1>2 DEF Lineage, IsWalk
<1> HIDE DEF up
<1> QED BY <1>1, <1>2, <1>3 DEF IsWalk

\* Every set that is closed under `parent' and holds a capability holds its
\* lineage: a chain that shows is_active is all of the walk.
LEMMA LineageInChain ==
    ASSUME RegTypeOK, ParentsAreEarlier, NEW chain \in SUBSET Refs,
           \A x \in chain : caps[x].parent \in chain \cup {None}
    PROVE  \A r \in chain : Lineage(r) \subseteq chain
<1> DEFINE bad == {r \in chain : ~(Lineage(r) \subseteq chain)}
<1>1. SUFFICES ASSUME bad # {} PROVE FALSE
  OBVIOUS
<1>2. PICK r \in bad : \A k \in bad : r <= k
  <2>1. bad \in SUBSET Nat
    BY CapAt
  <2> HIDE DEF bad
  <2> QED BY <1>1, <2>1, LeastNat
<1>3. r \in Refs /\ r \in Nat /\ caps[r].parent \in Nat /\ caps[r].parent < r
  BY <1>2, CapAt DEF ParentsAreEarlier, Cap
<1>4. caps[r].parent # None => caps[r].parent \in chain \ bad
  BY <1>2, <1>3
<1>5. Lineage(r) \subseteq chain
  BY <1>2, <1>3, <1>4, LineageUnfolds
<1> QED BY <1>2, <1>5

\* The ancestors of an active capability are not revoked.
LEMMA ActiveLineage ==
    ASSUME RegInv, NEW r, IsActive(r)
    PROVE  \A a \in Lineage(r) : ~caps[a].revoked
BY LineageInChain DEF RegInv, IsActive

\* What is disclosed or effected is so through an active capability.
LEMMA UsesAreActive ==
    ASSUME RegNext, did'.what # "none"
    PROVE  IsActive(did'.via)
<1> SUFFICES ASSUME did' # Nothing PROVE IsActive(did'.via)
  BY DEF Nothing
<1>1. ASSUME NEW ok \in BOOLEAN, NEW r \in Refs, Inspect(r, ok) PROVE IsActive(did'.via)
  <2>1. IsActive(r) /\ \E what \in Disclosures : Disclose(what, r, ok)
    BY <1>1 DEF Inspect, Read, ListDir, MailboxRead, CanRead, CanList, CanReceive, GetActive,
               Disclosures
  <2> QED BY <2>1 DEF Disclose, Did
<1>2. ASSUME NEW ok \in BOOLEAN, NEW r \in Refs, Invoke(r, ok) PROVE IsActive(did'.via)
  <2>1. IsActive(r) /\ \E what \in Effects : Use(what, r, ok)
    BY <1>2 DEF Invoke, Exec, HttpGet, Send, Post, PostFrom, PostBytes, CanPostLiteral, CanPost,
               GetActive, Effects
  <2> QED BY <2>1 DEF Use, Did
<1>3. ASSUME NEW ok \in BOOLEAN, Grant(ok) \/ \E r \in Refs : Derive(r, ok) PROVE FALSE
  BY <1>3, InsertsDoNothing
<1> QED BY <1>1, <1>2, <1>3 DEF RegNext, Revoke, SetMitigationReduced, RefusedUse, TakeBootstrap

(***************************************************************************)
(* The invariant, conjunct by conjunct                                     *)
(***************************************************************************)
\* Types.
LEMMA TypeStep ==
    ASSUME RegInv, RegNext
    PROVE  RegTypeOK'
<1> USE DEF RegInv
<1>1. SideEffects
  BY StepEffects
<1>2. ASSUME NEW c, Adds(c) PROVE RegTypeOK'
  <2>1. /\ caps' \in Seq(Cap) /\ Len(caps') <= MaxCaps /\ Refs \subseteq Refs'
        /\ UNCHANGED <<posted, bootstrap, reduced>>
    BY <1>2, AddsKeepsOld, CapAt, RegistryBounds DEF Adds
  <2> QED BY <1>1, <2>1 DEF RegTypeOK, SideEffects, DidType
<1>3. ASSUME Revokes, posted' \in Seq(Message), Len(posted') <= MaxPosts PROVE RegTypeOK'
  <2>1. caps' \in Seq(Cap) /\ Len(caps') <= MaxCaps /\ Refs' = Refs
    BY <1>3, RevokesKeepsRest DEF RegTypeOK
  <2>2. reduced' \in BOOLEAN
    BY <1>1 DEF SideEffects, RegTypeOK
  <2> QED BY <1>1, <1>3, <2>1, <2>2 DEF RegTypeOK, SideEffects, DidType
<1>4. ASSUME NEW m, Delivers(m) PROVE posted' \in Seq(Message) /\ Len(posted') <= MaxPosts
  <2>1. /\ posted \in Seq(Message) /\ m \in Message /\ posted' = Append(posted, m)
        /\ Len(posted) < MaxPosts
    BY <1>4 DEF RegTypeOK, Delivers
  <2> QED BY <2>1, AppendProperties, LenProperties, RegistryBounds
<1>5. posted' = posted => posted' \in Seq(Message) /\ Len(posted') <= MaxPosts
  BY DEF RegTypeOK
<1> QED BY <1>2, <1>3, <1>4, <1>5, OthersRevoke

\* Parents precede their children, owners receive from their own mailbox.
LEMMA ParentStep ==
    ASSUME RegInv, RegNext
    PROVE  ParentsAreEarlier' /\ ReceiversOwnTheirMailbox'
<1> USE DEF RegInv
<1>1. ASSUME NEW c, Adds(c) PROVE ParentsAreEarlier' /\ ReceiversOwnTheirMailbox'
  <2>1. c.parent < Len(caps) + 1 /\ (c.msg.canReceive => c.msg.mbox = Len(caps) + 1)
    BY <1>1, CapAt DEF Adds
  <2>2. /\ Refs' = Refs \cup {Len(caps) + 1}
        /\ \A r \in Refs : caps'[r] = caps[r]
        /\ caps'[Len(caps) + 1] = c
    BY <1>1, AddsKeepsOld
  <2> QED BY <2>1, <2>2 DEF ParentsAreEarlier, ReceiversOwnTheirMailbox
<1>2. CASE Revokes
  BY <1>2, RevokesKeepsRest DEF ParentsAreEarlier, ReceiversOwnTheirMailbox
<1> QED BY <1>1, <1>2, OthersRevoke

\* Who may post text.
LEMMA PostedStep ==
    ASSUME RegInv, RegNext
    PROVE  LiteralOnlyToSelf'
<1> USE DEF RegInv
<1>1. ASSUME NEW m, Delivers(m) PROVE LiteralOnlyToSelf'
  <2>1. posted \in Seq(Message) /\ m \in Message /\ posted' = Append(posted, m)
    BY <1>1 DEF RegTypeOK, Delivers
  <2>2. /\ Len(posted) \in Nat /\ DOMAIN posted = 1 .. Len(posted)
        /\ DOMAIN posted' = 1 .. Len(posted) + 1
        /\ \A i \in DOMAIN posted : posted'[i] = posted[i]
        /\ posted'[Len(posted) + 1] = m
    BY <2>1, AppendProperties, LenProperties
  <2>3. \A i \in DOMAIN posted' : i \in DOMAIN posted \/ i = Len(posted) + 1
    BY <2>2
  <2>4. m.src = "literal" => m.via = m.mbox
    BY <1>1 DEF Delivers, ReceiversOwnTheirMailbox
  <2> QED BY <2>2, <2>3, <2>4 DEF LiteralOnlyToSelf
<1>2. CASE posted' = posted
  BY <1>2 DEF LiteralOnlyToSelf
<1> QED BY <1>1, <1>2, OthersRevoke DEF Adds

\* A facet that delivers was active, so it had not delivered before if it is a
\* one-shot one, and it is revoked now.
LEMMA OneShotStep ==
    ASSUME RegInv, RegNext
    PROVE  SpentAreRevoked' /\ OneShotDeliversOnce'
<1> USE DEF RegInv
<1>1. ASSUME NEW c, Adds(c) PROVE SpentAreRevoked' /\ OneShotDeliversOnce'
  <2>1. /\ Refs' = Refs \cup {Len(caps) + 1} /\ posted' = posted
        /\ \A r \in Refs : caps'[r] = caps[r]
    BY <1>1, AddsKeepsOld DEF Adds
  <2>2. \A i \in DOMAIN posted : posted[i].via \in Refs
    BY DEF SpentAreRevoked
  <2>3. SpentAreRevoked'
    BY <2>1 DEF SpentAreRevoked
  <2>4. OneShotDeliversOnce'
    BY <2>1, <2>2 DEF OneShotDeliversOnce
  <2> QED BY <2>3, <2>4
<1>2. CASE Revokes /\ posted' = posted
  <2>1. SpentAreRevoked'
    BY <1>2, RevokesKeepsRest DEF SpentAreRevoked
  <2>2. OneShotDeliversOnce'
    BY <1>2, RevokesKeepsRest DEF OneShotDeliversOnce
  <2> QED BY <2>1, <2>2
<1>3. ASSUME Revokes, NEW m, Delivers(m) PROVE SpentAreRevoked' /\ OneShotDeliversOnce'
  <2>1. posted \in Seq(Message) /\ posted' = Append(posted, m) /\ m \in Message
    BY <1>3 DEF RegTypeOK, Delivers
  <2>2. /\ Len(posted) \in Nat /\ DOMAIN posted = 1 .. Len(posted)
        /\ DOMAIN posted' = 1 .. Len(posted) + 1
        /\ \A i \in DOMAIN posted : posted'[i] = posted[i]
        /\ posted'[Len(posted) + 1] = m
    BY <2>1, AppendProperties, LenProperties
  <2>3. \A i \in DOMAIN posted' : i \in DOMAIN posted \/ i = Len(posted) + 1
    BY <2>2
  <2>4. \A r \in Refs : caps'[r].msg = caps[r].msg /\ (caps[r].revoked => caps'[r].revoked)
    BY <1>3, RevokesKeepsRest
  <2>5. Refs' = Refs
    BY <1>3, RevokesKeepsRest
  <2>6. /\ m.via \in Refs /\ ~caps[m.via].revoked
        /\ caps[m.via].msg.oneShot => caps'[m.via].revoked
    BY <1>3 DEF Delivers
  <2>7. SpentAreRevoked'
    BY <2>2, <2>3, <2>4, <2>5, <2>6 DEF SpentAreRevoked
  <2>8. caps[m.via].msg.oneShot => \A i \in DOMAIN posted : posted[i].via # m.via
    BY <2>6 DEF SpentAreRevoked
  <2>9. OneShotDeliversOnce'
    <3> SUFFICES ASSUME NEW r \in Refs, caps[r].msg.oneShot,
                        NEW i \in DOMAIN posted', NEW j \in DOMAIN posted',
                        posted'[i].via = r, posted'[j].via = r
                 PROVE  i = j
      BY <2>4, <2>5 DEF OneShotDeliversOnce
    <3>1. CASE r = m.via
      BY <2>2, <2>3, <2>8, <3>1
    <3>2. CASE r # m.via
      BY <2>2, <2>3, <3>2 DEF OneShotDeliversOnce
    <3> QED BY <3>1, <3>2
  <2> QED BY <2>7, <2>9
<1> QED BY <1>1, <1>2, <1>3, OthersRevoke

\* A capability for HTTP is dead once mitigation is reduced, and stays dead.
LEMMA ReducedStep ==
    ASSUME RegInv, RegNext
    PROVE  ReducedHoldsNoHttp'
<1> USE DEF RegInv
<1> SUFFICES ASSUME reduced', NEW r \in Refs', caps'[r].kind = "http", IsActive(r)'
             PROVE  FALSE
  BY DEF ReducedHoldsNoHttp
<1>1. r \in Refs => IsActive(r)
  BY NoRevival
<1>2. ASSUME NEW c, Adds(c) PROVE FALSE
  <2>1. reduced /\ \A p \in Refs : caps[p].kind = "http" => ~IsActive(p)
    BY <1>2 DEF Adds, ReducedHoldsNoHttp
  <2>2. CASE r \in Refs
    BY <1>1, <1>2, <2>1, <2>2, AddsKeepsOld
  <2>3. CASE r = Len(caps) + 1
    BY <1>2, <2>1, <2>3, AddsKeepsOld DEF Adds
  <2> QED BY <1>2, <2>2, <2>3, AddsKeepsOld
<1>3. CASE Revokes
  <2>1. r \in Refs /\ caps[r].kind = "http"
    BY <1>3, RevokesKeepsRest
  <2>2. ~reduced
    BY <1>1, <2>1 DEF ReducedHoldsNoHttp
  <2>3. caps'[r].revoked
    BY <2>1, <2>2, StepEffects DEF SideEffects
  <2> QED BY <2>3 DEF IsActive
<1> QED BY <1>2, <1>3, OthersRevoke

\* ReachNeverGrows in terms of Within.
LEMMA ReachIsWithin ==
    ReachNeverGrows <=> \A r \in Refs : caps[r].parent # None => Within(caps[r], caps[caps[r].parent])
BY DEF ReachNeverGrows, Derived, Within

\* A derivation stays within its parent, and later steps change neither.
LEMMA ReachStep ==
    ASSUME RegInv, RegNext
    PROVE  FacetsArePlain' /\ ReachNeverGrows'
<1> USE DEF RegInv
<1>1. \A r \in Refs : caps[r].parent # None =>
          caps[r].parent \in Refs /\ Within(caps[r], caps[caps[r].parent])
  BY ReachIsWithin, CapAt DEF ParentsAreEarlier, Cap, None
<1>2. ReachNeverGrows' <=>
          \A r \in Refs' : caps'[r].parent # None => Within(caps'[r], caps'[caps'[r].parent])
  BY DEF ReachNeverGrows, Derived, Within
<1>3. ASSUME NEW c, Adds(c) PROVE FacetsArePlain' /\ ReachNeverGrows'
  <2>1. /\ Refs' = Refs \cup {Len(caps) + 1}
        /\ \A r \in Refs : caps'[r] = caps[r]
        /\ caps'[Len(caps) + 1] = c
    BY <1>3, AddsKeepsOld
  <2>2. c.parent # None => c.parent \in Refs /\ Within(c, caps[c.parent])
    BY <1>3, CapAt DEF Adds, None
  <2>3. FacetsArePlain'
    BY <1>3, <2>1 DEF FacetsArePlain, Adds
  <2> QED BY <1>1, <1>2, <2>1, <2>2, <2>3
<1>4. CASE Revokes
  <2>1. FacetsArePlain'
    BY <1>4, RevokesKeepsRest DEF FacetsArePlain
  <2>2. ASSUME NEW r \in Refs, caps'[r].parent # None
        PROVE  Within(caps'[r], caps'[caps'[r].parent])
    <3>1. PICK p \in Refs : p = caps[r].parent /\ p = caps'[r].parent
      BY <1>1, <1>4, <2>2, RevokesKeepsRest
    <3>2. Within(caps[r], caps[p])
      BY <1>1, <2>2, <3>1
    <3>3. Within(caps'[r], caps'[p])
      BY <1>4, <3>2, RevokesKeepsRest DEF Within
    <3> QED BY <3>1, <3>3
  <2>3. ReachNeverGrows'
    BY <1>2, <1>4, <2>2, RevokesKeepsRest
  <2> QED BY <2>1, <2>3
<1> QED BY <1>3, <1>4, OthersRevoke

\* A new session, with or without its bootstrap root, satisfies the invariant.
LEMMA RegInitHolds == RegInit => RegInv
<1> SUFFICES ASSUME RegInit PROVE RegInv
  OBVIOUS
<1>1. << >> \in Seq(Cap) /\ Len(<< >>) = 0 /\ << >> \in Seq(Message)
  OBVIOUS
<1>2. posted = << >> /\ reduced = FALSE /\ did = Nothing /\ broken \in BOOLEAN
  BY DEF RegInit
<1>3. Nothing \in DidType
  BY DidTypes
<1>4. /\ LiteralOnlyToSelf /\ ReducedHoldsNoHttp
      /\ SpentAreRevoked /\ OneShotDeliversOnce
  BY <1>2 DEF LiteralOnlyToSelf, ReducedHoldsNoHttp, SpentAreRevoked,
              OneShotDeliversOnce
<1>5. posted \in Seq(Message) /\ Len(posted) <= MaxPosts
  BY <1>1, <1>2, RegistryBounds
<1>6. CASE caps = << >> /\ bootstrap = None
  <2>1. Refs = {} /\ caps \in Seq(Cap) /\ Len(caps) <= MaxCaps
    BY <1>1, <1>6, RegistryBounds DEF Refs
  <2>2. RegTypeOK
    BY <1>2, <1>3, <1>6, <1>5, <2>1 DEF RegTypeOK, DidType
  <2>3. ParentsAreEarlier /\ ReceiversOwnTheirMailbox /\ FacetsArePlain /\ ReachNeverGrows
    BY <2>1 DEF ParentsAreEarlier, ReceiversOwnTheirMailbox, FacetsArePlain,
                ReachNeverGrows, Derived
  <2> QED BY <1>4, <2>2, <2>3 DEF RegInv
<1>7. CASE caps = <<DirCap(Workspace, {"Read", "List"}, "Project", None)>> /\ bootstrap = 1
  <2> DEFINE c == DirCap(Workspace, {"Read", "List"}, "Project", None)
  <2>1. c \in Cap /\ c.parent = 0 /\ c.msg = NoMsg
    <3>1. /\ Workspace \in Dirs /\ {"Read", "List"} \in SUBSET Op
          /\ "Project" \in Taint /\ None \in Nat
      BY TreeAssumption DEF Op, Taint, None
    <3> QED BY <3>1, DirCapType DEF None
  <2> HIDE DEF c
  <2>2. caps = <<c>>
    BY <1>7 DEF c
  <2>3. caps \in Seq(Cap) /\ Len(caps) = 1 /\ Refs = {1} /\ caps[1] = c
    BY <2>1, <2>2 DEF Refs
  <2>4. Len(caps) <= MaxCaps
    BY <2>3, RegistryBounds
  <2>5. ParentsAreEarlier /\ ReceiversOwnTheirMailbox /\ FacetsArePlain
    BY <2>1, <2>3 DEF ParentsAreEarlier, ReceiversOwnTheirMailbox, FacetsArePlain, NoMsg
  <2>6. RegTypeOK
    BY <1>2, <1>3, <1>7, <1>5, <2>3, <2>4 DEF RegTypeOK, DidType
  <2>7. ReachNeverGrows
    BY <2>1, <2>3 DEF ReachNeverGrows, Derived, None
  <2> QED BY <1>4, <2>5, <2>6, <2>7 DEF RegInv
<1> QED BY <1>6, <1>7 DEF RegInit

\* Every step of the registry, and of what leaves it alone, keeps the invariant.
LEMMA RegInvStep == RegInv /\ [RegNext]_regVars => RegInv'
<1> SUFFICES ASSUME RegInv, [RegNext]_regVars PROVE RegInv'
  OBVIOUS
<1>1. CASE RegNext
  BY <1>1, TypeStep, ParentStep, ReachStep, PostedStep, OneShotStep, ReducedStep
     DEF RegInv
<1>2. CASE UNCHANGED regVars
  BY <1>2 DEF regVars, RegInv, RegTypeOK, Refs, ParentsAreEarlier, FacetsArePlain,
              ReachNeverGrows, Derived, ReceiversOwnTheirMailbox, LiteralOnlyToSelf,
              SpentAreRevoked, OneShotDeliversOnce,
              ReducedHoldsNoHttp, IsActive
<1> QED BY <1>1, <1>2

(***************************************************************************)
(* Theorems                                                                *)
(***************************************************************************)
\* The inductive invariant of a session's registry.
THEOREM RegistryInvariant == RegSpec => []RegInv
BY RegInitHolds, RegInvStep, PTL DEF RegSpec

\* Capabilities, messages, the bootstrap root and the flags have their types.
THEOREM RegistryTypeCorrect == RegSpec => []RegTypeOK
<1>1. RegInv => RegTypeOK
  BY DEF RegInv
<1> QED BY <1>1, RegistryInvariant, PTL

\* derive_sub, derive_readonly and the message facets never reach further than
\* the capability they are derived from.
THEOREM ReachOnlyNarrows == RegSpec => []ReachNeverGrows
<1>1. RegInv => ReachNeverGrows
  BY DEF RegInv
<1> QED BY <1>1, RegistryInvariant, PTL

\* Text supplied by a caller enters a mailbox only by the facet the mailbox was
\* made with: no derived facet has the right to receive that post asks for.
THEOREM LiteralsStayHome == RegSpec => []LiteralOnlyToSelf
<1>1. RegInv => LiteralOnlyToSelf
  BY DEF RegInv
<1> QED BY <1>1, RegistryInvariant, PTL

\* A one-shot facet delivers at most one message in the life of a session.
THEOREM OneShotsDeliverOnce == RegSpec => []OneShotDeliversOnce
<1>1. RegInv => OneShotDeliversOnce
  BY DEF RegInv
<1> QED BY <1>1, RegistryInvariant, PTL

\* set_mitigation_reduced leaves no usable HTTP capability, and none appears
\* until it is called again.
THEOREM ReducedHasNoHttp == RegSpec => []ReducedHoldsNoHttp
<1>1. RegInv => ReducedHoldsNoHttp
  BY DEF RegInv
<1> QED BY <1>1, RegistryInvariant, PTL

\* No step revives a revoked capability or one derived from it.
THEOREM RevokedStaysRevoked == RegSpec => RevocationIsFinal
<1>1. RegInv /\ [RegNext]_regVars => [\A r \in Refs : IsActive(r)' => IsActive(r)]_regVars
  BY NoRevival
<1> QED BY <1>1, RegistryInvariant, PTL DEF RegSpec, RevocationIsFinal

\* Whatever is disclosed or effected is so through a capability none of whose
\* ancestors has been revoked: is_active walks the whole lineage.
THEOREM RevocationCascades == RegSpec => UseNeedsLiveLineage
<1>1. RegInv /\ [RegNext]_regVars =>
        [did'.what # "none" => \A a \in Lineage(did'.via) : ~caps[a].revoked]_regVars
  BY UsesAreActive, ActiveLineage
<1> QED BY <1>1, RegistryInvariant, PTL DEF RegSpec, UseNeedsLiveLineage

\* Once an audit event could not be persisted the session stays broken, and
\* through it nothing more is read, listed, received, executed, requested or sent.
\* Of the uses during which it breaks, read, list and mailbox_read withhold what
\* they found; exec and http_get answer all the same.
THEOREM BrokenSessionsStop == RegSpec => FailClosed
<1>1. RegInv /\ [RegNext]_regVars =>
        [/\ broken => broken' /\ did'.what = "none"
         /\ did'.what \in Disclosures => ~broken']_regVars
  <2>1. ASSUME RegInv, RegNext
        PROVE  /\ broken => broken' /\ did'.what = "none"
               /\ did'.what \in Disclosures => ~broken'
    <3>1. SideEffects /\ broken \in BOOLEAN
      BY <2>1, StepEffects DEF RegInv, RegTypeOK
    <3>2. "none" \notin Disclosures
      BY DEF Disclosures
    <3> QED BY <3>1, <3>2 DEF SideEffects
  <2> QED BY <2>1
<1> QED BY <1>1, RegistryInvariant, PTL DEF RegSpec, FailClosed
=============================================================================
