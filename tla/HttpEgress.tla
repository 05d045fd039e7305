----------------------------- MODULE HttpEgress -----------------------------
(***************************************************************************)
(* One use of an HttpCap: http_get_i of capable-broker/src/lib.rs and the  *)
(* checks and the transfer it calls in net.rs.  The capability is granted, *)
(* the target made canonical and held against the allow list, the host     *)
(* resolved and its addresses checked, and the request made to one of      *)
(* them.  The name server may give another answer each time it is asked;   *)
(* the server may answer anything, stall, or go on for ever.               *)
(*                                                                         *)
(* A definition whose name starts with Bug_ is a defect of the definition  *)
(* that follows it; the specification never uses one.                      *)
(***************************************************************************)
EXTENDS HttpTarget

CONSTANTS
    Requests,   \* a capability's HttpSpec, the path asked for, and what the
                \* world holds: the name server's answers, where the header of
                \* the response ends and whether its status line is a number
    Labels,     \* the labels of host names; "" is the empty one
    NameLabels, \* those an RFC 1123 name may have
    Numeric,    \* those of digits only
    Octets,     \* those that are a number up to 255, without a leading zero
    Lower,      \* to_ascii_lowercase
    Buf         \* the size of fetch_get's buffer

None == [v |-> 0, a |-> <<>>]

Octet == 0 .. 255
Word  == 0 .. 65535
Address == [v : {4}, a : Octet \X Octet \X Octet \X Octet]
           \cup [v : {6}, a : Word \X Word \X Word \X Word \X Word \X Word \X Word \X Word]

ASSUME HostAssumption ==
    /\ Octets \subseteq Numeric /\ Numeric \subseteq NameLabels
    /\ NameLabels \subseteq Labels \ {""}
    /\ Lower \in [Labels -> Labels]
ASSUME RequestAssumption ==
    /\ Buf \in Nat \ {0}
    /\ \A r \in Requests :
           /\ r.host \in Seq(Labels) /\ r.answers \subseteq Seq(Address)
           /\ r.raw \in Seq(Char) /\ r.paths \subseteq Seq(Char)
           /\ r.max \in Nat /\ r.head \in Nat /\ r.status \in BOOLEAN

VARIABLES
    pc,     \* the next step of the request
    req,    \* the request
    target, \* the canonical target
    addrs,  \* the addresses that were checked
    peer,   \* the address that was connected to
    raw,    \* how many bytes are held: of the response, at the end of its body
    result  \* why the request ended

httpVars == <<pc, req, target, addrs, peer, raw, result>>

Steps == {"grant", "target", "allow", "resolve", "connect", "write", "read",
          "check", "parse", "done"}
Results == {"none", "host", "target", "method", "path", "scheme", "address",
            "io", "response", "ok"}

HttpInit ==
    /\ req \in Requests
    /\ pc = "grant" /\ result = "none"
    /\ target = <<>> /\ addrs = <<>> /\ peer = None
    /\ raw = 0

At(step)   == pc = step /\ UNCHANGED req
Goto(step) == pc' = step /\ UNCHANGED result
End(why)   == pc' = "done" /\ result' = why

(***************************************************************************)
(* valid_host, when the capability is granted                              *)
(***************************************************************************)
Bracketed == <<"[::1]">>
Ipv4Literal(host) == Len(host) = 4 /\ ToSet(host) \subseteq Octets

Bug_TrailingDot(host) ==
    \/ host = Bracketed
    \/ Ipv4Literal(host)
    \/ /\ host # <<>>
       /\ ToSet(host) \subseteq NameLabels \cup {""}
       /\ ~(ToSet(host) \subseteq Numeric)

ValidHost(host) ==
    \/ host = Bracketed
    \/ Ipv4Literal(host)
    \/ /\ host # <<>>
       /\ ToSet(host) \subseteq NameLabels
       /\ ~(ToSet(host) \subseteq Numeric)

Grant ==
    /\ At("grant")
    /\ IF ValidHost(req.host) THEN Goto("target") ELSE End("host")
    /\ UNCHANGED <<target, addrs, peer, raw>>

(***************************************************************************)
(* The target and the allow list                                           *)
(***************************************************************************)
Canonicalise ==
    /\ At("target")
    /\ LET c == Canonical(req.raw)
       IN  IF c.ok THEN Goto("allow") /\ target' = c.text
           ELSE End("target") /\ UNCHANGED target
    /\ UNCHANGED <<addrs, peer, raw>>

Allow ==
    /\ At("allow")
    /\ IF "GET" \notin req.methods THEN End("method")
       ELSE IF \A p \in req.paths : ~PathMatches(p, Before(target, "?")) THEN End("path")
       ELSE IF req.scheme # "http" THEN End("scheme")
       ELSE Goto("resolve")
    /\ UNCHANGED <<target, addrs, peer, raw>>

(***************************************************************************)
(* resolve_checked                                                         *)
(***************************************************************************)
METADATA_HOSTS ==
    {<<"metadata", "google", "internal">>, <<"metadata">>, <<"instance-data">>,
     <<"metadata", "azure", "com">>}

V4Blocked(o) ==
    \/ o[1] = 127                                            \* loopback
    \/ o[1] = 10                                             \* private
    \/ o[1] = 172 /\ o[2] \in 16 .. 31
    \/ o[1] = 192 /\ o[2] = 168
    \/ o[1] = 169 /\ o[2] = 254                              \* link-local
    \/ o[1] \in 224 .. 239                                   \* multicast
    \/ <<o[1], o[2], o[3]>> \in {<<192, 0, 2>>, <<198, 51, 100>>, <<203, 0, 113>>}
    \/ o[1] = 0
    \/ o[1] >= 240
    \/ o[1] = 100 /\ o[2] \div 64 = 1
    \/ <<o[1], o[2], o[3]>> = <<192, 88, 99>>

\* to_ipv4: the forms ::a.b.c.d and ::ffff:a.b.c.d
HasV4(s) == s[1] = 0 /\ s[2] = 0 /\ s[3] = 0 /\ s[4] = 0 /\ s[5] = 0 /\ s[6] \in {0, 65535}
V4Of(s)  == <<s[7] \div 256, s[7] % 256, s[8] \div 256, s[8] % 256>>

V6Blocked(s) ==
    \/ s \in {<<0, 0, 0, 0, 0, 0, 0, 1>>, <<0, 0, 0, 0, 0, 0, 0, 0>>}
    \/ s[1] \div 256 = 255                                   \* multicast
    \/ s[1] \div 512 = 126                                   \* is_ula
    \/ s[1] \div 64 = 1018                                   \* is_link_local_v6
    \/ HasV4(s) /\ V4Blocked(V4Of(s))

IsBlockedIp(x) == IF x.v = 4 THEN V4Blocked(x.a) ELSE V6Blocked(x.a)

LowerCase(host) == [i \in DOMAIN host |-> Lower[host[i]]]

Resolve ==
    /\ At("resolve")
    /\ \/ /\ LowerCase(req.host) \in METADATA_HOSTS
          /\ End("address") /\ UNCHANGED addrs
       \/ /\ LowerCase(req.host) \notin METADATA_HOSTS
          /\ \E answer \in req.answers \cup {<<>>} : \* <<>>: no answer, or none found
                 IF answer = <<>> \/ \E i \in DOMAIN answer : IsBlockedIp(answer[i])
                 THEN End("address") /\ UNCHANGED addrs
                 ELSE Goto("connect") /\ addrs' = answer
    /\ UNCHANGED <<target, peer, raw>>

(***************************************************************************)
(* fetch_get and parse_http_response                                       *)
(***************************************************************************)
\* connect, write_all and read return an error at the latest after their ten
\* seconds.
Fails ==
    /\ \E step \in {"connect", "write", "read"} : At(step)
    /\ End("io")
    /\ UNCHANGED <<target, addrs, peer, raw>>

Bug_ConnectByName ==
    /\ At("connect")
    /\ \E answer \in req.answers : answer # <<>> /\ peer' = answer[1]
    /\ Goto("write")
    /\ UNCHANGED <<target, addrs, raw>>

Connect ==
    /\ At("connect")
    /\ peer' = addrs[1]
    /\ Goto("write")
    /\ UNCHANGED <<target, addrs, raw>>

Write ==
    /\ At("write")
    /\ Goto("read")
    /\ UNCHANGED <<target, addrs, peer, raw>>

Read ==
    /\ At("read")
    /\ \/ \E n \in 1 .. Buf : raw' = raw + n /\ Goto("check")
       \/ raw' = raw /\ Goto("parse") \* the server has closed the connection
    /\ UNCHANGED <<target, addrs, peer>>

Bug_TruncateAndGoOn ==
    /\ At("check")
    /\ raw' = IF raw > req.max THEN req.max ELSE raw
    /\ Goto("read")
    /\ UNCHANGED <<target, addrs, peer>>

Bug_StopUntruncated ==
    /\ At("check")
    /\ Goto(IF raw > req.max THEN "parse" ELSE "read")
    /\ UNCHANGED <<target, addrs, peer, raw>>

Check ==
    /\ At("check")
    /\ IF raw > req.max THEN raw' = req.max /\ Goto("parse")
       ELSE raw' = raw /\ Goto("read")
    /\ UNCHANGED <<target, addrs, peer>>

\* The blank line ends at byte req.head of what the server sends.
Bug_HeaderAssumed == req.status

HeaderComplete == req.head <= raw /\ req.status

Parse ==
    /\ At("parse")
    /\ IF HeaderComplete THEN End("ok") /\ raw' = raw - req.head
       ELSE End("response") /\ raw' = raw
    /\ UNCHANGED <<target, addrs, peer>>

HttpNext ==
    \/ Grant \/ Canonicalise \/ Allow \/ Resolve
    \/ Connect \/ Write \/ Read \/ Check \/ Parse \/ Fails

\* The thread goes on: no call of fetch_get waits longer than its timeout, and
\* resolution returns when the system's resolver gives up.
HttpSpec == HttpInit /\ [][HttpNext]_httpVars /\ WF_httpVars(HttpNext)

(***************************************************************************)
(* Properties                                                              *)
(***************************************************************************)
\* Type invariant; in particular a body never begins behind the end of what
\* was kept of the response.
HttpTypeOK ==
    /\ pc \in Steps /\ result \in Results
    /\ addrs \in Seq(Address) /\ peer \in Address \cup {None}
    /\ raw \in Nat

\* The resource that is asked for is the one the allow list was asked about: a
\* server that undoes escapes, takes backslashes for slashes and resolves dots
\* finds the very segments that were matched, they match a pattern of the
\* capability, and no request is turned away whose path matches one.
Named(path) ==
    LET parts == Split[path]
    IN  Picked(parts, {i \in DOMAIN parts : parts[i] # <<>>})

Listed(path) == \E p \in req.paths : Agrees(SegmentsOf(p), SegmentsOf(path))

AllowListIsKept ==
    LET path == Before(target, "?")
    IN  /\ peer # None =>
               /\ Resource(target) = [ok |-> TRUE,
                                      segments |-> [i \in DOMAIN Named(path) |->
                                                        Decoded(Named(path)[i])]]
               /\ Listed(path)
        /\ result = "path" => ~Listed(path)

\* The ranges the comments of net.rs name, as ranges: 0/8, 10/8, 100.64/10,
\* 127/8, 169.254/16, 172.16/12, 192.168/16 and 224/4 with 240/4; and, by
\* their first three octets, 192.0.2/24, 192.88.99/24, 198.51.100/24 and
\* 203.0.113/24.
ReservedPair(high) ==
    \/ high \in 0 .. 255
    \/ high \in 2560 .. 2815
    \/ high \in 25664 .. 25727
    \/ high \in 32512 .. 32767
    \/ high = 43518
    \/ high \in 44048 .. 44063
    \/ high = 49320
    \/ high \in 57344 .. 65535

ReservedV4(o) ==
    \/ ReservedPair(256 * o[1] + o[2])
    \/ o[1] = 192 /\ o[2] = 0 /\ o[3] = 2
    \/ o[1] = 192 /\ o[2] = 88 /\ o[3] = 99
    \/ o[1] = 198 /\ o[2] = 51 /\ o[3] = 100
    \/ o[1] = 203 /\ o[2] = 0 /\ o[3] = 113

\* ::, ::1, fc00::/7, fe80::/10, ff00::/8, and IPv4 in either IPv6 form.
ReservedV6(s) ==
    \/ \A i \in 1 .. 7 : s[i] = 0 /\ s[8] \in {0, 1}
    \/ s[1] \in 64512 .. 65023
    \/ s[1] \in 65152 .. 65215
    \/ s[1] \in 65280 .. 65535
    \/ HasV4(s) /\ ReservedV4(V4Of(s))

Reserved(x) == IF x.v = 4 THEN ReservedV4(x.a) ELSE ReservedV6(x.a)

\* A host name as the name server understands it: without case, and without
\* the dot at its end.
DnsName(host) == LowerCase(IF Last(host) = "" THEN Front(host) ELSE host)

\* No connection to a reserved address or a metadata host, whatever the name
\* server answers and however often it changes its mind.
OnlyPublicAddresses ==
    peer # None => ~Reserved(peer) /\ DnsName(req.host) \notin METADATA_HOSTS

\* The memory a response takes is bounded while it is read, and what the
\* caller gets keeps to the capability's limit.
BodyWithinLimit ==
    /\ raw <= req.max + Buf
    /\ result = "ok" => raw <= req.max

\* A request ends, although the server may never stop sending.
FetchEnds == pc = "grant" ~> pc = "done"
=============================================================================
