-------------------------- MODULE HttpEgressProofs --------------------------
(***************************************************************************)
(* Proofs about HttpTarget and HttpEgress.  For every path that is asked   *)
(* for and every pattern of a capability: the segments path_matches is     *)
(* asked about are those a server finds behind the target, and it answers  *)
(* as the patterns are meant.  For every address a name server may answer, *)
(* every host name and every limit: a request is made only to an address   *)
(* outside the reserved ranges and what it takes stays within the limit.   *)
(*                                                                         *)
(* The sections on strings describe each function by the places it keeps:  *)
(* Picked by an ascending list of places, Split by a cut at the slashes,   *)
(* Decoded by the places it shows.  Functions that are defined by          *)
(* recursion are pinned down in three lemmas: what one step is, that there *)
(* is one, that it is what the section says.                               *)
(***************************************************************************)
EXTENDS HttpEgress, FiniteSetTheorems, WellFoundedInduction, SequenceTheorems, TLAPS

(***************************************************************************)
(* Addresses                                                               *)
(***************************************************************************)
\* What V4Blocked says of the first two octets.
PairPasses(a, b) ==
    /\ a # 0 /\ a # 10 /\ a # 127 /\ a < 224
    /\ ~(a = 100 /\ b \div 64 = 1)
    /\ ~(a = 169 /\ b = 254)
    /\ ~(a = 172 /\ b \in 16 .. 31)
    /\ ~(a = 192 /\ b = 168)

\* It keeps them out of the ranges that two octets decide.
LEMMA HighOctets ==
    ASSUME NEW a \in 0 .. 255, NEW b \in 0 .. 255, PairPasses(a, b)
    PROVE  ~ReservedPair(256 * a + b)
<1> USE DEF PairPasses
<1>1. 256 * a + b \notin 0 .. 255 /\ 256 * a + b \notin 57344 .. 65535 OBVIOUS
<1>2. 256 * a + b \notin 2560 .. 2815 /\ 256 * a + b \notin 32512 .. 32767 OBVIOUS
<1>3. 256 * a + b \notin 25664 .. 25727
  <2> SUFFICES ASSUME 256 * a + b \in 25664 .. 25727 PROVE FALSE OBVIOUS
  <2>1. a = 100 OBVIOUS
  <2>2. b \in 64 .. 127 BY <2>1
  <2>3. b \div 64 = 1 BY <2>2
  <2> QED BY <2>1, <2>3
<1>4. 256 * a + b # 43518 /\ 256 * a + b # 49320 OBVIOUS
<1>5. 256 * a + b \notin 44048 .. 44063
  <2> SUFFICES ASSUME 256 * a + b \in 44048 .. 44063 PROVE FALSE OBVIOUS
  <2>1. a = 172 OBVIOUS
  <2>2. b \in 16 .. 31 BY <2>1
  <2> QED BY <2>1, <2>2
<1> QED BY <1>1, <1>2, <1>3, <1>4, <1>5 DEF ReservedPair

\* What IsBlockedIp lets pass of IPv4 is in none of the reserved ranges.
LEMMA V4Covered ==
    ASSUME NEW o \in Octet \X Octet \X Octet \X Octet, ~V4Blocked(o)
    PROVE  ~ReservedV4(o)
<1>1. PICK a \in 0 .. 255, b \in 0 .. 255, c \in 0 .. 255 :
          o[1] = a /\ o[2] = b /\ o[3] = c
  BY DEF Octet
<1>2. /\ a # 0 /\ a # 10 /\ a # 127
      /\ ~(a = 100 /\ b \div 64 = 1) /\ ~(a = 169 /\ b = 254)
      /\ ~(a = 172 /\ b \in 16 .. 31) /\ ~(a = 192 /\ b = 168)
  BY <1>1 DEF V4Blocked
<1>3. a < 224
  <2>1. a \notin 224 .. 239 /\ ~(a >= 240) BY <1>1 DEF V4Blocked
  <2> QED BY <2>1
<1>4. /\ ~(a = 192 /\ b = 0 /\ c = 2) /\ ~(a = 192 /\ b = 88 /\ c = 99)
      /\ ~(a = 198 /\ b = 51 /\ c = 100) /\ ~(a = 203 /\ b = 0 /\ c = 113)
  BY <1>1 DEF V4Blocked
<1>5. ~ReservedPair(256 * a + b)
  <2>1. PairPasses(a, b) BY <1>2, <1>3 DEF PairPasses
  <2> QED BY <2>1, HighOctets
<1> QED BY <1>1, <1>4, <1>5 DEF ReservedV4

\* A word of an IPv6 address gives two octets.
LEMMA WordHasOctets ==
    ASSUME NEW w \in Word
    PROVE  w \div 256 \in Octet /\ w % 256 \in Octet
<1>1. w \in Int /\ 0 <= w /\ w < 65536 BY DEF Word
<1>2. w \div 256 \in Int BY <1>1
<1>3. PICK q \in Int : q = w \div 256 BY <1>2
<1>4. 256 * q <= w /\ w < 256 * q + 256 BY <1>1, <1>3
<1>5. q \in 0 .. 255 BY <1>1, <1>4
<1>6. w % 256 \in 0 .. 255 BY <1>1
<1> QED BY <1>3, <1>5, <1>6 DEF Octet

\* The IPv6 ranges that are given by the first word.
LEMMA FirstWord ==
    ASSUME NEW w \in Word
    PROVE  /\ w \in 64512 .. 65023 => w \div 512 = 126
           /\ w \in 65152 .. 65215 => w \div 64 = 1018
           /\ w \in 65280 .. 65535 => w \div 256 = 255
<1>1. w \in 64512 .. 65023 => w \div 512 = 126 OBVIOUS
<1>2. w \in 65152 .. 65215 => w \div 64 = 1018 OBVIOUS
<1>3. w \in 65280 .. 65535 => w \div 256 = 255 OBVIOUS
<1> QED BY <1>1, <1>2, <1>3

\* What IsBlockedIp lets pass of IPv6 is in none of the reserved ranges, nor is
\* the IPv4 address it may contain.
LEMMA V6Covered ==
    ASSUME NEW s \in Word \X Word \X Word \X Word \X Word \X Word \X Word \X Word,
           ~V6Blocked(s)
    PROVE  ~ReservedV6(s)
<1>1. s[1] \in Word /\ s[7] \in Word /\ s[8] \in Word OBVIOUS
<1>2. s[1] \notin 64512 .. 65023 /\ s[1] \notin 65152 .. 65215 /\ s[1] \notin 65280 .. 65535
  <2>1. s[1] \div 256 # 255 /\ s[1] \div 512 # 126 /\ s[1] \div 64 # 1018
    BY DEF V6Blocked
  <2> QED BY <1>1, <2>1, FirstWord
<1>3. ~ \A i \in 1 .. 7 : s[i] = 0 /\ s[8] \in {0, 1}
  <2> SUFFICES ASSUME \A i \in 1 .. 7 : s[i] = 0 /\ s[8] \in {0, 1} PROVE FALSE OBVIOUS
  <2>1. /\ s[1] = 0 /\ s[2] = 0 /\ s[3] = 0 /\ s[4] = 0 /\ s[5] = 0 /\ s[6] = 0 /\ s[7] = 0
        /\ s[8] \in {0, 1}
    OBVIOUS
  <2>2. s = <<s[1], s[2], s[3], s[4], s[5], s[6], s[7], s[8]>> OBVIOUS
  <2>3. s = <<0, 0, 0, 0, 0, 0, 0, 0>> \/ s = <<0, 0, 0, 0, 0, 0, 0, 1>>
    BY <2>1, <2>2, Zenon
  <2> QED BY <2>3 DEF V6Blocked
<1>4. HasV4(s) => ~ReservedV4(V4Of(s))
  <2> SUFFICES ASSUME HasV4(s) PROVE ~ReservedV4(V4Of(s)) OBVIOUS
  <2>1. ~V4Blocked(V4Of(s)) BY DEF V6Blocked
  <2>2. V4Of(s) \in Octet \X Octet \X Octet \X Octet BY <1>1, WordHasOctets DEF V4Of
  <2> QED BY <2>1, <2>2, V4Covered
<1> QED BY <1>2, <1>3, <1>4 DEF ReservedV6

\* IsBlockedIp covers every reserved address, of all 2^32 and 2^128.
THEOREM ReservedIsBlocked == \A x \in Address : ~IsBlockedIp(x) => ~Reserved(x)
<1> SUFFICES ASSUME NEW x \in Address, ~IsBlockedIp(x) PROVE ~Reserved(x) OBVIOUS
<1>1. CASE x.v = 4
  <2>1. x.a \in Octet \X Octet \X Octet \X Octet BY <1>1 DEF Address
  <2>2. ~V4Blocked(x.a) BY <1>1 DEF IsBlockedIp
  <2> QED BY <1>1, <2>1, <2>2, V4Covered DEF Reserved
<1>2. CASE x.v # 4
  <2>1. x.a \in Word \X Word \X Word \X Word \X Word \X Word \X Word \X Word
    BY <1>2 DEF Address
  <2>2. ~V6Blocked(x.a) BY <1>2 DEF IsBlockedIp
  <2> QED BY <1>2, <2>1, <2>2, V6Covered DEF Reserved
<1> QED BY <1>1, <1>2

(***************************************************************************)
(* Host names                                                              *)
(***************************************************************************)
\* A host that valid_host accepts does not end in a dot, so that the name held
\* against the metadata hosts is the one the name server is asked for.
LEMMA NoTrailingDot ==
    ASSUME NEW host \in Seq(Labels), ValidHost(host)
    PROVE  DnsName(host) = LowerCase(host)
<1>1. CASE host = Bracketed
  <2>1. Last(host) # "" BY <1>1 DEF Last, Bracketed
  <2> QED BY <2>1 DEF DnsName
<1>2. CASE host # Bracketed
  <2>1. ToSet(host) \subseteq NameLabels
    BY <1>2, HostAssumption DEF ValidHost, Ipv4Literal
  <2>2. host # <<>> BY <1>2 DEF ValidHost, Ipv4Literal
  <2>3. Last(host) \in ToSet(host)
    <3>1. Len(host) \in DOMAIN host BY <2>2
    <3> QED BY <3>1 DEF Last, ToSet
  <2>4. Last(host) # "" BY <2>1, <2>3, HostAssumption
  <2> QED BY <2>4 DEF DnsName
<1> QED BY <1>1, <1>2

(***************************************************************************)
(* Numbers and sequences                                                   *)
(***************************************************************************)
\* A set of numbers that is not empty has a least one.
LEMMA LeastNat ==
    ASSUME NEW T \in SUBSET Nat, T # {}
    PROVE  \E x \in T : \A y \in T : x <= y
<1> DEFINE I(x) == 1 .. x
           W    == {I(x) : x \in T}
<1>1. \A x \in T : I(x) \in FiniteSubsetsOf(Nat)
  <2> TAKE x \in T
  <2>1. IsFiniteSet(1 .. x)
    BY FS_Interval
  <2> QED BY <2>1 DEF FiniteSubsetsOf
<1>2. W \subseteq FiniteSubsetsOf(Nat) /\ W # {}
  BY <1>1
<1>3. IsWellFoundedOn(StrictSubsetOrdering(Nat), FiniteSubsetsOf(Nat))
  BY FS_StrictSubsetOrderingWellFounded
<1>4. PICK A \in W : \A B \in W : ~(<<B, A>> \in StrictSubsetOrdering(Nat))
  <2> HIDE DEF W
  <2> QED BY <1>2, <1>3, WFMin
<1>5. PICK x \in T : A = I(x)
  BY <1>4
<1>6. ASSUME NEW y \in T, y < x PROVE FALSE
  <2>1. I(y) \subseteq I(x) /\ x \in I(x) /\ x \notin I(y)
    BY <1>6
  <2>2. I(y) \in SUBSET Nat /\ I(x) \in SUBSET Nat /\ I(y) # I(x)
    BY <2>1
  <2>3. <<I(y), I(x)>> \in StrictSubsetOrdering(Nat)
    BY <2>1, <2>2 DEF StrictSubsetOrdering
  <2> QED BY <1>4, <1>5, <2>3
<1>7. \A y \in T : x <= y
  BY <1>6
<1> QED BY <1>7

\* Induction, over a set instead of a predicate.
LEMMA Induction ==
    ASSUME NEW T, 0 \in T, \A n \in Nat : n \in T => n + 1 \in T
    PROVE  \A n \in Nat : n \in T
<1> SUFFICES ASSUME NEW n \in Nat, n \notin T PROVE FALSE OBVIOUS
<1> DEFINE missing == {k \in Nat : k \notin T}
<1>1. missing \in SUBSET Nat /\ missing # {} OBVIOUS
<1>2. PICK k \in missing : \A l \in missing : k <= l
  <2> HIDE DEF missing
  <2> QED BY <1>1, LeastNat
<1>3. k \in Nat /\ k \notin T /\ k # 0 BY <1>2
<1>4. k - 1 \in Nat /\ k - 1 \notin missing BY <1>2, <1>3
<1>5. k - 1 \in T BY <1>4
<1>6. (k - 1) + 1 \in T BY <1>4, <1>5
<1> QED BY <1>3, <1>6

(***************************************************************************)
(* Picked: the elements at chosen places                                   *)
(***************************************************************************)
\* e names the members of S from the least to the greatest.
Ascends(e, S) ==
    /\ e \in Seq(Nat)
    /\ \A k \in 1 .. Len(e) : e[k] \in S
    /\ \A k, l \in 1 .. Len(e) : k < l => e[k] < e[l]
    /\ \A x \in S : \E k \in 1 .. Len(e) : e[k] = x

\* One of two enumerations of a set never falls behind the other.
LEMMA AscendsAlike ==
    ASSUME NEW S, NEW e, NEW f, Ascends(e, S), Ascends(f, S)
    PROVE  \A k \in 1 .. Len(e) : k <= Len(f) => e[k] = f[k]
<1>1. Len(e) \in Nat /\ Len(f) \in Nat BY DEF Ascends
<1>2. /\ \A k \in 1 .. Len(e) : e[k] \in S /\ e[k] \in Nat
      /\ \A k \in 1 .. Len(f) : f[k] \in S /\ f[k] \in Nat
  BY DEF Ascends
<1> SUFFICES ASSUME NEW k0 \in 1 .. Len(e), k0 <= Len(f), e[k0] # f[k0] PROVE FALSE OBVIOUS
<1> DEFINE differ == {k \in Nat : k \in 1 .. Len(e) /\ k <= Len(f) /\ e[k] # f[k]}
<1>3. differ \in SUBSET Nat /\ k0 \in differ BY <1>1
<1>4. PICK k \in differ : \A l \in differ : k <= l
  <2> HIDE DEF differ
  <2> QED BY <1>3, LeastNat
<1>5. k \in 1 .. Len(e) /\ k \in 1 .. Len(f) /\ e[k] # f[k] BY <1>1, <1>4
<1>6. \A l \in 1 .. k - 1 : e[l] = f[l] BY <1>1, <1>4, <1>5
<1>7. PICK a \in 1 .. Len(f) : f[a] = e[k] BY <1>2, <1>5 DEF Ascends
<1>8. PICK b \in 1 .. Len(e) : e[b] = f[k] BY <1>2, <1>5 DEF Ascends
<1>9. e[k] \in Nat /\ f[k] \in Nat BY <1>2, <1>5
<1>10. CASE e[k] < f[k]
  <2>1. ~(k < a)
    <3>1. k < a => f[k] < f[a] BY <1>5, <1>7 DEF Ascends
    <3> QED BY <1>7, <1>9, <1>10, <3>1
  <2>2. a # k BY <1>5, <1>7
  <2>3. a \in 1 .. k - 1 BY <1>1, <1>5, <1>7, <2>1, <2>2
  <2>4. e[a] = e[k] BY <1>6, <1>7, <2>3
  <2>5. a \in 1 .. Len(e) /\ a < k BY <1>1, <1>5, <2>3
  <2>6. e[a] < e[k] BY <1>5, <2>5 DEF Ascends
  <2> QED BY <1>9, <2>4, <2>6
<1>11. CASE f[k] < e[k]
  <2>1. ~(k < b)
    <3>1. k < b => e[k] < e[b] BY <1>5, <1>8 DEF Ascends
    <3> QED BY <1>8, <1>9, <1>11, <3>1
  <2>2. b # k BY <1>5, <1>8
  <2>3. b \in 1 .. k - 1 BY <1>1, <1>5, <1>8, <2>1, <2>2
  <2>4. f[b] = f[k] BY <1>6, <1>8, <2>3
  <2>5. b \in 1 .. Len(f) /\ b < k BY <1>1, <1>5, <2>3
  <2>6. f[b] < f[k] BY <1>5, <2>5 DEF Ascends
  <2> QED BY <1>9, <2>4, <2>6
<1> QED BY <1>5, <1>9, <1>10, <1>11

\* Nor is it shorter.
LEMMA AscendsNoShorter ==
    ASSUME NEW S, NEW e, NEW f, Ascends(e, S), Ascends(f, S)
    PROVE  Len(f) <= Len(e)
<1>1. Len(e) \in Nat /\ Len(f) \in Nat BY DEF Ascends
<1> SUFFICES ASSUME Len(e) < Len(f) PROVE FALSE BY <1>1
<1>2. PICK n \in Nat : n = Len(e) BY <1>1
<1>3. n + 1 \in 1 .. Len(f) BY <1>1, <1>2
<1>4. f[n + 1] \in S /\ f[n + 1] \in Nat BY <1>3 DEF Ascends
<1>5. PICK k \in 1 .. Len(e) : e[k] = f[n + 1] BY <1>4 DEF Ascends
<1>6. k \in 1 .. Len(f) /\ k < n + 1 /\ k <= Len(f) BY <1>1, <1>2, <1>3, <1>5
<1>7. e[k] = f[k] BY <1>5, <1>6, AscendsAlike
<1>8. f[k] < f[n + 1] BY <1>3, <1>6 DEF Ascends
<1> QED BY <1>4, <1>5, <1>7, <1>8

\* A set of numbers is enumerated in one way.
LEMMA AscendsOnce ==
    ASSUME NEW S, NEW e, NEW f, Ascends(e, S), Ascends(f, S)
    PROVE  e = f
<1>1. e \in Seq(Nat) /\ f \in Seq(Nat) BY DEF Ascends
<1>2. Len(f) <= Len(e) BY AscendsNoShorter
<1>3. Len(e) <= Len(f) BY AscendsNoShorter
<1>4. Len(e) = Len(f) BY <1>1, <1>2, <1>3
<1>5. \A k \in 1 .. Len(e) : e[k] = f[k] BY <1>1, <1>4, AscendsAlike
<1> QED BY <1>1, <1>4, <1>5, SeqEqual

\* The members of S up to n.
UpTo(S, n) == {i \in 1 .. n : i \in S}

\* One more place: the enumeration grows if the place is chosen.
LEMMA AscendsNext ==
    ASSUME NEW S, NEW n \in Nat, NEW e, Ascends(e, UpTo(S, n))
    PROVE  IF n + 1 \in S THEN Ascends(Append(e, n + 1), UpTo(S, n + 1))
                          ELSE Ascends(e, UpTo(S, n + 1))
<1>1. e \in Seq(Nat) /\ Len(e) \in Nat BY DEF Ascends
<1>2. CASE n + 1 \notin S
  <2>1. UpTo(S, n + 1) = UpTo(S, n) BY <1>2 DEF UpTo
  <2> QED BY <1>2, <2>1
<1>3. CASE n + 1 \in S
  <2>1. UpTo(S, n + 1) = UpTo(S, n) \cup {n + 1} BY <1>3 DEF UpTo
  <2>2. PICK g : g = Append(e, n + 1) OBVIOUS
  <2>3. /\ g \in Seq(Nat) /\ Len(g) = Len(e) + 1
        /\ \A k \in 1 .. Len(e) : g[k] = e[k]
        /\ g[Len(e) + 1] = n + 1
    BY <1>1, <2>2, AppendProperties
  <2>4. \A k \in 1 .. Len(e) : e[k] \in Nat /\ e[k] < n + 1 BY <1>1 DEF UpTo, Ascends
  <2>5. ASSUME NEW k \in 1 .. Len(g) PROVE g[k] \in UpTo(S, n + 1)
    <3>1. CASE k = Len(e) + 1 BY <2>1, <2>3, <3>1
    <3>2. CASE k # Len(e) + 1
      <4>1. k \in 1 .. Len(e) BY <1>1, <2>3, <3>2
      <4> QED BY <2>1, <2>3, <4>1 DEF Ascends
    <3> QED BY <3>1, <3>2
  <2>6. ASSUME NEW k \in 1 .. Len(g), NEW l \in 1 .. Len(g), k < l PROVE g[k] < g[l]
    <3>1. k \in 1 .. Len(e) /\ g[k] = e[k] BY <1>1, <2>3, <2>6
    <3>2. CASE l = Len(e) + 1 BY <2>3, <2>4, <3>1, <3>2
    <3>3. CASE l # Len(e) + 1
      <4>1. l \in 1 .. Len(e) BY <1>1, <2>3, <3>3
      <4> QED BY <2>3, <2>6, <3>1, <4>1 DEF Ascends
    <3> QED BY <3>2, <3>3
  <2>7. ASSUME NEW x \in UpTo(S, n + 1) PROVE \E k \in 1 .. Len(g) : g[k] = x
    <3>1. CASE x = n + 1
      <4>1. Len(e) + 1 \in 1 .. Len(g) BY <1>1, <2>3
      <4> QED BY <2>3, <3>1, <4>1
    <3>2. CASE x # n + 1
      <4>1. x \in UpTo(S, n) BY <2>1, <3>2
      <4>2. PICK k \in 1 .. Len(e) : e[k] = x BY <4>1 DEF Ascends
      <4>3. k \in 1 .. Len(g) BY <1>1, <2>3, <4>2
      <4> QED BY <2>3, <4>2, <4>3
    <3> QED BY <3>1, <3>2
  <2>8. Ascends(g, UpTo(S, n + 1)) BY <2>3, <2>6, <2>7, <2>5 DEF Ascends
  <2> QED BY <1>3, <2>2, <2>8
<1> QED BY <1>2, <1>3

\* Every set of places can be enumerated up to any place.
LEMMA AscendsExists ==
    ASSUME NEW S
    PROVE  \A n \in Nat : \E e : Ascends(e, UpTo(S, n))
<1> DEFINE T == {n \in Nat : \E e : Ascends(e, UpTo(S, n))}
<1>1. 0 \in T
  <2>1. UpTo(S, 0) = {} BY DEF UpTo
  <2>2. Ascends(<<>>, UpTo(S, 0)) BY <2>1 DEF Ascends
  <2> QED BY <2>2
<1>2. ASSUME NEW n \in Nat, n \in T PROVE n + 1 \in T
  <2>1. PICK e : Ascends(e, UpTo(S, n)) BY <1>2
  <2>2. \E f : Ascends(f, UpTo(S, n + 1)) BY <2>1, AscendsNext
  <2> QED BY <2>2
<1>3. \A n \in Nat : n \in T
  <2> HIDE DEF T
  <2> QED BY <1>1, <1>2, Induction
<1> QED BY <1>3

Enumeration(S, n) == CHOOSE e : Ascends(e, UpTo(S, n))

\* The members of S up to n, enumerated.
LEMMA EnumerationAscends ==
    ASSUME NEW S, NEW n \in Nat
    PROVE  Ascends(Enumeration(S, n), UpTo(S, n))
  BY AscendsExists DEF Enumeration

\* The elements of s at the places that e names.
Image(s, e) == [k \in 1 .. Len(e) |-> s[e[k]]]

Inside(s, e) == \A k \in 1 .. Len(e) : e[k] \in 1 .. Len(s)

\* A function on 1 .. n is a sequence of length n.
LEMMA FunctionIsSeq ==
    ASSUME NEW X, NEW n \in Nat, NEW m \in [1 .. n -> X]
    PROVE  m \in Seq(X) /\ Len(m) = n
<1>1. m \in Seq(X) BY SeqDef
<1>2. Len(m) \in Nat /\ DOMAIN m = 1 .. Len(m) BY <1>1, LenProperties
<1>3. 1 .. Len(m) = 1 .. n BY <1>2
<1>4. PICK l \in Nat : l = Len(m) BY <1>2
<1>5. \A i \in Nat : i \in 1 .. l <=> i \in 1 .. n BY <1>3, <1>4
<1>6. l = n
  <2>1. l \in 1 .. l => l <= n BY <1>5
  <2>2. n \in 1 .. n => n <= l BY <1>5
  <2> QED BY <2>1, <2>2
<1> QED BY <1>1, <1>4, <1>6

\* One more place, one more element.
LEMMA ImageGrows ==
    ASSUME NEW X, NEW s \in Seq(X), NEW e \in Seq(Nat), Inside(s, e), NEW x \in 1 .. Len(s)
    PROVE  Image(s, e) \in Seq(X) /\ Image(s, Append(e, x)) = Append(Image(s, e), s[x])
<1>1. Len(e) \in Nat /\ Len(s) \in Nat /\ s[x] \in X OBVIOUS
<1>2. \A k \in 1 .. Len(e) : s[e[k]] \in X BY <1>1 DEF Inside
<1>3. PICK m : m = Image(s, e) OBVIOUS
<1>4. m \in Seq(X) /\ Len(m) = Len(e) /\ \A k \in 1 .. Len(e) : m[k] = s[e[k]]
  <2>1. m = [k \in 1 .. Len(e) |-> s[e[k]]] BY <1>3 DEF Image
  <2>2. m \in [1 .. Len(e) -> X] BY <1>2, <2>1
  <2>3. m \in Seq(X) /\ Len(m) = Len(e) BY <1>1, <2>2, FunctionIsSeq
  <2> QED BY <2>1, <2>3
<1>5. PICK g : g = Append(e, x) OBVIOUS
<1>6. /\ g \in Seq(Nat) /\ Len(g) = Len(e) + 1
      /\ \A k \in 1 .. Len(e) : g[k] = e[k]
      /\ g[Len(e) + 1] = x
  <2>1. x \in Nat BY <1>1
  <2> QED BY <1>5, <2>1, AppendProperties
<1>7. PICK h : h = Append(m, s[x]) OBVIOUS
<1>8. /\ h \in Seq(X) /\ Len(h) = Len(m) + 1
      /\ \A k \in 1 .. Len(m) : h[k] = m[k]
      /\ h[Len(m) + 1] = s[x]
  BY <1>1, <1>4, <1>7, AppendProperties
<1>9. PICK w : w = Image(s, g) OBVIOUS
<1>10. w = [k \in 1 .. Len(e) + 1 |-> s[g[k]]] BY <1>6, <1>9 DEF Image
<1>11. h = [k \in 1 .. Len(e) + 1 |-> h[k]] BY <1>4, <1>8
<1>12. ASSUME NEW k \in 1 .. Len(e) + 1 PROVE s[g[k]] = h[k]
  <2>1. CASE k = Len(e) + 1 BY <1>4, <1>6, <1>8, <2>1
  <2>2. CASE k # Len(e) + 1
    <3>1. k \in 1 .. Len(e) BY <1>1, <2>2
    <3> QED BY <1>4, <1>6, <1>8, <3>1
  <2> QED BY <2>1, <2>2
<1>13. w = h BY <1>10, <1>11, <1>12
<1> QED BY <1>3, <1>4, <1>5, <1>7, <1>9, <1>13

\* The function that Picked defines.
IsPick(f, s, S) ==
    f = [i \in Nat |-> IF i = 0 THEN <<>>
                       ELSE IF i \in S THEN Append(f[i - 1], s[i]) ELSE f[i - 1]]

PickAt(f, s, S, i) ==
    f[i] = IF i = 0 THEN <<>> ELSE IF i \in S THEN Append(f[i - 1], s[i]) ELSE f[i - 1]

\* One step of that function.
LEMMA PickUnfolds ==
    ASSUME NEW f, NEW s, NEW S, IsPick(f, s, S), NEW i \in Nat
    PROVE  PickAt(f, s, S, i)
<1> DEFINE h == [j \in Nat |-> IF j = 0 THEN <<>>
                               ELSE IF j \in S THEN Append(f[j - 1], s[j]) ELSE f[j - 1]]
<1>1. f = h BY DEF IsPick
<1>2. h[i] = IF i = 0 THEN <<>> ELSE IF i \in S THEN Append(f[i - 1], s[i]) ELSE f[i - 1]
  OBVIOUS
<1> HIDE DEF h
<1>3. f[i] = h[i] BY <1>1
<1> QED BY <1>2, <1>3 DEF PickAt

Chosen(s, S) == \A i \in S : i \in 1 .. Len(s)

\* The enumerations up to each place give such a function.
LEMMA ImageUnfolds ==
    ASSUME NEW X, NEW s \in Seq(X), NEW S, Chosen(s, S), NEW i \in Nat
    PROVE  Image(s, Enumeration(S, i)) =
               IF i = 0 THEN <<>>
               ELSE IF i \in S THEN Append(Image(s, Enumeration(S, i - 1)), s[i])
               ELSE Image(s, Enumeration(S, i - 1))
<1>1. PICK e : e = Enumeration(S, i) OBVIOUS
<1>2. Ascends(e, UpTo(S, i)) BY <1>1, EnumerationAscends
<1>3. CASE i = 0
  <2>1. Len(e) = 0
    <3>1. UpTo(S, i) = {} BY <1>3 DEF UpTo
    <3>2. Len(e) \in Nat /\ \A k \in 1 .. Len(e) : FALSE BY <1>2, <3>1 DEF Ascends
    <3>3. Len(e) # 0 => 1 \in 1 .. Len(e) BY <3>2
    <3> QED BY <3>2, <3>3
  <2>2. Image(s, e) = <<>> BY <2>1 DEF Image
  <2> QED BY <1>1, <1>3, <2>2
<1>4. CASE i # 0
  <2>1. PICK n \in Nat : n = i - 1 /\ i = n + 1 BY <1>4
  <2>2. PICK d : d = Enumeration(S, n) OBVIOUS
  <2>3. Ascends(d, UpTo(S, n)) BY <2>2, EnumerationAscends
  <2>4. CASE i \notin S
    <3>1. Ascends(d, UpTo(S, n + 1)) BY <2>1, <2>3, <2>4, AscendsNext
    <3>2. d = e BY <1>2, <2>1, <3>1, AscendsOnce
    <3> QED BY <1>1, <1>4, <2>1, <2>2, <2>4, <3>2
  <2>5. CASE i \in S
    <3>1. Ascends(Append(d, n + 1), UpTo(S, n + 1)) BY <2>1, <2>3, <2>5, AscendsNext
    <3>2. e = Append(d, i)
      <4>1. PICK g : g = Append(d, n + 1) OBVIOUS
      <4> QED BY <1>2, <2>1, <3>1, <4>1, AscendsOnce
    <3>3. d \in Seq(Nat) /\ Inside(s, d) BY <2>3 DEF Ascends, UpTo, Chosen, Inside
    <3>4. i \in 1 .. Len(s) BY <2>5 DEF Chosen
    <3>5. Image(s, Append(d, i)) = Append(Image(s, d), s[i]) BY <3>3, <3>4, ImageGrows
    <3> QED BY <1>1, <1>4, <2>1, <2>2, <2>5, <3>2, <3>5
  <2> QED BY <2>4, <2>5
<1> QED BY <1>3, <1>4

\* So there is one.
LEMMA PickExists ==
    ASSUME NEW X, NEW s \in Seq(X), NEW S, Chosen(s, S)
    PROVE  \E f : IsPick(f, s, S)
<1> DEFINE W == [i \in Nat |-> Image(s, Enumeration(S, i))]
           V == [i \in Nat |-> IF i = 0 THEN <<>>
                               ELSE IF i \in S THEN Append(W[i - 1], s[i]) ELSE W[i - 1]]
<1>1. ASSUME NEW i \in Nat PROVE W[i] = V[i]
  <2>1. i # 0 => i - 1 \in Nat OBVIOUS
  <2>2. i # 0 => W[i - 1] = Image(s, Enumeration(S, i - 1)) BY <2>1
  <2>3. W[i] = Image(s, Enumeration(S, i)) OBVIOUS
  <2>4. V[i] = IF i = 0 THEN <<>> ELSE IF i \in S THEN Append(W[i - 1], s[i]) ELSE W[i - 1]
    OBVIOUS
  <2> HIDE DEF W, V
  <2> QED BY <2>2, <2>3, <2>4, ImageUnfolds
<1>2. W = V
  <2>1. W = [i \in Nat |-> W[i]] /\ V = [i \in Nat |-> V[i]] OBVIOUS
  <2> HIDE DEF W, V
  <2> QED BY <1>1, <2>1
<1>3. IsPick(W, s, S)
  <2> HIDE DEF W
  <2> QED BY <1>2 DEF IsPick
<1> QED BY <1>3

\* And only one.
LEMMA PickIsImage ==
    ASSUME NEW X, NEW s \in Seq(X), NEW S, Chosen(s, S), NEW f, IsPick(f, s, S)
    PROVE  \A n \in Nat : f[n] = Image(s, Enumeration(S, n))
<1> DEFINE T == {n \in Nat : f[n] = Image(s, Enumeration(S, n))}
<1>1. 0 \in T
  <2>1. f[0] = <<>> BY PickUnfolds DEF PickAt
  <2>2. Image(s, Enumeration(S, 0)) = <<>> BY ImageUnfolds
  <2> QED BY <2>1, <2>2
<1>2. ASSUME NEW n \in Nat, n \in T PROVE n + 1 \in T
  <2>1. f[n] = Image(s, Enumeration(S, n)) BY <1>2
  <2>2. n + 1 \in Nat /\ n + 1 # 0 /\ (n + 1) - 1 = n OBVIOUS
  <2>3. PICK m \in Nat : m = n + 1 /\ m # 0 /\ m - 1 = n BY <2>2
  <2>4. f[m] = IF m \in S THEN Append(f[n], s[m]) ELSE f[n]
    BY <2>3, PickUnfolds DEF PickAt
  <2>5. Image(s, Enumeration(S, m)) =
            IF m \in S THEN Append(Image(s, Enumeration(S, n)), s[m])
            ELSE Image(s, Enumeration(S, n))
    <3>1. Image(s, Enumeration(S, m)) =
              IF m = 0 THEN <<>>
              ELSE IF m \in S THEN Append(Image(s, Enumeration(S, m - 1)), s[m])
              ELSE Image(s, Enumeration(S, m - 1))
      BY ImageUnfolds
    <3> QED BY <2>3, <3>1
  <2>6. f[m] = Image(s, Enumeration(S, m)) BY <2>1, <2>4, <2>5
  <2> QED BY <2>3, <2>6
<1>3. \A n \in Nat : n \in T
  <2> HIDE DEF T
  <2> QED BY <1>1, <1>2, Induction
<1> QED BY <1>3

\* Picked takes the elements at the places of S as S is enumerated.
LEMMA PickedBy ==
    ASSUME NEW X, NEW s \in Seq(X), NEW S, Chosen(s, S), NEW e, Ascends(e, S)
    PROVE  Picked(s, S) = Image(s, e)
<1> DEFINE f == CHOOSE f : IsPick(f, s, S)
<1>1. IsPick(f, s, S) BY PickExists
<1>2. Picked(s, S) = f[Len(s)] BY DEF Picked, IsPick
<1> HIDE DEF f
<1>3. Len(s) \in Nat OBVIOUS
<1>4. f[Len(s)] = Image(s, Enumeration(S, Len(s))) BY <1>1, <1>3, PickIsImage
<1>5. UpTo(S, Len(s)) = S BY DEF UpTo, Chosen
<1>6. Ascends(Enumeration(S, Len(s)), S) BY <1>3, <1>5, EnumerationAscends
<1>7. PICK g : g = Enumeration(S, Len(s)) OBVIOUS
<1>8. g = e BY <1>6, <1>7, AscendsOnce
<1> QED BY <1>2, <1>4, <1>7, <1>8

\* There is such an enumeration.
LEMMA PlacesAscend ==
    ASSUME NEW X, NEW s \in Seq(X), NEW S, Chosen(s, S)
    PROVE  \E e : Ascends(e, S)
<1>1. UpTo(S, Len(s)) = S BY DEF UpTo, Chosen
<1>2. Len(s) \in Nat OBVIOUS
<1> QED BY <1>1, <1>2, AscendsExists

(***************************************************************************)
(* Before and Split                                                        *)
(***************************************************************************)
\* t is what s holds between the places x and y.
Between(t, s, x, y) == Len(t) = (y - x) - 1 /\ \A i \in 1 .. Len(t) : t[i] = s[x + i]

\* A part of a sequence, by its places.
LEMMA SubSeqBetween ==
    ASSUME NEW X, NEW s \in Seq(X), NEW x \in Nat, NEW y \in Nat, x < y, y <= Len(s) + 1
    PROVE  /\ SubSeq(s, x + 1, y - 1) \in Seq(X)
           /\ Between(SubSeq(s, x + 1, y - 1), s, x, y)
<1>1. PICK m \in Int, n \in Int : m = x + 1 /\ n = y - 1 OBVIOUS
<1>2. Len(s) \in Nat OBVIOUS
<1>3. \A i \in m .. n : s[i] \in X
  <2> TAKE i \in m .. n
  <2>1. i \in 1 .. Len(s) BY <1>1, <1>2
  <2> QED BY <2>1
<1>4. PICK t : t = SubSeq(s, m, n) OBVIOUS
<1>5. /\ t \in Seq(X) /\ Len(t) = IF m <= n THEN n - m + 1 ELSE 0
      /\ \A i \in 1 .. n - m + 1 : t[i] = s[m + i - 1]
  BY <1>3, <1>4, SubSeqProperties
<1>6. Len(t) = (y - x) - 1 BY <1>1, <1>5
<1>7. ASSUME NEW i \in 1 .. Len(t) PROVE t[i] = s[x + i]
  <2>1. i \in 1 .. n - m + 1 /\ m + i - 1 = x + i BY <1>1, <1>6
  <2> QED BY <1>5, <2>1
<1> QED BY <1>1, <1>4, <1>5, <1>6, <1>7 DEF Between

\* The places determine it.
LEMMA BetweenIsSubSeq ==
    ASSUME NEW X, NEW s \in Seq(X), NEW x \in Nat, NEW y \in Nat, x < y, y <= Len(s) + 1,
           NEW t \in Seq(X), Between(t, s, x, y)
    PROVE  t = SubSeq(s, x + 1, y - 1)
<1>1. PICK u : u = SubSeq(s, x + 1, y - 1) OBVIOUS
<1>2. u \in Seq(X) /\ Between(u, s, x, y) BY <1>1, SubSeqBetween
<1>3. Len(u) = Len(t) /\ \A i \in 1 .. Len(u) : u[i] = t[i] BY <1>2 DEF Between
<1>4. u = t BY <1>2, <1>3, SeqEqual
<1> QED BY <1>1, <1>4

\* The first c of s, if there is one, stands behind the place n.
FirstAt(s, c, n) ==
    /\ n \in 0 .. Len(s)
    /\ n = Len(s) \/ s[n + 1] = c
    /\ \A i \in 1 .. n : s[i] # c

\* There is such a place.
LEMMA FirstExists == ASSUME NEW X, NEW s \in Seq(X), NEW c PROVE \E n : FirstAt(s, c, n)
<1>1. Len(s) \in Nat OBVIOUS
<1> DEFINE T == {n \in 0 .. Len(s) : n = Len(s) \/ s[n + 1] = c}
<1>2. T \in SUBSET Nat /\ T # {}
  <2>1. Len(s) \in T BY <1>1
  <2> QED BY <1>1, <2>1
<1>3. PICK n \in T : \A l \in T : n <= l
  <2> HIDE DEF T
  <2> QED BY <1>2, LeastNat
<1>4. n \in 0 .. Len(s) /\ (n = Len(s) \/ s[n + 1] = c) BY <1>3
<1>5. ASSUME NEW i \in 1 .. n, s[i] = c PROVE FALSE
  <2>1. PICK l \in Nat : l = i - 1 /\ l + 1 = i BY <1>1, <1>4
  <2>2. l \in 0 .. Len(s) /\ l < n BY <1>1, <1>4, <2>1
  <2>3. l \in T BY <1>5, <2>1, <2>2
  <2> QED BY <1>3, <1>4, <2>2, <2>3
<1> QED BY <1>4, <1>5 DEF FirstAt

\* And Before stops there.
LEMMA BeforeIs ==
    ASSUME NEW X, NEW s \in Seq(X), NEW c, NEW n, FirstAt(s, c, n)
    PROVE  Before(s, c) = SubSeq(s, 1, n)
<1>1. Len(s) \in Nat OBVIOUS
<1>2. ASSUME NEW l, FirstAt(s, c, l) PROVE l = n
  <2>1. l \in Nat /\ n \in Nat BY <1>1, <1>2 DEF FirstAt
  <2>2. ~(l < n)
    <3>1. l < n => l + 1 \in 1 .. n /\ l # Len(s) BY <1>1, <2>1 DEF FirstAt
    <3> QED BY <1>2, <3>1 DEF FirstAt
  <2>3. ~(n < l)
    <3>1. n < l => n + 1 \in 1 .. l /\ n # Len(s) BY <1>1, <1>2, <2>1 DEF FirstAt
    <3> QED BY <1>2, <3>1 DEF FirstAt
  <2> QED BY <2>1, <2>2, <2>3
<1> DEFINE m == CHOOSE m \in 0 .. Len(s) :
                    (m = Len(s) \/ s[m + 1] = c) /\ \A i \in 1 .. m : s[i] # c
<1>3. FirstAt(s, c, m)
  <2>1. \E l \in 0 .. Len(s) : (l = Len(s) \/ s[l + 1] = c) /\ \A i \in 1 .. l : s[i] # c
    BY DEF FirstAt
  <2>2. m \in 0 .. Len(s) /\ (m = Len(s) \/ s[m + 1] = c) /\ \A i \in 1 .. m : s[i] # c
    BY <2>1
  <2> HIDE DEF m
  <2> QED BY <2>2 DEF FirstAt
<1>4. Before(s, c) = SubSeq(s, 1, m) BY DEF Before
<1> HIDE DEF m
<1> QED BY <1>2, <1>3, <1>4

\* The places that e names, between 0 and the place behind the last one.
Fenced(e, n, f) ==
    /\ f \in [0 .. Len(e) + 1 -> Nat]
    /\ f[0] = 0 /\ f[Len(e) + 1] = n + 1
    /\ \A k \in 1 .. Len(e) : f[k] = e[k]
    /\ \A k, l \in 0 .. Len(e) + 1 : k < l => f[k] < f[l]

\* The places of a set can be fenced in.
LEMMA FencedExists ==
    ASSUME NEW n \in Nat, NEW S, \A i \in S : i \in 1 .. n, NEW e, Ascends(e, S)
    PROVE  \E f : Fenced(e, n, f)
<1>1. PICK m \in Nat : m = Len(e) BY DEF Ascends
<1>2. \A k \in 1 .. m : e[k] \in Nat /\ e[k] \in 1 .. n BY <1>1 DEF Ascends
<1>3. PICK f : f = [k \in 0 .. m + 1 |-> IF k = 0 THEN 0
                                          ELSE IF k = m + 1 THEN n + 1 ELSE e[k]]
  OBVIOUS
<1>4. f[0] = 0 /\ f[m + 1] = n + 1 /\ \A k \in 1 .. m : f[k] = e[k] BY <1>1, <1>3
<1>5. f \in [0 .. m + 1 -> Nat]
  <2>1. \A k \in 0 .. m + 1 : k = 0 \/ k = m + 1 \/ k \in 1 .. m BY <1>1
  <2>2. \A k \in 0 .. m + 1 : f[k] \in Nat BY <1>2, <1>4, <2>1
  <2> QED BY <1>3, <2>2
<1>6. ASSUME NEW k \in 0 .. m + 1, NEW l \in 0 .. m + 1, k < l PROVE f[k] < f[l]
  <2>1. CASE k = 0
    <3>1. l = m + 1 \/ l \in 1 .. m BY <1>1, <1>6
    <3> QED BY <1>2, <1>4, <2>1, <3>1
  <2>2. CASE k # 0
    <3>1. k \in 1 .. m BY <1>1, <1>6, <2>2
    <3>2. CASE l = m + 1 BY <1>2, <1>4, <3>1, <3>2
    <3>3. CASE l # m + 1
      <4>1. l \in 1 .. m BY <1>1, <1>6, <3>3
      <4>2. e[k] < e[l] BY <1>1, <1>6, <3>1, <4>1 DEF Ascends
      <4> QED BY <1>4, <3>1, <4>1, <4>2
    <3> QED BY <3>2, <3>3
  <2> QED BY <2>1, <2>2
<1>7. Fenced(e, n, f) BY <1>1, <1>4, <1>5, <1>6 DEF Fenced
<1> QED BY <1>7

\* a names the slashes of s: the places 1 .. m of a, between the two ends.
IsCut(s, m, a) ==
    /\ m \in Nat /\ a \in [0 .. m + 1 -> Nat]
    /\ a[0] = 0 /\ a[m + 1] = Len(s) + 1
    /\ \A k, l \in 0 .. m + 1 : k < l => a[k] < a[l]
    /\ \A k \in 1 .. m : a[k] \in 1 .. Len(s) /\ s[a[k]] = "/"
    /\ \A i \in 1 .. Len(s) : s[i] = "/" => \E k \in 1 .. m : a[k] = i

\* Every string can be cut at its slashes.
LEMMA CutExists == ASSUME NEW X, NEW s \in Seq(X) PROVE \E m, a : IsCut(s, m, a)
<1>1. Len(s) \in Nat OBVIOUS
<1>2. PICK S : S = {i \in 1 .. Len(s) : s[i] = "/"} OBVIOUS
<1>3. Chosen(s, S) BY <1>2 DEF Chosen
<1>4. PICK e : Ascends(e, S) BY <1>3, PlacesAscend
<1>5. PICK m \in Nat : m = Len(e) BY <1>4 DEF Ascends
<1>6. PICK n \in Nat : n = Len(s) /\ \A i \in S : i \in 1 .. n BY <1>1, <1>2
<1>7. PICK a : Fenced(e, n, a) BY <1>4, <1>6, FencedExists
<1>8. /\ a \in [0 .. m + 1 -> Nat]
      /\ a[0] = 0 /\ a[m + 1] = Len(s) + 1 /\ \A k \in 1 .. m : a[k] = e[k]
      /\ \A k, l \in 0 .. m + 1 : k < l => a[k] < a[l]
  BY <1>5, <1>6, <1>7 DEF Fenced
<1>9. \A k \in 1 .. m : a[k] \in 1 .. Len(s) /\ s[a[k]] = "/"
  BY <1>2, <1>4, <1>5, <1>8 DEF Ascends
<1>10. ASSUME NEW i \in 1 .. Len(s), s[i] = "/" PROVE \E k \in 1 .. m : a[k] = i
  <2>1. i \in S BY <1>2, <1>10
  <2>2. PICK k \in 1 .. m : e[k] = i BY <1>4, <1>5, <2>1 DEF Ascends
  <2> QED BY <1>8, <2>2
<1>11. IsCut(s, m, a) BY <1>8, <1>9, <1>10 DEF IsCut
<1> QED BY <1>11

\* The ends of a piece: a slash or the end of s, and no slash between them.
PieceEnds(s, x, y) ==
    /\ x \in Nat /\ y \in Nat /\ x < y /\ y <= Len(s) + 1
    /\ x # 0 => x \in 1 .. Len(s) /\ s[x] = "/"
    /\ y # Len(s) + 1 => y \in 1 .. Len(s) /\ s[y] = "/"
    /\ \A i \in Nat : x < i /\ i < y => i \in 1 .. Len(s) /\ s[i] # "/"

\* Between two neighbouring places of the cut there is no slash.
LEMMA CutPiece ==
    ASSUME NEW X, NEW s \in Seq(X), NEW m, NEW a, IsCut(s, m, a), NEW k \in 1 .. m + 1
    PROVE  PieceEnds(s, a[k - 1], a[k])
<1>1. Len(s) \in Nat /\ m \in Nat BY DEF IsCut
<1>2. k - 1 \in 0 .. m + 1 /\ k \in 0 .. m + 1 /\ m + 1 \in 0 .. m + 1 /\ k - 1 < k
  BY <1>1
<1>3. a[k - 1] \in Nat /\ a[k] \in Nat BY <1>2 DEF IsCut
<1>4. a[k - 1] < a[k] BY <1>2 DEF IsCut
<1>5. a[k] <= Len(s) + 1
  <2>1. k # m + 1 => k < m + 1 BY <1>1
  <2>2. k # m + 1 => a[k] < Len(s) + 1 BY <1>2, <2>1 DEF IsCut
  <2>3. a[m + 1] = Len(s) + 1 BY DEF IsCut
  <2>4. CASE k = m + 1 BY <1>1, <2>3, <2>4
  <2>5. CASE k # m + 1 BY <1>1, <1>3, <2>2, <2>5
  <2> QED BY <2>4, <2>5
<1>6. a[k - 1] # 0 => a[k - 1] \in 1 .. Len(s) /\ s[a[k - 1]] = "/"
  <2>1. k - 1 = 0 \/ k - 1 \in 1 .. m BY <1>1
  <2> QED BY <2>1 DEF IsCut
<1>7. a[k] # Len(s) + 1 => a[k] \in 1 .. Len(s) /\ s[a[k]] = "/"
  <2>1. k = m + 1 \/ k \in 1 .. m BY <1>1
  <2> QED BY <2>1 DEF IsCut
<1>8. ASSUME NEW i \in Nat, a[k - 1] < i, i < a[k] PROVE i \in 1 .. Len(s) /\ s[i] # "/"
  <2>1. i \in 1 .. Len(s) BY <1>1, <1>3, <1>5, <1>8
  <2>2. ASSUME s[i] = "/" PROVE FALSE
    <3>1. PICK l \in 1 .. m : a[l] = i BY <2>1, <2>2 DEF IsCut
    <3>2. l \in 0 .. m + 1 BY <1>1, <3>1
    <3>3. l < k - 1 \/ l = k - 1 \/ l = k \/ k < l BY <1>1, <3>1
    <3>4. l < k - 1 => a[l] < a[k - 1] BY <1>2, <3>2 DEF IsCut
    <3>5. k < l => a[k] < a[l] BY <1>2, <3>2 DEF IsCut
    <3> QED BY <1>3, <1>8, <3>1, <3>3, <3>4, <3>5
  <2> QED BY <2>1, <2>2
<1> QED BY <1>3, <1>4, <1>5, <1>6, <1>7, <1>8 DEF PieceEnds

\* The pieces that a cut gives.
Pieces(s, m, a) == [k \in 1 .. m + 1 |-> SubSeq(s, a[k - 1] + 1, a[k] - 1)]

\* What stands from a place behind a slash up to the next one.
LEMMA PieceIsBefore ==
    ASSUME NEW X, NEW s \in Seq(X), NEW m, NEW a, IsCut(s, m, a), NEW k \in 1 .. m + 1
    PROVE  Before(SubSeq(s, a[k - 1] + 1, Len(s)), "/") = SubSeq(s, a[k - 1] + 1, a[k] - 1)
<1>1. Len(s) \in Nat OBVIOUS
<1>2. PICK x, y : x = a[k - 1] /\ y = a[k] OBVIOUS
<1>3. PieceEnds(s, x, y) BY <1>2, CutPiece
<1>4. x \in Nat /\ y \in Nat /\ x < y /\ y <= Len(s) + 1 BY <1>3 DEF PieceEnds
<1>5. PICK z \in Nat : z = Len(s) + 1 /\ z - 1 = Len(s) /\ x < z BY <1>1, <1>4
<1>6. PICK t : t = SubSeq(s, x + 1, z - 1) OBVIOUS
<1>7. t \in Seq(X) /\ Between(t, s, x, z)
  BY <1>1, <1>4, <1>5, <1>6, SubSeqBetween
<1>8. Len(t) = (z - x) - 1 /\ \A i \in 1 .. Len(t) : t[i] = s[x + i]
  BY <1>7 DEF Between
<1>9. PICK lt \in Nat, ls \in Nat : lt = Len(t) /\ ls = Len(s) BY <1>1, <1>7
<1>10. lt = ls - x /\ z = ls + 1 /\ y <= ls + 1
  <2>1. lt = (z - x) - 1 /\ z = ls + 1 BY <1>5, <1>8, <1>9
  <2> QED BY <1>4, <1>9, <2>1
<1>11. PICK n \in Nat : n = (y - x) - 1 /\ n <= lt BY <1>4, <1>9, <1>10
<1>12. FirstAt(t, "/", n)
  <2>1. n \in 0 .. Len(t) BY <1>11, <1>9
  <2>2. ASSUME n # Len(t) PROVE t[n + 1] = "/"
    <3>1. n + 1 \in 1 .. lt /\ x + (n + 1) = y /\ y # ls + 1
      BY <1>4, <1>11, <1>9, <1>10, <2>2
    <3>2. s[y] = "/" BY <1>3, <1>9, <3>1 DEF PieceEnds
    <3>3. t[n + 1] = s[x + (n + 1)] BY <1>8, <1>9, <3>1
    <3> QED BY <3>1, <3>2, <3>3
  <2>3. ASSUME NEW i \in 1 .. n PROVE t[i] # "/"
    <3>1. i \in 1 .. lt /\ x + i \in Nat /\ x < x + i /\ x + i < y
      BY <1>4, <1>11, <1>9, <1>10
    <3>2. s[x + i] # "/" BY <1>3, <3>1 DEF PieceEnds
    <3> QED BY <1>8, <1>9, <3>1, <3>2
  <2> QED BY <2>1, <2>2, <2>3 DEF FirstAt
<1>13. PICK u : u = SubSeq(t, 1, n) OBVIOUS
<1>14. Before(t, "/") = u BY <1>7, <1>12, <1>13, BeforeIs
<1>15. u \in Seq(X) /\ Between(u, t, 0, n + 1)
  <2>1. PICK w \in Nat : w = n + 1 /\ 0 < w /\ w <= Len(t) + 1 /\ w - 1 = n
    BY <1>11, <1>9
  <2>2. SubSeq(t, 0 + 1, w - 1) \in Seq(X) /\ Between(SubSeq(t, 0 + 1, w - 1), t, 0, w)
    BY <1>7, <2>1, SubSeqBetween
  <2>3. 0 + 1 = 1 OBVIOUS
  <2> QED BY <1>13, <2>1, <2>2, <2>3
<1>16. Len(u) = n /\ \A i \in 1 .. Len(u) : u[i] = t[i]
  <2>1. Len(u) = ((n + 1) - 0) - 1 /\ \A i \in 1 .. Len(u) : u[i] = t[0 + i] BY <1>15 DEF Between
  <2>2. \A i \in 1 .. n : 0 + i = i BY <1>11
  <2>3. Len(u) = n BY <1>11, <2>1
  <2> QED BY <2>1, <2>2, <2>3
<1>17. Between(u, s, x, y)
  <2>1. ASSUME NEW i \in 1 .. Len(u) PROVE u[i] = s[x + i]
    <3>1. i \in 1 .. Len(t) BY <1>11, <1>16, <1>9
    <3> QED BY <1>8, <1>16, <3>1
  <2> QED BY <1>11, <1>16, <2>1 DEF Between
<1>18. u = SubSeq(s, x + 1, y - 1) BY <1>4, <1>15, <1>17, BetweenIsSubSeq
<1> QED BY <1>5, <1>6, <1>14, <1>18, <1>2

\* The places where a piece begins.
Begins(s) == {i \in 1 .. Len(s) + 1 : i = 1 \/ s[i - 1] = "/"}

\* The cut names the places where the pieces of Split begin.
LEMMA CutBegins ==
    ASSUME NEW X, NEW s \in Seq(X), NEW m, NEW a, IsCut(s, m, a),
           NEW e, e = [k \in 1 .. m + 1 |-> a[k - 1] + 1]
    PROVE  Ascends(e, Begins(s)) /\ Len(e) = m + 1
<1>1. Len(s) \in Nat /\ m \in Nat BY DEF IsCut
<1>2. PICK n \in Nat : n = m + 1 BY <1>1
<1>3. \A k \in 1 .. n : a[k - 1] \in Nat /\ e[k] = a[k - 1] + 1 /\ e[k] \in Nat
  <2> TAKE k \in 1 .. n
  <2>1. k - 1 \in 0 .. m + 1 BY <1>1, <1>2
  <2>2. a[k - 1] \in Nat BY <2>1 DEF IsCut
  <2> QED BY <1>2, <2>2
<1>4. e \in [1 .. n -> Nat]
  <2>1. e = [k \in 1 .. n |-> e[k]] BY <1>2
  <2> QED BY <1>3, <2>1
<1>5. e \in Seq(Nat) /\ Len(e) = n BY <1>4, FunctionIsSeq
<1>6. ASSUME NEW k \in 1 .. n PROVE e[k] \in Begins(s)
  <2>1. CASE k = 1
    <3>1. a[k - 1] = 0 BY <2>1 DEF IsCut
    <3>2. e[k] = 1 BY <1>3, <3>1
    <3>3. 1 \in 1 .. Len(s) + 1 BY <1>1
    <3> QED BY <3>2, <3>3 DEF Begins
  <2>2. CASE k # 1
    <3>1. k - 1 \in 1 .. m BY <1>1, <1>2, <2>2
    <3>2. a[k - 1] \in 1 .. Len(s) /\ s[a[k - 1]] = "/" BY <3>1 DEF IsCut
    <3>3. PICK x \in Nat : x = a[k - 1] BY <1>3
    <3>4. x + 1 \in 1 .. Len(s) + 1 /\ (x + 1) - 1 = x BY <1>1, <3>2, <3>3
    <3>5. e[k] \in 1 .. Len(s) + 1 /\ e[k] - 1 = a[k - 1] BY <1>3, <3>3, <3>4
    <3> QED BY <3>2, <3>5 DEF Begins
  <2> QED BY <2>1, <2>2
<1>7. ASSUME NEW k \in 1 .. n, NEW l \in 1 .. n, k < l PROVE e[k] < e[l]
  <2>1. k - 1 \in 0 .. m + 1 /\ l - 1 \in 0 .. m + 1 /\ k - 1 < l - 1 BY <1>1, <1>2, <1>7
  <2>2. a[k - 1] < a[l - 1] BY <2>1 DEF IsCut
  <2>3. PICK x \in Nat, y \in Nat : x = a[k - 1] /\ y = a[l - 1] BY <1>3
  <2>4. x + 1 < y + 1 BY <2>2, <2>3
  <2> QED BY <1>3, <2>3, <2>4
<1>8. ASSUME NEW x \in Begins(s) PROVE \E k \in 1 .. n : e[k] = x
  <2>1. x \in 1 .. Len(s) + 1 BY DEF Begins
  <2>2. CASE x = 1
    <3>1. 1 \in 1 .. n /\ 1 - 1 = 0 BY <1>1, <1>2
    <3>2. a[0] = 0 BY DEF IsCut
    <3>3. e[1] = 1 BY <1>3, <3>1, <3>2
    <3> QED BY <2>2, <3>1, <3>3
  <2>3. CASE x # 1
    <3>1. x - 1 \in 1 .. Len(s) /\ s[x - 1] = "/" BY <1>1, <2>1, <2>3 DEF Begins
    <3>2. PICK k \in 1 .. m : a[k] = x - 1 BY <3>1 DEF IsCut
    <3>3. k + 1 \in 1 .. n /\ (k + 1) - 1 = k BY <1>1, <1>2
    <3>4. e[k + 1] = a[k] + 1 BY <1>3, <3>3
    <3>5. e[k + 1] = x BY <1>1, <2>1, <3>2, <3>4
    <3> QED BY <3>3, <3>5
  <2> QED BY <2>2, <2>3
<1> QED BY <1>2, <1>5, <1>6, <1>7, <1>8 DEF Ascends

\* A cut of s gives what Split does.
LEMMA SplitIs ==
    ASSUME NEW s \in Seq(Char), NEW m, NEW a, IsCut(s, m, a)
    PROVE  Split[s] = Pieces(s, m, a)
<1>1. Len(s) \in Nat /\ m \in Nat BY DEF IsCut
<1> DEFINE w == [i \in 1 .. Len(s) + 1 |-> Before(SubSeq(s, i, Len(s)), "/")]
<1>2. Split[s] = Picked(w, Begins(s)) BY DEF Split, Begins
<1>3. w \in Seq(Seq(Char)) /\ Len(w) = Len(s) + 1
  <2>1. ASSUME NEW i \in 1 .. Len(s) + 1 PROVE Before(SubSeq(s, i, Len(s)), "/") \in Seq(Char)
    <3>1. PICK x \in Nat, y \in Nat : x + 1 = i /\ y - 1 = Len(s) /\ x < y /\ y <= Len(s) + 1
      <4>1. i - 1 \in Nat /\ Len(s) + 1 \in Nat /\ i - 1 < Len(s) + 1 BY <1>1
      <4> QED BY <1>1, <4>1
    <3>2. PICK t : t = SubSeq(s, i, Len(s)) OBVIOUS
    <3>3. t \in Seq(Char) BY <3>1, <3>2, SubSeqBetween
    <3>4. PICK n : FirstAt(t, "/", n) BY <3>3, FirstExists
    <3>5. Before(t, "/") = SubSeq(t, 1, n) BY <3>3, <3>4, BeforeIs
    <3>6. SubSeq(t, 1, n) \in Seq(Char)
      <4>1. n \in Nat /\ n <= Len(t) /\ Len(t) \in Nat BY <3>3, <3>4 DEF FirstAt
      <4>2. PICK z \in Nat : z = n + 1 /\ z - 1 = n /\ 0 < z /\ z <= Len(t) + 1 BY <4>1
      <4>3. SubSeq(t, 0 + 1, z - 1) \in Seq(Char) BY <3>3, <4>2, SubSeqBetween
      <4>4. 0 + 1 = 1 OBVIOUS
      <4> QED BY <4>2, <4>3, <4>4
    <3> QED BY <3>2, <3>5, <3>6
  <2>2. PICK n \in Nat : n = Len(s) + 1 BY <1>1
  <2>3. w \in [1 .. n -> Seq(Char)] BY <2>1, <2>2
  <2> HIDE DEF w
  <2> QED BY <2>2, <2>3, FunctionIsSeq
<1>4. PICK e : e = [k \in 1 .. m + 1 |-> a[k - 1] + 1] OBVIOUS
<1>5. Ascends(e, Begins(s)) /\ Len(e) = m + 1 BY <1>4, CutBegins
<1>6. Chosen(w, Begins(s))
  <2> HIDE DEF w
  <2> QED BY <1>3 DEF Chosen, Begins
<1>7. Picked(w, Begins(s)) = Image(w, e)
  <2> HIDE DEF w
  <2> QED BY <1>3, <1>5, <1>6, PickedBy
<1>8. ASSUME NEW k \in 1 .. m + 1 PROVE w[e[k]] = SubSeq(s, a[k - 1] + 1, a[k] - 1)
  <2>1. e[k] = a[k - 1] + 1 BY <1>4
  <2>2. e[k] \in 1 .. Len(s) + 1 BY <1>5 DEF Ascends, Begins
  <2>3. w[e[k]] = Before(SubSeq(s, e[k], Len(s)), "/") BY <2>2
  <2> HIDE DEF w
  <2> QED BY <2>1, <2>3, PieceIsBefore
<1>9. Image(w, e) = Pieces(s, m, a)
  <2> HIDE DEF w
  <2>1. Image(w, e) = [k \in 1 .. m + 1 |-> w[e[k]]] BY <1>5 DEF Image
  <2> QED BY <1>8, <2>1 DEF Pieces
<1> QED BY <1>2, <1>7, <1>9

\* The pieces are strings; what they hold stands in s, free of slashes.
LEMMA PiecesAre ==
    ASSUME NEW X, NEW s \in Seq(X), NEW m, NEW a, IsCut(s, m, a)
    PROVE  /\ Pieces(s, m, a) \in Seq(Seq(X)) /\ Len(Pieces(s, m, a)) = m + 1
           /\ \A k \in 1 .. m + 1 : /\ Pieces(s, m, a)[k] \in Seq(X)
                                    /\ Between(Pieces(s, m, a)[k], s, a[k - 1], a[k])
<1>1. PICK n \in Nat : n = m + 1 BY DEF IsCut
<1>2. ASSUME NEW k \in 1 .. n
      PROVE  /\ SubSeq(s, a[k - 1] + 1, a[k] - 1) \in Seq(X)
             /\ Between(SubSeq(s, a[k - 1] + 1, a[k] - 1), s, a[k - 1], a[k])
  <2>1. a[k - 1] \in Nat /\ a[k] \in Nat /\ a[k - 1] < a[k] /\ a[k] <= Len(s) + 1
    BY <1>1, CutPiece DEF PieceEnds
  <2> QED BY <2>1, SubSeqBetween
<1>3. PICK p : p = Pieces(s, m, a) OBVIOUS
<1>4. p = [k \in 1 .. n |-> SubSeq(s, a[k - 1] + 1, a[k] - 1)] BY <1>1, <1>3 DEF Pieces
<1>5. p \in [1 .. n -> Seq(X)] BY <1>2, <1>4
<1>6. p \in Seq(Seq(X)) /\ Len(p) = n BY <1>5, FunctionIsSeq
<1>7. \A k \in 1 .. n : p[k] \in Seq(X) /\ Between(p[k], s, a[k - 1], a[k]) BY <1>2, <1>4
<1> QED BY <1>1, <1>3, <1>6, <1>7

(***************************************************************************)
(* Decoded                                                                 *)
(***************************************************************************)
\* A percent sign that begins an escape reject_bad_percent accepts.
Mark(s, i) ==
    /\ i + 2 <= Len(s) /\ s[i + 1] \in Hex /\ s[i + 2] \in Hex
    /\ <<s[i + 1], s[i + 2]>> \notin Escapes

Harmless(s) ==
    \A i \in 1 .. Len(s) : s[i] # "\\" /\ (s[i] = "%" => Mark(s, i))

\* What BadPercent lets pass is a mark.
LEMMA MarkIs ==
    ASSUME NEW s \in Seq(Char), NEW i \in 1 .. Len(s)
    PROVE  Mark(s, i) <=> ~Malformed(s, i) /\ Escape(s, i) \notin Escapes
<1>1. Len(s) \in Nat OBVIOUS
<1>2. CASE i + 2 > Len(s) BY <1>1, <1>2 DEF Mark, Malformed
<1>3. CASE i + 2 <= Len(s)
  <2>1. PICK y \in Nat : y = i + 3 /\ i < y /\ y <= Len(s) + 1 /\ y - 1 = i + 2 BY <1>1, <1>3
  <2>2. PICK t : t = SubSeq(s, i + 1, y - 1) OBVIOUS
  <2>3. t \in Seq(Char) /\ Between(t, s, i, y) BY <1>1, <2>1, <2>2, SubSeqBetween
  <2>4. Len(t) = 2 BY <2>1, <2>3 DEF Between
  <2>5. \A j \in 1 .. Len(t) : t[j] = s[i + j] BY <2>3 DEF Between
  <2>6. 1 \in 1 .. Len(t) /\ 2 \in 1 .. Len(t) BY <2>4
  <2>7. t[1] = s[i + 1] /\ t[2] = s[i + 2] BY <2>5, <2>6
  <2>8. t = <<s[i + 1], s[i + 2]>> BY <2>3, <2>4, <2>7
  <2>9. Escape(s, i) = <<s[i + 1], s[i + 2]>> BY <2>1, <2>2, <2>8 DEF Escape
  <2>10. Malformed(s, i) <=> ~(s[i + 1] \in Hex /\ s[i + 2] \in Hex)
    BY <1>1, <1>3 DEF Malformed
  <2> QED BY <1>3, <2>9, <2>10 DEF Mark
<1> QED BY <1>1, <1>2, <1>3

\* The places of an escape behind its percent sign, and the others.
Hidden(s) ==
    {i \in 1 .. Len(s) : \/ i - 1 \in 1 .. Len(s) /\ s[i - 1] = "%"
                         \/ i - 2 \in 1 .. Len(s) /\ s[i - 2] = "%"}

Shown(s) == (1 .. Len(s)) \ Hidden(s)

Undone(s, i) == IF s[i] = "%" THEN "g" ELSE s[i]

\* The characters that come out are characters.
LEMMA UndoneString ==
    ASSUME NEW s \in Seq(Char), NEW i \in 1 .. Len(s)
    PROVE  Undone(s, i) \in Char
<1>1. s[i] \in Char OBVIOUS
<1>2. CASE s[i] = "%"
  <2>1. Undone(s, i) = "g" BY <1>2 DEF Undone
  <2>2. "g" \in Char BY CharAssumption
  <2> QED BY <2>1, <2>2
<1>3. CASE s[i] # "%" BY <1>1, <1>3 DEF Undone
<1> QED BY <1>2, <1>3

\* What Decoded makes of a harmless string.
LEMMA DecodedIs ==
    ASSUME NEW s \in Seq(Char), Harmless(s), NEW e, Ascends(e, Shown(s))
    PROVE  Decoded(s) = [k \in 1 .. Len(e) |-> Undone(s, e[k])]
<1>1. Len(s) \in Nat /\ DOMAIN s = 1 .. Len(s) /\ \A i \in 1 .. Len(s) : s[i] \in Char
  OBVIOUS
<1> DEFINE escapes == {i \in DOMAIN s : s[i] = "%" /\ ~Malformed(s, i)}
           inside  == {i \in DOMAIN s : i - 1 \in escapes \/ i - 2 \in escapes}
           char(i) == CASE i \notin escapes -> s[i]
                        [] i \in escapes /\ Escape(s, i) \in DotEscapes -> "."
                        [] i \in escapes /\ Escape(s, i) \in SlashEscapes -> "/"
                        [] i \in escapes /\ Escape(s, i) \in BackslashEscapes -> "\\"
                        [] OTHER -> "g"
           w == [i \in DOMAIN s |-> char(i)]
<1>2. Decoded(s) = Picked(w, DOMAIN s \ inside) BY DEF Decoded
<1>3. \A i \in 1 .. Len(s) : s[i] = "%" => ~Malformed(s, i) /\ Escape(s, i) \notin Escapes
  BY MarkIs DEF Harmless
<1>4. \A i : i \in escapes <=> i \in 1 .. Len(s) /\ s[i] = "%" BY <1>1, <1>3
<1>5. DOMAIN s \ inside = Shown(s)
  <2>1. \A i : i \in inside <=> i \in Hidden(s)
    <3> HIDE DEF escapes
    <3> QED BY <1>1, <1>4 DEF Hidden
  <2> HIDE DEF inside
  <2> QED BY <1>1, <2>1 DEF Shown
<1>6. ASSUME NEW i \in 1 .. Len(s) PROVE char(i) = Undone(s, i)
  <2>1. CASE s[i] = "%"
    <3>1. i \in escapes BY <1>4, <2>1
    <3>2. /\ Escape(s, i) \notin DotEscapes /\ Escape(s, i) \notin SlashEscapes
          /\ Escape(s, i) \notin BackslashEscapes
      BY <1>3, <2>1 DEF Escapes
    <3>3. PICK x : x = Escape(s, i) OBVIOUS
    <3> HIDE DEF escapes
    <3>4. char(i) = "g" BY <3>1, <3>2
    <3> QED BY <2>1, <3>4 DEF Undone
  <2>2. CASE s[i] # "%"
    <3>1. i \notin escapes BY <1>4, <2>2
    <3> HIDE DEF escapes
    <3>2. char(i) = s[i] BY <3>1
    <3> QED BY <2>2, <3>2 DEF Undone
  <2> QED BY <2>1, <2>2
<1>7. w = [i \in 1 .. Len(s) |-> Undone(s, i)]
  <2> HIDE DEF char
  <2> QED BY <1>1, <1>6
<1> HIDE DEF w, inside
<1>8. w \in [1 .. Len(s) -> Char]
  <2>1. \A i \in 1 .. Len(s) : Undone(s, i) \in Char BY UndoneString
  <2> QED BY <1>7, <2>1
<1>9. w \in Seq(Char) /\ Len(w) = Len(s) BY <1>1, <1>8, FunctionIsSeq
<1>10. Chosen(w, Shown(s)) BY <1>9 DEF Chosen, Shown
<1>11. PICK v \in Seq(Char) : v = w BY <1>9
<1>12. Picked(v, Shown(s)) = Image(v, e) BY <1>10, <1>11, PickedBy
<1>13. ASSUME NEW k \in 1 .. Len(e) PROVE v[e[k]] = Undone(s, e[k])
  <2>1. e[k] \in 1 .. Len(s) BY DEF Ascends, Shown
  <2> QED BY <1>7, <1>11, <2>1
<1>14. Image(v, e) = [k \in 1 .. Len(e) |-> Undone(s, e[k])] BY <1>13 DEF Image
<1> QED BY <1>2, <1>5, <1>11, <1>12, <1>14

\* The places that are shown can be enumerated.
LEMMA ShownAscends ==
    ASSUME NEW s \in Seq(Char)
    PROVE  \E e : Ascends(e, Shown(s))
<1>1. Chosen(s, Shown(s)) BY DEF Chosen, Shown
<1> QED BY <1>1, PlacesAscend

\* The decoded string: its length, its characters.
LEMMA DecodedSeq ==
    ASSUME NEW s \in Seq(Char), Harmless(s), NEW e, Ascends(e, Shown(s))
    PROVE  /\ Decoded(s) \in Seq(Char) /\ Len(Decoded(s)) = Len(e)
           /\ \A k \in 1 .. Len(e) : Decoded(s)[k] = Undone(s, e[k])
<1>1. Decoded(s) = [k \in 1 .. Len(e) |-> Undone(s, e[k])] BY DecodedIs
<1>2. PICK n \in Nat : n = Len(e) BY DEF Ascends
<1>3. \A k \in 1 .. n : Undone(s, e[k]) \in Char
  <2> TAKE k \in 1 .. n
  <2>1. e[k] \in 1 .. Len(s) BY <1>2 DEF Ascends, Shown
  <2> QED BY <2>1, UndoneString
<1>4. PICK d : d = Decoded(s) OBVIOUS
<1>5. d \in [1 .. n -> Char] /\ \A k \in 1 .. n : d[k] = Undone(s, e[k])
  BY <1>1, <1>2, <1>3, <1>4
<1>6. d \in Seq(Char) /\ Len(d) = n BY <1>5, FunctionIsSeq
<1> QED BY <1>2, <1>4, <1>5, <1>6

(***************************************************************************)
(* Undoing the escapes of a path does not change where it is cut           *)
(***************************************************************************)
\* A slash is no part of an escape.
LEMMA SlashIsShown ==
    ASSUME NEW s \in Seq(Char), Harmless(s), NEW i \in 1 .. Len(s), s[i] = "/"
    PROVE  i \in Shown(s)
<1>1. Len(s) \in Nat OBVIOUS
<1>2. "/" \notin Hex BY DEF Hex
<1>3. ASSUME i - 1 \in 1 .. Len(s), s[i - 1] = "%" PROVE FALSE
  <2>1. s[(i - 1) + 1] \in Hex BY <1>3 DEF Harmless, Mark
  <2>2. (i - 1) + 1 = i BY <1>1
  <2> QED BY <1>2, <2>1, <2>2
<1>4. ASSUME i - 2 \in 1 .. Len(s), s[i - 2] = "%" PROVE FALSE
  <2>1. s[(i - 2) + 2] \in Hex BY <1>4 DEF Harmless, Mark
  <2>2. (i - 2) + 2 = i BY <1>1
  <2> QED BY <1>2, <2>1, <2>2
<1> QED BY <1>3, <1>4 DEF Shown, Hidden

\* An escape does not reach over the end of a piece.
LEMMA PieceHarmless ==
    ASSUME NEW s \in Seq(Char), Harmless(s), NEW x, NEW y, PieceEnds(s, x, y),
           NEW t \in Seq(Char), Between(t, s, x, y)
    PROVE  Harmless(t)
<1>1. PICK ls \in Nat, lt \in Nat : ls = Len(s) /\ lt = Len(t) OBVIOUS
<1>2. x \in Nat /\ y \in Nat /\ x < y /\ y <= ls + 1 /\ lt = (y - x) - 1
  BY <1>1 DEF PieceEnds, Between
<1>3. \A i \in 1 .. lt : t[i] = s[x + i] BY <1>1 DEF Between
<1> SUFFICES ASSUME NEW i \in 1 .. lt PROVE t[i] # "\\" /\ (t[i] = "%" => Mark(t, i))
  BY <1>1 DEF Harmless
<1>4. PICK j \in 1 .. ls : j = x + i /\ j < y /\ x < j BY <1>2
<1>5. t[i] = s[j] BY <1>3, <1>4
<1>6. t[i] # "\\" BY <1>1, <1>4, <1>5 DEF Harmless
<1>7. ASSUME t[i] = "%" PROVE Mark(t, i)
  <2>1. Mark(s, j) BY <1>1, <1>4, <1>5, <1>7 DEF Harmless
  <2>2. "/" \notin Hex BY DEF Hex
  <2>3. j + 2 <= ls BY <1>1, <2>1 DEF Mark
  <2>4. s[j + 1] # "/" /\ s[j + 2] # "/" BY <2>1, <2>2 DEF Mark
  <2>5. y # ls + 1 => s[y] = "/" BY <1>1 DEF PieceEnds
  <2>6. y # j + 1 /\ y # j + 2
    <3>1. y = j + 1 => y # ls + 1 BY <1>4, <2>3
    <3>2. y = j + 2 => y # ls + 1 BY <1>4, <2>3
    <3> QED BY <2>4, <2>5, <3>1, <3>2
  <2>7. i + 2 <= lt BY <1>2, <1>4, <2>6
  <2>8. i + 1 \in 1 .. lt /\ i + 2 \in 1 .. lt /\ x + (i + 1) = j + 1 /\ x + (i + 2) = j + 2
    BY <1>2, <1>4, <2>7
  <2>9. t[i + 1] = s[j + 1] /\ t[i + 2] = s[j + 2] BY <1>3, <2>8
  <2> QED BY <1>1, <2>1, <2>7, <2>9 DEF Mark
<1> QED BY <1>6, <1>7

\* In a piece the same places are shown as in the whole.
LEMMA PieceShows ==
    ASSUME NEW s \in Seq(Char), Harmless(s), NEW x, NEW y, PieceEnds(s, x, y),
           NEW t \in Seq(Char), Between(t, s, x, y), NEW i \in 1 .. Len(t)
    PROVE  i \in Shown(t) <=> x + i \in Shown(s)
<1>1. PICK ls \in Nat, lt \in Nat : ls = Len(s) /\ lt = Len(t) OBVIOUS
<1>2. x \in Nat /\ y \in Nat /\ x < y /\ y <= ls + 1 /\ lt = (y - x) - 1
  BY <1>1 DEF PieceEnds, Between
<1>3. \A k \in 1 .. lt : t[k] = s[x + k] BY <1>1 DEF Between
<1>4. PICK j \in 1 .. ls : j = x + i /\ i \in 1 .. lt BY <1>1, <1>2
<1>5. "/" \notin Hex /\ "/" # "%" BY DEF Hex
<1>6. x # 0 => x \in 1 .. ls /\ s[x] = "/" BY <1>1 DEF PieceEnds
<1>7. \A k \in 1 .. ls : s[k] = "%" => Mark(s, k) BY <1>1 DEF Harmless
<1>8. (i - 1 \in 1 .. lt /\ t[i - 1] = "%") <=> (j - 1 \in 1 .. ls /\ s[j - 1] = "%")
  <2>1. CASE i = 1
    <3>1. j - 1 = x /\ i - 1 \notin 1 .. lt BY <1>2, <1>4, <2>1
    <3>2. j - 1 \in 1 .. ls => s[j - 1] # "%" BY <1>5, <1>6, <3>1
    <3> QED BY <3>1, <3>2
  <2>2. CASE i # 1
    <3>1. i - 1 \in 1 .. lt /\ x + (i - 1) = j - 1 /\ j - 1 \in 1 .. ls BY <1>2, <1>4, <2>2
    <3> QED BY <1>3, <3>1
  <2> QED BY <2>1, <2>2
<1>9. (i - 2 \in 1 .. lt /\ t[i - 2] = "%") <=> (j - 2 \in 1 .. ls /\ s[j - 2] = "%")
  <2>1. CASE i = 1
    <3>1. (j - 2) + 1 = x /\ i - 2 \notin 1 .. lt BY <1>2, <1>4, <2>1
    <3>2. ASSUME j - 2 \in 1 .. ls, s[j - 2] = "%" PROVE FALSE
      <4>1. s[x] \in Hex BY <1>7, <3>1, <3>2 DEF Mark
      <4>2. x # 0 BY <1>4, <2>1, <3>2
      <4> QED BY <1>5, <1>6, <4>1, <4>2
    <3> QED BY <3>1, <3>2
  <2>2. CASE i = 2
    <3>1. j - 2 = x /\ i - 2 \notin 1 .. lt BY <1>2, <1>4, <2>2
    <3>2. j - 2 \in 1 .. ls => s[j - 2] # "%" BY <1>5, <1>6, <3>1
    <3> QED BY <3>1, <3>2
  <2>3. CASE i # 1 /\ i # 2
    <3>1. i - 2 \in 1 .. lt /\ x + (i - 2) = j - 2 /\ j - 2 \in 1 .. ls BY <1>2, <1>4, <2>3
    <3> QED BY <1>3, <3>1
  <2> QED BY <2>1, <2>2, <2>3
<1>10. i \in Hidden(t) <=> j \in Hidden(s) BY <1>1, <1>4, <1>8, <1>9 DEF Hidden
<1>11. i \in Shown(t) <=> j \in Shown(s) BY <1>1, <1>4, <1>10 DEF Shown
<1> QED BY <1>4, <1>11

\* d holds the places shown in a piece, counted from its beginning.
Shifted(d, t, e, f, p, q) ==
    /\ Ascends(d, Shown(t)) /\ Len(d) = (q - p) - 1
    /\ \A j \in 1 .. Len(d) : /\ p + j \in 1 .. Len(e)
                              /\ d[j] \in 1 .. Len(t) /\ f[p] + d[j] = e[p + j]

\* There is such a list of places.
LEMMA PieceAscends ==
    ASSUME NEW s \in Seq(Char), Harmless(s), NEW e, Ascends(e, Shown(s)),
           NEW f, Fenced(e, Len(s), f),
           NEW p \in 0 .. Len(e) + 1, NEW q \in 0 .. Len(e) + 1, p < q,
           PieceEnds(s, f[p], f[q]), NEW t \in Seq(Char), Between(t, s, f[p], f[q])
    PROVE  \E d : Shifted(d, t, e, f, p, q)
<1>1. PICK d : d = [j \in 1 .. (q - p) - 1 |-> f[p + j] - f[p]] OBVIOUS
<1>2. PICK n \in Nat, ls \in Nat, lt \in Nat : n = Len(e) /\ ls = Len(s) /\ lt = Len(t)
  BY DEF Ascends
<1>3. p \in Nat /\ q \in Nat /\ p < q /\ q <= n + 1 BY <1>2
<1>4. PICK x \in Nat, y \in Nat : x = f[p] /\ y = f[q] BY <1>2 DEF Fenced
<1>5. PieceEnds(s, x, y) /\ Between(t, s, x, y) BY <1>4
<1>6. x < y /\ y <= ls + 1 /\ lt = (y - x) - 1 BY <1>2, <1>5 DEF PieceEnds, Between
<1>7. PICK l \in Nat : l = (q - p) - 1 BY <1>3
<1>8. ASSUME NEW j \in 1 .. l
      PROVE  /\ p + j \in 1 .. n /\ f[p + j] = e[p + j] /\ e[p + j] \in Nat
             /\ e[p + j] \in Shown(s) /\ x < e[p + j] /\ e[p + j] < y
             /\ d[j] = e[p + j] - x /\ d[j] \in Nat /\ x + d[j] = e[p + j]
             /\ d[j] \in 1 .. lt /\ d[j] \in Shown(t)
  <2>1. p + j \in 1 .. n /\ p + j \in 0 .. n + 1 /\ p < p + j /\ p + j < q BY <1>3, <1>7
  <2>2. f[p + j] = e[p + j] BY <1>2, <2>1 DEF Fenced
  <2>3. PICK v \in Nat : v = e[p + j] /\ v \in Shown(s) BY <1>2, <2>1 DEF Ascends
  <2>4. f[p] < f[p + j] /\ f[p + j] < f[q] BY <1>2, <2>1 DEF Fenced
  <2>5. x < v /\ v < y BY <1>4, <2>2, <2>3, <2>4
  <2>6. d[j] = v - x BY <1>1, <1>4, <1>7, <2>2, <2>3
  <2>7. v - x \in Nat /\ v - x \in 1 .. (y - x) - 1 /\ x + (v - x) = v
    <3> HIDE <1>5, <1>8
    <3> QED BY <2>5
  <2>8. PICK w \in Nat : w = v - x /\ w \in 1 .. lt /\ x + w = v BY <1>6, <2>7
  <2>9. w \in Shown(t) BY <1>2, <1>5, <2>3, <2>8, PieceShows
  <2> QED BY <2>1, <2>2, <2>3, <2>5, <2>6, <2>8, <2>9
<1>9. d \in [1 .. l -> Nat]
  <2>1. d = [j \in 1 .. l |-> d[j]] BY <1>1, <1>7
  <2> QED BY <1>8, <2>1
<1>10. d \in Seq(Nat) /\ Len(d) = l BY <1>9, FunctionIsSeq
<1>11. ASSUME NEW j \in 1 .. l, NEW k \in 1 .. l, j < k PROVE d[j] < d[k]
  <2>1. p + j < p + k BY <1>3, <1>11
  <2>2. e[p + j] < e[p + k] BY <1>2, <1>8, <2>1 DEF Ascends
  <2>3. PICK v \in Nat, w \in Nat : v = e[p + j] /\ w = e[p + k] BY <1>8
  <2>4. d[j] = v - x /\ d[k] = w - x BY <1>8, <2>3
  <2>5. v - x < w - x BY <1>4, <2>2, <2>3
  <2> QED BY <2>4, <2>5
<1>12. ASSUME NEW i \in Shown(t) PROVE \E j \in 1 .. l : d[j] = i
  <2>1. i \in 1 .. lt BY <1>2 DEF Shown
  <2>2. x + i \in Shown(s) BY <1>2, <1>5, <2>1, PieceShows
  <2>3. PICK k \in 1 .. n : e[k] = x + i BY <1>2, <2>2 DEF Ascends
  <2>4. i \in Nat /\ 1 <= i /\ i <= (y - x) - 1 BY <1>6, <2>1
  <2>5. x + i \in Nat /\ x < x + i /\ x + i < y BY <2>4
  <2>6. PICK v \in Nat : v = x + i /\ x < v /\ v < y BY <2>5
  <2>7. k \in 0 .. n + 1 /\ f[k] = v BY <1>2, <2>3, <2>6 DEF Fenced
  <2>8. ~(k < p) /\ k # p
    <3>1. k < p => f[k] < f[p] BY <1>2, <2>7 DEF Fenced
    <3> QED BY <1>4, <2>6, <2>7, <3>1
  <2>9. ~(q < k) /\ k # q
    <3>1. q < k => f[q] < f[k] BY <1>2, <2>7 DEF Fenced
    <3> QED BY <1>4, <2>6, <2>7, <3>1
  <2>10. PICK j \in 1 .. l : k = p + j BY <1>3, <1>7, <2>3, <2>8, <2>9
  <2>11. d[j] = v - x BY <1>8, <2>3, <2>6, <2>10
  <2>12. v - x = i BY <1>4, <2>1, <2>6
  <2> QED BY <2>11, <2>12
<1>13. Ascends(d, Shown(t)) BY <1>8, <1>10, <1>11, <1>12 DEF Ascends
<1>14. Shifted(d, t, e, f, p, q) BY <1>2, <1>4, <1>7, <1>8, <1>10, <1>13 DEF Shifted
<1> QED BY <1>14

\* A piece undone by itself is the piece of the whole undone.
LEMMA DecodedPiece ==
    ASSUME NEW s \in Seq(Char), Harmless(s), NEW e, Ascends(e, Shown(s)),
           NEW f, Fenced(e, Len(s), f),
           NEW p \in 0 .. Len(e) + 1, NEW q \in 0 .. Len(e) + 1, p < q,
           PieceEnds(s, f[p], f[q]), NEW t \in Seq(Char), Between(t, s, f[p], f[q])
    PROVE  Decoded(t) = SubSeq(Decoded(s), p + 1, q - 1)
<1>1. PICK n \in Nat : n = Len(e) BY DEF Ascends
<1>2. p \in Nat /\ q \in Nat /\ p < q /\ q <= n + 1 BY <1>1
<1>3. PICK d : Shifted(d, t, e, f, p, q) BY PieceAscends
<1>4. /\ Ascends(d, Shown(t)) /\ Len(d) = (q - p) - 1
      /\ \A j \in 1 .. Len(d) : /\ p + j \in 1 .. Len(e)
                                /\ d[j] \in 1 .. Len(t) /\ f[p] + d[j] = e[p + j]
  BY <1>3 DEF Shifted
<1>5. Harmless(t) BY PieceHarmless
<1>6. PICK u \in Seq(Char), w \in Seq(Char) :
          /\ u = Decoded(t) /\ Len(u) = Len(d)
          /\ w = Decoded(s) /\ Len(w) = n
  BY <1>1, <1>4, <1>5, DecodedSeq
<1>7. \A j \in 1 .. Len(d) : u[j] = Undone(t, d[j]) 
  <2>1. \A j \in 1 .. Len(d) : Decoded(t)[j] = Undone(t, d[j]) BY <1>4, <1>5, DecodedSeq
  <2> QED BY <1>6, <2>1
<1>8. \A k \in 1 .. n : w[k] = Undone(s, e[k]) BY <1>1, <1>6, DecodedSeq
<1>9. ASSUME NEW j \in 1 .. Len(u) PROVE u[j] = w[p + j]
  <2>1. j \in 1 .. Len(d) BY <1>6
  <2>2. p + j \in 1 .. n /\ d[j] \in 1 .. Len(t) /\ f[p] + d[j] = e[p + j]
    BY <1>1, <1>4, <2>1
  <2>3. t[d[j]] = s[f[p] + d[j]] BY <2>2 DEF Between
  <2>4. Undone(t, d[j]) = Undone(s, e[p + j]) BY <2>2, <2>3 DEF Undone
  <2> QED BY <1>7, <1>8, <2>1, <2>2, <2>4
<1>10. Between(u, w, p, q) BY <1>4, <1>6, <1>9 DEF Between
<1>11. u = SubSeq(w, p + 1, q - 1) BY <1>2, <1>6, <1>10, BetweenIsSubSeq
<1> QED BY <1>6, <1>11

\* Where the cuts of s are after its escapes are undone.
CutMoves(a, m, n, f, b) ==
    /\ b \in [0 .. m + 1 -> 0 .. n + 1]
    /\ \A k \in 0 .. m + 1 : f[b[k]] = a[k]

\* They can be found: no slash is hidden.
LEMMA CutMovesExists ==
    ASSUME NEW s \in Seq(Char), Harmless(s), NEW e, Ascends(e, Shown(s)),
           NEW f, Fenced(e, Len(s), f), NEW m, NEW a, IsCut(s, m, a)
    PROVE  \E b : CutMoves(a, m, Len(e), f, b)
<1>1. PICK n \in Nat : n = Len(e) BY DEF Ascends
<1>2. m \in Nat BY DEF IsCut
<1>3. ASSUME NEW k \in 0 .. m + 1 PROVE \E l \in 0 .. n + 1 : f[l] = a[k]
  <2>1. CASE k = 0
    <3>1. 0 \in 0 .. n + 1 /\ f[0] = a[0] BY <1>1 DEF Fenced, IsCut
    <3> QED BY <2>1, <3>1
  <2>2. CASE k = m + 1
    <3>1. n + 1 \in 0 .. n + 1 /\ f[n + 1] = a[m + 1] BY <1>1 DEF Fenced, IsCut
    <3> QED BY <2>2, <3>1
  <2>3. CASE k # 0 /\ k # m + 1
    <3>1. k \in 1 .. m BY <1>2, <2>3
    <3>2. a[k] \in 1 .. Len(s) /\ s[a[k]] = "/" BY <3>1 DEF IsCut
    <3>3. a[k] \in Shown(s) BY <3>2, SlashIsShown
    <3>4. PICK l \in 1 .. n : e[l] = a[k] BY <1>1, <3>3 DEF Ascends
    <3>5. l \in 0 .. n + 1 /\ f[l] = e[l] BY <1>1, <3>4 DEF Fenced
    <3> QED BY <3>4, <3>5
  <2> QED BY <2>1, <2>2, <2>3
<1>4. PICK b : b = [k \in 0 .. m + 1 |-> CHOOSE l \in 0 .. n + 1 : f[l] = a[k]] OBVIOUS
<1>5. \A k \in 0 .. m + 1 : b[k] \in 0 .. n + 1 /\ f[b[k]] = a[k]
  <2> TAKE k \in 0 .. m + 1
  <2>1. b[k] = CHOOSE l \in 0 .. n + 1 : f[l] = a[k] BY <1>4
  <2> QED BY <1>3, <2>1
<1>6. b \in [0 .. m + 1 -> 0 .. n + 1]
  <2>1. b = [k \in 0 .. m + 1 |-> b[k]] BY <1>4
  <2> QED BY <1>5, <2>1
<1> QED BY <1>1, <1>5, <1>6 DEF CutMoves

\* A fence is strictly ascending, so it tells places apart.
LEMMA FenceOrder ==
    ASSUME NEW e \in Seq(Nat), NEW n, NEW f, Fenced(e, n, f),
           NEW k \in 0 .. Len(e) + 1, NEW l \in 0 .. Len(e) + 1
    PROVE  (f[k] < f[l] => k < l) /\ (f[k] = f[l] => k = l)
<1>1. Len(e) \in Nat OBVIOUS
<1>2. PICK x \in Nat, y \in Nat : x = f[k] /\ y = f[l] BY DEF Fenced
<1>3. (k < l => x < y) /\ (l < k => y < x) BY <1>2 DEF Fenced
<1> QED BY <1>1, <1>2, <1>3

\* They cut the decoded string.
LEMMA DecodedCut ==
    ASSUME NEW s \in Seq(Char), Harmless(s), NEW e, Ascends(e, Shown(s)),
           NEW f, Fenced(e, Len(s), f), NEW m, NEW a, IsCut(s, m, a),
           NEW b, CutMoves(a, m, Len(e), f, b)
    PROVE  IsCut(Decoded(s), m, b)
<1>1. PICK n \in Nat : n = Len(e) BY DEF Ascends
<1>2. e \in Seq(Nat) /\ m \in Nat BY DEF Ascends, IsCut
<1>3. PICK w \in Seq(Char) : /\ w = Decoded(s) /\ Len(w) = n
                             /\ \A k \in 1 .. n : w[k] = Undone(s, e[k])
  BY <1>1, DecodedSeq
<1>4. \A k \in 0 .. m + 1 : b[k] \in 0 .. n + 1 /\ b[k] \in Nat /\ f[b[k]] = a[k]
  BY <1>1 DEF CutMoves
<1>5. b \in [0 .. m + 1 -> Nat]
  <2>1. b = [k \in 0 .. m + 1 |-> b[k]] BY DEF CutMoves
  <2> QED BY <1>4, <2>1
<1>6. 0 \in 0 .. m + 1 /\ m + 1 \in 0 .. m + 1 /\ 0 \in 0 .. n + 1 /\ n + 1 \in 0 .. n + 1
  BY <1>1, <1>2
<1>7. b[0] = 0
  <2>1. f[b[0]] = f[0] BY <1>4, <1>6 DEF Fenced, IsCut
  <2> QED BY <1>1, <1>2, <1>4, <1>6, <2>1, FenceOrder
<1>8. b[m + 1] = n + 1
  <2>1. f[b[m + 1]] = f[n + 1] BY <1>1, <1>4, <1>6 DEF Fenced, IsCut
  <2> QED BY <1>1, <1>2, <1>4, <1>6, <2>1, FenceOrder
<1>9. ASSUME NEW k \in 0 .. m + 1, NEW l \in 0 .. m + 1, k < l PROVE b[k] < b[l]
  <2>1. a[k] < a[l] BY <1>9 DEF IsCut
  <2>2. f[b[k]] < f[b[l]] BY <1>4, <2>1
  <2> QED BY <1>1, <1>2, <1>4, <2>2, FenceOrder
<1>10. ASSUME NEW k \in 1 .. m PROVE b[k] \in 1 .. n /\ w[b[k]] = "/"
  <2>1. k \in 0 .. m + 1 /\ 0 < k /\ k < m + 1 BY <1>2
  <2>2. b[0] < b[k] /\ b[k] < b[m + 1] BY <1>6, <1>9, <2>1
  <2>3. PICK l \in 1 .. n : l = b[k] BY <1>4, <1>7, <1>8, <2>1, <2>2
  <2>4. e[l] = a[k] BY <1>1, <1>4, <2>1, <2>3 DEF Fenced
  <2>5. s[e[l]] = "/" BY <2>4 DEF IsCut
  <2>6. Undone(s, e[l]) = "/" BY <2>5 DEF Undone
  <2> QED BY <1>3, <2>3, <2>6
<1>11. ASSUME NEW i \in 1 .. n, w[i] = "/" PROVE \E k \in 1 .. m : b[k] = i
  <2>1. Undone(s, e[i]) = "/" BY <1>3, <1>11
  <2>2. s[e[i]] = "/" BY <2>1 DEF Undone
  <2>3. e[i] \in 1 .. Len(s) BY <1>1 DEF Ascends, Shown
  <2>4. PICK k \in 1 .. m : a[k] = e[i] BY <2>2, <2>3 DEF IsCut
  <2>5. k \in 0 .. m + 1 /\ i \in 0 .. n + 1 BY <1>1, <1>2
  <2>6. f[b[k]] = f[i] BY <1>1, <1>4, <2>4, <2>5 DEF Fenced
  <2>7. b[k] = i BY <1>1, <1>2, <1>4, <2>5, <2>6, FenceOrder
  <2> QED BY <2>7
<1>12. IsCut(w, m, b) BY <1>2, <1>3, <1>5, <1>7, <1>8, <1>9, <1>10, <1>11 DEF IsCut
<1> QED BY <1>3, <1>12

\* Splitting a harmless string and undoing the escapes of its pieces is the
\* same as undoing its escapes and splitting what comes out.
THEOREM SplitCommutesWithDecoding ==
    ASSUME NEW s \in Seq(Char), Harmless(s)
    PROVE  /\ Decoded(s) \in Seq(Char) /\ Split[s] \in Seq(Seq(Char))
           /\ Split[Decoded(s)] = [k \in DOMAIN Split[s] |-> Decoded(Split[s][k])]
<1>1. PICK e : Ascends(e, Shown(s)) BY ShownAscends
<1>2. PICK ls \in Nat : ls = Len(s) OBVIOUS
<1>3. PICK f : Fenced(e, Len(s), f)
  <2>1. PICK S : S = Shown(s) OBVIOUS
  <2>2. \A i \in S : i \in 1 .. ls BY <1>2, <2>1 DEF Shown
  <2>3. \E f : Fenced(e, ls, f) BY <1>1, <1>2, <2>1, <2>2, FencedExists
  <2> QED BY <1>2, <2>3
<1>4. PICK m, a : IsCut(s, m, a) BY CutExists
<1>5. PICK b : CutMoves(a, m, Len(e), f, b) BY <1>1, <1>3, <1>4, CutMovesExists
<1>6. IsCut(Decoded(s), m, b) BY <1>1, <1>3, <1>4, <1>5, DecodedCut
<1>7. Decoded(s) \in Seq(Char) BY <1>1, DecodedSeq
<1>8. PICK w \in Seq(Char) : w = Decoded(s) /\ IsCut(w, m, b) BY <1>6, <1>7
<1>9. Split[w] = Pieces(w, m, b) BY <1>8, SplitIs
<1>10. Split[s] = Pieces(s, m, a) BY <1>4, SplitIs
<1>11. PICK ps : ps = Pieces(s, m, a) OBVIOUS
<1>12. /\ ps \in Seq(Seq(Char)) /\ Len(ps) = m + 1
       /\ \A k \in 1 .. m + 1 : ps[k] \in Seq(Char) /\ Between(ps[k], s, a[k - 1], a[k])
  BY <1>4, <1>11, PiecesAre
<1>13. m \in Nat BY <1>4 DEF IsCut
<1>14. ASSUME NEW k \in 1 .. m + 1
       PROVE  Decoded(ps[k]) = SubSeq(w, b[k - 1] + 1, b[k] - 1)
  <2>1. k - 1 \in 0 .. m + 1 /\ k \in 0 .. m + 1 /\ k - 1 < k BY <1>13
  <2>2. PICK p, q : p = b[k - 1] /\ q = b[k] OBVIOUS
  <2>3. p \in 0 .. Len(e) + 1 /\ q \in 0 .. Len(e) + 1 /\ f[p] = a[k - 1] /\ f[q] = a[k]
    BY <1>5, <2>1, <2>2 DEF CutMoves
  <2>4. p < q BY <1>8, <2>1, <2>2 DEF IsCut
  <2>5. PieceEnds(s, f[p], f[q]) BY <1>4, <2>3, CutPiece
  <2>6. PICK t \in Seq(Char) : t = ps[k] /\ Between(t, s, f[p], f[q]) BY <1>12, <2>3
  <2>7. Decoded(t) = SubSeq(Decoded(s), p + 1, q - 1)
    BY <1>1, <1>3, <2>3, <2>4, <2>5, <2>6, DecodedPiece
  <2> QED BY <1>8, <2>2, <2>6, <2>7
<1>15. DOMAIN ps = 1 .. m + 1 BY <1>12
<1>16. Pieces(w, m, b) = [k \in DOMAIN ps |-> Decoded(ps[k])] BY <1>14, <1>15 DEF Pieces
<1> QED BY <1>8, <1>9, <1>10, <1>11, <1>12, <1>16

(***************************************************************************)
(* Join                                                                    *)
(***************************************************************************)
\* f is a with b behind it.
Spliced(f, a, b) ==
    /\ Len(f) = Len(a) + Len(b)
    /\ \A i \in 1 .. Len(a) : f[i] = a[i]
    /\ \A i \in 1 .. Len(b) : f[Len(a) + i] = b[i]

\* The elements of a concatenation.
LEMMA SplicedBy ==
    ASSUME NEW X, NEW a \in Seq(X), NEW b \in Seq(X)
    PROVE  a \o b \in Seq(X) /\ Spliced(a \o b, a, b)
<1>1. /\ a \o b \in Seq(X) /\ Len(a \o b) = Len(a) + Len(b)
      /\ \A i \in 1 .. Len(a) + Len(b) :
             (a \o b)[i] = IF i <= Len(a) THEN a[i] ELSE b[i - Len(a)]
  BY ConcatProperties
<1>2. Len(a) \in Nat /\ Len(b) \in Nat BY LenProperties
<1>3. ASSUME NEW i \in 1 .. Len(b) PROVE (a \o b)[Len(a) + i] = b[i]
  <2>1. Len(a) + i \in 1 .. Len(a) + Len(b) /\ ~(Len(a) + i <= Len(a)) /\ (Len(a) + i) - Len(a) = i
    BY <1>2
  <2> QED BY <1>1, <2>1
<1> QED BY <1>1, <1>2, <1>3 DEF Spliced

SlashFree(s) == \A i \in 1 .. Len(s) : s[i] # "/"

\* u is t with a slash and g behind it.
Lengthened(u, t, g) ==
    /\ Len(u) = (Len(t) + 1) + Len(g)
    /\ \A i \in 1 .. Len(t) : u[i] = t[i]
    /\ u[Len(t) + 1] = "/"
    /\ \A i \in 1 .. Len(g) : u[(Len(t) + 1) + i] = g[i]

\* What Join puts behind a path.
LEMMA LengthenedBy ==
    ASSUME NEW t \in Seq(Char), NEW g \in Seq(Char)
    PROVE  t \o (<<"/">> \o g) \in Seq(Char) /\ Lengthened(t \o (<<"/">> \o g), t, g)
<1>1. "/" \in Char BY CharAssumption
<1>2. <<"/">> \in Seq(Char) /\ Len(<<"/">>) = 1 /\ <<"/">>[1] = "/" BY <1>1
<1>3. PICK z \in Seq(Char) : z = <<"/">> /\ Len(z) = 1 /\ z[1] = "/" BY <1>2
<1>4. PICK h : h = z \o g OBVIOUS
<1>5. h \in Seq(Char) /\ Spliced(h, z, g) BY <1>4, SplicedBy
<1>6. PICK u : u = t \o h OBVIOUS
<1>7. u \in Seq(Char) /\ Spliced(u, t, h) BY <1>5, <1>6, SplicedBy
<1>8. PICK lt \in Nat, lg \in Nat : lt = Len(t) /\ lg = Len(g) OBVIOUS
<1>9. /\ Len(h) = 1 + lg /\ h[1] = "/" /\ \A i \in 1 .. lg : h[1 + i] = g[i]
  <2>1. 1 \in 1 .. 1 OBVIOUS
  <2> QED BY <1>3, <1>5, <1>8, <2>1 DEF Spliced
<1>10. /\ Len(u) = lt + Len(h) /\ \A i \in 1 .. lt : u[i] = t[i]
      /\ \A i \in 1 .. Len(h) : u[lt + i] = h[i]
  BY <1>7, <1>8 DEF Spliced
<1>11. Len(u) = (lt + 1) + lg BY <1>9, <1>10
<1>12. u[lt + 1] = "/"
  <2>1. 1 \in 1 .. Len(h) BY <1>9
  <2> QED BY <1>9, <1>10, <2>1
<1>13. ASSUME NEW i \in 1 .. lg PROVE u[(lt + 1) + i] = g[i]
  <2>1. 1 + i \in 1 .. Len(h) /\ lt + (1 + i) = (lt + 1) + i BY <1>9
  <2>2. u[lt + (1 + i)] = h[1 + i] BY <1>10, <2>1
  <2> QED BY <1>9, <2>1, <2>2
<1>14. Lengthened(u, t, g) BY <1>8, <1>10, <1>11, <1>12, <1>13 DEF Lengthened
<1> QED BY <1>3, <1>4, <1>6, <1>7, <1>14

\* t is the first k of the segments, each behind a slash.
JoinedTo(t, k, a, segs) ==
    /\ t \in Seq(Char) /\ IsCut(t, k, a) /\ a[1] = 1
    /\ \A l \in 1 .. k : Between(segs[l], t, a[l], a[l + 1])

\* One more segment, one more place of the cut.
LEMMA JoinNext ==
    ASSUME NEW segs, NEW k \in Nat, NEW t \in Seq(Char), NEW a, JoinedTo(t, k, a, segs),
           NEW g \in Seq(Char), g = segs[k + 1], SlashFree(g),
           NEW u \in Seq(Char), Lengthened(u, t, g)
    PROVE  \E b : JoinedTo(u, k + 1, b, segs)
<1>1. k \in Nat /\ t \in Seq(Char) /\ IsCut(t, k, a) BY DEF JoinedTo, IsCut
<1>2. PICK lt \in Nat, lg \in Nat, lu \in Nat :
          lt = Len(t) /\ lg = Len(g) /\ lu = Len(u)
  OBVIOUS
<1>3. lu = (lt + 1) + lg BY <1>2 DEF Lengthened
<1>4. PICK m \in Nat : m = k + 1 OBVIOUS
<1>5. PICK b : b = [l \in 0 .. m + 1 |-> IF l = m + 1 THEN lu + 1 ELSE a[l]] OBVIOUS
<1>6. b[m + 1] = lu + 1 BY <1>4, <1>5
<1>7. \A l \in 0 .. m : b[l] = a[l]
  <2> TAKE l \in 0 .. m
  <2>1. l \in 0 .. m + 1 /\ l # m + 1 BY <1>4
  <2> QED BY <1>5, <2>1
<1>8. \A l \in 0 .. m : a[l] \in Nat BY <1>1, <1>4 DEF IsCut
<1>9. b \in [0 .. m + 1 -> Nat]
  <2>1. \A l \in 0 .. m + 1 : (IF l = m + 1 THEN lu + 1 ELSE a[l]) \in Nat
    <3> TAKE l \in 0 .. m + 1
    <3>1. l # m + 1 => l \in 0 .. m BY <1>4
    <3> QED BY <1>8, <3>1
  <2> QED BY <1>5, <2>1
<1>10. a[0] = 0 /\ a[m] = lt + 1 /\ a[1] = 1 BY <1>1, <1>2, <1>4 DEF IsCut, JoinedTo
<1>11. b[0] = 0 /\ b[m] = lt + 1 /\ b[1] = 1
  <2>1. 0 \in 0 .. m /\ m \in 0 .. m /\ 1 \in 0 .. m BY <1>4
  <2> QED BY <1>7, <1>10, <2>1
<1>12. \A l \in 0 .. m : a[l] <= lt + 1
  <2> TAKE l \in 0 .. m
  <2>1. m \in 0 .. k + 1 /\ l \in 0 .. k + 1 BY <1>4
  <2>2. l < m => a[l] < a[m] BY <1>1, <2>1 DEF IsCut
  <2>3. l = m \/ l < m BY <1>4
  <2> QED BY <1>8, <1>10, <2>2, <2>3
<1>13. ASSUME NEW x \in 0 .. m + 1, NEW y \in 0 .. m + 1, x < y PROVE b[x] < b[y]
  <2>1. x \in 0 .. m BY <1>4, <1>13
  <2>2. CASE y = m + 1
    <3>1. b[x] <= lt + 1 /\ b[x] \in Nat BY <1>7, <1>8, <1>12, <2>1
    <3> QED BY <1>3, <1>6, <2>2, <3>1
  <2>3. CASE y # m + 1
    <3>1. y \in 0 .. m BY <1>4, <2>3
    <3>2. x \in 0 .. k + 1 /\ y \in 0 .. k + 1 BY <1>4, <2>1, <3>1
    <3>3. a[x] < a[y] BY <1>1, <1>13, <3>2 DEF IsCut
    <3> QED BY <1>7, <2>1, <3>1, <3>3
  <2> QED BY <2>2, <2>3
<1>14. ASSUME NEW l \in 1 .. m PROVE b[l] \in 1 .. lu /\ u[b[l]] = "/"
  <2>1. l \in 0 .. m BY <1>4
  <2>2. CASE l = m
    <3>1. b[l] = lt + 1 /\ lt + 1 \in 1 .. lu BY <1>3, <1>11, <2>2
    <3>2. u[lt + 1] = "/" BY <1>2 DEF Lengthened
    <3> QED BY <3>1, <3>2
  <2>3. CASE l # m
    <3>1. l \in 1 .. k BY <1>4, <2>3
    <3>2. a[l] \in 1 .. lt /\ t[a[l]] = "/" BY <1>1, <1>2, <3>1 DEF IsCut
    <3>3. u[a[l]] = "/" BY <1>2, <3>2 DEF Lengthened
    <3>4. a[l] \in 1 .. lu BY <1>3, <3>2
    <3> QED BY <1>7, <2>1, <3>3, <3>4
  <2> QED BY <2>2, <2>3
<1>15. ASSUME NEW i \in 1 .. lu, u[i] = "/" PROVE \E l \in 1 .. m : b[l] = i
  <2>1. CASE i <= lt
    <3>1. i \in 1 .. lt BY <2>1
    <3>2. t[i] = "/" BY <1>2, <1>15, <3>1 DEF Lengthened
    <3>3. PICK l \in 1 .. k : a[l] = i BY <1>1, <1>2, <3>1, <3>2 DEF IsCut
    <3>4. l \in 1 .. m /\ l \in 0 .. m BY <1>1, <1>4
    <3> QED BY <1>7, <3>3, <3>4
  <2>2. CASE i = lt + 1
    <3>1. m \in 1 .. m BY <1>4
    <3> QED BY <1>11, <2>2, <3>1
  <2>3. CASE lt + 1 < i
    <3>1. i - (lt + 1) \in 1 .. lg /\ (lt + 1) + (i - (lt + 1)) = i BY <1>3, <2>3
    <3>2. PICK j \in 1 .. lg : (lt + 1) + j = i BY <3>1
    <3>3. g[j] = "/" BY <1>2, <1>15, <3>2 DEF Lengthened
    <3> QED BY <1>2, <3>3 DEF SlashFree
  <2>4. i <= lt \/ i = lt + 1 \/ lt + 1 < i BY <1>2
  <2> QED BY <2>1, <2>2, <2>3, <2>4
<1>16. IsCut(u, m, b) BY <1>2, <1>4, <1>6, <1>9, <1>11, <1>13, <1>14, <1>15 DEF IsCut
<1>17. ASSUME NEW l \in 1 .. m PROVE Between(segs[l], u, b[l], b[l + 1])
  <2>1. CASE l = m
    <3>1. b[l] = lt + 1 /\ b[l + 1] = lu + 1 /\ segs[l] = g BY <1>4, <1>6, <1>11, <2>1
    <3>2. lg = ((lu + 1) - (lt + 1)) - 1 BY <1>3
    <3>3. \A i \in 1 .. lg : g[i] = u[(lt + 1) + i] BY <1>2 DEF Lengthened
    <3>4. Between(g, u, lt + 1, lu + 1) BY <1>2, <3>2, <3>3 DEF Between
    <3> QED BY <3>1, <3>4
  <2>2. CASE l # m
    <3>1. l \in 1 .. k /\ l \in 0 .. m /\ l + 1 \in 0 .. m BY <1>4, <2>2
    <3>2. PICK x \in Nat, y \in Nat : x = a[l] /\ y = a[l + 1] BY <1>8, <3>1
    <3>3. PICK v : v = segs[l] OBVIOUS
    <3>4. Between(v, t, x, y) BY <3>1, <3>2, <3>3 DEF JoinedTo
    <3>5. Len(v) = (y - x) - 1 /\ \A i \in 1 .. Len(v) : v[i] = t[x + i] BY <3>4 DEF Between
    <3>6. y <= lt + 1 BY <1>12, <3>1, <3>2
    <3>7. ASSUME NEW i \in 1 .. Len(v) PROVE v[i] = u[x + i]
      <4>1. i \in 1 .. (y - x) - 1 BY <3>5
      <4>2. x + i \in 1 .. lt BY <3>6, <4>1
      <4>3. u[x + i] = t[x + i] BY <1>2, <4>2 DEF Lengthened
      <4> QED BY <3>5, <4>3
    <3>8. Between(v, u, x, y) BY <3>5, <3>7 DEF Between
    <3>9. b[l] = x /\ b[l + 1] = y BY <1>7, <3>1, <3>2
    <3> QED BY <3>3, <3>8, <3>9
  <2> QED BY <2>1, <2>2
<1>18. JoinedTo(u, m, b, segs) BY <1>11, <1>16, <1>17 DEF JoinedTo
<1> QED BY <1>4, <1>18

\* No segment, no slash.
LEMMA JoinNone == ASSUME NEW segs PROVE \E a : JoinedTo(<<>>, 0, a, segs)
<1>1. PICK a : a = [l \in 0 .. 0 + 1 |-> l] OBVIOUS
<1>2. <<>> \in Seq(Char) /\ Len(<<>>) = 0 OBVIOUS
<1>3. PICK t \in Seq(Char) : t = <<>> /\ Len(t) = 0 BY <1>2
<1>4. a \in [0 .. 0 + 1 -> Nat] BY <1>1
<1>5. a[0] = 0 /\ a[0 + 1] = 0 + 1 /\ a[1] = 1 BY <1>1
<1>6. \A k, l \in 0 .. 0 + 1 : k < l => a[k] < a[l] BY <1>1
<1>7. IsCut(t, 0, a) BY <1>3, <1>4, <1>5, <1>6 DEF IsCut
<1>8. JoinedTo(t, 0, a, segs) BY <1>5, <1>7 DEF JoinedTo
<1> QED BY <1>3, <1>8

\* The function that FlattenSeq defines.
IsFlat(h, n, q) == h = [i \in 1 .. n |-> IF i = 1 THEN q[i] ELSE h[i - 1] \o q[i]]

FlatAt(h, q, i) == h[i] = IF i = 1 THEN q[i] ELSE h[i - 1] \o q[i]

\* One step of that function.
LEMMA FlatUnfolds ==
    ASSUME NEW h, NEW n, NEW q, IsFlat(h, n, q), NEW i \in 1 .. n
    PROVE  FlatAt(h, q, i)
<1> DEFINE g == [j \in 1 .. n |-> IF j = 1 THEN q[j] ELSE h[j - 1] \o q[j]]
<1>1. h = g BY DEF IsFlat
<1>2. g[i] = IF i = 1 THEN q[i] ELSE h[i - 1] \o q[i] OBVIOUS
<1> HIDE DEF g
<1>3. h[i] = g[i] BY <1>1
<1> QED BY <1>2, <1>3 DEF FlatAt

\* There is one, however long the sequence is.
LEMMA FlatExists == ASSUME NEW q, NEW m \in Nat PROVE \E h : IsFlat(h, m, q)
<1> DEFINE T == {n \in Nat : \E h : IsFlat(h, n, q)}
<1>1. 0 \in T
  <2>1. PICK h : h = [i \in 1 .. 0 |-> q[i]] OBVIOUS
  <2>2. h = [i \in 1 .. 0 |-> IF i = 1 THEN q[i] ELSE h[i - 1] \o q[i]]
    <3>1. \A i \in 1 .. 0 : FALSE OBVIOUS
    <3> QED BY <2>1, <3>1
  <2>3. IsFlat(h, 0, q) BY <2>2 DEF IsFlat
  <2> QED BY <2>3
<1>2. ASSUME NEW n \in Nat, n \in T PROVE n + 1 \in T
  <2>1. PICK h : IsFlat(h, n, q) BY <1>2
  <2>2. PICK k \in Nat : k = n + 1 OBVIOUS
  <2>3. PICK z : z = IF k = 1 THEN q[k] ELSE h[k - 1] \o q[k] OBVIOUS
  <2>4. PICK g : g = [i \in 1 .. k |-> IF i = k THEN z ELSE h[i]] OBVIOUS
  <2>5. ASSUME NEW i \in 1 .. k PROVE g[i] = IF i = 1 THEN q[i] ELSE g[i - 1] \o q[i]
    <3>1. i # 1 => g[i - 1] = h[i - 1]
      <4>1. i # 1 => i - 1 \in 1 .. k /\ i - 1 # k BY <2>2
      <4> QED BY <2>4, <4>1
    <3>2. CASE i = k
      <4>1. g[i] = z BY <2>4, <3>2
      <4> QED BY <2>3, <3>1, <3>2, <4>1
    <3>3. CASE i # k
      <4>1. i \in 1 .. n BY <2>2, <3>3
      <4>2. g[i] = h[i] BY <2>4, <3>3
      <4>3. h[i] = IF i = 1 THEN q[i] ELSE h[i - 1] \o q[i] BY <2>1, <4>1, FlatUnfolds DEF FlatAt
      <4> QED BY <3>1, <4>2, <4>3
    <3> QED BY <3>2, <3>3
  <2>6. g = [i \in 1 .. k |-> g[i]] BY <2>4
  <2>7. g = [i \in 1 .. k |-> IF i = 1 THEN q[i] ELSE g[i - 1] \o q[i]] BY <2>5, <2>6
  <2>8. IsFlat(g, k, q) BY <2>7 DEF IsFlat
  <2> QED BY <2>2, <2>8
<1>3. \A n \in Nat : n \in T
  <2> HIDE DEF T
  <2> QED BY <1>1, <1>2, Induction
<1> QED BY <1>3

\* Segments without slashes.
Segs(segs) == segs \in Seq(Seq(Char)) /\ \A k \in 1 .. Len(segs) : SlashFree(segs[k])

\* Join makes of n segments what is cut into them again.
LEMMA JoinIs ==
    ASSUME NEW segs, Segs(segs), segs # <<>>
    PROVE  \E a : JoinedTo(Join(segs), Len(segs), a, segs)
<1>1. segs \in Seq(Seq(Char)) BY DEF Segs
<1>2. PICK n \in Nat : n = Len(segs) BY <1>1
<1>3. n # 0 /\ DOMAIN segs = 1 .. n BY <1>1, <1>2
<1>4. \A k \in 1 .. n : segs[k] \in Seq(Char) /\ SlashFree(segs[k]) BY <1>1, <1>2 DEF Segs
<1>5. "/" \in Char /\ <<"/">> \in Seq(Char) BY CharAssumption
<1>6. PICK q : q = [i \in DOMAIN segs |-> <<"/">> \o segs[i]] OBVIOUS
<1>7. \A k \in 1 .. n : q[k] = <<"/">> \o segs[k] /\ q[k] \in Seq(Char)
  <2> TAKE k \in 1 .. n
  <2>1. q[k] = <<"/">> \o segs[k] BY <1>3, <1>6
  <2>2. PICK z \in Seq(Char), g \in Seq(Char) : z = <<"/">> /\ g = segs[k] BY <1>4, <1>5
  <2>3. z \o g \in Seq(Char) BY SplicedBy
  <2> QED BY <2>1, <2>2, <2>3
<1>8. q \in [1 .. n -> Seq(Char)]
  <2>1. q = [k \in 1 .. n |-> q[k]] BY <1>3, <1>6
  <2> QED BY <1>7, <2>1
<1>9. q \in Seq(Seq(Char)) /\ Len(q) = n BY <1>8, FunctionIsSeq
<1> DEFINE h == CHOOSE h : IsFlat(h, n, q)
<1>10. IsFlat(h, n, q) BY FlatExists
<1>11. Join(segs) = h[n]
  <2>1. Join(segs) = FlattenSeq(q) BY <1>6 DEF Join
  <2>2. FlattenSeq(q) = h[n] BY <1>3, <1>9 DEF FlattenSeq, IsFlat
  <2> QED BY <2>1, <2>2
<1> HIDE DEF h
<1> DEFINE T == {k \in Nat : k \in 1 .. n => \E a : JoinedTo(h[k], k, a, segs)}
<1>12. 0 \in T OBVIOUS
<1>13. ASSUME NEW k \in Nat, k \in T PROVE k + 1 \in T
  <2> SUFFICES ASSUME k + 1 \in 1 .. n PROVE \E a : JoinedTo(h[k + 1], k + 1, a, segs)
    OBVIOUS
  <2>1. PICK m \in 1 .. n : m = k + 1 /\ m - 1 = k OBVIOUS
  <2>2. PICK g \in Seq(Char) : g = segs[k + 1] /\ SlashFree(g) BY <1>4, <2>1
  <2>3. PICK t \in Seq(Char) :
            /\ \E a : JoinedTo(t, k, a, segs)
            /\ h[k + 1] = t \o (<<"/">> \o g)
    <3>1. FlatAt(h, q, m) BY <1>10, FlatUnfolds
    <3>2. h[m] = IF m = 1 THEN q[m] ELSE h[m - 1] \o q[m] BY <3>1 DEF FlatAt
    <3>3. q[m] = <<"/">> \o g /\ q[m] \in Seq(Char) BY <1>7, <2>1, <2>2
    <3>4. CASE k = 0
      <4>1. PICK a : JoinedTo(<<>>, 0, a, segs) BY JoinNone
      <4>2. <<>> \in Seq(Char) BY <4>1 DEF JoinedTo
      <4>3. h[m] = q[m] BY <2>1, <3>2, <3>4
      <4>4. PICK v \in Seq(Char) : v = q[m] BY <3>3
      <4>5. <<>> \o v = v BY ConcatEmptySeq
      <4>6. h[k + 1] = <<>> \o (<<"/">> \o g) BY <2>1, <3>3, <4>3, <4>4, <4>5
      <4> QED BY <3>4, <4>1, <4>2, <4>6
    <3>5. CASE k # 0
      <4>1. k \in 1 .. n BY <2>1, <3>5
      <4>2. PICK a : JoinedTo(h[k], k, a, segs) BY <1>13, <4>1
      <4>3. h[k] \in Seq(Char) BY <4>2 DEF JoinedTo
      <4>4. m # 1 BY <2>1, <3>5
      <4>5. h[k + 1] = h[k] \o (<<"/">> \o g) BY <2>1, <3>2, <3>3, <4>4
      <4> QED BY <4>2, <4>3, <4>5
    <3> QED BY <3>4, <3>5
  <2>4. PICK a : JoinedTo(t, k, a, segs) BY <2>3
  <2>5. PICK u : u = t \o (<<"/">> \o g) OBVIOUS
  <2>6. u \in Seq(Char) /\ Lengthened(u, t, g) BY <2>5, LengthenedBy
  <2>7. \E b : JoinedTo(u, k + 1, b, segs) BY <2>2, <2>6, <2>4, JoinNext
  <2> QED BY <2>3, <2>5, <2>7
<1>14. \A k \in Nat : k \in T
  <2> HIDE DEF T
  <2> QED BY <1>12, <1>13, Induction
<1>15. n \in 1 .. n BY <1>3
<1>16. \E a : JoinedTo(h[n], n, a, segs) BY <1>14, <1>15
<1> QED BY <1>2, <1>11, <1>16

\* What Join makes of segments without slashes is split into them, behind an
\* empty piece.
LEMMA SplitJoin ==
    ASSUME NEW segs, Segs(segs), segs # <<>>
    PROVE  /\ Join(segs) \in Seq(Char)
           /\ Split[Join(segs)] \in Seq(Seq(Char)) /\ Len(Split[Join(segs)]) = Len(segs) + 1
           /\ Split[Join(segs)][1] = <<>>
           /\ \A k \in 1 .. Len(segs) : Split[Join(segs)][k + 1] = segs[k]
<1>1. PICK n \in Nat : n = Len(segs) BY DEF Segs
<1>2. PICK P : P = Join(segs) OBVIOUS
<1>3. PICK a : JoinedTo(P, n, a, segs) BY <1>1, <1>2, JoinIs
<1>4. P \in Seq(Char) /\ IsCut(P, n, a) /\ a[1] = 1 BY <1>3 DEF JoinedTo
<1>5. PICK ps : ps = Pieces(P, n, a) OBVIOUS
<1>6. Split[P] = ps BY <1>4, <1>5, SplitIs
<1>7. /\ ps \in Seq(Seq(Char)) /\ Len(ps) = n + 1
      /\ \A k \in 1 .. n + 1 : ps[k] \in Seq(Char) /\ Between(ps[k], P, a[k - 1], a[k])
  BY <1>4, <1>5, PiecesAre
<1>8. ps[1] = <<>>
  <2>1. 1 \in 1 .. n + 1 /\ 1 - 1 = 0 OBVIOUS
  <2>2. PICK v \in Seq(Char) : v = ps[1] /\ Between(v, P, a[0], a[1])
    <3>1. Between(ps[1], P, a[1 - 1], a[1]) BY <1>7, <2>1
    <3>2. ps[1] \in Seq(Char) BY <1>7, <2>1
    <3> QED BY <2>1, <3>1, <3>2
  <2>3. a[0] = 0 BY <1>4 DEF IsCut
  <2>4. Len(v) = (1 - 0) - 1 BY <1>4, <2>2, <2>3 DEF Between
  <2>5. Len(v) = 0 BY <2>4
  <2>6. v = <<>> BY <2>5
  <2> QED BY <2>2, <2>6
<1>9. ASSUME NEW k \in 1 .. n PROVE ps[k + 1] = segs[k]
  <2>1. k + 1 \in 1 .. n + 1 /\ (k + 1) - 1 = k OBVIOUS
  <2>2. PICK x, y : x = a[k] /\ y = a[k + 1] OBVIOUS
  <2>3. PICK v \in Seq(Char) : v = ps[k + 1] /\ Between(v, P, x, y)
    <3>1. Between(ps[k + 1], P, a[(k + 1) - 1], a[k + 1]) /\ ps[k + 1] \in Seq(Char)
      BY <1>7, <2>1
    <3> QED BY <2>1, <2>2, <3>1
  <2>4. PICK g \in Seq(Char) : g = segs[k] /\ Between(g, P, x, y)
    BY <1>1, <1>3, <2>2 DEF JoinedTo, Segs
  <2>5. Len(v) = Len(g) /\ \A i \in 1 .. Len(v) : v[i] = g[i] BY <2>3, <2>4 DEF Between
  <2>6. v = g BY <2>5, SeqEqual
  <2> QED BY <2>3, <2>4, <2>6
<1> QED BY <1>1, <1>2, <1>4, <1>6, <1>7, <1>8, <1>9

\* Every character of what is joined is a slash or one of a segment's.
LEMMA JoinedPlace ==
    ASSUME NEW segs, NEW n, NEW P, NEW a, JoinedTo(P, n, a, segs),
           NEW i \in 1 .. Len(P), P[i] # "/"
    PROVE  \E k \in 1 .. n : \E j \in 1 .. Len(segs[k]) : i = a[k] + j /\ P[i] = segs[k][j]
<1>1. P \in Seq(Char) /\ IsCut(P, n, a) /\ n \in Nat /\ a[1] = 1 BY DEF JoinedTo, IsCut
<1>2. PICK p \in Nat : p = Len(P) BY <1>1
<1>3. i \in Nat /\ i >= 1 /\ i <= p BY <1>2
<1>4. \A k \in 0 .. n + 1 : a[k] \in Nat BY <1>1 DEF IsCut
<1>5. a[n + 1] = p + 1 BY <1>1, <1>2 DEF IsCut
<1> DEFINE T == {k \in Nat : k \in 1 .. n + 1 /\ i <= a[k]}
<1>6. T \in SUBSET Nat /\ n + 1 \in T
  <2>1. n + 1 \in Nat /\ n + 1 \in 1 .. n + 1 /\ i <= p + 1 BY <1>1, <1>2, <1>3
  <2> QED BY <1>5, <2>1
<1>7. PICK l \in T : \A k \in T : l <= k
  <2> HIDE DEF T
  <2> QED BY <1>6, LeastNat
<1>8. l \in 1 .. n + 1 /\ i <= a[l] BY <1>7
<1>9. i # a[l]
  <2>1. l \in 1 .. n => P[a[l]] = "/" BY <1>1 DEF IsCut
  <2>2. l = n + 1 => a[l] # i BY <1>2, <1>3, <1>5
  <2>3. l \in 1 .. n \/ l = n + 1 BY <1>1, <1>8
  <2> QED BY <2>1, <2>2, <2>3
<1>10. l # 1 BY <1>1, <1>3, <1>8, <1>9
<1>11. PICK k \in 1 .. n : l = k + 1
  <2>1. l - 1 \in 1 .. n /\ l = (l - 1) + 1 BY <1>1, <1>8, <1>10
  <2> QED BY <2>1
<1>12. k \in 0 .. n + 1 /\ k + 1 \in 0 .. n + 1 /\ k \in 1 .. n + 1 /\ ~(l <= k) /\ k \in Nat
  BY <1>1, <1>11
<1>13. PICK x \in Nat, y \in Nat : x = a[k] /\ y = a[k + 1] BY <1>4, <1>12
<1>14. x < i /\ i < y
  <2>1. k \notin T BY <1>7, <1>12
  <2>2. ~(i <= x) BY <1>12, <1>13, <2>1
  <2>3. i <= y /\ i # y BY <1>8, <1>9, <1>11, <1>13
  <2> QED BY <1>3, <2>2, <2>3
<1>15. PICK g : g = segs[k] OBVIOUS
<1>16. Between(g, P, x, y) BY <1>13, <1>15 DEF JoinedTo
<1>17. Len(g) = (y - x) - 1 /\ \A j \in 1 .. Len(g) : g[j] = P[x + j] BY <1>16 DEF Between
<1>18. i - x \in 1 .. (y - x) - 1 /\ i = x + (i - x) BY <1>3, <1>14
<1>19. PICK j \in 1 .. Len(g) : i = x + j BY <1>17, <1>18
<1>20. P[i] = g[j] BY <1>17, <1>19
<1> QED BY <1>13, <1>15, <1>19, <1>20

(***************************************************************************)
(* What the resolution of dots makes of a decoded path                     *)
(***************************************************************************)
\* A string without escapes is left as it is.
LEMMA Undisturbed ==
    ASSUME NEW s \in Seq(Char), Harmless(s), \A i \in 1 .. Len(s) : s[i] # "%"
    PROVE  Decoded(s) = s
<1>1. PICK n \in Nat : n = Len(s) OBVIOUS
<1>2. \A i : i \in Shown(s) <=> i \in 1 .. n BY <1>1 DEF Shown, Hidden
<1>3. PICK e : e = [k \in 1 .. n |-> k] OBVIOUS
<1>4. e \in [1 .. n -> Nat] BY <1>3
<1>5. e \in Seq(Nat) /\ Len(e) = n BY <1>4, FunctionIsSeq
<1>6. \A k \in 1 .. n : e[k] = k BY <1>3
<1>7. Ascends(e, Shown(s)) BY <1>2, <1>5, <1>6 DEF Ascends
<1>8. PICK d : d = Decoded(s) OBVIOUS
<1>9. d \in Seq(Char) /\ Len(d) = n BY <1>5, <1>7, <1>8, DecodedSeq
<1>10. \A k \in 1 .. n : d[k] = s[k]
  <2> TAKE k \in 1 .. n
  <2>1. d[k] = Undone(s, e[k]) BY <1>5, <1>7, <1>8, DecodedSeq
  <2>2. Undone(s, k) = s[k] BY <1>1 DEF Undone
  <2> QED BY <1>6, <2>1, <2>2
<1>11. d = s BY <1>1, <1>9, <1>10, SeqEqual
<1> QED BY <1>8, <1>11

\* An escape leaves its mark.
LEMMA EscapeShows ==
    ASSUME NEW s \in Seq(Char), Harmless(s), NEW i \in 1 .. Len(s), s[i] = "%"
    PROVE  \E k \in 1 .. Len(Decoded(s)) : Decoded(s)[k] = "g"
<1>1. Len(s) \in Nat /\ "%" \notin Hex BY DEF Hex
<1>2. ASSUME i - 1 \in 1 .. Len(s), s[i - 1] = "%" PROVE FALSE
  <2>1. s[(i - 1) + 1] \in Hex BY <1>2 DEF Harmless, Mark
  <2>2. (i - 1) + 1 = i BY <1>1
  <2> QED BY <1>1, <2>1, <2>2
<1>3. ASSUME i - 2 \in 1 .. Len(s), s[i - 2] = "%" PROVE FALSE
  <2>1. s[(i - 2) + 2] \in Hex BY <1>3 DEF Harmless, Mark
  <2>2. (i - 2) + 2 = i BY <1>1
  <2> QED BY <1>1, <2>1, <2>2
<1>4. i \in Shown(s) BY <1>2, <1>3 DEF Shown, Hidden
<1>5. PICK e : Ascends(e, Shown(s)) BY ShownAscends
<1>6. PICK k \in 1 .. Len(e) : e[k] = i BY <1>4, <1>5 DEF Ascends
<1>7. Decoded(s)[k] = Undone(s, e[k]) /\ Len(Decoded(s)) = Len(e) BY <1>5, DecodedSeq
<1>8. Undone(s, i) = "g" BY DEF Undone
<1> QED BY <1>6, <1>7, <1>8

Dots == {<<>>, <<".">>, <<".", ".">>}

\* They hold nothing else.
LEMMA DotsAreDots == ASSUME NEW d \in Dots, NEW i \in 1 .. Len(d) PROVE d[i] = "."
<1>1. CASE d = <<>> BY <1>1
<1>2. CASE d = <<".">> BY <1>2
<1>3. CASE d = <<".", ".">> BY <1>3
<1> QED BY <1>1, <1>2, <1>3 DEF Dots

\* No escape spells nothing, a dot or two dots.
LEMMA NoHiddenDots ==
    ASSUME NEW s \in Seq(Char), Harmless(s)
    PROVE  (Decoded(s) \in Dots \/ s \in Dots) => Decoded(s) = s
<1>1. ASSUME Decoded(s) \in Dots PROVE \A i \in 1 .. Len(s) : s[i] # "%"
  <2> SUFFICES ASSUME NEW i \in 1 .. Len(s), s[i] = "%" PROVE FALSE OBVIOUS
  <2>1. PICK d : d = Decoded(s) OBVIOUS
  <2>2. PICK k \in 1 .. Len(d) : d[k] = "g" BY <2>1, EscapeShows
  <2>3. d[k] = "." BY <1>1, <2>1, DotsAreDots
  <2> QED BY <2>2, <2>3
<1>2. ASSUME s \in Dots PROVE \A i \in 1 .. Len(s) : s[i] # "%" BY <1>2, DotsAreDots
<1> QED BY <1>1, <1>2, Undisturbed

\* The places of the parts that are not empty.
Full(parts) == {i \in DOMAIN parts : parts[i] # <<>>}

\* Without dots among the parts there is nothing to resolve.
LEMMA NothingToResolve ==
    ASSUME NEW parts \in Seq(Seq(Char)),
           \A i \in 1 .. Len(parts) : parts[i] # <<".">> /\ parts[i] # <<".", ".">>
    PROVE  DotFree[parts] = [ok |-> TRUE, segments |-> Picked(parts, Full(parts))]
<1>1. DOMAIN parts = 1 .. Len(parts) OBVIOUS
<1> DEFINE up    == {i \in DOMAIN parts : parts[i] = <<".", ".">>}
           named == {i \in DOMAIN parts : parts[i] \notin {<<>>, <<".">>, <<".", ".">>}}
           Depth(i) == Cardinality({j \in named : j <= i}) - Cardinality({j \in up : j <= i})
           stays == {i \in named : \A j \in up : j > i => Depth(j) >= Depth(i)}
<1>2. DotFree[parts] = [ok |-> \A i \in up : Depth(i) >= 0, segments |-> Picked(parts, stays)]
  BY DEF DotFree
<1>3. \A i : i \notin up BY <1>1
<1>4. \A i : i \in named <=> i \in Full(parts) BY <1>1 DEF Full
<1>5. stays = Full(parts)
  <2> HIDE DEF up, named, Depth
  <2> QED BY <1>3, <1>4
<1> HIDE DEF up, named, Depth, stays
<1>6. (\A i \in up : Depth(i) >= 0) = TRUE BY <1>3
<1> QED BY <1>2, <1>5, <1>6

\* The segments that are left are among the parts, and no dots.
LEMMA DotsAreGone ==
    ASSUME NEW parts \in Seq(Seq(Char)), NEW segs, segs = DotFree[parts].segments
    PROVE  /\ segs \in Seq(Seq(Char))
           /\ \A k \in 1 .. Len(segs) :
                  segs[k] \notin Dots /\ \E i \in 1 .. Len(parts) : segs[k] = parts[i]
<1>1. DOMAIN parts = 1 .. Len(parts) OBVIOUS
<1> DEFINE up    == {i \in DOMAIN parts : parts[i] = <<".", ".">>}
           named == {i \in DOMAIN parts : parts[i] \notin {<<>>, <<".">>, <<".", ".">>}}
           Depth(i) == Cardinality({j \in named : j <= i}) - Cardinality({j \in up : j <= i})
           stays == {i \in named : \A j \in up : j > i => Depth(j) >= Depth(i)}
<1>2. segs = Picked(parts, stays) BY DEF DotFree
<1>3. \A i \in stays : i \in 1 .. Len(parts) /\ parts[i] \notin Dots
  <2>1. \A i \in named : i \in 1 .. Len(parts) /\ parts[i] \notin Dots BY <1>1 DEF Dots
  <2> HIDE DEF up, named, Depth
  <2> QED BY <2>1
<1> HIDE DEF up, named, Depth, stays
<1>4. Chosen(parts, stays) BY <1>3 DEF Chosen
<1>5. PICK e : Ascends(e, stays) BY <1>4, PlacesAscend
<1>6. segs = Image(parts, e) BY <1>2, <1>4, <1>5, PickedBy
<1>7. PICK n \in Nat : n = Len(e) BY <1>5 DEF Ascends
<1>8. segs = [k \in 1 .. n |-> parts[e[k]]] BY <1>6, <1>7 DEF Image
<1>9. \A k \in 1 .. n : e[k] \in 1 .. Len(parts) /\ parts[e[k]] \notin Dots
  BY <1>3, <1>5, <1>7 DEF Ascends
<1>10. \A k \in 1 .. n : parts[e[k]] \in Seq(Char) BY <1>9
<1>11. segs \in [1 .. n -> Seq(Char)] BY <1>8, <1>10
<1>12. segs \in Seq(Seq(Char)) /\ Len(segs) = n BY <1>11, FunctionIsSeq
<1>13. ASSUME NEW k \in 1 .. n
       PROVE  segs[k] \notin Dots /\ \E i \in 1 .. Len(parts) : segs[k] = parts[i]
  <2>1. segs[k] = parts[e[k]] BY <1>8
  <2> QED BY <1>9, <2>1
<1> QED BY <1>12, <1>13

\* A decoded path has no backslash.
LEMMA NoBackslash ==
    ASSUME NEW s \in Seq(Char), Harmless(s), NEW i \in 1 .. Len(Decoded(s))
    PROVE  Decoded(s)[i] # "\\"
<1>1. PICK e : Ascends(e, Shown(s)) BY ShownAscends
<1>2. i \in 1 .. Len(e) BY <1>1, DecodedSeq
<1>3. Decoded(s)[i] = Undone(s, e[i]) BY <1>1, <1>2, DecodedSeq
<1>4. e[i] \in 1 .. Len(s) BY <1>1, <1>2 DEF Ascends, Shown
<1>5. s[e[i]] # "\\" BY <1>4 DEF Harmless
<1> QED BY <1>3, <1>5 DEF Undone

\* What a server finds behind a harmless path without dots are the segments
\* that are named in it, decoded.
LEMMA ServerFinds ==
    ASSUME NEW s \in Seq(Char), Harmless(s),
           \A i \in 1 .. Len(Split[s]) : /\ Harmless(Split[s][i])
                                         /\ Split[s][i] # <<".">> /\ Split[s][i] # <<".", ".">>,
           NEW w, w = Picked(Split[s], Full(Split[s]))
    PROVE  LET text == Decoded(s)
           IN  RemoveDotSegments([i \in DOMAIN text |->
                                      IF text[i] = "\\" THEN "/" ELSE text[i]])
                   = [ok |-> TRUE, segments |-> [i \in DOMAIN w |-> Decoded(w[i])]]
<1>1. PICK text \in Seq(Char) : text = Decoded(s) BY SplitCommutesWithDecoding
<1>2. [i \in DOMAIN text |-> IF text[i] = "\\" THEN "/" ELSE text[i]] = text
  <2>1. DOMAIN text = 1 .. Len(text) OBVIOUS
  <2>2. \A i \in DOMAIN text : text[i] # "\\" BY <1>1, <2>1, NoBackslash
  <2>3. text = [i \in DOMAIN text |-> text[i]] OBVIOUS
  <2> QED BY <2>2, <2>3
<1>3. PICK ps \in Seq(Seq(Char)) : ps = Split[s] BY SplitCommutesWithDecoding
<1>4. PICK n \in Nat : n = Len(ps) BY <1>3
<1>5. DOMAIN ps = 1 .. n /\ \A i \in 1 .. n : ps[i] \in Seq(Char) BY <1>3, <1>4
<1>6. \A i \in 1 .. n : Harmless(ps[i]) /\ ps[i] # <<".">> /\ ps[i] # <<".", ".">>
  BY <1>3, <1>4
<1>7. PICK ds : ds = Split[text] OBVIOUS
<1>8. ds = [i \in 1 .. n |-> Decoded(ps[i])]
  BY <1>1, <1>3, <1>5, <1>7, SplitCommutesWithDecoding
<1>9. \A i \in 1 .. n : Decoded(ps[i]) \in Seq(Char)
  BY <1>5, <1>6, SplitCommutesWithDecoding
<1>10. ds \in [1 .. n -> Seq(Char)] BY <1>8, <1>9
<1>11. ds \in Seq(Seq(Char)) /\ Len(ds) = n BY <1>10, FunctionIsSeq
<1>12. ASSUME NEW i \in 1 .. n
       PROVE  /\ ds[i] = Decoded(ps[i]) /\ ds[i] # <<".">> /\ ds[i] # <<".", ".">>
              /\ ds[i] = <<>> <=> ps[i] = <<>>
  <2>1. PICK p \in Seq(Char) : p = ps[i] BY <1>5
  <2>2. (Decoded(p) \in Dots \/ p \in Dots) => Decoded(p) = p BY <1>6, <2>1, NoHiddenDots
  <2>3. ds[i] = Decoded(p) BY <1>8, <2>1
  <2>4. p # <<".">> /\ p # <<".", ".">> BY <1>6, <2>1
  <2>5. PICK d : d = Decoded(p) OBVIOUS
  <2>6. d # <<".">> /\ d # <<".", ".">> BY <2>2, <2>4, <2>5 DEF Dots
  <2>7. d = <<>> <=> p = <<>> BY <2>2, <2>5 DEF Dots
  <2> QED BY <2>1, <2>3, <2>5, <2>6, <2>7
<1>13. DotFree[ds] = [ok |-> TRUE, segments |-> Picked(ds, Full(ds))]
  BY <1>11, <1>12, NothingToResolve
<1>14. Full(ds) = Full(ps)
  <2>1. DOMAIN ds = 1 .. n BY <1>10
  <2> QED BY <1>5, <1>12, <2>1 DEF Full
<1>15. Chosen(ps, Full(ps)) /\ Chosen(ds, Full(ps))
  BY <1>4, <1>5, <1>11 DEF Chosen, Full
<1>16. PICK e : Ascends(e, Full(ps)) BY <1>15, PlacesAscend
<1>17. Picked(ps, Full(ps)) = Image(ps, e) /\ Picked(ds, Full(ps)) = Image(ds, e)
  BY <1>11, <1>15, <1>16, PickedBy
<1>18. PICK m \in Nat : m = Len(e) BY <1>16 DEF Ascends
<1>19. \A k \in 1 .. m : e[k] \in 1 .. n BY <1>5, <1>16, <1>18 DEF Ascends, Full
<1>20. w = [k \in 1 .. m |-> ps[e[k]]] BY <1>3, <1>17, <1>18 DEF Image
<1>21. Picked(ds, Full(ps)) = [k \in 1 .. m |-> ds[e[k]]] BY <1>17, <1>18 DEF Image
<1>22. DOMAIN w = 1 .. m /\ \A k \in 1 .. m : Decoded(w[k]) = ds[e[k]]
  BY <1>12, <1>19, <1>20
<1>23. Picked(ds, Full(ps)) = [k \in DOMAIN w |-> Decoded(w[k])] BY <1>21, <1>22
<1>24. RemoveDotSegments(text) = [ok |-> TRUE, segments |-> [i \in DOMAIN w |-> Decoded(w[i])]]
  BY <1>7, <1>13, <1>14, <1>23 DEF RemoveDotSegments
<1> QED BY <1>1, <1>2, <1>24

(***************************************************************************)
(* canonical_request_target                                                *)
(***************************************************************************)
Free(s, c) == \A i \in 1 .. Len(s) : s[i] # c

\* What stands before the first c, and from it on.
LEMMA BeforeAndAfter ==
    ASSUME NEW s \in Seq(Char), NEW c, NEW u, NEW v, u = Before(s, c), v = After(s, c)
    PROVE  /\ u \in Seq(Char) /\ v \in Seq(Char) /\ Free(u, c)
           /\ v = <<>> \/ v[1] = c
           /\ \A i \in 1 .. Len(u) : i \in 1 .. Len(s) /\ u[i] = s[i]
<1>1. PICK ls \in Nat : ls = Len(s) OBVIOUS
<1>2. PICK n : FirstAt(s, c, n) BY FirstExists
<1>3. n \in Nat /\ n <= ls BY <1>1, <1>2 DEF FirstAt
<1>4. u = SubSeq(s, 1, n) BY <1>2, BeforeIs
<1>5. PICK y \in Nat, z \in Nat : y = n + 1 /\ z = ls + 1 /\ 0 < y /\ y <= z /\ y - 1 = n /\ z - 1 = ls
  <2>1. n + 1 \in Nat /\ ls + 1 \in Nat /\ 0 < n + 1 /\ n + 1 <= ls + 1
        /\ (n + 1) - 1 = n /\ (ls + 1) - 1 = ls
    BY <1>3
  <2> QED BY <2>1
<1>6. u \in Seq(Char) /\ Between(u, s, 0, y)
  <2>1. u = SubSeq(s, 0 + 1, y - 1) BY <1>4, <1>5
  <2> QED BY <1>1, <1>5, <2>1, SubSeqBetween
<1>7. Len(u) = n /\ \A i \in 1 .. n : u[i] = s[i]
  <2>1. Len(u) = (y - 0) - 1 /\ \A i \in 1 .. Len(u) : u[i] = s[0 + i] BY <1>6 DEF Between
  <2>2. Len(u) = n BY <1>5, <2>1
  <2>3. \A i \in 1 .. n : 0 + i = i OBVIOUS
  <2> QED BY <2>1, <2>2, <2>3
<1>8. Free(u, c) BY <1>2, <1>7 DEF FirstAt, Free
<1>9. \A i \in 1 .. n : i \in 1 .. ls BY <1>3
<1>10. v = SubSeq(s, n + 1, ls) BY <1>1, <1>7 DEF After
<1>11. n < z BY <1>3, <1>5
<1>12. v \in Seq(Char) /\ Between(v, s, n, z)
  <2>1. v = SubSeq(s, n + 1, z - 1) BY <1>5, <1>10
  <2> QED BY <1>1, <1>3, <1>5, <1>11, <2>1, SubSeqBetween
<1>13. v = <<>> \/ v[1] = c
  <2>1. Len(v) = (z - n) - 1 /\ \A i \in 1 .. Len(v) : v[i] = s[n + i] BY <1>12 DEF Between
  <2>2. CASE n = ls
    <3>1. Len(v) = 0 BY <1>5, <2>1, <2>2
    <3> QED BY <1>12, <3>1
  <2>3. CASE n # ls
    <3>1. 1 \in 1 .. Len(v) BY <1>3, <1>5, <2>1, <2>3
    <3>2. s[n + 1] = c BY <1>1, <1>2, <2>3 DEF FirstAt
    <3> QED BY <2>1, <3>1, <3>2
  <2> QED BY <2>2, <2>3
<1> QED BY <1>1, <1>6, <1>7, <1>8, <1>9, <1>12, <1>13

\* The path in front of the first c is found again behind it.
LEMMA BeforeFound ==
    ASSUME NEW u \in Seq(Char), NEW v \in Seq(Char), NEW c, Free(u, c), v = <<>> \/ v[1] = c
    PROVE  u \o v \in Seq(Char) /\ Before(u \o v, c) = u
<1>1. PICK w : w = u \o v OBVIOUS
<1>2. w \in Seq(Char) /\ Spliced(w, u, v) BY <1>1, SplicedBy
<1>3. PICK n \in Nat, k \in Nat, l \in Nat : n = Len(u) /\ k = Len(v) /\ l = Len(w) BY <1>2
<1>4. l = n + k /\ (\A i \in 1 .. n : w[i] = u[i]) /\ \A i \in 1 .. k : w[n + i] = v[i]
  BY <1>2, <1>3 DEF Spliced
<1>5. n \in 0 .. l BY <1>4
<1>6. n = l \/ w[n + 1] = c
  <2>1. CASE k = 0
    <3>1. n = l BY <1>4, <2>1
    <3> QED BY <3>1
  <2>2. CASE k # 0
    <3>1. 1 \in 1 .. k /\ v # <<>> BY <1>3, <2>2
    <3> QED BY <1>4, <3>1
  <2> QED BY <2>1, <2>2
<1>7. FirstAt(w, c, n) BY <1>3, <1>4, <1>5, <1>6 DEF FirstAt, Free
<1>8. Before(w, c) = SubSeq(w, 1, n) BY <1>2, <1>7, BeforeIs
<1>9. PICK y \in Nat : y = n + 1 /\ y - 1 = n /\ 0 < y /\ y <= l + 1 /\ n = (y - 0) - 1
  <2>1. n + 1 \in Nat /\ (n + 1) - 1 = n /\ 0 < n + 1 /\ n + 1 <= l + 1 /\ n = ((n + 1) - 0) - 1
    BY <1>4
  <2> QED BY <2>1
<1>10. Between(u, w, 0, y)
  <2>1. \A i \in 1 .. n : u[i] = w[0 + i] BY <1>4
  <2> QED BY <1>3, <1>9, <2>1 DEF Between
<1>11. u = SubSeq(w, 0 + 1, y - 1) BY <1>2, <1>3, <1>9, <1>10, BetweenIsSubSeq
<1>12. 0 + 1 = 1 OBVIOUS
<1> QED BY <1>1, <1>2, <1>8, <1>9, <1>11, <1>12

\* A segment a canonical path may hold.
Clean(seg) == SlashFree(seg) /\ Harmless(seg) /\ Free(seg, "?") /\ seg \notin Dots

\* What passes the checks of canonical_request_target is harmless.
LEMMA PassedIsHarmless ==
    ASSUME NEW given \in Seq(Char), Canonical(given).ok
    PROVE  Harmless(Before(given, "?"))
<1>1. PICK path : path = Before(given, "?") OBVIOUS
<1>2. /\ path \in Seq(Char) /\ \A i \in 1 .. Len(path) : i \in 1 .. Len(given) /\ path[i] = given[i]
  <2>1. PICK rest : rest = After(given, "?") OBVIOUS
  <2> QED BY <1>1, <2>1, BeforeAndAfter
<1>3. (\A i \in DOMAIN given : given[i] \notin Illegal) /\ ~BadPercent(path)
  BY <1>1 DEF Canonical
<1>4. DOMAIN given = 1 .. Len(given) /\ DOMAIN path = 1 .. Len(path) BY <1>2
<1>5. ASSUME NEW i \in 1 .. Len(path) PROVE path[i] # "\\" /\ (path[i] = "%" => Mark(path, i))
  <2>1. path[i] # "\\" BY <1>2, <1>3, <1>4 DEF Illegal
  <2>2. path[i] = "%" => ~Malformed(path, i) /\ Escape(path, i) \notin Escapes
    BY <1>3, <1>4 DEF BadPercent
  <2>3. path[i] = "%" => Mark(path, i) BY <1>2, <2>2, MarkIs
  <2> QED BY <2>1, <2>3
<1> QED BY <1>1, <1>5 DEF Harmless

\* And so are the pieces of a harmless string, which hold no new character.
LEMMA PiecesAreClean ==
    ASSUME NEW s \in Seq(Char), Harmless(s)
    PROVE  /\ Split[s] \in Seq(Seq(Char))
           /\ \A k \in 1 .. Len(Split[s]) :
                  /\ SlashFree(Split[s][k]) /\ Harmless(Split[s][k])
                  /\ \A c : Free(s, c) => Free(Split[s][k], c)
<1>1. PICK m, a : IsCut(s, m, a) BY CutExists
<1>2. PICK ps : ps = Pieces(s, m, a) OBVIOUS
<1>3. Split[s] = ps BY <1>1, <1>2, SplitIs
<1>4. /\ ps \in Seq(Seq(Char)) /\ Len(ps) = m + 1
      /\ \A k \in 1 .. m + 1 : ps[k] \in Seq(Char) /\ Between(ps[k], s, a[k - 1], a[k])
  BY <1>1, <1>2, PiecesAre
<1>5. ASSUME NEW k \in 1 .. m + 1
      PROVE  SlashFree(ps[k]) /\ Harmless(ps[k]) /\ \A c : Free(s, c) => Free(ps[k], c)
  <2>1. PICK x, y : x = a[k - 1] /\ y = a[k] OBVIOUS
  <2>2. PieceEnds(s, x, y) BY <1>1, <2>1, CutPiece
  <2>3. PICK t \in Seq(Char) : t = ps[k] /\ Between(t, s, x, y) BY <1>4, <2>1
  <2>4. Harmless(t) BY <2>2, <2>3, PieceHarmless
  <2>5. x \in Nat /\ y \in Nat /\ x < y BY <2>2 DEF PieceEnds
  <2>6. Len(t) = (y - x) - 1 /\ \A i \in 1 .. Len(t) : t[i] = s[x + i] BY <2>3 DEF Between
  <2>7. ASSUME NEW i \in 1 .. Len(t)
        PROVE  x + i \in 1 .. Len(s) /\ s[x + i] # "/" /\ t[i] = s[x + i]
    <3>1. i \in 1 .. (y - x) - 1 BY <2>6
    <3>2. x + i \in Nat /\ x < x + i /\ x + i < y BY <2>5, <3>1
    <3> QED BY <2>2, <2>6, <3>2 DEF PieceEnds
  <2>8. SlashFree(t) BY <2>7 DEF SlashFree
  <2>9. \A c : Free(s, c) => Free(t, c) BY <2>7 DEF Free
  <2> QED BY <2>3, <2>4, <2>8, <2>9
<1> QED BY <1>3, <1>4, <1>5

\* Its segments are clean.
LEMMA CanonicalSegments ==
    ASSUME NEW given \in Seq(Char), Canonical(given).ok,
           NEW segs, segs = RemoveDotSegments(Before(given, "?")).segments
    PROVE  segs \in Seq(Seq(Char)) /\ \A k \in 1 .. Len(segs) : Clean(segs[k])
<1>1. PICK path \in Seq(Char) : path = Before(given, "?") /\ Free(path, "?")
  <2>1. PICK u, v : u = Before(given, "?") /\ v = After(given, "?") OBVIOUS
  <2>2. u \in Seq(Char) /\ Free(u, "?") BY <2>1, BeforeAndAfter
  <2> QED BY <2>1, <2>2
<1>2. Harmless(path) BY <1>1, PassedIsHarmless
<1>3. PICK ps \in Seq(Seq(Char)) : ps = Split[path] BY <1>2, PiecesAreClean
<1>4. segs = DotFree[ps].segments BY <1>1, <1>3 DEF RemoveDotSegments
<1>5. \A k \in 1 .. Len(ps) : SlashFree(ps[k]) /\ Harmless(ps[k]) /\ Free(ps[k], "?")
  BY <1>1, <1>2, <1>3, PiecesAreClean
<1>6. /\ segs \in Seq(Seq(Char))
      /\ \A k \in 1 .. Len(segs) :
             segs[k] \notin Dots /\ \E i \in 1 .. Len(ps) : segs[k] = ps[i]
  BY <1>4, DotsAreGone
<1> QED BY <1>5, <1>6 DEF Clean

\* The path that is made of no segment.
LEMMA JoinOfNone ==
    ASSUME NEW P, P = Join(<<>>)
    PROVE  /\ P \in Seq(Char) /\ Harmless(P) /\ Free(P, "?")
           /\ \A k \in 1 .. Len(Split[P]) : Split[P][k] = <<>>
<1>1. "/" \in Char BY CharAssumption
<1>2. P = <<"/">> BY DEF Join
<1>3. <<"/">> \in Seq(Char) /\ Len(<<"/">>) = 1 /\ <<"/">>[1] = "/" BY <1>1
<1>4. P \in Seq(Char) /\ Len(P) = 1 /\ P[1] = "/" BY <1>2, <1>3
<1>5. \A i \in 1 .. Len(P) : P[i] = "/" BY <1>4
<1>6. Harmless(P) BY <1>5 DEF Harmless
<1>7. Free(P, "?") BY <1>5 DEF Free
<1>8. PICK m, a : IsCut(P, m, a) BY <1>4, CutExists
<1>9. PICK ps : ps = Pieces(P, m, a) OBVIOUS
<1>10. Split[P] = ps BY <1>4, <1>8, <1>9, SplitIs
<1>11. /\ Len(ps) = m + 1
       /\ \A k \in 1 .. m + 1 : ps[k] \in Seq(Char) /\ Between(ps[k], P, a[k - 1], a[k])
  BY <1>4, <1>8, <1>9, PiecesAre
<1>12. ASSUME NEW k \in 1 .. m + 1 PROVE ps[k] = <<>>
  <2>1. PICK x, y : x = a[k - 1] /\ y = a[k] OBVIOUS
  <2>2. PieceEnds(P, x, y) BY <1>4, <1>8, <2>1, CutPiece
  <2>3. PICK t \in Seq(Char) : t = ps[k] /\ Between(t, P, x, y) BY <1>11, <2>1
  <2>4. ASSUME 1 \in 1 .. Len(t) PROVE FALSE
    <3>1. x \in Nat /\ y \in Nat BY <2>2 DEF PieceEnds
    <3>2. Len(t) = (y - x) - 1 BY <2>3 DEF Between
    <3>3. x + 1 \in Nat /\ x < x + 1 /\ x + 1 < y BY <2>4, <3>1, <3>2
    <3>4. x + 1 \in 1 .. Len(P) /\ P[x + 1] # "/" BY <2>2, <3>3 DEF PieceEnds
    <3> QED BY <1>5, <3>4
  <2>5. Len(t) = 0 BY <2>4
  <2>6. t = <<>> BY <2>5
  <2> QED BY <2>3, <2>6
<1> QED BY <1>4, <1>6, <1>7, <1>10, <1>11, <1>12

\* Segments that are clean make a harmless path.
LEMMA CleanJoin ==
    ASSUME NEW segs \in Seq(Seq(Char)), \A k \in 1 .. Len(segs) : Clean(segs[k]),
           NEW P, P = Join(segs)
    PROVE  /\ P \in Seq(Char) /\ Harmless(P) /\ Free(P, "?")
           /\ \A k \in 1 .. Len(Split[P]) :
                  /\ Harmless(Split[P][k])
                  /\ Split[P][k] # <<".">> /\ Split[P][k] # <<".", ".">>
<1>1. CASE segs = <<>>
  <2>1. /\ P \in Seq(Char) /\ Harmless(P) /\ Free(P, "?")
        /\ \A k \in 1 .. Len(Split[P]) : Split[P][k] = <<>>
    BY <1>1, JoinOfNone
  <2>2. Harmless(<<>>) BY DEF Harmless
  <2>3. <<>> # <<".">> /\ <<>> # <<".", ".">> OBVIOUS
  <2> QED BY <2>1, <2>2, <2>3
<1>2. CASE segs # <<>>
  <2>1. Segs(segs) BY DEF Segs, Clean
  <2>2. PICK n \in Nat : n = Len(segs) OBVIOUS
  <2>3. PICK a : JoinedTo(P, n, a, segs) BY <1>2, <2>1, <2>2, JoinIs
  <2>4. P \in Seq(Char) BY <2>3 DEF JoinedTo
  <2>5. \A k \in 1 .. n : segs[k] \in Seq(Char) /\ Clean(segs[k]) BY <2>2
  <2>6. ASSUME NEW i \in 1 .. Len(P)
        PROVE  P[i] # "?" /\ P[i] # "\\" /\ (P[i] = "%" => Mark(P, i))
    <3>1. CASE P[i] = "/" BY <3>1
    <3>2. CASE P[i] # "/"
      <4>1. PICK k \in 1 .. n : \E j \in 1 .. Len(segs[k]) : i = a[k] + j /\ P[i] = segs[k][j]
        BY <2>3, <3>2, JoinedPlace
      <4>2. PICK g \in Seq(Char) : g = segs[k] /\ Clean(g) BY <2>5
      <4>3. PICK j \in 1 .. Len(g) : i = a[k] + j /\ P[i] = g[j] BY <4>1, <4>2
      <4>4. P[i] # "?" /\ P[i] # "\\" BY <4>2, <4>3 DEF Clean, Free, Harmless
      <4>5. ASSUME P[i] = "%" PROVE Mark(P, i)
        <5>1. Mark(g, j) BY <4>2, <4>3, <4>5 DEF Clean, Harmless
        <5>2. PICK x, y : x = a[k] /\ y = a[k + 1] OBVIOUS
        <5>3. Between(g, P, x, y) BY <2>3, <4>2, <5>2 DEF JoinedTo
        <5>4. PICK lg \in Nat, lp \in Nat : lg = Len(g) /\ lp = Len(P) BY <2>4
        <5>5. k \in 0 .. n + 1 /\ k + 1 \in 0 .. n + 1 /\ n + 1 \in 0 .. n + 1 BY <2>2
        <5>6. IsCut(P, n, a) BY <2>3 DEF JoinedTo
        <5>7. x \in Nat /\ y \in Nat BY <5>2, <5>5, <5>6 DEF IsCut
        <5>8. y <= lp + 1
          <6>1. k + 1 < n + 1 => a[k + 1] < a[n + 1] BY <5>5, <5>6 DEF IsCut
          <6>2. a[n + 1] = lp + 1 BY <5>4, <5>6 DEF IsCut
          <6>3. k + 1 = n + 1 \/ k + 1 < n + 1 BY <2>2
          <6> QED BY <5>2, <5>4, <5>7, <6>1, <6>2, <6>3
        <5>9. lg = (y - x) - 1 /\ \A l \in 1 .. lg : g[l] = P[x + l] BY <5>3, <5>4 DEF Between
        <5>10. j + 2 <= lg BY <5>1, <5>4 DEF Mark
        <5>11. j \in 1 .. lg BY <4>3, <5>4
        <5>12. j + 1 \in 1 .. lg /\ j + 2 \in 1 .. lg BY <5>10, <5>11
        <5>13. i = x + j BY <4>3, <5>2
        <5>14. i + 1 = x + (j + 1) /\ i + 2 = x + (j + 2) BY <5>7, <5>11, <5>13
        <5>15. g[j + 1] = P[i + 1] /\ g[j + 2] = P[i + 2] BY <5>9, <5>12, <5>14
        <5>16. i + 2 <= lp BY <5>7, <5>8, <5>9, <5>10, <5>11, <5>13
        <5> QED BY <5>1, <5>4, <5>15, <5>16 DEF Mark
      <4> QED BY <4>4, <4>5
    <3> QED BY <3>1, <3>2
  <2>7. Harmless(P) /\ Free(P, "?") BY <2>6 DEF Harmless, Free
  <2>8. PICK ps \in Seq(Seq(Char)) :
            /\ ps = Split[P] /\ Len(ps) = n + 1 /\ ps[1] = <<>>
            /\ \A k \in 1 .. n : ps[k + 1] = segs[k]
    BY <1>2, <2>1, <2>2, SplitJoin
  <2>9. ASSUME NEW k \in 1 .. Len(ps)
        PROVE  Harmless(ps[k]) /\ ps[k] # <<".">> /\ ps[k] # <<".", ".">>
    <3>1. Harmless(ps[k]) BY <2>4, <2>7, <2>8, PiecesAreClean
    <3>2. CASE k = 1
      <4>1. <<>> # <<".">> /\ <<>> # <<".", ".">> OBVIOUS
      <4> QED BY <2>8, <3>1, <3>2, <4>1
    <3>3. CASE k # 1
      <4>1. k - 1 \in 1 .. n /\ (k - 1) + 1 = k BY <2>8, <3>3
      <4>2. PICK l \in 1 .. n : l + 1 = k BY <4>1
      <4>3. ps[k] = segs[l] BY <2>8, <4>2
      <4>4. segs[l] \notin Dots BY <2>5 DEF Clean
      <4>5. segs[l] # <<".">> /\ segs[l] # <<".", ".">> BY <4>4 DEF Dots
      <4> QED BY <3>1, <4>3, <4>5
    <3> QED BY <3>2, <3>3
  <2> QED BY <2>4, <2>7, <2>8, <2>9
<1> QED BY <1>1, <1>2

\* The resource a server finds behind a canonical wanted is the one that its
\* path names.
THEOREM CanonicalNamesTheResource ==
    ASSUME NEW given \in Seq(Char), Canonical(given).ok
    PROVE  LET wanted == Canonical(given).text
               named  == Named(Before(wanted, "?"))
           IN  Resource(wanted) = [ok |-> TRUE,
                                   segments |-> [i \in DOMAIN named |-> Decoded(named[i])]]
<1>1. PICK segs : segs = RemoveDotSegments(Before(given, "?")).segments OBVIOUS
<1>2. segs \in Seq(Seq(Char)) /\ \A k \in 1 .. Len(segs) : Clean(segs[k])
  BY <1>1, CanonicalSegments
<1>3. PICK P : P = Join(segs) OBVIOUS
<1>4. /\ P \in Seq(Char) /\ Harmless(P) /\ Free(P, "?")
      /\ \A k \in 1 .. Len(Split[P]) :
             /\ Harmless(Split[P][k])
             /\ Split[P][k] # <<".">> /\ Split[P][k] # <<".", ".">>
  BY <1>2, <1>3, CleanJoin
<1>5. PICK rest : rest = After(given, "?") OBVIOUS
<1>6. rest \in Seq(Char) /\ (rest = <<>> \/ rest[1] = "?")
  <2>1. PICK u : u = Before(given, "?") OBVIOUS
  <2> QED BY <1>5, <2>1, BeforeAndAfter
<1>7. Canonical(given).text = P \o rest BY <1>1, <1>3, <1>5 DEF Canonical
<1>8. PICK wanted : wanted = P \o rest OBVIOUS
<1>9. Before(wanted, "?") = P BY <1>4, <1>6, <1>8, BeforeFound
<1>10. PICK w : w = Named(P) OBVIOUS
<1>11. w = Picked(Split[P], Full(Split[P])) BY <1>10 DEF Named, Full
<1>12. LET text == Decoded(P)
       IN  RemoveDotSegments([i \in DOMAIN text |-> IF text[i] = "\\" THEN "/" ELSE text[i]])
               = [ok |-> TRUE, segments |-> [i \in DOMAIN w |-> Decoded(w[i])]]
  BY <1>4, <1>11, ServerFinds
<1>13. Resource(wanted) = [ok |-> TRUE, segments |-> [i \in DOMAIN w |-> Decoded(w[i])]]
  BY <1>9, <1>12 DEF Resource
<1> QED BY <1>7, <1>8, <1>9, <1>10, <1>13

(***************************************************************************)
(* path_matches                                                            *)
(***************************************************************************)
\* The k-th element of the pattern gets a piece of its own kind.
Fits(pat, q, cut, k) ==
    IF pat[k] = StarStar THEN cut[k] >= cut[k - 1]
    ELSE cut[k] = cut[k - 1] + 1 /\ pat[k] \in {Star, q[cut[k]]}

\* A cut of the path from j on for the pattern from i on.
Rest(pat, q, i, j, cut) ==
    /\ cut \in [i - 1 .. Len(pat) -> 0 .. Len(q)]
    /\ cut[i - 1] = j - 1 /\ cut[Len(pat)] = Len(q)
    /\ \A k \in i .. Len(pat) : Fits(pat, q, cut, k)

RestAgrees(pat, q, i, j) == \E cut : Rest(pat, q, i, j, cut)

\* A cut without its first piece.
LEMMA RestShorter ==
    ASSUME NEW X, NEW pat \in Seq(X), NEW q \in Seq(X), NEW i \in 1 .. Len(pat),
           NEW j \in 1 .. Len(q) + 1, NEW cut, Rest(pat, q, i, j, cut)
    PROVE  /\ cut[i] \in 0 .. Len(q) /\ RestAgrees(pat, q, i + 1, cut[i] + 1)
           /\ Fits(pat, q, cut, i) /\ cut[i - 1] = j - 1
<1>1. PICK n \in Nat, l \in Nat : n = Len(pat) /\ l = Len(q) OBVIOUS
<1>2. i \in Nat /\ 1 <= i /\ i <= n BY <1>1
<1>3. /\ cut \in [i - 1 .. n -> 0 .. l] /\ cut[i - 1] = j - 1 /\ cut[n] = l
      /\ \A k \in i .. n : Fits(pat, q, cut, k)
  BY <1>1 DEF Rest
<1>4. i \in i - 1 .. n /\ i \in i .. n BY <1>2
<1>5. PICK v \in 0 .. l : v = cut[i] BY <1>3, <1>4
<1>6. PICK c : c = [k \in i .. n |-> cut[k]] OBVIOUS
<1>7. \A k \in i .. n : k \in i - 1 .. n BY <1>2
<1>8. c \in [i .. n -> 0 .. l] BY <1>3, <1>6, <1>7
<1>9. c[i] = v /\ c[n] = l
  <2>1. n \in i .. n BY <1>2
  <2> QED BY <1>3, <1>4, <1>5, <1>6, <2>1
<1>10. ASSUME NEW k \in i + 1 .. n PROVE Fits(pat, q, c, k)
  <2>1. k \in i .. n /\ k - 1 \in i .. n BY <1>2
  <2>2. Fits(pat, q, cut, k) BY <1>3, <2>1
  <2>3. c[k] = cut[k] /\ c[k - 1] = cut[k - 1] BY <1>6, <2>1
  <2> QED BY <2>2, <2>3 DEF Fits
<1>11. (i + 1) - 1 = i /\ (v + 1) - 1 = v BY <1>2, <1>5
<1>12. Rest(pat, q, i + 1, v + 1, c) BY <1>1, <1>8, <1>9, <1>10, <1>11 DEF Rest
<1>13. RestAgrees(pat, q, i + 1, v + 1) BY <1>12 DEF RestAgrees
<1> QED BY <1>1, <1>3, <1>4, <1>5, <1>13

\* A cut with a piece before it.
LEMMA RestLonger ==
    ASSUME NEW X, NEW pat \in Seq(X), NEW q \in Seq(X), NEW i \in 1 .. Len(pat),
           NEW j \in 1 .. Len(q) + 1, NEW k \in 1 .. Len(q) + 1,
           RestAgrees(pat, q, i + 1, k),
           IF pat[i] = StarStar THEN j <= k ELSE k = j + 1 /\ pat[i] \in {Star, q[j]}
    PROVE  RestAgrees(pat, q, i, j)
<1>1. PICK n \in Nat, l \in Nat : n = Len(pat) /\ l = Len(q) OBVIOUS
<1>2. i \in Nat /\ 1 <= i /\ i <= n BY <1>1
<1>3. j \in 1 .. l + 1 /\ k \in 1 .. l + 1 BY <1>1
<1>4. PICK c : Rest(pat, q, i + 1, k, c) BY DEF RestAgrees
<1>5. (i + 1) - 1 = i BY <1>2
<1>6. /\ c \in [i .. n -> 0 .. l] /\ c[i] = k - 1 /\ c[n] = l
      /\ \A x \in i + 1 .. n : Fits(pat, q, c, x)
  BY <1>1, <1>4, <1>5 DEF Rest
<1>7. PICK cut : cut = [x \in i - 1 .. n |-> IF x = i - 1 THEN j - 1 ELSE c[x]] OBVIOUS
<1>8. cut[i - 1] = j - 1
  <2>1. i - 1 \in i - 1 .. n BY <1>2
  <2> QED BY <1>7, <2>1
<1>9. \A x \in i .. n : cut[x] = c[x]
  <2> TAKE x \in i .. n
  <2>1. x \in i - 1 .. n /\ x # i - 1 BY <1>2
  <2> QED BY <1>7, <2>1
<1>10. cut \in [i - 1 .. n -> 0 .. l]
  <2>1. \A x \in i - 1 .. n : (IF x = i - 1 THEN j - 1 ELSE c[x]) \in 0 .. l
    <3> TAKE x \in i - 1 .. n
    <3>1. x # i - 1 => x \in i .. n BY <1>2
    <3>2. j - 1 \in 0 .. l BY <1>3
    <3> QED BY <1>6, <3>1, <3>2
  <2> QED BY <1>7, <2>1
<1>11. cut[n] = l /\ cut[i] = k - 1
  <2>1. n \in i .. n /\ i \in i .. n BY <1>2
  <2> QED BY <1>6, <1>9, <2>1
<1>12. Fits(pat, q, cut, i)
  <2>1. CASE pat[i] = StarStar
    <3>1. k - 1 >= j - 1 BY <1>3, <2>1
    <3> QED BY <1>8, <1>11, <2>1, <3>1 DEF Fits
  <2>2. CASE pat[i] # StarStar
    <3>1. k = j + 1 /\ pat[i] \in {Star, q[j]} BY <2>2
    <3>2. k - 1 = j /\ (j - 1) + 1 = j BY <1>3, <3>1
    <3> QED BY <1>8, <1>11, <2>2, <3>1, <3>2 DEF Fits
  <2> QED BY <2>1, <2>2
<1>13. ASSUME NEW x \in i .. n PROVE Fits(pat, q, cut, x)
  <2>1. CASE x = i BY <1>12, <2>1
  <2>2. CASE x # i
    <3>1. x \in i + 1 .. n /\ x - 1 \in i .. n BY <1>2, <2>2
    <3>2. Fits(pat, q, c, x) BY <1>6, <3>1
    <3>3. cut[x] = c[x] /\ cut[x - 1] = c[x - 1] BY <1>9, <3>1
    <3> QED BY <3>2, <3>3 DEF Fits
  <2> QED BY <2>1, <2>2
<1>14. Rest(pat, q, i, j, cut) BY <1>1, <1>8, <1>10, <1>11, <1>13 DEF Rest
<1> QED BY <1>14 DEF RestAgrees

\* What is left of the pattern behind its end is nothing.
LEMMA RestNone ==
    ASSUME NEW X, NEW pat \in Seq(X), NEW q \in Seq(X), NEW j \in 1 .. Len(q) + 1
    PROVE  RestAgrees(pat, q, Len(pat) + 1, j) <=> j = Len(q) + 1
<1>1. PICK n \in Nat, l \in Nat : n = Len(pat) /\ l = Len(q) OBVIOUS
<1>2. (n + 1) - 1 = n /\ n \in n .. n /\ (l + 1) - 1 = l BY <1>1
<1>3. ASSUME RestAgrees(pat, q, n + 1, j) PROVE j = l + 1
  <2>1. PICK cut : Rest(pat, q, n + 1, j, cut) BY <1>3 DEF RestAgrees
  <2>2. j - 1 = l BY <1>1, <1>2, <2>1 DEF Rest
  <2> QED BY <1>1, <2>2
<1>4. RestAgrees(pat, q, n + 1, l + 1)
  <2>1. PICK cut : cut = [k \in n .. n |-> l] OBVIOUS
  <2>2. cut \in [n .. n -> 0 .. l] /\ cut[n] = l BY <1>2, <2>1
  <2>3. \A k \in n + 1 .. n : FALSE BY <1>1
  <2>4. Rest(pat, q, n + 1, l + 1, cut) BY <1>1, <1>2, <2>2, <2>3 DEF Rest
  <2> QED BY <2>4 DEF RestAgrees
<1> QED BY <1>1, <1>3, <1>4

\* The places from which on the path agrees with the pattern from i on, and
\* how SegMatch computes them from those for i + 1.
Places(pat, q, i) == {j \in 1 .. Len(q) + 1 : RestAgrees(pat, q, i, j)}

Earlier(pat, q, i, later) ==
    IF i > Len(pat) THEN {Len(q) + 1}
    ELSE IF pat[i] = StarStar THEN {j \in 1 .. Len(q) + 1 : \E k \in later : j <= k}
    ELSE {j \in 1 .. Len(q) : pat[i] \in {Star, q[j]} /\ j + 1 \in later}

\* The places for i follow from those for i + 1.
LEMMA PlacesUnfold ==
    ASSUME NEW X, NEW pat \in Seq(X), NEW q \in Seq(X), NEW i \in 1 .. Len(pat) + 1
    PROVE  Places(pat, q, i) = Earlier(pat, q, i, Places(pat, q, i + 1))
<1>1. PICK n \in Nat, l \in Nat : n = Len(pat) /\ l = Len(q) OBVIOUS
<1>2. CASE i > n
  <2>1. i = n + 1 BY <1>1, <1>2
  <2>2. \A j : j \in Places(pat, q, i) <=> j = l + 1
    <3>1. \A j \in 1 .. l + 1 : RestAgrees(pat, q, i, j) <=> j = l + 1 BY <1>1, <2>1, RestNone
    <3>2. l + 1 \in 1 .. l + 1 BY <1>1
    <3> QED BY <1>1, <3>1, <3>2 DEF Places
  <2> QED BY <1>1, <1>2, <2>2 DEF Earlier
<1>3. CASE ~(i > n)
  <2>1. i \in 1 .. n BY <1>1, <1>3
  <2>2. PICK later : later = Places(pat, q, i + 1) OBVIOUS
  <2>3. \A k : k \in later <=> k \in 1 .. l + 1 /\ RestAgrees(pat, q, i + 1, k)
    BY <1>1, <2>2 DEF Places
  <2>4. CASE pat[i] = StarStar
    <3>1. ASSUME NEW j \in 1 .. l + 1, RestAgrees(pat, q, i, j) PROVE \E k \in later : j <= k
      <4>1. PICK cut : Rest(pat, q, i, j, cut) BY <3>1 DEF RestAgrees
      <4>2. /\ cut[i] \in 0 .. l /\ RestAgrees(pat, q, i + 1, cut[i] + 1)
            /\ Fits(pat, q, cut, i) /\ cut[i - 1] = j - 1
        BY <1>1, <2>1, <3>1, <4>1, RestShorter
      <4>3. PICK v \in 0 .. l : v = cut[i] BY <4>2
      <4>4. v >= j - 1 BY <2>4, <4>2, <4>3 DEF Fits
      <4>5. v + 1 \in 1 .. l + 1 /\ j <= v + 1 BY <4>4
      <4> QED BY <2>3, <4>2, <4>3, <4>5
    <3>2. ASSUME NEW j \in 1 .. l + 1, NEW k \in later, j <= k PROVE RestAgrees(pat, q, i, j)
      <4>1. k \in 1 .. l + 1 /\ RestAgrees(pat, q, i + 1, k) BY <2>3
      <4> QED BY <1>1, <2>1, <2>4, <3>2, <4>1, RestLonger
    <3>3. \A j : j \in Places(pat, q, i) <=> j \in 1 .. l + 1 /\ \E k \in later : j <= k
      BY <1>1, <3>1, <3>2 DEF Places
    <3> QED BY <1>1, <1>3, <2>2, <2>4, <3>3 DEF Earlier
  <2>5. CASE pat[i] # StarStar
    <3>1. ASSUME NEW j \in 1 .. l + 1, RestAgrees(pat, q, i, j)
          PROVE  j \in 1 .. l /\ pat[i] \in {Star, q[j]} /\ j + 1 \in later
      <4>1. PICK cut : Rest(pat, q, i, j, cut) BY <3>1 DEF RestAgrees
      <4>2. /\ cut[i] \in 0 .. l /\ RestAgrees(pat, q, i + 1, cut[i] + 1)
            /\ Fits(pat, q, cut, i) /\ cut[i - 1] = j - 1
        BY <1>1, <2>1, <3>1, <4>1, RestShorter
      <4>3. PICK v \in 0 .. l : v = cut[i] BY <4>2
      <4>4. v = (j - 1) + 1 /\ pat[i] \in {Star, q[v]} BY <2>5, <4>2, <4>3 DEF Fits
      <4>5. v = j BY <4>4
      <4>6. j \in 1 .. l /\ j + 1 \in 1 .. l + 1 BY <4>5
      <4> QED BY <2>3, <4>2, <4>3, <4>4, <4>5, <4>6
    <3>2. ASSUME NEW j \in 1 .. l, pat[i] \in {Star, q[j]}, j + 1 \in later
          PROVE  j \in 1 .. l + 1 /\ RestAgrees(pat, q, i, j)
      <4>1. PICK k \in 1 .. l + 1 : k = j + 1 /\ RestAgrees(pat, q, i + 1, k) BY <2>3, <3>2
      <4>2. j \in 1 .. l + 1 OBVIOUS
      <4> QED BY <1>1, <2>1, <2>5, <3>2, <4>1, <4>2, RestLonger
    <3>3. \A j : j \in Places(pat, q, i)
                     <=> j \in 1 .. l /\ pat[i] \in {Star, q[j]} /\ j + 1 \in later
      BY <1>1, <3>1, <3>2 DEF Places
    <3> QED BY <1>1, <1>3, <2>2, <2>5, <3>3 DEF Earlier
  <2> QED BY <2>4, <2>5
<1> QED BY <1>2, <1>3

\* The function that SegMatch defines.
IsMatch(m, pat, q) ==
    m = [i \in 1 .. Len(pat) + 1 |->
            IF i > Len(pat) THEN {Len(q) + 1}
            ELSE IF pat[i] = StarStar
            THEN {j \in 1 .. Len(q) + 1 : \E k \in m[i + 1] : j <= k}
            ELSE {j \in 1 .. Len(q) : pat[i] \in {Star, q[j]} /\ j + 1 \in m[i + 1]}]

MatchAt(m, pat, q, i) == m[i] = Earlier(pat, q, i, m[i + 1])

\* The same, in terms of Earlier.
LEMMA MatchIs ==
    ASSUME NEW m, NEW pat, NEW q
    PROVE  IsMatch(m, pat, q) <=>
               m = [i \in 1 .. Len(pat) + 1 |-> Earlier(pat, q, i, m[i + 1])]
  BY DEF IsMatch, Earlier

\* One step of that function.
LEMMA MatchUnfolds ==
    ASSUME NEW m, NEW pat, NEW q, IsMatch(m, pat, q), NEW i \in 1 .. Len(pat) + 1
    PROVE  MatchAt(m, pat, q, i)
<1> DEFINE h == [k \in 1 .. Len(pat) + 1 |-> Earlier(pat, q, k, m[k + 1])]
<1>1. m = h BY MatchIs
<1>2. h[i] = Earlier(pat, q, i, m[i + 1]) OBVIOUS
<1> HIDE DEF h
<1>3. m[i] = h[i] BY <1>1
<1> QED BY <1>2, <1>3 DEF MatchAt

\* The places give one.
LEMMA MatchExists ==
    ASSUME NEW X, NEW pat \in Seq(X), NEW q \in Seq(X)
    PROVE  \E m : IsMatch(m, pat, q)
<1>1. PICK n \in Nat : n = Len(pat) OBVIOUS
<1>2. PICK w : w = [i \in 1 .. n + 1 |-> Places(pat, q, i)] OBVIOUS
<1>3. ASSUME NEW i \in 1 .. n + 1 PROVE w[i] = Earlier(pat, q, i, w[i + 1])
  <2>1. w[i] = Places(pat, q, i) BY <1>2
  <2>2. Places(pat, q, i) = Earlier(pat, q, i, Places(pat, q, i + 1)) BY <1>1, PlacesUnfold
  <2>3. CASE i > n BY <1>1, <2>1, <2>2, <2>3 DEF Earlier
  <2>4. CASE ~(i > n)
    <3>1. i + 1 \in 1 .. n + 1 BY <2>4
    <3>2. w[i + 1] = Places(pat, q, i + 1) BY <1>2, <3>1
    <3> QED BY <2>1, <2>2, <3>2
  <2> QED BY <2>3, <2>4
<1>4. w = [i \in 1 .. n + 1 |-> w[i]] BY <1>2
<1>5. w = [i \in 1 .. n + 1 |-> Earlier(pat, q, i, w[i + 1])] BY <1>3, <1>4
<1>6. IsMatch(w, pat, q) BY <1>1, <1>5, MatchIs
<1> QED BY <1>6

\* And there is no other.
LEMMA MatchOnce ==
    ASSUME NEW X, NEW pat \in Seq(X), NEW q \in Seq(X), NEW m, IsMatch(m, pat, q)
    PROVE  m[1] = Places(pat, q, 1)
<1>1. PICK n \in Nat : n = Len(pat) OBVIOUS
<1> DEFINE T == {d \in Nat : d <= n => m[(n + 1) - d] = Places(pat, q, (n + 1) - d)}
<1>2. 0 \in T
  <2>1. PICK i \in 1 .. n + 1 : i = n + 1 /\ i = (n + 1) - 0 /\ i > n
    <3>1. n + 1 \in 1 .. n + 1 /\ n + 1 = (n + 1) - 0 /\ n + 1 > n OBVIOUS
    <3> QED BY <3>1
  <2>2. m[i] = Earlier(pat, q, i, m[i + 1])
    <3>1. MatchAt(m, pat, q, i) BY <1>1, MatchUnfolds
    <3> QED BY <3>1 DEF MatchAt
  <2>3. Places(pat, q, i) = Earlier(pat, q, i, Places(pat, q, i + 1)) BY <1>1, PlacesUnfold
  <2>4. m[i] = Places(pat, q, i) BY <1>1, <2>1, <2>2, <2>3 DEF Earlier
  <2> QED BY <2>1, <2>4
<1>3. ASSUME NEW d \in Nat, d \in T PROVE d + 1 \in T
  <2> SUFFICES ASSUME d + 1 <= n
               PROVE  m[(n + 1) - (d + 1)] = Places(pat, q, (n + 1) - (d + 1))
    OBVIOUS
  <2>1. PICK i \in 1 .. n + 1 : i = (n + 1) - (d + 1) /\ i + 1 = (n + 1) - d
    <3>1. /\ (n + 1) - (d + 1) \in 1 .. n + 1
          /\ ((n + 1) - (d + 1)) + 1 = (n + 1) - d
      OBVIOUS
    <3> QED BY <3>1
  <2>2. d <= n OBVIOUS
  <2>3. m[i + 1] = Places(pat, q, i + 1)
    <3>1. m[(n + 1) - d] = Places(pat, q, (n + 1) - d) BY <1>3, <2>2
    <3> QED BY <2>1, <3>1
  <2>4. m[i] = Earlier(pat, q, i, m[i + 1])
    <3>1. MatchAt(m, pat, q, i) BY <1>1, MatchUnfolds
    <3> QED BY <3>1 DEF MatchAt
  <2>5. Places(pat, q, i) = Earlier(pat, q, i, Places(pat, q, i + 1)) BY <1>1, PlacesUnfold
  <2> QED BY <2>1, <2>3, <2>4, <2>5
<1>4. \A d \in Nat : d \in T
  <2> HIDE DEF T
  <2> QED BY <1>2, <1>3, Induction
<1>5. m[(n + 1) - n] = Places(pat, q, (n + 1) - n) BY <1>4
<1>6. (n + 1) - n = 1 OBVIOUS
<1> QED BY <1>5, <1>6

\* seg_match finds a match exactly where the path can be cut for the pattern.
THEOREM SegMatchIsAgreement ==
    ASSUME NEW X, NEW pat \in Seq(X), NEW q \in Seq(X)
    PROVE  SegMatch(pat, q) <=> Agrees(pat, q)
<1>1. PICK n \in Nat, l \in Nat : n = Len(pat) /\ l = Len(q) OBVIOUS
<1> DEFINE m == CHOOSE m : IsMatch(m, pat, q)
<1>2. IsMatch(m, pat, q) BY MatchExists
<1>3. SegMatch(pat, q) <=> 1 \in m[1] BY DEF SegMatch, IsMatch
<1> HIDE DEF m
<1>4. m[1] = Places(pat, q, 1) BY <1>2, MatchOnce
<1>5. 1 \in 1 .. l + 1 BY <1>1
<1>6. 1 \in Places(pat, q, 1) <=> RestAgrees(pat, q, 1, 1) BY <1>1, <1>5 DEF Places
<1>7. 1 - 1 = 0 OBVIOUS
<1>8. RestAgrees(pat, q, 1, 1) <=> Agrees(pat, q)
  BY <1>7 DEF RestAgrees, Rest, Fits, Agrees
<1> QED BY <1>3, <1>4, <1>6, <1>8

\* Trimmed, a string is a string.
LEMMA TrimmedString == ASSUME NEW s \in Seq(Char) PROVE TrimSlashes(s) \in Seq(Char)
<1>1. PICK n \in Nat : n = Len(s) /\ DOMAIN s = 1 .. n OBVIOUS
<1> DEFINE kept == {i \in DOMAIN s : s[i] # "/"}
<1>2. CASE kept = {} BY <1>2 DEF TrimSlashes
<1>3. CASE kept # {}
  <2>1. kept \in SUBSET Nat /\ \A i \in kept : i \in 1 .. n BY <1>1
  <2> DEFINE lo == CHOOSE i \in kept : \A j \in kept : i <= j
             hi == CHOOSE i \in kept : \A j \in kept : i >= j
  <2>2. TrimSlashes(s) = SubSeq(s, lo, hi) BY <1>3 DEF TrimSlashes
  <2> HIDE DEF kept
  <2>3. \E i \in kept : \A j \in kept : i <= j BY <1>3, <2>1, LeastNat
  <2>4. lo \in kept /\ \A j \in kept : lo <= j BY <2>3
  <2>5. \E i \in kept : \A j \in kept : i >= j
    <3> DEFINE T == {k \in Nat : \E i \in kept : i = n - k}
    <3>1. T \in SUBSET Nat /\ T # {}
      <4>1. PICK i \in kept : i \in 1 .. n BY <1>3, <2>1
      <4>2. n - i \in Nat /\ i = n - (n - i) BY <4>1
      <4>3. n - i \in T BY <4>2
      <4> QED BY <4>3
    <3>2. PICK k \in T : \A j \in T : k <= j
      <4> HIDE DEF T
      <4> QED BY <3>1, LeastNat
    <3>3. PICK i \in kept : i = n - k BY <3>2
    <3>4. ASSUME NEW j \in kept PROVE i >= j
      <4>1. j \in 1 .. n /\ i \in 1 .. n /\ k \in Nat BY <2>1, <3>2, <3>3
      <4>2. n - j \in Nat /\ j = n - (n - j) BY <4>1
      <4>3. n - j \in T BY <4>2
      <4>4. k <= n - j BY <3>2, <4>3
      <4> QED BY <3>3, <4>1, <4>4
    <3> QED BY <3>4
  <2>6. hi \in kept /\ \A j \in kept : hi >= j BY <2>5
  <2> HIDE DEF lo, hi
  <2>7. lo \in 1 .. n /\ hi \in 1 .. n /\ lo <= hi BY <2>1, <2>4, <2>6
  <2>8. PICK x \in Nat, y \in Nat : x + 1 = lo /\ y - 1 = hi /\ x < y /\ y <= n + 1
    <3>1. /\ lo - 1 \in Nat /\ hi + 1 \in Nat /\ (lo - 1) + 1 = lo /\ (hi + 1) - 1 = hi
          /\ lo - 1 < hi + 1 /\ hi + 1 <= n + 1
      BY <2>7
    <3> QED BY <3>1
  <2>9. SubSeq(s, x + 1, y - 1) \in Seq(Char) BY <1>1, <2>8, SubSeqBetween
  <2> QED BY <2>2, <2>8, <2>9
<1> QED BY <1>2, <1>3

\* The segments of a string are strings.
LEMMA SegmentsAreStrings ==
    ASSUME NEW s \in Seq(Char)
    PROVE  SegmentsOf(s) \in Seq(Seq(Char))
<1>1. PICK t \in Seq(Char) : t = TrimSlashes(s) BY TrimmedString
<1>2. PICK m, a : IsCut(t, m, a) BY CutExists
<1>3. Split[t] = Pieces(t, m, a) BY <1>2, SplitIs
<1>4. Pieces(t, m, a) \in Seq(Seq(Char)) BY <1>2, PiecesAre
<1> QED BY <1>1, <1>3, <1>4 DEF SegmentsOf

\* path_matches holds the segments of a path against those of a pattern.
LEMMA PathMatchesIsAgreement ==
    ASSUME NEW p \in Seq(Char), NEW path \in Seq(Char)
    PROVE  PathMatches(p, path) <=> Agrees(SegmentsOf(p), SegmentsOf(path))
<1>1. PICK a \in Seq(Seq(Char)), b \in Seq(Seq(Char)) : a = SegmentsOf(p) /\ b = SegmentsOf(path)
  BY SegmentsAreStrings
<1>2. SegMatch(a, b) <=> Agrees(a, b) BY SegMatchIsAgreement
<1> QED BY <1>1, <1>2 DEF PathMatches

\* The path of a canonical wanted is a string.
LEMMA CanonicalPath ==
    ASSUME NEW given \in Seq(Char), Canonical(given).ok
    PROVE  Before(Canonical(given).text, "?") \in Seq(Char)
<1>1. PICK segs : segs = RemoveDotSegments(Before(given, "?")).segments OBVIOUS
<1>2. segs \in Seq(Seq(Char)) /\ \A k \in 1 .. Len(segs) : Clean(segs[k])
  BY <1>1, CanonicalSegments
<1>3. PICK P : P = Join(segs) OBVIOUS
<1>4. P \in Seq(Char) BY <1>2, <1>3, CleanJoin
<1>5. PICK u, rest : u = Before(given, "?") /\ rest = After(given, "?") OBVIOUS
<1>6. rest \in Seq(Char) BY <1>5, BeforeAndAfter
<1>7. PICK wanted : wanted = P \o rest OBVIOUS
<1>8. wanted \in Seq(Char) BY <1>4, <1>6, <1>7, SplicedBy
<1>9. Canonical(given).text = wanted BY <1>1, <1>3, <1>5, <1>7 DEF Canonical
<1>10. PICK v, w : v = Before(wanted, "?") /\ w = After(wanted, "?") OBVIOUS
<1>11. v \in Seq(Char) BY <1>8, <1>10, BeforeAndAfter
<1> QED BY <1>9, <1>10, <1>11

(***************************************************************************)
(* The inductive invariant                                                 *)
(***************************************************************************)
Typed == HttpTypeOK /\ req \in Requests

\* The host is checked before anything else, the addresses before the first
\* connection, and the connection is made to one of those.
HostPassed == ValidHost(req.host) /\ LowerCase(req.host) \notin METADATA_HOSTS

Screened ==
    /\ pc \notin {"grant", "done"} => ValidHost(req.host)
    /\ pc = "connect" =>
           /\ HostPassed /\ addrs # <<>>
           /\ \A i \in DOMAIN addrs : ~IsBlockedIp(addrs[i])
    /\ peer # None => HostPassed /\ ~IsBlockedIp(peer)

\* More than the limit is held only between a read and the check behind it.
Bounded ==
    /\ BodyWithinLimit
    /\ pc # "check" => raw <= req.max
    /\ pc # "done" => result = "none"

\* The target is the canonical form of what was asked for, and it was held
\* against the allow list before anything was resolved; the only request that
\* ends for its path is one that matched nothing.
Asked == Canonical(req.raw).ok /\ target = Canonical(req.raw).text

Matched == \E p \in req.paths : PathMatches(p, Before(target, "?"))

Vetted ==
    /\ (pc \notin {"grant", "target", "done"} \/ peer # None \/ result = "path") => Asked
    /\ (pc \notin {"grant", "target", "allow", "done"} \/ peer # None) => Matched
    /\ result = "path" => ~Matched
    /\ pc \in {"grant", "target"} => peer = None

HttpInv == Typed /\ Screened /\ Bounded /\ Vetted

USE DEF Steps, Results, At, Goto, End

\* What the assumptions say of the request that is made.
LEMMA RequestBounds ==
    ASSUME req \in Requests
    PROVE  /\ req.host \in Seq(Labels) /\ req.answers \subseteq Seq(Address)
           /\ req.raw \in Seq(Char) /\ req.paths \subseteq Seq(Char)
           /\ req.max \in Nat /\ req.head \in Nat /\ Buf \in Nat \ {0}
  BY RequestAssumption

\* Only canonical_request_target changes the target.
LEMMA SameTarget ==
    ASSUME UNCHANGED <<req, target>>
    PROVE  (Asked' <=> Asked) /\ (Matched' <=> Matched)
  BY DEF Asked, Matched

\* valid_host.
LEMMA GrantStep == HttpInv /\ Grant => HttpInv'
<1> SUFFICES ASSUME HttpInv, Grant PROVE HttpInv' OBVIOUS
<1>1. Typed' BY DEF HttpInv, Typed, HttpTypeOK, Grant
<1>2. Screened' BY DEF HttpInv, Screened, HostPassed, Grant
<1>3. Bounded' BY DEF HttpInv, Bounded, BodyWithinLimit, Grant
<1>4. UNCHANGED <<req, target>> BY DEF Grant
<1>5. Vetted' BY <1>4, SameTarget DEF HttpInv, Bounded, Vetted, Grant
<1> QED BY <1>1, <1>2, <1>3, <1>5 DEF HttpInv

\* canonical_request_target.
LEMMA CanonicaliseStep == HttpInv /\ Canonicalise => HttpInv'
<1> SUFFICES ASSUME HttpInv, Canonicalise PROVE HttpInv' OBVIOUS
<1>1. /\ pc = "target" /\ UNCHANGED <<req, addrs, peer, raw>>
      /\ \/ pc' = "allow" /\ result' = result
         \/ pc' = "done" /\ result' = "target"
  BY DEF Canonicalise
<1>2. Typed' BY <1>1 DEF HttpInv, Typed, HttpTypeOK
<1>3. Screened' BY <1>1 DEF HttpInv, Screened, HostPassed
<1>4. Bounded' BY <1>1 DEF HttpInv, Bounded, BodyWithinLimit
<1>5. Vetted'
  <2>1. peer' = None BY <1>1 DEF HttpInv, Vetted
  <2>2. pc' = "allow" => Asked' BY <1>1 DEF Canonicalise, Asked
  <2>3. result' # "path" BY <1>1 DEF HttpInv, Bounded
  <2> QED BY <1>1, <2>1, <2>2, <2>3 DEF Vetted
<1> QED BY <1>2, <1>3, <1>4, <1>5 DEF HttpInv

\* The allow list.
LEMMA AllowStep == HttpInv /\ Allow => HttpInv'
<1> SUFFICES ASSUME HttpInv, Allow PROVE HttpInv' OBVIOUS
<1>1. /\ pc = "allow" /\ UNCHANGED <<req, addrs, peer, raw>>
      /\ \/ pc' = "resolve" /\ result' = result
         \/ pc' = "done" /\ result' \in {"method", "path", "scheme"}
  BY DEF Allow
<1>2. Typed' BY <1>1 DEF HttpInv, Typed, HttpTypeOK
<1>3. Screened' BY <1>1 DEF HttpInv, Screened, HostPassed
<1>4. Bounded' BY <1>1 DEF HttpInv, Bounded, BodyWithinLimit
<1>5. Vetted'
  <2>1. UNCHANGED <<req, target>> BY DEF Allow
  <2>2. /\ pc' = "resolve" => Matched
        /\ result' = "path" => ~Matched
    BY <1>1 DEF Allow, Matched, HttpInv, Bounded
  <2> QED BY <1>1, <2>1, <2>2, SameTarget DEF HttpInv, Bounded, Vetted
<1> QED BY <1>2, <1>3, <1>4, <1>5 DEF HttpInv

\* resolve_checked: an answer is kept only if none of its addresses is blocked.
LEMMA ResolveStep == HttpInv /\ Resolve => HttpInv'
<1> SUFFICES ASSUME HttpInv, Resolve PROVE HttpInv' OBVIOUS
<1>1. req \in Requests /\ pc = "resolve" /\ UNCHANGED <<req, target, peer, raw>>
  BY DEF HttpInv, Typed, Resolve
<1>2. CASE pc' = "done" /\ result' = "address" /\ UNCHANGED addrs
  <2>1. Typed' BY <1>1, <1>2 DEF HttpInv, Typed, HttpTypeOK
  <2>2. Screened' BY <1>1, <1>2 DEF HttpInv, Screened, HostPassed
  <2>3. Bounded' BY <1>1, <1>2 DEF HttpInv, Bounded, BodyWithinLimit
  <2>4. Vetted' BY <1>1, <1>2, SameTarget DEF HttpInv, Bounded, Vetted
  <2> QED BY <2>1, <2>2, <2>3, <2>4 DEF HttpInv
<1>3. ASSUME NEW answer \in req.answers, answer # <<>>,
             \A i \in DOMAIN answer : ~IsBlockedIp(answer[i]),
             LowerCase(req.host) \notin METADATA_HOSTS,
             pc' = "connect", UNCHANGED result, addrs' = answer
      PROVE  HttpInv'
  <2>1. Typed' BY <1>1, <1>3, RequestBounds DEF HttpInv, Typed, HttpTypeOK
  <2>2. Screened' BY <1>1, <1>3 DEF HttpInv, Screened, HostPassed
  <2>3. Bounded' BY <1>1, <1>3 DEF HttpInv, Bounded, BodyWithinLimit
  <2>4. Vetted' BY <1>1, <1>3, SameTarget DEF HttpInv, Bounded, Vetted
  <2> QED BY <2>1, <2>2, <2>3, <2>4 DEF HttpInv
<1> QED BY <1>2, <1>3 DEF Resolve

\* A call that fails.
LEMMA FailsStep == HttpInv /\ Fails => HttpInv'
<1> SUFFICES ASSUME HttpInv, Fails PROVE HttpInv' OBVIOUS
<1>1. Typed' BY DEF HttpInv, Typed, HttpTypeOK, Fails
<1>2. Screened' BY DEF HttpInv, Screened, HostPassed, Fails
<1>3. Bounded' BY DEF HttpInv, Bounded, BodyWithinLimit, Fails
<1>4. UNCHANGED <<req, target>> BY DEF Fails
<1>5. Vetted' BY <1>4, SameTarget DEF HttpInv, Bounded, Vetted, Fails
<1> QED BY <1>1, <1>2, <1>3, <1>5 DEF HttpInv

\* The connection goes to a checked address, not to the name.
LEMMA ConnectStep == HttpInv /\ Connect => HttpInv'
<1> SUFFICES ASSUME HttpInv, Connect PROVE HttpInv' OBVIOUS
<1>1. addrs \in Seq(Address) /\ addrs # <<>> /\ 1 \in DOMAIN addrs
  BY DEF HttpInv, Typed, HttpTypeOK, Screened, Connect
<1>2. peer' \in Address /\ ~IsBlockedIp(peer') /\ HostPassed
  BY <1>1 DEF HttpInv, Screened, Connect
<1>3. Typed' BY <1>2 DEF HttpInv, Typed, HttpTypeOK, Connect
<1>4. Screened'
  <2>1. pc' = "write" /\ UNCHANGED req BY DEF Connect
  <2>2. HostPassed' BY <1>2, <2>1 DEF HostPassed
  <2> QED BY <1>2, <2>1, <2>2 DEF Screened, HostPassed
<1>5. Bounded' BY DEF HttpInv, Bounded, BodyWithinLimit, Connect
<1>6. UNCHANGED <<req, target>> BY DEF Connect
<1>7. Vetted' BY <1>6, SameTarget DEF HttpInv, Bounded, Vetted, Connect
<1> QED BY <1>3, <1>4, <1>5, <1>7 DEF HttpInv

\* The request is sent.
LEMMA WriteStep == HttpInv /\ Write => HttpInv'
<1> SUFFICES ASSUME HttpInv, Write PROVE HttpInv' OBVIOUS
<1>1. Typed' BY DEF HttpInv, Typed, HttpTypeOK, Write
<1>2. Screened' BY DEF HttpInv, Screened, HostPassed, Write
<1>3. Bounded' BY DEF HttpInv, Bounded, BodyWithinLimit, Write
<1>4. UNCHANGED <<req, target>> BY DEF Write
<1>5. Vetted' BY <1>4, SameTarget DEF HttpInv, Bounded, Vetted, Write
<1> QED BY <1>1, <1>2, <1>3, <1>5 DEF HttpInv

\* A read brings at most a buffer's worth.
LEMMA ReadStep == HttpInv /\ Read => HttpInv'
<1> SUFFICES ASSUME HttpInv, Read PROVE HttpInv' OBVIOUS
<1>1. req \in Requests /\ raw \in Nat /\ pc = "read" /\ result' = result
      /\ UNCHANGED <<req, target, addrs, peer>>
  BY DEF HttpInv, Typed, HttpTypeOK, Read
<1>2. req.max \in Nat /\ Buf \in Nat BY <1>1, RequestBounds
<1>3. /\ raw' \in Nat /\ raw' <= req.max + Buf
      /\ \/ pc' = "check"
         \/ pc' = "parse" /\ raw' <= req.max
  BY <1>1, <1>2 DEF HttpInv, Bounded, Read
<1>4. Typed' BY <1>1, <1>3 DEF HttpInv, Typed, HttpTypeOK
<1>5. Screened' BY <1>1, <1>3 DEF HttpInv, Screened, HostPassed
<1>6. Bounded' BY <1>1, <1>3 DEF HttpInv, Bounded, BodyWithinLimit
<1>7. Vetted' BY <1>1, <1>3, SameTarget DEF HttpInv, Bounded, Vetted
<1> QED BY <1>4, <1>5, <1>6, <1>7 DEF HttpInv

\* The response is cut at the limit, and the reading stops there.
LEMMA CheckStep == HttpInv /\ Check => HttpInv'
<1> SUFFICES ASSUME HttpInv, Check PROVE HttpInv' OBVIOUS
<1>1. req \in Requests /\ raw \in Nat /\ pc = "check" /\ result' = result
      /\ UNCHANGED <<req, target, addrs, peer>>
  BY DEF HttpInv, Typed, HttpTypeOK, Check
<1>2. req.max \in Nat /\ Buf \in Nat BY <1>1, RequestBounds
<1>3. raw' \in Nat /\ raw' <= req.max /\ pc' \in {"read", "parse"}
  BY <1>1, <1>2 DEF Check
<1>4. Typed' BY <1>1, <1>3 DEF HttpInv, Typed, HttpTypeOK
<1>5. Screened' BY <1>1, <1>3 DEF HttpInv, Screened, HostPassed
<1>6. Bounded' BY <1>1, <1>2, <1>3 DEF HttpInv, Bounded, BodyWithinLimit
<1>7. Vetted' BY <1>1, <1>3, SameTarget DEF HttpInv, Bounded, Vetted
<1> QED BY <1>4, <1>5, <1>6, <1>7 DEF HttpInv

\* The body is what stands behind the header, and the header is complete.
LEMMA ParseStep == HttpInv /\ Parse => HttpInv'
<1> SUFFICES ASSUME HttpInv, Parse PROVE HttpInv' OBVIOUS
<1>1. req \in Requests /\ raw \in Nat /\ raw <= req.max /\ pc = "parse"
      /\ pc' = "done" /\ UNCHANGED <<req, target, addrs, peer>>
  BY DEF HttpInv, Typed, HttpTypeOK, Bounded, Parse
<1>2. req.max \in Nat /\ Buf \in Nat /\ req.head \in Nat BY <1>1, RequestBounds
<1>3. raw' \in Nat /\ raw' <= req.max /\ result' \in {"ok", "response"}
  BY <1>1, <1>2 DEF Parse, HeaderComplete
<1>4. Typed' BY <1>1, <1>3 DEF HttpInv, Typed, HttpTypeOK
<1>5. Screened' BY <1>1 DEF HttpInv, Screened, HostPassed
<1>6. Bounded' BY <1>1, <1>2, <1>3 DEF HttpInv, Bounded, BodyWithinLimit
<1>7. Vetted' BY <1>1, <1>3, SameTarget DEF HttpInv, Bounded, Vetted
<1> QED BY <1>4, <1>5, <1>6, <1>7 DEF HttpInv

\* A request that has not been looked at.
LEMMA HttpInitInv == HttpInit => HttpInv
<1> SUFFICES ASSUME HttpInit PROVE HttpInv OBVIOUS
<1>1. req.max \in Nat /\ Buf \in Nat BY RequestBounds DEF HttpInit
<1>2. Typed BY DEF HttpInit, Typed, HttpTypeOK
<1>3. Screened BY DEF HttpInit, Screened
<1>4. Bounded BY <1>1 DEF HttpInit, Bounded, BodyWithinLimit
<1>5. Vetted BY DEF HttpInit, Vetted
<1> QED BY <1>2, <1>3, <1>4, <1>5 DEF HttpInv

\* What has been checked at each step, and the bound on what is held, are
\* inductive.
THEOREM HttpInvariant == HttpSpec => []HttpInv
<1>1. HttpInit => HttpInv BY HttpInitInv
<1>2. HttpInv /\ [HttpNext]_httpVars => HttpInv'
  <2> SUFFICES ASSUME HttpInv, [HttpNext]_httpVars PROVE HttpInv' OBVIOUS
  <2>1. CASE HttpNext
    BY <2>1, GrantStep, CanonicaliseStep, AllowStep, ResolveStep, ConnectStep,
       WriteStep, ReadStep, CheckStep, ParseStep, FailsStep DEF HttpNext
  <2>2. CASE UNCHANGED httpVars
    <3>1. Typed' BY <2>2 DEF HttpInv, Typed, HttpTypeOK, httpVars
    <3>2. Screened' BY <2>2 DEF HttpInv, Screened, HostPassed, httpVars
    <3>3. Bounded' BY <2>2 DEF HttpInv, Bounded, BodyWithinLimit, httpVars
    <3>4. UNCHANGED <<req, target, pc, peer, result>> BY <2>2 DEF httpVars
    <3>5. Vetted' BY <3>4, SameTarget DEF HttpInv, Vetted
    <3> QED BY <3>1, <3>2, <3>3, <3>5 DEF HttpInv
  <2> QED BY <2>1, <2>2
<1> QED BY <1>1, <1>2, PTL DEF HttpSpec

\* The state of a request has its types; a body never has a negative length.
THEOREM HttpTypeCorrect == HttpSpec => []HttpTypeOK
<1>1. HttpInv => HttpTypeOK BY DEF HttpInv, Typed
<1> QED BY <1>1, HttpInvariant, PTL

\* fetch_get never holds more than the limit and a buffer, and never returns
\* more than the limit.
THEOREM ResponsesAreBounded == HttpSpec => []BodyWithinLimit
<1>1. HttpInv => BodyWithinLimit BY DEF HttpInv, Bounded
<1> QED BY <1>1, HttpInvariant, PTL

\* No connection to a reserved address or to a metadata host, whatever the name
\* server answers and whenever it answers differently.
THEOREM OnlyPublicIsContacted == HttpSpec => []OnlyPublicAddresses
<1>1. HttpInv => OnlyPublicAddresses
  <2> SUFFICES ASSUME HttpInv, peer # None PROVE ~Reserved(peer) /\ DnsName(req.host) \notin METADATA_HOSTS
    BY DEF OnlyPublicAddresses
  <2>1. peer \in Address /\ ~IsBlockedIp(peer) /\ HostPassed
    BY DEF HttpInv, Typed, HttpTypeOK, Screened
  <2>2. ~Reserved(peer) BY <2>1, ReservedIsBlocked
  <2>3. req.host \in Seq(Labels) BY RequestBounds DEF HttpInv, Typed
  <2>4. DnsName(req.host) = LowerCase(req.host)
    BY <2>1, <2>3, NoTrailingDot DEF HostPassed
  <2> QED BY <2>1, <2>2, <2>4 DEF HostPassed
<1> QED BY <1>1, HttpInvariant, PTL

\* Every request is made for a path that the allow list admits, as the server
\* will understand it, and none is turned away that it admits: what passes
\* canonical_request_target names the same segments before and after a server
\* decodes it, and path_matches takes the patterns at their word.
THEOREM AllowListHolds == HttpSpec => []AllowListIsKept
<1>1. HttpInv => AllowListIsKept
  <2> SUFFICES ASSUME HttpInv PROVE AllowListIsKept OBVIOUS
  <2>1. req.raw \in Seq(Char) /\ \A p \in req.paths : p \in Seq(Char)
    BY RequestBounds DEF HttpInv, Typed
  <2>2. PICK path : path = Before(target, "?") OBVIOUS
  <2>3. PICK named : named = Named(path) OBVIOUS
  <2>4. ASSUME peer # None \/ result = "path" PROVE Listed(path) <=> Matched
    <3>1. Asked BY <2>4 DEF HttpInv, Vetted
    <3>2. path \in Seq(Char) BY <2>1, <2>2, <3>1, CanonicalPath DEF Asked
    <3>3. \A p \in req.paths : PathMatches(p, path) <=> Agrees(SegmentsOf(p), SegmentsOf(path))
      BY <2>1, <3>2, PathMatchesIsAgreement
    <3> QED BY <2>2, <3>3 DEF Listed, Matched
  <2>5. ASSUME peer # None
        PROVE  /\ Resource(target) = [ok |-> TRUE,
                                      segments |-> [i \in DOMAIN named |-> Decoded(named[i])]]
               /\ Listed(path)
    <3>1. Asked /\ Matched BY <2>5 DEF HttpInv, Vetted
    <3>2. target = Canonical(req.raw).text /\ Canonical(req.raw).ok BY <3>1 DEF Asked
    <3>3. PICK given \in Seq(Char) : given = req.raw BY <2>1
    <3>4. Resource(target) = [ok |-> TRUE,
                              segments |-> [i \in DOMAIN named |-> Decoded(named[i])]]
      BY <2>2, <2>3, <3>2, <3>3, CanonicalNamesTheResource
    <3> QED BY <2>4, <2>5, <3>1, <3>4
  <2>6. result = "path" => ~Listed(path) BY <2>4 DEF HttpInv, Vetted
  <2> QED BY <2>2, <2>3, <2>5, <2>6 DEF AllowListIsKept
<1> QED BY <1>1, HttpInvariant, PTL
=============================================================================
