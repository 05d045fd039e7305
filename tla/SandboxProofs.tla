--------------------------- MODULE SandboxProofs ---------------------------
(***************************************************************************)
(* Theorems about Sandbox, for every policy, host and set of descriptors.  *)
(*                                                                         *)
(* SandboxInv says what is in force at each step of the child (Applied)    *)
(* and what has become known of it (Told).  RunsConfined alone is not      *)
(* inductive: that nothing is missing when execve succeeds follows from    *)
(* what every earlier step has left behind.                                *)
(***************************************************************************)
EXTENDS Sandbox, FiniteSetTheorems, WellFoundedInduction, SequenceTheorems, TLAPS

(***************************************************************************)
(* The filter.  The interpreter is a recursive function, so that what it   *)
(* returns is proved in two steps: a run exists (RunExists gives it), and  *)
(* whatever satisfies its equation refuses, from the i-th comparison on,   *)
(* the i-th and later calls of the list (RunRefuses, from the last         *)
(* comparison back to the first by the least-number principle).            *)
(***************************************************************************)
\* Every non-empty set of numbers has a least member.
LEMMA LeastNat ==
    ASSUME NEW T \in SUBSET Nat, T # {}
    PROVE  \E x \in T : \A y \in T : x <= y
<1> DEFINE I(x) == 1 .. x
           W    == {I(x) : x \in T}
<1>1. \A x \in T : I(x) \in FiniteSubsetsOf(Nat)
  <2> TAKE x \in T
  <2>1. IsFiniteSet(1 .. x)
    BY FS_Interval
  <2> QED BY <2>1 DEF FiniteSubsetsOf
<1>2. W \subseteq FiniteSubsetsOf(Nat) /\ W # {}
  BY <1>1
<1>3. IsWellFoundedOn(StrictSubsetOrdering(Nat), FiniteSubsetsOf(Nat))
  BY FS_StrictSubsetOrderingWellFounded
<1>4. PICK A \in W : \A B \in W : ~(<<B, A>> \in StrictSubsetOrdering(Nat))
  <2> HIDE DEF W
  <2> QED BY <1>2, <1>3, WFMin
<1>5. PICK x \in T : A = I(x)
  BY <1>4
<1>6. ASSUME NEW y \in T, y < x PROVE FALSE
  <2>1. I(y) \subseteq I(x) /\ x \in I(x) /\ x \notin I(y)
    BY <1>6
  <2>2. I(y) \in SUBSET Nat /\ I(x) \in SUBSET Nat /\ I(y) # I(x)
    BY <2>1
  <2>3. <<I(y), I(x)>> \in StrictSubsetOrdering(Nat)
    BY <2>1, <2>2 DEF StrictSubsetOrdering
  <2> QED BY <1>4, <1>5, <2>3
<1>7. \A y \in T : x <= y
  BY <1>6
<1> QED BY <1>7

\* The list of refused calls is a sequence of numbers.
LEMMA DeniedList == DeniedCalls \in Seq(Nat) /\ Len(DeniedCalls) = 21
BY DEF DeniedCalls

\* f is a with b behind it.
Spliced(f, a, b) ==
    /\ Len(f) = Len(a) + Len(b)
    /\ \A i \in 1 .. Len(a) : f[i] = a[i]
    /\ \A i \in 1 .. Len(b) : f[Len(a) + i] = b[i]

\* The elements of a concatenation.
LEMMA Joined ==
    ASSUME NEW S, NEW a \in Seq(S), NEW b \in Seq(S)
    PROVE  a \o b \in Seq(S) /\ Spliced(a \o b, a, b)
<1>1. /\ a \o b \in Seq(S) /\ Len(a \o b) = Len(a) + Len(b)
      /\ \A i \in 1 .. Len(a) + Len(b) :
             (a \o b)[i] = IF i <= Len(a) THEN a[i] ELSE b[i - Len(a)]
  BY ConcatProperties
<1>2. Len(a) \in Nat /\ Len(b) \in Nat
  BY LenProperties
<1>3. ASSUME NEW i \in 1 .. Len(b) PROVE (a \o b)[Len(a) + i] = b[i]
  <2>1. Len(a) + i \in 1 .. Len(a) + Len(b) /\ ~(Len(a) + i <= Len(a)) /\ (Len(a) + i) - Len(a) = i
    BY <1>2
  <2> QED BY <1>1, <2>1
<1> QED BY <1>1, <1>2, <1>3 DEF Spliced

\* Where each instruction of the filter is.
LEMMA FilterLayout ==
    /\ Len(Filter) = 2 * Len(DeniedCalls) + 5
    /\ Filter[1] = Load("arch") /\ Filter[2] = JumpEq(X86_64, 1, 0)
    /\ Filter[3] = Return("kill") /\ Filter[4] = Load("nr")
    /\ \A i \in 1 .. Len(DeniedCalls) : /\ Filter[2 * i + 3] = JumpEq(DeniedCalls[i], 0, 1)
                                        /\ Filter[2 * i + 4] = Return("errno")
    /\ Filter[2 * Len(DeniedCalls) + 5] = Return("allow")
<1>1. PICK n \in Nat : n = Len(DeniedCalls) /\ n = 21
  BY DeniedList
<1> DEFINE block(i) == DenyBlock(DeniedCalls[(i + 1) \div 2])
           ins(i)   == block(i)[2 - (i % 2)]
           Prologue    == <<Load("arch"), JumpEq(X86_64, 1, 0), Return("kill"), Load("nr")>>
           Body     == [i \in 1 .. 2 * n |-> ins(i)]
           Epilogue    == <<Return("allow")>>
           Code     == {Prologue[i] : i \in 1 .. 4} \cup {ins(i) : i \in 1 .. 2 * n} \cup {Return("allow")}
<1>2. Filter = (Prologue \o Body) \o Epilogue
  BY <1>1 DEF Filter
<1>3. Prologue \in Seq(Code) /\ Len(Prologue) = 4
  <2>1. Prologue[1] \in Code /\ Prologue[2] \in Code /\ Prologue[3] \in Code /\ Prologue[4] \in Code
    OBVIOUS
  <2> HIDE DEF Code
  <2> QED BY <2>1
<1>4. Body \in Seq(Code) /\ Len(Body) = 2 * n /\ \A i \in 1 .. 2 * n : Body[i] = ins(i)
  <2> HIDE DEF ins
  <2>1. \A i \in 1 .. 2 * n : ins(i) \in Code
    OBVIOUS
  <2> HIDE DEF Code
  <2> QED BY <2>1
<1>5. Epilogue \in Seq(Code) /\ Len(Epilogue) = 1 /\ Epilogue[1] = Return("allow")
  <2>1. Return("allow") \in Code
    OBVIOUS
  <2> HIDE DEF Code
  <2> QED BY <2>1
<1>6. /\ Prologue[1] = Load("arch") /\ Prologue[2] = JumpEq(X86_64, 1, 0)
      /\ Prologue[3] = Return("kill") /\ Prologue[4] = Load("nr")
  OBVIOUS
<1>7. \A i \in 1 .. n : /\ ins(2 * i - 1) = JumpEq(DeniedCalls[i], 0, 1)
                        /\ ins(2 * i) = Return("errno")
  <2> TAKE i \in 1 .. n
  <2>1. ((2 * i - 1) + 1) \div 2 = i /\ 2 - ((2 * i - 1) % 2) = 1
    OBVIOUS
  <2>2. (2 * i + 1) \div 2 = i /\ 2 - ((2 * i) % 2) = 2
    OBVIOUS
  <2> QED BY <2>1, <2>2 DEF DenyBlock
<1> HIDE DEF Prologue, Body, Epilogue, Code, ins
<1>8. PICK S : S = Code
  OBVIOUS
<1>9. PICK h \in Seq(S) : h = Prologue /\ Len(h) = 4
  BY <1>3, <1>8
<1>12. PICK b \in Seq(S) : b = Body /\ Len(b) = 2 * n
  BY <1>4, <1>8
<1>13. PICK t \in Seq(S) : t = Epilogue /\ Len(t) = 1
  BY <1>5, <1>8
<1>14. PICK g : g = h \o b
  OBVIOUS
<1>15. g \in Seq(S) /\ Spliced(g, h, b)
  BY ONLY <1>14, <1>9, <1>12, Joined
<1>16. PICK f : f = g \o t
  OBVIOUS
<1>18. Spliced(f, g, t)
  BY <1>13, <1>15, <1>16, Joined
<1>19. Filter = f
  BY <1>2, <1>9, <1>12, <1>13, <1>14, <1>16
<1>20. /\ Len(g) = 4 + 2 * n
       /\ \A i \in 1 .. 4 : g[i] = h[i]
       /\ \A i \in 1 .. 2 * n : g[4 + i] = b[i]
  BY <1>9, <1>12, <1>15 DEF Spliced
<1>21. /\ Len(f) = 4 + 2 * n + 1
       /\ \A i \in 1 .. 4 + 2 * n : f[i] = g[i]
       /\ f[4 + 2 * n + 1] = t[1]
  <2>1. 1 \in 1 .. 1
    OBVIOUS
  <2> QED BY <1>13, <1>18, <1>20, <2>1 DEF Spliced
<1>10. \A i \in 1 .. n : /\ Filter[2 * i + 3] = JumpEq(DeniedCalls[i], 0, 1)
                         /\ Filter[2 * i + 4] = Return("errno")
  <2> TAKE i \in 1 .. n
  <2>1. 2 * i - 1 \in 1 .. 2 * n /\ 2 * i \in 1 .. 2 * n
    BY <1>1
  <2>2. 4 + (2 * i - 1) \in 1 .. 4 + 2 * n /\ 4 + 2 * i \in 1 .. 4 + 2 * n
    BY <1>1
  <2>3. f[4 + (2 * i - 1)] = ins(2 * i - 1) /\ f[4 + 2 * i] = ins(2 * i)
    BY <1>4, <1>12, <1>20, <1>21, <2>1, <2>2
  <2>4. 4 + (2 * i - 1) = 2 * i + 3 /\ 4 + 2 * i = 2 * i + 4
    BY <1>1
  <2> QED BY <1>7, <1>19, <2>3, <2>4
<1>11. f[1] = h[1] /\ f[2] = h[2] /\ f[3] = h[3] /\ f[4] = h[4]
  <2>1. \A i \in 1 .. 4 : i \in 1 .. 4 + 2 * n
    BY <1>1
  <2> QED BY <1>20, <1>21, <2>1
<1>17. f[2 * n + 5] = Return("allow") /\ Len(f) = 2 * n + 5
  <2>1. 4 + 2 * n + 1 = 2 * n + 5
    BY <1>1
  <2> QED BY <1>5, <1>13, <1>21, <2>1
<1> QED BY <1>1, <1>6, <1>9, <1>10, <1>11, <1>17, <1>19

\* One instruction: what the program returns from the i-th one on, with `acc'
\* in the accumulator, if f says it for the later ones.
From(f, i, acc, arch, nr) ==
    LET c == Filter[i]
    IN  CASE c.op = "ld"  -> f[i + 1][IF c.k = "arch" THEN arch ELSE nr]
          [] c.op = "ret" -> c.k
          [] c.op = "jeq" -> f[i + 1 + (IF acc = c.k THEN c.jt ELSE c.jf)][acc]

IsRun(f, arch, nr) ==
    f = [i \in 1 .. Len(Filter) |-> [acc \in {0, arch, nr} |-> From(f, i, acc, arch, nr)]]

\* A run is a run at every instruction.
LEMMA RunAt ==
    ASSUME NEW f, NEW arch, NEW nr, IsRun(f, arch, nr),
           NEW i \in 1 .. Len(Filter), NEW acc \in {0, arch, nr}
    PROVE  f[i][acc] = From(f, i, acc, arch, nr)
<1> DEFINE h == [j \in 1 .. Len(Filter) |-> [a \in {0, arch, nr} |-> From(f, j, a, arch, nr)]]
<1>1. f = h
  BY DEF IsRun
<1>2. h[i][acc] = From(f, i, acc, arch, nr)
  OBVIOUS
<1> HIDE DEF h
<1> QED BY <1>1, <1>2

\* The instructions of the filter.
LEMMA Instructions ==
    ASSUME NEW f, NEW acc, NEW arch, NEW nr
    PROVE  /\ From(f, 1, acc, arch, nr) = f[2][arch]
           /\ From(f, 2, acc, arch, nr) = IF acc = X86_64 THEN f[4][acc] ELSE f[3][acc]
           /\ From(f, 3, acc, arch, nr) = "kill"
           /\ From(f, 4, acc, arch, nr) = f[5][nr]
           /\ \A i \in 1 .. Len(DeniedCalls) :
                  /\ From(f, 2 * i + 3, acc, arch, nr) =
                         IF acc = DeniedCalls[i] THEN f[2 * i + 4][acc] ELSE f[2 * i + 5][acc]
                  /\ From(f, 2 * i + 4, acc, arch, nr) = "errno"
           /\ From(f, 2 * Len(DeniedCalls) + 5, acc, arch, nr) = "allow"
<1>1. From(f, 1, acc, arch, nr) = f[2][arch]
  BY FilterLayout DEF From, Load
<1>2. From(f, 2, acc, arch, nr) = IF acc = X86_64 THEN f[4][acc] ELSE f[3][acc]
  BY FilterLayout DEF From, JumpEq
<1>3. From(f, 3, acc, arch, nr) = "kill"
  BY FilterLayout DEF From, Return
<1>4. From(f, 4, acc, arch, nr) = f[5][nr]
  BY FilterLayout DEF From, Load
<1>5. ASSUME NEW i \in 1 .. Len(DeniedCalls)
      PROVE  /\ From(f, 2 * i + 3, acc, arch, nr) =
                    IF acc = DeniedCalls[i] THEN f[2 * i + 4][acc] ELSE f[2 * i + 5][acc]
             /\ From(f, 2 * i + 4, acc, arch, nr) = "errno"
  <2>1. Filter[2 * i + 3] = JumpEq(DeniedCalls[i], 0, 1) /\ Filter[2 * i + 4] = Return("errno")
    BY FilterLayout
  <2>2. /\ (2 * i + 3) + 1 + 0 = 2 * i + 4
        /\ (2 * i + 3) + 1 + 1 = 2 * i + 5
    BY DeniedList
  <2>3. From(f, 2 * i + 4, acc, arch, nr) = "errno"
    BY <2>1 DEF From, Return
  <2>4. From(f, 2 * i + 3, acc, arch, nr) =
            f[(2 * i + 3) + 1 + (IF acc = DeniedCalls[i] THEN 0 ELSE 1)][acc]
    BY <2>1 DEF From, JumpEq
  <2> QED BY <2>2, <2>3, <2>4
<1>6. From(f, 2 * Len(DeniedCalls) + 5, acc, arch, nr) = "allow"
  BY FilterLayout DEF From, Return
<1> QED BY <1>1, <1>2, <1>3, <1>4, <1>5, <1>6

\* Every instruction is one of these.
LEMMA InstructionKinds ==
    ASSUME NEW j \in 1 .. Len(Filter)
    PROVE  \/ j \in 1 .. 4
           \/ \E i \in 1 .. Len(DeniedCalls) : j = 2 * i + 3 \/ j = 2 * i + 4
           \/ j = 2 * Len(DeniedCalls) + 5
<1>1. PICK n \in Nat : n = Len(DeniedCalls) /\ Len(Filter) = 2 * n + 5
  BY DeniedList, FilterLayout
<1>2. SUFFICES ASSUME j \notin 1 .. 4, j # 2 * n + 5
               PROVE  \E i \in 1 .. n : j = 2 * i + 3 \/ j = 2 * i + 4
  BY <1>1
<1>3. PICK q \in Nat : 2 * q + 3 <= j /\ j < 2 * q + 5
  <2>1. j - 3 \in Nat
    BY <1>1, <1>2
  <2>2. PICK q \in Nat : q = (j - 3) \div 2
    BY <2>1
  <2>3. 2 * q <= j - 3 /\ j - 3 < 2 * q + 2
    BY <2>1, <2>2
  <2> QED BY <2>3
<1>4. q \in 1 .. n /\ (j = 2 * q + 3 \/ j = 2 * q + 4)
  BY <1>1, <1>2, <1>3
<1> QED BY <1>4

\* The interpreter returns: what it returns from each instruction on.
LEMMA RunExists == ASSUME NEW arch, NEW nr PROVE \E f : IsRun(f, arch, nr)
<1>1. PICK n \in Nat : n = Len(DeniedCalls) /\ Len(Filter) = 2 * n + 5 /\ n = 21
  BY DeniedList, FilterLayout
<1> DEFINE met(i, acc) == \E k \in 1 .. n : 2 * k + 3 >= i /\ acc = DeniedCalls[k]
           below(i, acc) == IF i % 2 = 1 /\ ~met(i, acc) THEN "allow" ELSE "errno"
           out(i, acc) == CASE i = 1 -> IF arch = X86_64 THEN below(5, nr) ELSE "kill"
                            [] i = 2 -> IF acc = X86_64 THEN below(5, nr) ELSE "kill"
                            [] i = 3 -> "kill"
                            [] i = 4 -> below(5, nr)
                            [] OTHER -> below(i, acc)
           g == [i \in 1 .. Len(Filter) |-> [acc \in {0, arch, nr} |-> out(i, acc)]]
<1>2. \A i \in 1 .. 2 * n + 5, acc \in {0, arch, nr} : g[i][acc] = out(i, acc)
  <2> HIDE DEF out
  <2> QED BY <1>1
<1>3. \A i \in 5 .. 2 * n + 5 : \A acc : out(i, acc) = below(i, acc)
  <2> HIDE DEF below
  <2> QED BY <1>1
<1>4. ASSUME NEW i \in 1 .. n, NEW acc
      PROVE  /\ below(2 * i + 4, acc) = "errno"
             /\ below(2 * i + 3, acc) = IF acc = DeniedCalls[i] THEN "errno" ELSE below(2 * i + 5, acc)
  <2>1. (2 * i + 4) % 2 = 0 /\ (2 * i + 3) % 2 = 1 /\ (2 * i + 5) % 2 = 1
    BY <1>1
  <2>2. met(2 * i + 3, acc) <=> acc = DeniedCalls[i] \/ met(2 * i + 5, acc)
    <3>1. \A k \in 1 .. n : 2 * k + 3 >= 2 * i + 3 <=> k = i \/ 2 * k + 3 >= 2 * i + 5
      BY <1>1
    <3> QED BY <3>1
  <2> HIDE DEF met
  <2> QED BY <2>1, <2>2
<1>5. \A acc : below(2 * n + 5, acc) = "allow"
  <2>1. (2 * n + 5) % 2 = 1 /\ \A k \in 1 .. n : ~(2 * k + 3 >= 2 * n + 5)
    BY <1>1
  <2> QED BY <2>1
<1> HIDE DEF below, g
<1>6. ASSUME NEW j \in 1 .. 2 * n + 5, NEW acc \in {0, arch, nr}
      PROVE  out(j, acc) = From(g, j, acc, arch, nr)
  <2>1. CASE j \in 1 .. 4
    <3>1. /\ g[2][arch] = (IF arch = X86_64 THEN below(5, nr) ELSE "kill") /\ g[4][acc] = below(5, nr)
          /\ g[3][acc] = "kill" /\ g[5][nr] = below(5, nr)
      BY <1>1, <1>2
    <3> QED BY <2>1, <3>1, Instructions
  <2>2. CASE j = 2 * n + 5
    BY <1>1, <1>3, <1>5, <2>2, Instructions
  <2>3. ASSUME NEW i \in 1 .. n, j = 2 * i + 3 PROVE out(j, acc) = From(g, j, acc, arch, nr)
    <3>1. /\ 2 * i + 3 \in 5 .. 2 * n + 5 /\ 2 * i + 4 \in 5 .. 2 * n + 5
          /\ 2 * i + 5 \in 5 .. 2 * n + 5
      BY <1>1
    <3>2. g[2 * i + 4][acc] = below(2 * i + 4, acc) /\ g[2 * i + 5][acc] = below(2 * i + 5, acc)
      <4> HIDE DEF out
      <4>1. 2 * i + 4 \in 1 .. 2 * n + 5 /\ 2 * i + 5 \in 1 .. 2 * n + 5
        BY <3>1
      <4> QED BY <1>2, <1>3, <3>1, <4>1
    <3>3. From(g, 2 * i + 3, acc, arch, nr) =
              IF acc = DeniedCalls[i] THEN g[2 * i + 4][acc] ELSE g[2 * i + 5][acc]
      BY <1>1, Instructions
    <3>4. out(j, acc) = below(2 * i + 3, acc)
      <4> HIDE DEF out
      <4> QED BY <1>3, <2>3, <3>1
    <3> HIDE DEF out
    <3> QED BY <1>4, <2>3, <3>2, <3>3, <3>4
  <2>4. ASSUME NEW i \in 1 .. n, j = 2 * i + 4 PROVE out(j, acc) = From(g, j, acc, arch, nr)
    <3>1. 2 * i + 4 \in 5 .. 2 * n + 5
      BY <1>1
    <3>2. From(g, 2 * i + 4, acc, arch, nr) = "errno"
      BY <1>1, Instructions
    <3> HIDE DEF out
    <3> QED BY <1>3, <1>4, <2>4, <3>1, <3>2
  <2> HIDE DEF out
  <2> QED BY <1>1, <2>1, <2>2, <2>3, <2>4, InstructionKinds
<1>7. IsRun(g, arch, nr)
  <2>1. g = [i \in 1 .. Len(Filter) |-> [acc \in {0, arch, nr} |-> out(i, acc)]]
    BY DEF g
  <2>2. \A i \in 1 .. Len(Filter), acc \in {0, arch, nr} : out(i, acc) = From(g, i, acc, arch, nr)
    <3> HIDE DEF out
    <3> QED BY <1>1, <1>6
  <2> HIDE DEF out
  <2> QED BY <2>1, <2>2 DEF IsRun
<1> QED BY <1>7

\* From the i-th comparison on a call is refused if it is one of the i-th and
\* later ones.
LEMMA RunRefuses ==
    ASSUME NEW arch, NEW nr, NEW f, IsRun(f, arch, nr)
    PROVE  f[5][nr] = IF nr \in Range(DeniedCalls) THEN "errno" ELSE "allow"
<1>1. PICK n \in Nat : n = Len(DeniedCalls) /\ Len(Filter) = 2 * n + 5 /\ n = 21
  BY DeniedList, FilterLayout
<1> DEFINE says(i) == f[2 * i + 3][nr] = IF \E k \in i .. n : nr = DeniedCalls[k]
                                         THEN "errno" ELSE "allow"
           bad     == {d \in 0 .. n : ~says(n + 1 - d)}
<1>2. \A j \in 1 .. 2 * n + 5 : f[j][nr] = From(f, j, nr, arch, nr)
  <2>1. nr \in {0, arch, nr}
    OBVIOUS
  <2> QED BY <1>1, <2>1, RunAt
<1>3. says(n + 1)
  <2>1. 2 * (n + 1) + 3 = 2 * n + 5 /\ 2 * n + 5 \in 1 .. 2 * n + 5 /\ (n + 1) .. n = {}
    BY <1>1
  <2>2. f[2 * n + 5][nr] = "allow"
    BY <1>1, <1>2, <2>1, Instructions
  <2> QED BY <2>1, <2>2
<1>4. ASSUME NEW i \in 1 .. n, says(i + 1) PROVE says(i)
  <2>1. /\ 2 * i + 3 \in 1 .. 2 * n + 5 /\ 2 * i + 4 \in 1 .. 2 * n + 5
        /\ 2 * (i + 1) + 3 = 2 * i + 5 /\ i .. n = {i} \cup ((i + 1) .. n)
    BY <1>1
  <2>2. f[2 * i + 4][nr] = "errno"
    BY <1>1, <1>2, <2>1, Instructions
  <2>3. f[2 * i + 3][nr] = IF nr = DeniedCalls[i] THEN f[2 * i + 4][nr] ELSE f[2 * i + 5][nr]
    BY <1>1, <1>2, <2>1, Instructions
  <2>4. f[2 * i + 5][nr] = IF \E k \in (i + 1) .. n : nr = DeniedCalls[k] THEN "errno" ELSE "allow"
    BY <1>4, <2>1
  <2> QED BY <2>1, <2>2, <2>3, <2>4
<1>5. ASSUME bad # {} PROVE FALSE
  <2>1. PICK d \in bad : \A e \in bad : d <= e
    <3>1. bad \in SUBSET Nat
      BY <1>1
    <3> HIDE DEF bad
    <3> QED BY <1>5, <3>1, LeastNat
  <2>2. d \in 0 .. n /\ ~says(n + 1 - d)
    BY <2>1
  <2> HIDE DEF says
  <2>3. d # 0
    BY <1>1, <1>3, <2>2
  <2>4. d - 1 \in 0 .. n /\ d - 1 \notin bad
    BY <1>1, <2>1, <2>2, <2>3
  <2>5. says(n + 1 - (d - 1))
    BY <2>4
  <2>6. n + 1 - d \in 1 .. n /\ n + 1 - (d - 1) = (n + 1 - d) + 1
    BY <1>1, <2>2, <2>3
  <2>7. says((n + 1 - d) + 1)
    BY <2>5, <2>6
  <2> QED BY <1>4, <2>2, <2>6, <2>7
<1>6. says(1)
  <2>1. n \in 0 .. n /\ n + 1 - n = 1
    BY <1>1
  <2> HIDE DEF says
  <2> QED BY <1>5, <2>1
<1>7. nr \in Range(DeniedCalls) <=> \E k \in 1 .. n : nr = DeniedCalls[k]
  BY <1>1, DeniedList DEF Range
<1> QED BY <1>1, <1>6, <1>7

\* The filter refuses the listed calls and no other, and ends a process that
\* calls by another architecture's entry.
THEOREM FilterRefusesTheList ==
    ASSUME NEW arch, NEW nr
    PROVE  Verdict(arch, nr) = IF arch # X86_64 THEN "kill"
                               ELSE IF nr \in Range(DeniedCalls) THEN "errno" ELSE "allow"
<1> DEFINE f == CHOOSE f : IsRun(f, arch, nr)
<1>1. IsRun(f, arch, nr)
  BY RunExists
<1>2. Verdict(arch, nr) = f[1][0]
  BY DEF Verdict, IsRun, From
<1> HIDE DEF f
<1>3. /\ 0 \in {0, arch, nr} /\ arch \in {0, arch, nr}
      /\ 1 \in 1 .. Len(Filter) /\ 2 \in 1 .. Len(Filter)
      /\ 3 \in 1 .. Len(Filter) /\ 4 \in 1 .. Len(Filter)
  BY DeniedList, FilterLayout
<1>4. /\ f[1][0] = From(f, 1, 0, arch, nr) /\ f[2][arch] = From(f, 2, arch, arch, nr)
      /\ f[3][arch] = From(f, 3, arch, arch, nr) /\ f[4][arch] = From(f, 4, arch, arch, nr)
  BY <1>1, <1>3, RunAt
<1>5. f[1][0] = IF arch = X86_64 THEN f[5][nr] ELSE "kill"
  BY <1>4, Instructions
<1> QED BY <1>1, <1>2, <1>5, RunRefuses

\* The calls the child still makes are allowed; those that yield a socket to a
\* program without one are not, whichever way they are made.
LEMMA CallsAndSources ==
    /\ \A x \in {"write", "execve", "uid", "gid", "groups"} :
           Verdict(X86_64, Number[x]) = "allow"
    /\ \A arch \in {X86_64, I386} : \A nr \in Source(arch) : Verdict(arch, nr) # "allow"
<1>1. Range(DeniedCalls) = {41, 42, 43, 44, 45, 46, 47, 49, 50, 53, 288, 425, 426, 427,
                            101, 310, 311, 312, 424, 434, 438}
  BY DEF Range, DeniedCalls
<1>2. \A x \in {"write", "execve", "uid", "gid", "groups"} : Number[x] \notin Range(DeniedCalls)
  BY <1>1 DEF Number
<1>3. Source(X86_64) \subseteq Range(DeniedCalls)
  BY <1>1 DEF Source
<1> QED BY <1>2, <1>3, FilterRefusesTheList

(***************************************************************************)
(* The restrictions in force, and what is known of the child               *)
(***************************************************************************)
Over == {"report", "running", "exited"}

Applied ==
    /\ sec.rules \subseteq {Cwd} \cup Range(SysDirs)
    /\ pc \notin Over \cup {"no_new_privs"} => sec.nnp
    /\ sec.limits \subseteq Policy.limits
    /\ pc \notin Over \cup {"no_new_privs", "setrlimit"} => sec.limits = Policy.limits
    /\ pc \in {"close_ruleset", "fchdir", "close_range", "seccomp", "drop", "execve"}
           => sec.domain \subseteq {Cwd} \cup Range(SysDirs)
    /\ pc \in {"close_range", "seccomp", "drop", "execve"} => sec.cwd = Cwd
    /\ pc \in {"seccomp", "drop", "execve"} => \A f \in Fd : fds[f] # "open"
    /\ pc \in {"drop", "execve"} => sec.filter
    /\ pc = "execve" => ToDrop \subseteq sec.dropped
    /\ "uid" \in sec.dropped => ~sec.root

Told ==
    /\ RunsConfined
    /\ ran => pc \in {"running", "exited"}
    /\ pc = "running" => ran
    /\ ~ran => fds[Pipe] # "closed"
    /\ report => pc = "exited" /\ ~ran
    /\ parent = "error" => report
    /\ pc = "exited" => ran \/ report
    /\ FailuresReachTheCaller

SandboxInv == SbTypeOK /\ Applied /\ Told

USE DEF outcome, Policy, ToDrop, PC, Places, Fd, Setup

(***************************************************************************)
(* One lemma per action.  Each proves the three parts of the invariant.    *)
(***************************************************************************)

\* Prctl(PR_SET_NO_NEW_PRIVS).
LEMMA NoNewPrivsStep == SandboxInv /\ NoNewPrivs => SandboxInv'
<1> SUFFICES ASSUME SandboxInv, NoNewPrivs PROVE SandboxInv' OBVIOUS
<1>1. SbTypeOK' BY DEF SandboxInv, SbTypeOK, NoNewPrivs, Succeed
<1>2. Applied' BY DEF SandboxInv, SbTypeOK, Applied, Over, NoNewPrivs, Succeed
<1>3. Told'
  BY DEF SandboxInv, SbTypeOK, Told, RunsConfined, FailuresReachTheCaller,
         NoNewPrivs, Succeed
<1> QED BY <1>1, <1>2, <1>3 DEF SandboxInv

\* Setrlimit: only configured limits are set, and the step is left with all of them.
LEMMA SetRlimitStep == SandboxInv /\ SetRlimit => SandboxInv'
<1> SUFFICES ASSUME SandboxInv, SetRlimit PROVE SandboxInv' OBVIOUS
<1>1. Policy.limits \subseteq {"nproc", "fsize", "cpu"}
  BY PolicyAssumption DEF SandboxInv, SbTypeOK, World
<1>2. CASE Policy.limits \ sec.limits # {}
  <2>1. PICK l \in Policy.limits \ sec.limits :
            /\ sec' = [sec EXCEPT !.limits = @ \cup {l}]
            /\ Succeed("setrlimit", "setrlimit") /\ UNCHANGED <<fds, tried>>
    BY <1>2 DEF SetRlimit
  <2>2. SbTypeOK' BY <1>1, <2>1 DEF SandboxInv, SbTypeOK, Succeed
  <2>3. Applied' BY <2>1 DEF SandboxInv, SbTypeOK, Applied, Over, Succeed
  <2>4. Told' BY <2>1 DEF SandboxInv, Told, RunsConfined, FailuresReachTheCaller, Succeed
  <2> QED BY <2>2, <2>3, <2>4 DEF SandboxInv
<1>3. CASE Policy.limits \ sec.limits = {}
  <2>1. Succeed("setrlimit", "create_ruleset") /\ UNCHANGED <<sec, fds, tried>>
    BY <1>3 DEF SetRlimit
  <2>2. SbTypeOK' BY <2>1 DEF SandboxInv, SbTypeOK, Succeed
  <2>3. Applied' BY <1>3, <2>1 DEF SandboxInv, Applied, Over, Succeed
  <2>4. Told' BY <2>1 DEF SandboxInv, Told, RunsConfined, FailuresReachTheCaller, Succeed
  <2> QED BY <2>2, <2>3, <2>4 DEF SandboxInv
<1> QED BY <1>2, <1>3

\* Landlock_create_ruleset.
LEMMA CreateRulesetStep == SandboxInv /\ CreateRuleset => SandboxInv'
<1> SUFFICES ASSUME SandboxInv, CreateRuleset PROVE SandboxInv' OBVIOUS
<1>1. SbTypeOK' BY DEF SandboxInv, SbTypeOK, CreateRuleset, Succeed
<1>2. Applied' BY DEF SandboxInv, SbTypeOK, Applied, Over, CreateRuleset, Succeed
<1>3. Told'
  BY FdAssumption DEF SandboxInv, SbTypeOK, Told, RunsConfined, FailuresReachTheCaller,
         CreateRuleset, Succeed
<1> QED BY <1>1, <1>2, <1>3 DEF SandboxInv

\* Landlock_add_rule for the working directory.
LEMMA AddCwdStep == SandboxInv /\ AddCwd => SandboxInv'
<1> SUFFICES ASSUME SandboxInv, AddCwd PROVE SandboxInv' OBVIOUS
<1>1. SbTypeOK' BY PlaceAssumption DEF SandboxInv, SbTypeOK, AddCwd, Succeed
<1>2. Applied' BY PlaceAssumption DEF SandboxInv, SbTypeOK, Applied, Over, AddCwd, Succeed
<1>3. Told'
  BY DEF SandboxInv, SbTypeOK, Told, RunsConfined, FailuresReachTheCaller,
         AddCwd, Succeed
<1> QED BY <1>1, <1>2, <1>3 DEF SandboxInv

\* A system directory that cannot be opened.
LEMMA SkipSysDirStep == SandboxInv /\ SkipSysDir => SandboxInv'
<1> SUFFICES ASSUME SandboxInv, SkipSysDir PROVE SandboxInv' OBVIOUS
<1>1. SbTypeOK' BY DEF SandboxInv, SbTypeOK, SkipSysDir
<1>2. Applied' BY DEF SandboxInv, SbTypeOK, Applied, Over, SkipSysDir
<1>3. Told'
  BY DEF SandboxInv, SbTypeOK, Told, RunsConfined, FailuresReachTheCaller,
         SkipSysDir
<1> QED BY <1>1, <1>2, <1>3 DEF SandboxInv

\* Landlock_add_rule for a system directory.
LEMMA AddSysDirStep == SandboxInv /\ AddSysDir => SandboxInv'
<1> SUFFICES ASSUME SandboxInv, AddSysDir PROVE SandboxInv' OBVIOUS
<1>1. SbTypeOK' BY PlaceAssumption DEF SandboxInv, SbTypeOK, AddSysDir, Succeed
<1>2. Applied' BY PlaceAssumption DEF SandboxInv, SbTypeOK, Applied, Over, AddSysDir, Succeed
<1>3. Told'
  BY DEF SandboxInv, SbTypeOK, Told, RunsConfined, FailuresReachTheCaller,
         AddSysDir, Succeed
<1> QED BY <1>1, <1>2, <1>3 DEF SandboxInv

\* Landlock_restrict_self: the rules of the ruleset become the domain.
LEMMA RestrictSelfStep == SandboxInv /\ RestrictSelf => SandboxInv'
<1> SUFFICES ASSUME SandboxInv, RestrictSelf PROVE SandboxInv' OBVIOUS
<1>1. SbTypeOK' BY DEF SandboxInv, SbTypeOK, Applied, RestrictSelf, Succeed
<1>2. Applied' BY DEF SandboxInv, SbTypeOK, Applied, Over, RestrictSelf, Succeed
<1>3. Told'
  BY DEF SandboxInv, SbTypeOK, Told, RunsConfined, FailuresReachTheCaller,
         RestrictSelf, Succeed
<1> QED BY <1>1, <1>2, <1>3 DEF SandboxInv

\* Close of the ruleset.
LEMMA CloseRulesetStep == SandboxInv /\ CloseRuleset => SandboxInv'
<1> SUFFICES ASSUME SandboxInv, CloseRuleset PROVE SandboxInv' OBVIOUS
<1>1. SbTypeOK' BY DEF SandboxInv, SbTypeOK, CloseRuleset, Succeed
<1>2. Applied' BY DEF SandboxInv, SbTypeOK, Applied, Over, CloseRuleset, Succeed
<1>3. Told'
  BY FdAssumption DEF SandboxInv, SbTypeOK, Told, RunsConfined, FailuresReachTheCaller,
         CloseRuleset, Succeed
<1> QED BY <1>1, <1>2, <1>3 DEF SandboxInv

\* Fchdir.
LEMMA FchdirStep == SandboxInv /\ Fchdir => SandboxInv'
<1> SUFFICES ASSUME SandboxInv, Fchdir PROVE SandboxInv' OBVIOUS
<1>1. SbTypeOK' BY DEF SandboxInv, SbTypeOK, Fchdir, Succeed
<1>2. Applied' BY DEF SandboxInv, SbTypeOK, Applied, Over, Fchdir, Succeed
<1>3. Told'
  BY DEF SandboxInv, SbTypeOK, Told, RunsConfined, FailuresReachTheCaller,
         Fchdir, Succeed
<1> QED BY <1>1, <1>2, <1>3 DEF SandboxInv

\* Close_range: nothing is left open across execve, and the pipe is not closed.
LEMMA CloseRangeStep == SandboxInv /\ CloseRange => SandboxInv'
<1> SUFFICES ASSUME SandboxInv, CloseRange PROVE SandboxInv' OBVIOUS
<1>1. SbTypeOK' BY DEF SandboxInv, SbTypeOK, CloseRange, Succeed
<1>2. Applied' BY DEF SandboxInv, SbTypeOK, Applied, Over, CloseRange, Succeed
<1>3. Told'
  BY FdAssumption DEF SandboxInv, SbTypeOK, Told, RunsConfined, FailuresReachTheCaller,
         CloseRange, Succeed
<1> QED BY <1>1, <1>2, <1>3 DEF SandboxInv

\* Install_seccomp_deny.
LEMMA InstallSeccompDenyStep == SandboxInv /\ InstallSeccompDeny => SandboxInv'
<1> SUFFICES ASSUME SandboxInv, InstallSeccompDeny PROVE SandboxInv' OBVIOUS
<1>1. SbTypeOK' BY DEF SandboxInv, SbTypeOK, InstallSeccompDeny, Succeed
<1>2. Applied' BY DEF SandboxInv, SbTypeOK, Applied, Over, InstallSeccompDeny, Succeed
<1>3. Told'
  BY DEF SandboxInv, SbTypeOK, Told, RunsConfined, FailuresReachTheCaller,
         InstallSeccompDeny, Succeed
<1> QED BY <1>1, <1>2, <1>3 DEF SandboxInv

\* Setgroups, setgid, setuid: the user id goes last and takes the privilege with it.
LEMMA DropStep == SandboxInv /\ Drop => SandboxInv'
<1> SUFFICES ASSUME SandboxInv, Drop PROVE SandboxInv' OBVIOUS
<1>1. ASSUME NEW x \in {"groups", "gid", "uid"}, sec.root,
             Succeed("drop", "drop"), UNCHANGED <<fds, tried>>,
             sec' = [sec EXCEPT !.dropped = @ \cup {x}, !.root = (x # "uid")]
      PROVE  SandboxInv'
  <2>1. SbTypeOK' BY <1>1 DEF SandboxInv, SbTypeOK, Succeed
  <2>2. Applied' BY <1>1 DEF SandboxInv, SbTypeOK, Applied, Over, Succeed
  <2>3. Told' BY <1>1 DEF SandboxInv, Told, RunsConfined, FailuresReachTheCaller, Succeed
  <2> QED BY <2>1, <2>2, <2>3 DEF SandboxInv
<1>2. CASE /\ ToDrop \subseteq sec.dropped
           /\ Succeed("drop", "execve") /\ UNCHANGED <<sec, fds, tried>>
  <2>1. SbTypeOK' BY <1>2 DEF SandboxInv, SbTypeOK, Succeed
  <2>2. Applied' BY <1>2 DEF SandboxInv, Applied, Over, Succeed
  <2>3. Told' BY <1>2 DEF SandboxInv, Told, RunsConfined, FailuresReachTheCaller, Succeed
  <2> QED BY <2>1, <2>2, <2>3 DEF SandboxInv
<1> QED BY <1>1, <1>2 DEF Drop

\* Execve: whatever it needs to be confined has been applied.
LEMMA ExecveStep == SandboxInv /\ Execve => SandboxInv'
<1> SUFFICES ASSUME SandboxInv, Execve PROVE SandboxInv' OBVIOUS
<1>1. SbTypeOK' BY DEF SandboxInv, SbTypeOK, Execve
<1>2. Applied' BY DEF SandboxInv, Applied, Over, Execve
<1>3. RunsConfined'
  <2>1. pc = "execve" /\ UNCHANGED <<world, sec>> BY DEF Execve
  <2>2. sec.nnp /\ sec.filter /\ sec.limits = Policy.limits
    BY <2>1 DEF SandboxInv, Applied, Over
  <2>3. sec.domain \subseteq {Cwd} \cup Range(SysDirs) /\ sec.cwd = Cwd
    BY <2>1 DEF SandboxInv, Applied
  <2>4. ToDrop \subseteq sec.dropped /\ ("uid" \in Policy.ids => ~sec.root)
    BY <2>1 DEF SandboxInv, Applied
  <2>5. \A f \in Fd : fds'[f] = "closed"
    BY <2>1 DEF SandboxInv, Applied, Execve
  <2> QED BY <2>1, <2>2, <2>3, <2>4, <2>5 DEF RunsConfined
<1>4. Told' BY <1>3 DEF SandboxInv, Told, FailuresReachTheCaller, Execve
<1> QED BY <1>1, <1>2, <1>4 DEF SandboxInv

\* An error return.
LEMMA KernelFailsStep == SandboxInv /\ KernelFails => SandboxInv'
<1> SUFFICES ASSUME SandboxInv, KernelFails PROVE SandboxInv' OBVIOUS
<1>1. SbTypeOK' BY DEF SandboxInv, SbTypeOK, KernelFails, Abort
<1>2. Applied' BY DEF SandboxInv, SbTypeOK, Applied, Over, KernelFails, Abort
<1>3. Told'
  BY DEF SandboxInv, SbTypeOK, Told, RunsConfined, FailuresReachTheCaller,
         KernelFails, Abort
<1> QED BY <1>1, <1>2, <1>3 DEF SandboxInv

\* An error return in the child's own situation.
LEMMA RefusedStep == SandboxInv /\ Refused => SandboxInv'
<1> SUFFICES ASSUME SandboxInv, Refused PROVE SandboxInv' OBVIOUS
<1>1. pc \in Setup /\ Abort /\ UNCHANGED fault BY DEF Refused, Dropping
<1>2. SbTypeOK' BY <1>1 DEF SandboxInv, SbTypeOK, Abort
<1>3. Applied' BY <1>1 DEF SandboxInv, Applied, Over, Abort
<1>4. Told' BY <1>1 DEF SandboxInv, Told, RunsConfined, FailuresReachTheCaller, Abort
<1> QED BY <1>2, <1>3, <1>4 DEF SandboxInv

\* The report reaches the pipe, which is still open and past the filter.
LEMMA ReportStep == SandboxInv /\ Report => SandboxInv'
<1> SUFFICES ASSUME SandboxInv, Report PROVE SandboxInv' OBVIOUS
<1>1. SbTypeOK' BY DEF SandboxInv, SbTypeOK, Report
<1>2. Applied' BY DEF SandboxInv, SbTypeOK, Applied, Over, Report
<1>3. Told'
  BY FdAssumption, CallsAndSources DEF SandboxInv, SbTypeOK, Told, RunsConfined, FailuresReachTheCaller,
         Report, Permitted, Allowed
<1> QED BY <1>1, <1>2, <1>3 DEF SandboxInv

\* The parent reads an error or the end of the pipe.
LEMMA LearnStep == SandboxInv /\ Learn => SandboxInv'
<1> SUFFICES ASSUME SandboxInv, Learn PROVE SandboxInv' OBVIOUS
<1>1. SbTypeOK' BY DEF SandboxInv, SbTypeOK, Learn
<1>2. Applied' BY DEF SandboxInv, SbTypeOK, Applied, Over, Learn
<1>3. Told'
  BY DEF SandboxInv, SbTypeOK, Told, RunsConfined, FailuresReachTheCaller,
         Learn
<1> QED BY <1>1, <1>2, <1>3 DEF SandboxInv

\* The parent has waited for the program.
LEMMA OutputStep == SandboxInv /\ Output => SandboxInv'
<1> SUFFICES ASSUME SandboxInv, Output PROVE SandboxInv' OBVIOUS
<1>1. SbTypeOK' BY DEF SandboxInv, SbTypeOK, Output
<1>2. Applied' BY DEF SandboxInv, SbTypeOK, Applied, Over, Output
<1>3. Told'
  BY DEF SandboxInv, SbTypeOK, Told, RunsConfined, FailuresReachTheCaller,
         Output
<1> QED BY <1>1, <1>2, <1>3 DEF SandboxInv

\* The program exits.
LEMMA ExitStep == SandboxInv /\ Exit => SandboxInv'
<1> SUFFICES ASSUME SandboxInv, Exit PROVE SandboxInv' OBVIOUS
<1>1. SbTypeOK' BY DEF SandboxInv, SbTypeOK, Exit
<1>2. Applied' BY DEF SandboxInv, SbTypeOK, Applied, Over, Exit
<1>3. Told'
  BY DEF SandboxInv, SbTypeOK, Told, RunsConfined, FailuresReachTheCaller,
         Exit
<1> QED BY <1>1, <1>2, <1>3 DEF SandboxInv

\* The program tries /proc.
LEMMA OpenProcStep == SandboxInv /\ OpenProc => SandboxInv'
<1> SUFFICES ASSUME SandboxInv, OpenProc PROVE SandboxInv' OBVIOUS
<1>1. SbTypeOK' BY DEF SandboxInv, SbTypeOK, OpenProc
<1>2. Applied' BY DEF SandboxInv, SbTypeOK, Applied, Over, OpenProc
<1>3. Told'
  BY DEF SandboxInv, SbTypeOK, Told, RunsConfined, FailuresReachTheCaller,
         OpenProc
<1> QED BY <1>1, <1>2, <1>3 DEF SandboxInv

\* The program makes a system call.
LEMMA TryCallStep == ASSUME NEW arch, NEW nr, SandboxInv, TryCall(arch, nr) PROVE SandboxInv'
<1>1. /\ UNCHANGED <<world, sec, fds, tried, report, parent, ran, fault>>
      /\ pc = "running" /\ pc' \in {"running", "exited"}
  BY DEF TryCall
<1>2. SbTypeOK' BY <1>1 DEF SandboxInv, SbTypeOK, PC
<1>3. Applied' BY <1>1 DEF SandboxInv, Applied, Over
<1>4. Told' BY <1>1 DEF SandboxInv, Told, RunsConfined, FailuresReachTheCaller
<1> QED BY <1>2, <1>3, <1>4 DEF SandboxInv

\* At the fork nothing is applied and nothing is known.
LEMMA SbInitInv == SbInit => SandboxInv
<1> SUFFICES ASSUME SbInit PROVE SandboxInv OBVIOUS
<1>1. SbTypeOK
  <2>1. world \in World /\ world.root \in BOOLEAN BY DEF SbInit, World
  <2>2. sec \in [nnp : BOOLEAN, limits : SUBSET {"nproc", "fsize", "cpu"},
                 rules : SUBSET Places, domain : SUBSET Places, cwd : Places,
                 filter : BOOLEAN, dropped : SUBSET {"groups", "gid", "uid"},
                 root : BOOLEAN]
    BY <2>1 DEF SbInit
  <2>3. tried \in 0 .. Len(SysDirs) BY PlaceAssumption DEF SbInit
  <2> QED BY <2>1, <2>2, <2>3 DEF SbInit, SbTypeOK
<1>2. Applied BY DEF SbInit, Applied, Over
<1>3. Told BY FdAssumption DEF SbInit, Told, RunsConfined, FailuresReachTheCaller
<1> QED BY <1>1, <1>2, <1>3 DEF SandboxInv

\* What is in force at each step, and what is known of it, is inductive.
THEOREM SandboxInvariant == SbSpec => []SandboxInv
<1>1. SbInit => SandboxInv BY SbInitInv
<1>2. SandboxInv /\ [SbNext]_sbVars => SandboxInv'
  <2> SUFFICES ASSUME SandboxInv, [SbNext]_sbVars PROVE SandboxInv' OBVIOUS
  <2>1. CASE Child
    BY <2>1, NoNewPrivsStep, SetRlimitStep, CreateRulesetStep, AddCwdStep, SkipSysDirStep,
       AddSysDirStep, RestrictSelfStep, CloseRulesetStep, FchdirStep, CloseRangeStep,
       InstallSeccompDenyStep, DropStep, ExecveStep, KernelFailsStep, RefusedStep,
       ReportStep DEF Child
  <2>2. CASE Learn \/ Output BY <2>2, LearnStep, OutputStep
  <2>3. CASE Program BY <2>3, ExitStep, OpenProcStep, TryCallStep DEF Program
  <2>4. CASE UNCHANGED sbVars
    <3>1. SbTypeOK' BY <2>4 DEF SandboxInv, SbTypeOK, sbVars
    <3>2. Applied' BY <2>4 DEF SandboxInv, Applied, Over, sbVars
    <3>3. Told' BY <2>4 DEF SandboxInv, Told, RunsConfined, FailuresReachTheCaller, sbVars
    <3> QED BY <3>1, <3>2, <3>3 DEF SandboxInv
  <2> QED BY <2>1, <2>2, <2>3, <2>4 DEF SbNext
<1> QED BY <1>1, <1>2, PTL DEF SbSpec

\* The child, its descriptors and what is known of it have their types.
THEOREM SandboxTypeCorrect == SbSpec => []SbTypeOK
<1>1. SandboxInv => SbTypeOK BY DEF SandboxInv
<1> QED BY <1>1, SandboxInvariant, PTL

\* No program runs without the whole sandbox: apply returns Ok only after every
\* call has succeeded, and execve comes after that.
THEOREM ProgramsAreConfined == SbSpec => []RunsConfined
<1>1. SandboxInv => RunsConfined BY DEF SandboxInv, Told
<1> QED BY <1>1, SandboxInvariant, PTL

\* The broker takes a command for started exactly if its program was: the pipe
\* stays open until execve or the report, and the report gets through.
THEOREM FailuresAreKnown == SbSpec => []FailuresReachTheCaller
<1>1. SandboxInv => FailuresReachTheCaller BY DEF SandboxInv, Told
<1> QED BY <1>1, SandboxInvariant, PTL

(***************************************************************************)
(* What the program can come by, and why a child gives up.  Both rest on   *)
(* SandboxInv; Useful says what a refusal would need and does not find.    *)
(***************************************************************************)
\* The directories that have been dealt with, as long as nothing failed.
DealtWith == {Cwd} \cup {d \in world.present : \E k \in 1 .. tried : SysDirs[k] = d}

Useful ==
    /\ ~ran => fds[CwdFd] # "closed"
    /\ pc \in {"no_new_privs", "setrlimit", "create_ruleset", "add_cwd"} => tried = 0
    /\ pc \in {"restrict_self"} => tried = Len(SysDirs)
    /\ ~fault /\ pc \in {"add_sys", "restrict_self"} => DealtWith \subseteq sec.rules
    /\ ~fault /\ pc \in {"close_ruleset", "fchdir", "close_range", "seccomp", "drop", "execve"}
           => {Cwd} \cup world.present \subseteq sec.domain
    /\ "uid" \notin sec.dropped => sec.root = world.root
    /\ "uid" \in sec.dropped => ToDrop \subseteq sec.dropped
    /\ RefusalsHaveAReason

Sealed == (~world.x32 => got = {}) /\ Useful

\* The steps up to the ruleset.
LEMMA SealedBefore ==
    ASSUME SandboxInv, Sealed,
           NoNewPrivs \/ SetRlimit \/ CreateRuleset \/ CloseRuleset \/ Fchdir \/ CloseRange
               \/ InstallSeccompDeny
    PROVE  Sealed'
<1>1. CASE NoNewPrivs
  BY <1>1 DEF SandboxInv, SbTypeOK, Sealed, Useful, DealtWith, RefusalsHaveAReason, NoNewPrivs, Succeed
<1>2. CASE SetRlimit
  BY <1>2 DEF SandboxInv, SbTypeOK, Sealed, Useful, DealtWith, RefusalsHaveAReason, SetRlimit, Succeed
<1>3. CASE CreateRuleset
  BY <1>3, FdAssumption DEF SandboxInv, SbTypeOK, Sealed, Useful, DealtWith, RefusalsHaveAReason,
     CreateRuleset, Succeed
<1>4. CASE CloseRuleset
  BY <1>4, FdAssumption DEF SandboxInv, SbTypeOK, Sealed, Useful, DealtWith, RefusalsHaveAReason,
     CloseRuleset, Succeed
<1>5. CASE Fchdir
  BY <1>5 DEF SandboxInv, SbTypeOK, Sealed, Useful, DealtWith, RefusalsHaveAReason, Fchdir, Succeed
<1>6. CASE CloseRange
  BY <1>6, FdAssumption DEF SandboxInv, SbTypeOK, Sealed, Useful, DealtWith, RefusalsHaveAReason,
     CloseRange, Succeed
<1>7. CASE InstallSeccompDeny
  BY <1>7 DEF SandboxInv, SbTypeOK, Sealed, Useful, DealtWith, RefusalsHaveAReason,
     InstallSeccompDeny, Succeed
<1> QED BY <1>1, <1>2, <1>3, <1>4, <1>5, <1>6, <1>7

\* The ruleset: without a failure no directory of the host is left out.
LEMMA SealedRules ==
    ASSUME SandboxInv, Sealed, AddCwd \/ SkipSysDir \/ AddSysDir \/ RestrictSelf
    PROVE  Sealed'
<1>1. CASE AddCwd
  <2>1. tried = 0 /\ sec' = [sec EXCEPT !.rules = {Cwd}] /\ UNCHANGED <<world, tried, fds, fault, ran, got>>
        /\ pc = "add_cwd" /\ pc' = "add_sys"
    BY <1>1 DEF Sealed, Useful, AddCwd, Succeed
  <2>2. DealtWith' \subseteq sec'.rules
    BY <2>1 DEF DealtWith, SandboxInv, SbTypeOK
  <2> QED BY <2>1, <2>2 DEF SandboxInv, SbTypeOK, Sealed, Useful, RefusalsHaveAReason
<1>2. CASE SkipSysDir
  <2>1. /\ pc = "add_sys" /\ tried' = tried + 1 /\ UNCHANGED <<world, pc, sec, fds, ran, got>>
        /\ fault' = (fault \/ SysDirs[tried + 1] \in world.present)
    BY <1>2 DEF SkipSysDir
  <2>2. ~fault' => DealtWith' \subseteq DealtWith
    <3>1. tried \in Nat /\ \A k \in 1 .. tried + 1 : k \in 1 .. tried \/ k = tried + 1
      BY DEF SandboxInv, SbTypeOK
    <3>2. SUFFICES ASSUME SysDirs[tried + 1] \notin world.present,
                          NEW d \in world.present, NEW k \in 1 .. tried + 1, SysDirs[k] = d
                   PROVE  \E j \in 1 .. tried : SysDirs[j] = d
      BY <2>1 DEF DealtWith
    <3>3. k # tried + 1
      BY <3>2
    <3> QED BY <3>1, <3>2, <3>3
  <2> QED BY <2>1, <2>2 DEF SandboxInv, SbTypeOK, Sealed, Useful, RefusalsHaveAReason
<1>3. CASE AddSysDir
  <2>1. CASE /\ tried < Len(SysDirs) /\ SysDirs[tried + 1] \in world.present
             /\ Succeed("add_sys", "add_sys")
             /\ sec' = [sec EXCEPT !.rules = @ \cup {SysDirs[tried + 1]}]
             /\ tried' = tried + 1 /\ UNCHANGED fds
    <3>1. ~fault => DealtWith' \subseteq sec'.rules
      <4>1. tried \in Nat /\ \A k \in 1 .. tried + 1 : k \in 1 .. tried \/ k = tried + 1
        BY DEF SandboxInv, SbTypeOK
      <4>2. DealtWith' \subseteq DealtWith \cup {SysDirs[tried + 1]}
        BY <2>1, <4>1 DEF DealtWith, Succeed
      <4>3. sec'.rules = sec.rules \cup {SysDirs[tried + 1]}
        BY <2>1 DEF SandboxInv, SbTypeOK
      <4> QED BY <2>1, <4>2, <4>3 DEF Sealed, Useful, Succeed
    <3> QED BY <2>1, <3>1 DEF SandboxInv, SbTypeOK, Sealed, Useful, RefusalsHaveAReason, Succeed
  <2>2. CASE tried = Len(SysDirs) /\ Succeed("add_sys", "restrict_self") /\ UNCHANGED <<sec, fds, tried>>
    BY <2>2 DEF SandboxInv, SbTypeOK, Sealed, Useful, DealtWith, RefusalsHaveAReason, Succeed
  <2> QED BY <1>3, <2>1, <2>2 DEF AddSysDir
<1>4. CASE RestrictSelf
  <2>1. pc = "restrict_self" /\ pc' = "close_ruleset" /\ sec' = [sec EXCEPT !.domain = sec.rules]
        /\ UNCHANGED <<world, fds, tried, ran, got, fault>>
    BY <1>4 DEF RestrictSelf, Succeed
  <2>2. world.present \subseteq Range(SysDirs)
    BY PlaceAssumption DEF SandboxInv, SbTypeOK, World
  <2>3. DealtWith = {Cwd} \cup world.present
    <3>1. tried = Len(SysDirs) /\ DOMAIN SysDirs = 1 .. Len(SysDirs)
      BY <2>1, PlaceAssumption DEF Sealed, Useful
    <3> QED BY <2>2, <3>1 DEF DealtWith, Range
  <2>4. ~fault => {Cwd} \cup world.present \subseteq sec'.domain
    BY <2>1, <2>3 DEF SandboxInv, SbTypeOK, Sealed, Useful
  <2> QED BY <2>1, <2>4 DEF SandboxInv, SbTypeOK, Sealed, Useful, RefusalsHaveAReason
<1> QED BY <1>1, <1>2, <1>3, <1>4

\* The identities: the user goes last, and nobody but him takes the privilege.
LEMMA SealedDrop == ASSUME SandboxInv, Sealed, Drop PROVE Sealed'
<1>1. ASSUME NEW x \in {"groups", "gid", "uid"}, Dropping(x), Succeed("drop", "drop"),
             sec.root, UNCHANGED <<fds, tried>>,
             sec' = [sec EXCEPT !.dropped = @ \cup {x}, !.root = (x # "uid")]
      PROVE  Sealed'
  <2>1. sec'.dropped = sec.dropped \cup {x} /\ sec'.root = (x # "uid") /\ sec'.domain = sec.domain
        /\ sec'.rules = sec.rules
    BY <1>1 DEF SandboxInv, SbTypeOK
  <2>2. UNCHANGED <<world, pc, fds, tried, ran, got, fault>> /\ pc = "drop"
    BY <1>1 DEF Succeed
  <2>3. x = "uid" => ToDrop \subseteq sec.dropped \cup {x}
    <3>1. SUFFICES ASSUME x = "uid", NEW y \in ToDrop \ sec.dropped PROVE y = "uid"
      OBVIOUS
    <3>2. y \in {"groups", "gid", "uid"}
      BY <3>1, PolicyAssumption DEF SandboxInv, SbTypeOK, World
    <3>3. DropRank["uid"] <= DropRank[y]
      BY <1>1, <3>1 DEF Dropping
    <3> QED BY <3>2, <3>3 DEF DropRank
  <2>4. "uid" \notin sec'.dropped => sec'.root = world.root
    BY <1>1, <2>1 DEF Sealed, Useful
  <2>5. "uid" \in sec'.dropped => ToDrop \subseteq sec'.dropped
    BY <2>1, <2>3 DEF Sealed, Useful
  <2>6. ToDrop' = ToDrop
    BY <2>2
  <2> QED BY <2>1, <2>2, <2>4, <2>5, <2>6 DEF Sealed, Useful, DealtWith, RefusalsHaveAReason
<1>2. CASE /\ ToDrop \subseteq sec.dropped
           /\ Succeed("drop", "execve") /\ UNCHANGED <<sec, fds, tried>>
  BY <1>2 DEF SandboxInv, SbTypeOK, Sealed, Useful, DealtWith, RefusalsHaveAReason, Succeed
<1> QED BY <1>1, <1>2 DEF Drop

\* What the child's own situation refuses has one of the two reasons: it is in
\* possession of everything else.
LEMMA RefusedHasAReason ==
    ASSUME SandboxInv, Sealed, Refused
    PROVE  fault \/ (Policy.ids # {} /\ ~world.root) \/ world.prog \notin {Cwd} \cup world.present
<1>1. ~ran
  BY DEF Refused, Dropping, SandboxInv, Told
<1>2. CASE pc \in {"add_cwd", "fchdir"} /\ fds[CwdFd] = "closed"
  BY <1>1, <1>2 DEF Sealed, Useful
<1>3. CASE pc \in {"restrict_self", "seccomp"} /\ ~MayRestrict
  BY <1>3 DEF SandboxInv, Applied, Over, MayRestrict
<1>4. ASSUME NEW x \in {"groups", "gid", "uid"}, Dropping(x), ~(sec.root /\ Permitted(Number[x]))
      PROVE  Policy.ids # {} /\ ~world.root
  <2>1. Permitted(Number[x])
    BY CallsAndSources DEF Permitted, Allowed
  <2>2. "uid" \notin sec.dropped
    BY <1>4 DEF Dropping, Sealed, Useful
  <2>3. Policy.ids # {}
    BY <1>4 DEF Dropping
  <2> QED BY <1>4, <2>1, <2>2, <2>3 DEF Sealed, Useful
<1>5. CASE pc = "execve" /\ ~CanExec
  <2>1. Permitted(Number.execve)
    BY CallsAndSources DEF Permitted, Allowed, Number
  <2>2. world.prog \notin Exists \cap sec.domain
    BY <1>5, <2>1 DEF CanExec
  <2> QED BY <1>5, <2>2 DEF Exists, Sealed, Useful
<1> QED BY <1>2, <1>3, <1>4, <1>5 DEF Refused

\* The error returns.
LEMMA SealedErrors == ASSUME SandboxInv, Sealed, KernelFails \/ Refused PROVE Sealed'
<1>1. CASE KernelFails
  BY <1>1 DEF SandboxInv, SbTypeOK, Sealed, Useful, RefusalsHaveAReason, KernelFails, Abort
<1>2. CASE Refused
  <2>1. Abort /\ UNCHANGED fault
    BY <1>2 DEF Refused
  <2>2. RefusalsHaveAReason'
    BY <1>2, <2>1, RefusedHasAReason DEF RefusalsHaveAReason, Abort
  <2> QED BY <2>1, <2>2 DEF Sealed, Useful, Abort
<1> QED BY <1>1, <1>2

\* The program starts with no socket and makes none.
LEMMA SealedProgram ==
    ASSUME SandboxInv, Sealed, Execve \/ Report \/ Learn \/ Output \/ Program
    PROVE  Sealed'
<1>1. CASE Execve
  <2>1. \A f \in Sockets : fds'[f] # "open"
    BY <1>1, FdAssumption DEF SandboxInv, Applied, Execve
  <2>2. got' = {}
    BY <1>1, <2>1 DEF Execve
  <2> QED BY <1>1, <2>2 DEF SandboxInv, SbTypeOK, Sealed, Useful, RefusalsHaveAReason, Execve
<1>2. CASE Report
  BY <1>2 DEF SandboxInv, SbTypeOK, Sealed, Useful, RefusalsHaveAReason, Report
<1>3. CASE Learn
  BY <1>3 DEF Sealed, Useful, DealtWith, RefusalsHaveAReason, Learn
<1>4. CASE Output
  BY <1>4 DEF Sealed, Useful, DealtWith, RefusalsHaveAReason, Output
<1>5. CASE Exit
  BY <1>5 DEF Sealed, Useful, DealtWith, RefusalsHaveAReason, Exit
<1>6. CASE OpenProc
  <2>1. Outside \notin sec.domain
    BY <1>6, PlaceAssumption DEF SandboxInv, Told, RunsConfined, OpenProc
  <2> QED BY <1>6, <2>1 DEF Sealed, Useful, DealtWith, RefusalsHaveAReason, OpenProc
<1>7. ASSUME NEW arch \in {X86_64, I386}, NEW nr \in Calls, TryCall(arch, nr) PROVE Sealed'
  <2>1. sec.filter
    BY <1>7 DEF SandboxInv, Told, RunsConfined, TryCall
  <2>2. ~world.x32 => Meant(arch, nr) = nr /\ got = {}
    BY DEF Sealed, Meant
  <2>3. ~world.x32 => got' = {}
    BY <1>7, <2>1, <2>2, CallsAndSources DEF TryCall, Allowed
  <2>4. UNCHANGED <<world, sec, fds, tried, report, parent, ran, fault>>
        /\ pc = "running" /\ pc' \in {"running", "exited"}
    BY <1>7 DEF TryCall
  <2> QED BY <2>3, <2>4 DEF Sealed, Useful, DealtWith, RefusalsHaveAReason
<1> QED BY <1>1, <1>2, <1>3, <1>4, <1>5, <1>6, <1>7 DEF Program

\* Without x32 no way to a socket is come by, and nothing a refusal would need is missing.
THEOREM SealedInvariant == SbSpec => []Sealed
<1>1. SbInit => Sealed
  <2> SUFFICES ASSUME SbInit PROVE Sealed
    OBVIOUS
  <2>1. fds[CwdFd] # "closed"
    BY FdAssumption DEF SbInit
  <2> QED BY <2>1 DEF SbInit, Sealed, Useful, RefusalsHaveAReason
<1>2. SandboxInv /\ Sealed /\ [SbNext]_sbVars => Sealed'
  <2> SUFFICES ASSUME SandboxInv, Sealed, [SbNext]_sbVars PROVE Sealed'
    OBVIOUS
  <2>1. CASE UNCHANGED sbVars
    BY <2>1 DEF Sealed, Useful, DealtWith, RefusalsHaveAReason, sbVars
  <2>2. CASE SbNext
    BY <2>2, SealedBefore, SealedRules, SealedDrop, SealedErrors, SealedProgram DEF SbNext, Child
  <2> QED BY <2>1, <2>2
<1> QED BY <1>1, <1>2, SandboxInvariant, PTL DEF SbSpec

\* The network ban of os.rs, for every policy and host without the x32 ABI and
\* for programs that make any calls whatever: no inherited socket survives
\* execve, and what yields one to a program without one is refused.
THEOREM NoProgramHasASocket == SbSpec => []NoSocketInside
<1>1. Sealed => NoSocketInside BY DEF Sealed, NoSocketInside
<1> QED BY <1>1, SealedInvariant, PTL

\* A child that gives up names one of three reasons: the sandbox does not stand
\* in its own way, in whatever order the restrictions take effect.
THEOREM RefusalsAreJustified == SbSpec => []RefusalsHaveAReason
<1>1. Sealed => RefusalsHaveAReason BY DEF Sealed, Useful
<1> QED BY <1>1, SealedInvariant, PTL
=============================================================================
