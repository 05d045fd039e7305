----------------------------- MODULE HttpTarget -----------------------------
(***************************************************************************)
(* The string functions of capable-broker/src/net.rs that decide which     *)
(* path an HttpCap may ask for: canonical_request_target and path_matches, *)
(* and beside them what they are meant to compute.  A string is a sequence *)
(* of characters.                                                          *)
(*                                                                         *)
(* A definition whose name starts with Bug_ is a defect of the definition  *)
(* that follows it; the specification never uses one.                      *)
(***************************************************************************)
EXTENDS Integers, Sequences, FiniteSets, SequencesExt

CONSTANT Char

\* The characters that Join and Decoded write.
ASSUME CharAssumption == {"/", ".", "\\", "g"} \subseteq Char

(***************************************************************************)
(* Pieces of strings                                                       *)
(***************************************************************************)
\* The elements of s at the places in S, in their order.
Picked(s, S) ==
    LET upto[i \in Nat] ==
            IF i = 0 THEN <<>>
            ELSE IF i \in S THEN Append(upto[i - 1], s[i]) ELSE upto[i - 1]
    IN  upto[Len(s)]

\* What stands before the first c; all of s if there is none.
Before(s, c) ==
    SubSeq(s, 1, CHOOSE n \in 0 .. Len(s) :
                     (n = Len(s) \/ s[n + 1] = c) /\ \A i \in 1 .. n : s[i] # c)
After(s, c)  == SubSeq(s, Len(Before(s, c)) + 1, Len(s))

\* The pieces between the slashes: one begins at the start and one behind
\* every slash.  A function, as is DotFree: TLC evaluates its argument once.
Split[s \in Seq(Char)] ==
    Picked([i \in 1 .. Len(s) + 1 |-> Before(SubSeq(s, i, Len(s)), "/")],
           {i \in 1 .. Len(s) + 1 : i = 1 \/ s[i - 1] = "/"})

Join(segments) ==
    IF segments = <<>> THEN <<"/">>
    ELSE FlattenSeq([i \in DOMAIN segments |-> <<"/">> \o segments[i]])

(***************************************************************************)
(* canonical_request_target                                                *)
(***************************************************************************)
Hex == {"0", "1", "2", "3", "4", "5", "6", "7", "8", "9",
        "a", "b", "c", "d", "e", "f", "A", "B", "C", "D", "E", "F"}

\* "control" is any of the control characters, DEL among them.
Illegal == {"\\", " ", "control"}

DotEscapes       == {"2"} \X {"e", "E"}
SlashEscapes     == {"2"} \X {"f", "F"}
BackslashEscapes == {"5"} \X {"c", "C"}

Escapes == DotEscapes \cup SlashEscapes \cup BackslashEscapes

Escape(s, i) == SubSeq(s, i + 1, i + 2)

Malformed(s, i) == i + 2 > Len(s) \/ s[i + 1] \notin Hex \/ s[i + 2] \notin Hex

Bug_SeparatorsMayBeEscaped(s) == \E i \in DOMAIN s : s[i] = "%" /\ Malformed(s, i)

BadPercent(s) ==
    \E i \in DOMAIN s : s[i] = "%" /\ (Malformed(s, i) \/ Escape(s, i) \in Escapes)

\* Empty segments and "." are left out and each ".." takes back the segment
\* before it; ok is FALSE when there is none.  Depth is the number of segments
\* that are held behind the i-th: a segment stays if it never falls below.
DotFree[parts \in Seq(Seq(Char))] ==
    LET up    == {i \in DOMAIN parts : parts[i] = <<".", ".">>}
        named == {i \in DOMAIN parts : parts[i] \notin {<<>>, <<".">>, <<".", ".">>}}
        Depth(i) == Cardinality({j \in named : j <= i}) - Cardinality({j \in up : j <= i})
        stays == {i \in named : \A j \in up : j > i => Depth(j) >= Depth(i)}
    IN  [ok |-> \A i \in up : Depth(i) >= 0, segments |-> Picked(parts, stays)]

RemoveDotSegments(path) == DotFree[Split[path]]

Starts(s, prefix) == IsPrefix(prefix, s)

Canonical(raw) ==
    LET path == Before(raw, "?")
        norm == RemoveDotSegments(path)
    IN  [ok |-> /\ Starts(raw, <<"/">>) /\ ~Starts(raw, <<"/", "/">>)
                /\ \A i \in DOMAIN raw : raw[i] \notin Illegal
                /\ ~BadPercent(path) /\ ~BadPercent(After(raw, "?"))
                /\ norm.ok,
         text |-> Join(norm.segments) \o After(raw, "?")]

(***************************************************************************)
(* path_matches: * stands for one segment, ** for any number of them       *)
(***************************************************************************)
TrimSlashes(s) ==
    LET kept == {i \in DOMAIN s : s[i] # "/"}
    IN  IF kept = {} THEN <<>>
        ELSE SubSeq(s, CHOOSE i \in kept : \A j \in kept : i <= j,
                       CHOOSE i \in kept : \A j \in kept : i >= j)

SegmentsOf(s) == Split[TrimSlashes(s)]

Star == <<"*">>
StarStar == <<"*", "*">>

\* m[i] holds the places of the path from which on it matches the pattern from
\* i on.
SegMatch(pat, q) ==
    LET m[i \in 1 .. Len(pat) + 1] ==
            IF i > Len(pat) THEN {Len(q) + 1}
            ELSE IF pat[i] = StarStar
            THEN {j \in 1 .. Len(q) + 1 : \E k \in m[i + 1] : j <= k}
            ELSE {j \in 1 .. Len(q) : pat[i] \in {Star, q[j]} /\ j + 1 \in m[i + 1]}
    IN  1 \in m[1]

PathMatches(pattern, path) == SegMatch(SegmentsOf(pattern), SegmentsOf(path))

(***************************************************************************)
(* What these functions are for                                            *)
(***************************************************************************)
\* A pattern matches if the path can be cut so that every element of the
\* pattern gets a piece of its own kind.
Agrees(pat, q) ==
    \E cut \in [0 .. Len(pat) -> 0 .. Len(q)] :
        /\ cut[0] = 0 /\ cut[Len(pat)] = Len(q)
        /\ \A i \in 1 .. Len(pat) :
               IF pat[i] = StarStar THEN cut[i] >= cut[i - 1]
               ELSE /\ cut[i] = cut[i - 1] + 1
                    /\ pat[i] \in {Star, q[cut[i]]}

\* The characters a server makes of a path when it undoes its escapes.  The
\* letter g stands for every character that has no meaning in a path.
Decoded(s) ==
    LET escapes == {i \in DOMAIN s : s[i] = "%" /\ ~Malformed(s, i)}
        inside  == {i \in DOMAIN s : i - 1 \in escapes \/ i - 2 \in escapes}
        char(i) == CASE i \notin escapes -> s[i]
                     [] i \in escapes /\ Escape(s, i) \in DotEscapes -> "."
                     [] i \in escapes /\ Escape(s, i) \in SlashEscapes -> "/"
                     [] i \in escapes /\ Escape(s, i) \in BackslashEscapes -> "\\"
                     [] OTHER -> "g"
    IN  Picked([i \in DOMAIN s |-> char(i)], DOMAIN s \ inside)

\* The resource a lenient server finds behind a target: escapes undone before
\* the path is split, a backslash as good as a slash, dots resolved.
Resource(target) ==
    LET text == Decoded(Before(target, "?"))
    IN  RemoveDotSegments([i \in DOMAIN text |-> IF text[i] = "\\" THEN "/" ELSE text[i]])
=============================================================================
