---------------------------- MODULE MCHttpEgress ----------------------------
(***************************************************************************)
(* Every target of up to MaxTokens tokens against two allow lists, and one *)
(* target with every host, every answer of the name server at the borders  *)
(* of the reserved ranges, and every place of the header.                  *)
(***************************************************************************)
EXTENDS HttpEgress

CONSTANT MaxTokens

Tokens == {<<"/">>, <<".">>, <<"e">>, <<"%">>, <<"?">>, <<"\\">>,
           <<"%", "2", "e">>, <<"%", "2", "F">>, <<"%", "5", "c">>, <<"%", "f", "f">>}

MCChar == {"/", "\\", ".", "?", "%", "*", "2", "5", "c", "e", "f", "F", "g"}

Targets == {<<"/">> \o FlattenSeq(w) : w \in BoundedSeq(Tokens, MaxTokens)}
           \cup {<<>>, <<"e">>, <<"e", "/">>}

V4(a, b, c, d) == [v |-> 4, a |-> <<a, b, c, d>>]
V6(a, f, g, h) == [v |-> 6, a |-> <<a, 0, 0, 0, 0, f, g, h>>]

HighBorders ==
    {<<0, 0>>, <<0, 255>>, <<1, 0>>, <<8, 8>>, <<9, 255>>, <<10, 0>>, <<10, 255>>,
     <<11, 0>>, <<100, 63>>, <<100, 64>>, <<100, 127>>, <<100, 128>>, <<126, 255>>,
     <<127, 0>>, <<127, 255>>, <<128, 0>>, <<169, 253>>, <<169, 254>>, <<169, 255>>,
     <<172, 15>>, <<172, 16>>, <<172, 31>>, <<172, 32>>, <<192, 167>>, <<192, 168>>,
     <<192, 169>>, <<223, 255>>, <<224, 0>>, <<239, 255>>, <<240, 0>>, <<255, 255>>}
LowBorders ==
    {<<192, 0, 1>>, <<192, 0, 2>>, <<192, 0, 3>>, <<192, 88, 98>>, <<192, 88, 99>>,
     <<192, 88, 100>>, <<198, 51, 99>>, <<198, 51, 100>>, <<198, 51, 101>>,
     <<203, 0, 112>>, <<203, 0, 113>>, <<203, 0, 114>>}
Addresses ==
    {V4(h[1], h[2], 1, 1) : h \in HighBorders}
    \cup {V4(l[1], l[2], l[3], 1) : l \in LowBorders}
    \cup {V6(a, 1, 0, 1) : a \in {1, 9734, 64511, 64512, 65023, 65024, 65151, 65152,
                                  65215, 65216, 65279, 65280, 65535}}
    \cup {V6(0, f, 256 * 10 + 1, 1) : f \in {0, 1, 65534, 65535}}
    \cup {V6(0, f, 256 * 8 + 8, 1) : f \in {0, 65535}}
    \cup {V6(0, 0, 0, n) : n \in {0, 1, 2}}

public  == V4(8, 8, 8, 8)
private == V4(10, 0, 0, 1)

api == <<"api", "com">>
Hosts == {api, <<"metadata">>, <<"METADATA">>, <<"metadata", "">>, <<"api", "", "com">>,
          <<"-x">>, <<"1", "1">>, <<"1", "1", "1", "1">>, <<"1", "1", "1", "256">>,
          Bracketed, <<>>, <<"metadata", "com">>}

MCLabels == {"metadata", "METADATA", "google", "internal", "instance-data", "azure",
             "com", "api", "1", "256", "", "-x", "[::1]"}
MCNameLabels == MCLabels \ {"", "-x", "[::1]"}
MCLower == [l \in MCLabels |-> IF l = "METADATA" THEN "metadata" ELSE l]

Lists == {{<<"/", "e", "/", "*">>}, {<<"*", "*", "/", "e">>, <<"/", "e", "/", "*", "*", "/", "*", "/">>}}

Request == [host |-> api, scheme |-> "http", methods |-> {"GET"},
            paths |-> {<<"/", "*", "*">>}, raw |-> <<"/", "e">>, max |-> 0,
            answers |-> {<<public>>}, head |-> 1, status |-> TRUE]

MCRequests ==
    {[Request EXCEPT !.raw = t, !.paths = l] : t \in Targets, l \in Lists}
    \cup {[Request EXCEPT !.host = h, !.answers = {<<public>>, <<public, private>>}] : h \in Hosts}
    \cup {[Request EXCEPT !.answers = {<<x>>, <<public>>}] : x \in Addresses}
    \cup {[Request EXCEPT !.max = n, !.head = h, !.status = s] :
              n \in 0 .. 4, h \in 0 .. 5, s \in BOOLEAN}
    \cup {[Request EXCEPT !.scheme = "https"], [Request EXCEPT !.methods = {"POST"}]}
=============================================================================
