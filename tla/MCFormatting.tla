---------------------------- MODULE MCFormatting ----------------------------
(***************************************************************************)
(* Every word in every base, words of 8 bits; pairs of halves with all     *)
(* numbers of digits; eighths up to what a word holds, with up to two      *)
(* digits; and two arguments in one format.                                *)
(***************************************************************************)
EXTENDS Formatting

Formats == {<<"{", "}">>, <<"{", "x", "}">>, <<"{", "b", "}">>, <<"{", "o", "}">>}
Padded == {<<"{", "x", "0", "}">>, <<"{", "b", "0", "}">>}

One(f, kind, n) == [fmt |-> f, args |-> <<Argument(kind, n)>>]

Halves == {0, 1, 7, 8, 9, 10, 15, 16, 99, 100, 128, 255}

MCCalls ==
    {One(f, "int", n) : f \in Formats, n \in -128..127}
        \cup {One(f, "uint", n) : f \in Formats, n \in 0..255}
        \cup {One(f, "uint64", 256 * h + l) :
                  f \in Formats \cup Padded, h \in Halves, l \in Halves}
        \cup {One(<<"{", "}">>, "pointer", n) : n \in {0, 10, 16, 255}}
        \cup {One(f, "bool", b) : f \in {<<"{", "}">>, <<"{", "s", "}">>}, b \in BOOLEAN}
        \cup {One(f, "float", n) :
                  f \in {<<"{", "}">>, <<"{", "0", "}">>, <<"{", "1", "}">>},
                  n \in (-100..100) \cup {-1016, -1012, -800, -795, 795, 800, 1012, 1016}}
        \cup {[fmt |-> <<"a", "{", "}", "b", "{", "x", "}", "c">>,
               args |-> <<Argument("text", t), Argument("uint", n)>>] :
                  t \in {<<>>, <<"p">>, <<"{", "}">>}, n \in {0, 200}}
=============================================================================
