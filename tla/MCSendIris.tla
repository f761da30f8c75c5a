----------------------------- MODULE MCSendIris -----------------------------
(***************************************************************************)
(* Small instances of SendIris: a buffer of 10 bytes, members of 2 bytes   *)
(* (3 for the output), and up to three pieces of every kind that the code  *)
(* tells apart.                                                            *)
(***************************************************************************)
EXTENDS SendIris

Repeat(b, n) == [k \in 1 .. n |-> b]
H == <<"h">>
S == <<"s">>

Good == {<<H, S, <<"0">>, <<"o">>>>,
         <<<<"h", "i", "g">>, S, <<"2">>, <<"o">>>>}
Lines ==
  Good \cup
  {<<H, S, <<"1">>, <<"o">>, <<"p">>>>,          \* a tab in the output
   <<H, S, <<"1">>, <<>>, <<"o">>>>,             \* one that begins with a tab
   <<H, S, <<"1">>, <<"o">>, <<Blank>>>>,        \* one that ends in space
   <<H, S, <<"1">>, <<NUL>>>>,                   \* one that is hidden
   <<H, <<>>, S, <<"1">>, <<"o">>>>,             \* a doubled delimiter
   <<H, S>>,                                     \* no return code
   <<H, <<"2">>, <<"o">>>>,                      \* host checks for send_iris.pl
   <<H, <<"0">>, <<"o">>>>,
   <<H, <<"2">>, <<"1">>, <<"0">>>>,             \* "0" is false in perl
   <<H, <<"0">>, <<"1">>, <<"o">>>>,
   <<H, S, <<"7">>, <<"o">>>>,                   \* not a return code
   <<H, S, <<"0", "0">>, <<"o">>>>,
   <<<<>>>>, <<<<NL, Blank>>>>,                  \* empty, blank
   <<<<High>>, S, <<"3">>, <<"o">>>>,            \* a host not in ASCII
   <<<<NUL, "h">>, S, <<"3">>, <<"o">>>>,
   <<H, S, <<"0">>, <<"o", NUL, "o">>>>}
Long ==
  {<<H, S, <<"0">>, Repeat("o", n)>> : n \in 3 .. 6}
    \cup {<<Repeat("x", 11), H, S, <<"0">>, <<"o">>>>}  \* the rest is a result

Pieces(lines, ends) == {[fields |-> f, end |-> e] : f \in lines, e \in ends}
Ended == {<<ETB>>, <<ETB, NL>>}
Sequence(S1, S2) == {<<a, b>> : a \in S1, b \in S2}

MCInputs ==
  {<<>>} \cup {<<a>> : a \in Pieces(Lines \cup Long, Ended \cup {<<>>})}
    \cup Sequence(Pieces(Lines \cup Long, Ended), Pieces(Lines, {<<>>}))
    \cup Sequence(Pieces(Good, Ended), Pieces(Long, {<<>>, <<ETB>>}))
    \cup {<<a, b, c>> : a \in Pieces(Good, {<<ETB>>}), b \in Pieces(Long, Ended),
                        c \in Pieces(Good, {<<>>})}
=============================================================================
