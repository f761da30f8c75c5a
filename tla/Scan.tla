-------------------------------- MODULE Scan --------------------------------
(***************************************************************************)
(* The scans that the parsers of iris are made of.  A byte, or a word that *)
(* no parser looks into, is a string; a text is a sequence of them.        *)
(***************************************************************************)
EXTENDS Integers, Sequences, SequencesExt

Line == Seq(STRING)
Bytes == SUBSET STRING

(* Up to the first byte in end, and behind it. *)
Before[s \in Line] == [end \in Bytes |->
  LET n == SelectInSeq(s, LAMBDA b : b \in end) IN IF n = 0 THEN s ELSE SubSeq(s, 1, n - 1)]
Behind[s \in Line] == [end \in Bytes |->
  LET n == SelectInSeq(s, LAMBDA b : b \in end) IN IF n = 0 THEN <<>> ELSE SubSeq(s, n + 1, Len(s))]

(* Without the bytes in drop on the right, and on the left. *)
Trimmed[s \in Line] == [drop \in Bytes |->
  SubSeq(s, 1, SelectLastInSeq(s, LAMBDA b : b \notin drop))]
From[s \in Line] == [drop \in Bytes |->
  LET n == SelectInSeq(s, LAMBDA b : b \notin drop) IN IF n = 0 THEN <<>> ELSE SubSeq(s, n, Len(s))]
=============================================================================
