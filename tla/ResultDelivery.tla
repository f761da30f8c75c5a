--------------------------- MODULE ResultDelivery ---------------------------
(***************************************************************************)
(* What the broker promises the senders of check results, without sockets, *)
(* descriptors, client slots or buffers.  A connection is a stream of      *)
(* bytes cut every PduSize bytes; the broker takes the PDUs of each stream *)
(* one at a time, in order, and hands Icinga the ones it does not reject.  *)
(* At any moment it may drop connections, and takes nothing from them      *)
(* afterwards.  EventLoop implements this specification.                   *)
(***************************************************************************)
EXTENDS Integers, Sequences

CONSTANTS
  Conn,     \* the connections senders make during the run
  PduSize,  \* bytes in one PDU: sizeof(struct pdu), 4300
  Bogus     \* pairs <<c, k>>: the k-th PDU of c is one pdu_unpack rejects

VARIABLES
  written,  \* written[c]: bytes of c that reached the broker's host
  taken,    \* taken[c]: PDUs of c the broker has consumed
  results,  \* results[c]: numbers of the PDUs of c handed to Icinga
  gone      \* connections the broker has dropped

vars == <<written, taken, results, gone>>

Init ==
  /\ written = [c \in Conn |-> 0]
  /\ taken = [c \in Conn |-> 0]
  /\ results = [c \in Conn |-> <<>>]
  /\ gone = {}

(* One more byte of c arrives. *)
Write(c) ==
  /\ c \notin gone
  /\ written' = [written EXCEPT ![c] = @ + 1]
  /\ UNCHANGED <<taken, results, gone>>

(* The broker consumes the next PDU of c, and submits it unless it is      *)
(* bogus: recv_data of iris.c from "complete" to the memset.               *)
Take(c) ==
  /\ c \notin gone
  /\ PduSize * (taken[c] + 1) <= written[c]
  /\ taken' = [taken EXCEPT ![c] = @ + 1]
  /\ results' = IF <<c, taken[c]>> \in Bogus
                  THEN results
                  ELSE [results EXCEPT ![c] = Append(@, taken[c])]
  /\ UNCHANGED <<written, gone>>

(* The broker closes the connections of S. *)
Drop(S) ==
  /\ gone' = gone \cup S
  /\ UNCHANGED <<written, taken, results>>

Next ==
  \/ \E c \in Conn : Write(c) \/ Take(c)
  \/ \E S \in SUBSET (Conn \ gone) : Drop(S)

Spec == Init /\ [][Next]_vars

-----------------------------------------------------------------------------
TypeOK ==
  /\ written \in [Conn -> Nat]
  /\ taken \in [Conn -> Nat]
  /\ results \in [Conn -> Seq(Nat)]
  /\ gone \subseteq Conn

(* Nothing is taken before all of it has arrived. *)
WholePdus == \A c \in Conn : PduSize * taken[c] <= written[c]

(* No result is submitted twice or out of order ... *)
InOrder ==
  \A c \in Conn : \A m, n \in DOMAIN results[c] :
    m < n => results[c][m] < results[c][n]

(* ... nor invented, nor one that pdu_unpack rejects ... *)
NoneInvented ==
  \A c \in Conn : \A n \in DOMAIN results[c] :
    /\ results[c][n] < taken[c]
    /\ <<c, results[c][n]>> \notin Bogus

(* ... and every acceptable PDU that was consumed was submitted.           *)
NoneLost ==
  \A c \in Conn : \A k \in 0 .. taken[c] - 1 :
    <<c, k>> \notin Bogus =>
      \E n \in DOMAIN results[c] : results[c][n] = k

(* Exactly the acceptable PDUs consumed, once each, in the order sent. *)
Delivered == WholePdus /\ InOrder /\ NoneInvented /\ NoneLost
=============================================================================
