----------------------------- MODULE MCEventLoop -----------------------------
(***************************************************************************)
(* Small instances of EventLoop.  The connections are interchangeable, and *)
(* so are the descriptor numbers.                                          *)
(***************************************************************************)
EXTENDS EventLoop, TLC

(* The second PDU of every sender is one pdu_unpack rejects. *)
MCBogus == Conn \X {1}
MCNoneBogus == {}

\* The values t/45-net-server.t.c makes iris_call_recv_data return.
MCHookResults == {0, -1}

MCSymmetry == Permutations(Conn) \cup Permutations(FD)
=============================================================================
