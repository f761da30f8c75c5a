------------------------------ MODULE SendIris ------------------------------
(***************************************************************************)
(* A run of a client, from its input to its exit: main of send_iris.c with *)
(* read_packets, net_connect, pdu_write and fd_sink of iris.c, and         *)
(* send_iris.pl; and the broker at the other end, as EventLoop leaves it   *)
(* to be seen from here.                                                   *)
(*                                                                         *)
(* A PDU is written in Parts parts.  The connection is a count of the      *)
(* parts written and one of the PDUs that the broker has taken.            *)
(***************************************************************************)
EXTENDS PacketReader

CONSTANTS
  Parts,        \* in a PDU
  Room,         \* parts that the connection holds
  Timeouts,     \* values of OPTS.timeout
  Networks,     \* "up", "refused", or "silent": connect does not return
  BrokerErrs    \* may the broker forget or reset the connection?

ASSUME PartsAssumption == Parts \in Nat \ {0} /\ Room \in Nat /\ Room >= Parts
ASSUME TimeoutsAssumption == Timeouts \subseteq Nat
ASSUME BrokerErrsAssumption == BrokerErrs \in BOOLEAN

VARIABLES
  pc,       \* "read", "connect", "write", "sink", "leave" or "gone"
  timeout,  \* OPTS.timeout
  network,  \* as connect finds it
  alarm,    \* is an alarm pending?
  written,  \* parts the kernel has accepted
  peer,     \* "none", "serving", "ignoring", "closed" or "reset"
  taken,    \* PDUs the broker has read whole, accepted or not
  exit      \* -1 until the program exits; 255 for die, 141 for SIGPIPE

sendVars == <<pc, timeout, network, alarm, written, peer, taken, exit>>
vars == <<readerVars, sendVars>>

C == client = "c"

\* a plausible bug: one turn of the for loop too many
OneMore == Parts * (Len(packets) + 1)
Total == Parts * Len(packets)
Exits(status) == pc' = "gone" /\ exit' = status /\ alarm' = FALSE

Init ==
  /\ ReaderInit
  /\ pc = "read" /\ exit = -1 /\ alarm = FALSE
  /\ timeout \in Timeouts /\ network = "up"
  /\ written = 0 /\ peer = "none" /\ taken = 0

Read == pc = "read" /\ ReaderNext /\ UNCHANGED sendVars

\* a plausible bug: the alarm is set once the connection is there
ArmedLate == FALSE

(* alarm(0) sets none. *)
Armed == C /\ timeout > 0

(* signal(SIGALRM, ...) and alarm, once the input has been read. *)
StartClock ==
  /\ pc = "read" /\ eof
  /\ pc' = "connect"
  /\ alarm' = Armed
  /\ network' \in Networks
  /\ UNCHANGED <<readerVars, timeout, written, peer, taken, exit>>

(* net_connect; the perl client gives up a silent host on its own.  The    *)
(* broker may have no slot for the connection and forget it.               *)
Connect ==
  /\ pc = "connect" /\ network = "up"
  /\ pc' = "write"
  /\ peer' \in IF BrokerErrs THEN {"serving", "ignoring"} ELSE {"serving"}
  /\ UNCHANGED <<readerVars, timeout, network, alarm, written, taken, exit>>

ConnectFails ==
  /\ pc = "connect"
  /\ network = "refused" \/ (network = "silent" /\ ~C)
  /\ Exits(IF C THEN 3 ELSE 255)
  /\ UNCHANGED <<readerVars, timeout, network, written, peer, taken>>

(* One write of pdu_write or syswrite; it waits while the connection is    *)
(* full.                                                                   *)
Write ==
  /\ pc = "write" /\ written < Total
  /\ peer = "reset" \/ written - Parts * taken < Room
  /\ written' = written + 1
  /\ UNCHANGED <<readerVars, pc, timeout, network, alarm, peer, taken, exit>>

(* Once the connection is reset a write may still be accepted, fail, or    *)
(* raise SIGPIPE, which neither program handles.  The perl client does not *)
(* look at what syswrite returns.                                          *)
WriteFails ==
  /\ pc = "write" /\ written < Total /\ peer = "reset"
  /\ \/ C /\ Exits(3) /\ UNCHANGED written
     \/ Exits(141) /\ UNCHANGED written
     \/ ~C /\ written' = Parts * (written \div Parts + 1) /\ UNCHANGED <<pc, exit, alarm>>
  /\ UNCHANGED <<readerVars, timeout, network, peer, taken>>

\* plausible bugs: the connection is not shut down; the answer is not awaited
StaysOpen == pc = "gone"
SinkAtOnce == pc = "sink"

ShutDown == pc \in {"sink", "leave", "gone"}

Finish ==
  /\ pc = "write" /\ written = Total
  /\ IF C THEN pc' = "sink" /\ UNCHANGED <<exit, alarm>> ELSE Exits(0)
  /\ UNCHANGED <<readerVars, timeout, network, written, peer, taken>>

(* fd_sink reads until the broker has closed.  The -1 of a reset is a      *)
(* large size_t, and the read after it returns 0: nothing tells a reset    *)
(* from a close.                                                           *)
EndOfFile == pc = "sink" /\ peer \in {"closed", "reset"}

Sink ==
  /\ EndOfFile
  /\ pc' = "leave"
  /\ UNCHANGED <<readerVars, timeout, network, alarm, written, peer, taken, exit>>

(* close(sock), alarm(0), and "Sent %d results". *)
Leave ==
  /\ pc = "leave"
  /\ Exits(0)
  /\ UNCHANGED <<readerVars, timeout, network, written, peer, taken>>

alarm_handler ==
  /\ alarm
  /\ Exits(3)
  /\ UNCHANGED <<readerVars, timeout, network, written, peer, taken>>

-----------------------------------------------------------------------------
(***************************************************************************)
(* The broker.                                                             *)
(***************************************************************************)
Whole == Parts * (taken + 1) <= written  \* one more PDU has arrived

Take ==
  /\ peer = "serving" /\ Whole
  /\ taken' = taken + 1
  /\ UNCHANGED <<readerVars, pc, timeout, network, alarm, written, peer, exit>>

(* It closes at the end of file; a check that Icinga has forked in the     *)
(* meantime may hold a copy of the descriptor, which is not close-on-exec. *)
CloseAtEof ==
  /\ peer = "serving" /\ ShutDown /\ ~Whole
  /\ peer' \in IF BrokerErrs THEN {"closed", "ignoring"} ELSE {"closed"}
  /\ UNCHANGED <<readerVars, pc, timeout, network, alarm, written, taken, exit>>

(* It closes before that: the deadline has passed, or Icinga has ended.  A *)
(* PDU that is refused is read and discarded, and closes nothing.          *)
Reset ==
  /\ BrokerErrs /\ peer \in {"serving", "ignoring"}
  /\ peer' = "reset"
  /\ UNCHANGED <<readerVars, pc, timeout, network, alarm, written, taken, exit>>

Program == Read \/ StartClock \/ Connect \/ ConnectFails \/ Write \/ WriteFails
             \/ Finish \/ Sink \/ Leave
Broker == Take \/ CloseAtEof

Next == Program \/ alarm_handler \/ Broker \/ Reset

(* The program, its alarm and a broker that serves it go on; nothing else  *)
(* need happen.                                                            *)
Spec == Init /\ [][Next]_vars /\ WF_vars(Program) /\ WF_vars(alarm_handler) /\ WF_vars(Broker)

-----------------------------------------------------------------------------
TypeOK ==
  /\ packets \in Seq([host : Seq(STRING), service : Seq(STRING), rc : 0 .. 3, output : Seq(STRING)])
  /\ eof \in BOOLEAN /\ overran \in BOOLEAN
  /\ pc \in {"read", "connect", "write", "sink", "leave", "gone"}
  /\ alarm \in BOOLEAN
  /\ written \in 0 .. Total /\ taken \in 0 .. Len(packets)
  /\ peer \in {"none", "serving", "ignoring", "closed", "reset"}
  /\ exit \in {-1, 0, 3, 141, 255}

(* send_iris reports "Sent %d results" only when every byte of them has    *)
(* been written; and unless the connection was reset, which fd_sink cannot *)
(* tell from a close, it has waited until the broker has read them all.    *)
SentMeansTaken ==
  C /\ exit = 0 => written = Total /\ (peer # "reset" => taken = Len(packets))

(* With a timeout send_iris ends whatever the network and the broker do,   *)
(* if its input can be read.                                               *)
TimeoutEnds == (C /\ timeout > 0 /\ fault # "stream") ~> (pc = "gone")

(* Without one, and with a broker that serves it, so does either client.   *)
ServedEnds ==
  (fault # "stream" /\ [](network # "silent" /\ peer # "ignoring")) => <>(pc = "gone")
=============================================================================
