---------------------------- MODULE PacketReader ----------------------------
(***************************************************************************)
(* How the two clients read check results from standard input: strip and   *)
(* read_packets of iris.c, and the loop of send_iris.pl.                   *)
(*                                                                         *)
(* The input is a sequence of pieces, each with the fields of one result,  *)
(* separated by tabs, and the bytes that end it: ETB, ETB and a newline,   *)
(* or, at the end of the input, nothing.  A byte is named by a string; the *)
(* names below are those of the bytes the code treats in ways of their own.*)
(***************************************************************************)
EXTENDS Scan

CONSTANTS
  MaxLine,                        \* IRIS_CLI_MAX_LINE
  HostLen, ServiceLen, OutputLen, \* IRIS_PDU_..._LEN
  Inputs,                         \* what standard input may hold
  Clients,                        \* "c" for send_iris, "perl" for send_iris.pl
  Faults                          \* what may go wrong: "none"; "stream", read fails
                                  \* at the end of the input; "memory", so may realloc

ASSUME LengthAssumption == {MaxLine, HostLen, ServiceLen, OutputLen} \subseteq Nat \ {0}

VARIABLES
  client,
  fault,
  input,    \* the pieces
  rest,     \* the bytes not read yet
  eof,      \* feof(io)
  packets,  \* the results read so far
  overran   \* history: was a byte written behind buf?

readerVars == <<client, fault, input, rest, eof, packets, overran>>

Tab == "tab"
ETB == "etb"
NL == "nl"
Blank == "blank"
NUL == "nul"
High == "high"  \* the byte 0xff, which is -1 in a char
Space == {Tab, NL, Blank}

ASSUME NamesAssumption ==  \* true, but unknown to the provers
  {Tab, ETB, NL, Blank, NUL, High, "H", "O", "S", "T", "0", "1", "2", "3", "7"} \subseteq STRING

Digit == {"0", "1", "2", "3", "7"}
Value(d) == CASE d = "0" -> 0 [] d = "1" -> 1 [] d = "2" -> 2 [] d = "3" -> 3 [] OTHER -> 7

-----------------------------------------------------------------------------
(* A string that goes into a member of len bytes, and its NUL. *)
Capped[s \in Line] == [len \in Nat |-> SubSeq(s, 1, IF Len(s) < len THEN Len(s) ELSE len - 1)]

strip(s) == Trimmed[s][Space]

(* What strtok returns next, and what it leaves. *)
strtok(s) == Before[From[s][{Tab}]][{Tab}]
Rest(s) == Behind[From[s][{Tab}]][{Tab}]

(* The result on a line; none if a field is missing or the return code is  *)
(* not one of the digits 0 to 3.  The last call of strtok, with no         *)
(* delimiter, returns all that is left.                                    *)
Result[line \in Line] ==
  LET s == strip(Before[line][{NUL}])
      service == Rest(s)
      rc == Rest(service)
      output == Rest(rc)
  IN IF strtok(rc) \in {<<"0">>, <<"1">>, <<"2">>, <<"3">>} /\ output # <<>>
     THEN <<[host    |-> Capped[strtok(s)][HostLen],
             service |-> Capped[strtok(service)][ServiceLen],
             rc      |-> Value(strtok(rc)[1]),
             output  |-> Capped[output][OutputLen]]>>
     ELSE <<>>

\* plausible bugs: the for loop leaves room for the terminator in vain; the
\* byte behind ETB is always given back, or never
OneLess(n) == IF n < MaxLine THEN n ELSE MaxLine - 1
GivesBack(s) == s
GivesNone(s) == IF s # <<>> THEN Tail(s) ELSE s

(* The bytes that the for loop stores: it stops at the end of the input,   *)
(* at ETB, or when the buffer is full.                                     *)
InBuffer(n) == IF n < MaxLine THEN n ELSE MaxLine
LineLength(s) == InBuffer(Len(Before[s][{ETB}]))

(* The byte read next is given back unless it is a newline, or not > 0 as  *)
(* a char.                                                                 *)
Ungetc(s) == IF s # <<>> /\ Head(s) \in {NL, NUL, High} THEN Tail(s) ELSE s

(* One turn of the while loop.  The byte at which the for loop stops is    *)
(* gone, ETB or not.  When the stream fails getc returns -1, which is      *)
(* stored, and feof stays false: there is no end.                          *)
ReadLine ==
  /\ client = "c" /\ ~eof
  /\ LET n == LineLength(rest)
         stream == fault = "stream"
         fails == stream /\ n = Len(rest)
         line == SubSeq(rest, 1, n) \o [k \in 1 .. IF fails THEN MaxLine - n ELSE 0 |-> High]
     IN /\ packets' = packets \o Result[line]
        /\ overran' = (overran \/ Len(line) = MaxLine)
        /\ rest' = Ungetc(SubSeq(rest, n + 2, Len(rest)))
        /\ eof' = (~stream /\ Len(rest) <= n + 1)
  /\ UNCHANGED <<client, fault, input>>

(* realloc fails: read_packets returns -1, and *result stays NULL. *)
NoMemory ==
  /\ client = "c" /\ ~eof /\ fault = "memory"
  /\ strip(Before[SubSeq(rest, 1, LineLength(rest))][{NUL}]) # <<>>
  /\ packets' = <<>> /\ eof' = TRUE
  /\ overran' = (overran \/ LineLength(rest) = MaxLine)
  /\ UNCHANGED <<client, fault, input, rest>>

-----------------------------------------------------------------------------
(***************************************************************************)
(* send_iris.pl.  A delimiter is a tab with any space around it.           *)
(***************************************************************************)
First[s \in Line] == Trimmed[Before[s][{Tab}]][Space]
Others[s \in Line] == From[Behind[s][{Tab}]][Space]

(* The number perl takes a string for, 0 if it does not begin with one; 10 *)
(* stands for all that have two digits or more.                            *)
Numeric[s \in Line] ==
  LET digits == SubSeq(s, 1, Len(s) - Len(From[s][Digit]))
      number == From[digits][{"0"}]
  IN CASE Len(number) = 0 -> 0 [] Len(number) = 1 -> Value(number[1]) [] OTHER -> 10
Truth(s) == s \notin {<<>>, <<"0">>}

\* a plausible bug: "a64" for "Z64"
Unterminated(s, len) == Before[SubSeq(s, 1, IF Len(s) < len THEN Len(s) ELSE len)][{NUL}]

(* pack("Z64..."); for the broker a member ends at its first NUL. *)
Member(s, len) == Before[Capped[s][len]][{NUL}]

PerlResult[line \in Line] ==
  LET s == From[Trimmed[line][Space]][Space]
      two == Others[s]
      three == Others[two]
      four == Others[three]
      isHost == ~Truth(four) /\ Truth(First[two]) /\ First[two] \in {<<d>> : d \in Digit}
      rc == Numeric[First[IF isHost THEN two ELSE three]]
      service == IF isHost THEN <<"H", "O", "S", "T">> ELSE First[two]
  IN IF Truth(First[s]) /\ Truth(service)
     THEN <<[host    |-> Member(First[s], HostLen),
             service |-> Member(service, ServiceLen),
             rc      |-> IF rc \in 0 .. 3 THEN rc ELSE 3,
             output  |-> Member(IF isHost THEN First[three] ELSE four, OutputLen)]>>
     ELSE <<>>

(* One turn of its loop, which takes a failure for the end of the input. *)
ReadPiece ==
  /\ client = "perl" /\ ~eof
  /\ packets' = packets \o PerlResult[Before[rest][{ETB}]]
  /\ rest' = Behind[rest][{ETB}]
  /\ eof' = (Behind[rest][{ETB}] = <<>>)
  /\ UNCHANGED <<client, fault, input, overran>>

-----------------------------------------------------------------------------
Text(fields) ==
  FlattenSeq([n \in DOMAIN fields |-> IF n = 1 THEN fields[n] ELSE <<Tab>> \o fields[n]])

Stream(in) == FlattenSeq([n \in DOMAIN in |-> Text(in[n].fields) \o in[n].end])

(* Any bytes can be divided so. *)
Field == Seq(STRING \ {Tab, ETB})
Piece == [fields : Seq(Field), end : {<<ETB>>, <<ETB, NL>>, <<>>}]
ASSUME InputAssumption ==
  \A in \in Inputs : in \in Seq(Piece) /\ \A n \in DOMAIN in : in[n].end = <<>> => n = Len(in)

ReaderInit ==
  /\ client \in Clients /\ fault \in Faults
  /\ input \in Inputs
  /\ rest = Stream(input)
  /\ eof = FALSE /\ packets = <<>> /\ overran = FALSE

ReaderNext == ReadLine \/ NoMemory \/ ReadPiece

-----------------------------------------------------------------------------
(***************************************************************************)
(* What a piece means, by its fields.  Its first three that are not empty  *)
(* are the host, the service and the return code, and all behind them is   *)
(* the output, without space at its end.  A NUL hides what follows it, and *)
(* the first byte of a piece is lost where Ungetc drops it.                *)
(***************************************************************************)
Fields(n) ==
  LET f == input[n].fields
      dropped == n > 1 /\ input[n - 1].end = <<ETB>>
                   /\ Text(f) # <<>> /\ Head(Text(f)) \in {NL, NUL, High}
  IN IF dropped THEN <<Tail(f[1])>> \o Tail(f) ELSE f
Length(n) == Len(Text(Fields(n)))

Filled(fields) == SelectInSeq(fields, LAMBDA w : w # <<>>)
Word(fields) == IF Filled(fields) = 0 THEN <<>> ELSE fields[Filled(fields)]
Later(fields) ==
  IF Filled(fields) = 0 THEN <<>> ELSE SubSeq(fields, Filled(fields) + 1, Len(fields))

Meant(fields) ==
  LET service == Later(fields)
      rc == Later(service)
      output == strip(Before[Text(Later(rc))][{NUL}])
  IN IF /\ Word(rc) \in {<<"0">>, <<"1">>, <<"2">>, <<"3">>} /\ output # <<>>
        /\ NUL \notin ToSet(Word(fields)) \cup ToSet(Word(service))
     THEN <<[host    |-> Capped[Word(fields)][HostLen],
             service |-> Capped[Word(service)][ServiceLen],
             rc      |-> Value(Word(rc)[1]),
             output  |-> Capped[output][OutputLen]]>>
     ELSE <<>>
Results(from, to) == FlattenSeq([n \in 1 .. to - from + 1 |-> Meant(Fields(from + n - 1))])

ReadAll == eof /\ fault = "none"

(* send_iris reads every well-formed result, in order and with its members *)
(* capped, and nothing else: malformed, empty and blank pieces between     *)
(* them do no harm (t/20-cli.t.c, "mess").                                 *)
RecordsRead ==
  client = "c" /\ ReadAll /\ (\A n \in DOMAIN input : Length(n) <= MaxLine) =>
    packets = Results(1, Len(input))

(* A piece that does not fit the buffer, which is split, harms neither the *)
(* results before it nor those behind it.                                  *)
SplitContained ==
  client = "c" /\ ReadAll =>
    \A n \in DOMAIN input :
      (\A m \in DOMAIN input : Length(m) > MaxLine <=> m = n) =>
        IsPrefix(Results(1, n - 1), packets) /\ IsSuffix(Results(n + 1, Len(input)), packets)

(* The terminator is written behind the buffer exactly if a piece has      *)
(* MaxLine bytes or more.                                                  *)
OverrunOnlyIfLong ==
  client = "c" /\ ReadAll =>
    (overran <=> \E n \in DOMAIN input : Length(n) >= MaxLine)

(* Three fields, the second a digit, are a host check for send_iris.pl;    *)
(* but "0" is false in perl: an output that is "0" counts for none, and a  *)
(* host that is up, like a host or a service named "0", is never reported. *)
IsHostCheck(f) ==
  /\ Len(f) >= 3 /\ f[2] \in {<<d>> : d \in Digit}
  /\ ~Truth(strip(Text(SubSeq(f, 4, Len(f)))))
MeantInPerl(f) ==
  IF <<"0">> \in {f[1], f[2]} THEN <<>>
  ELSE IF ~IsHostCheck(f) THEN Meant(f)
  ELSE <<[host    |-> Capped[f[1]][HostLen],
          service |-> Capped[<<"H", "O", "S", "T">>][ServiceLen],
          rc      |-> IF f[2] = <<"7">> THEN 3 ELSE Value(f[2][1]),
          output  |-> Capped[f[3]][OutputLen]]>>

(* The perl client takes space around a tab for a part of the delimiter,   *)
(* and does not strip what a NUL cuts off.                                 *)
Tidy(f) ==
  \A n \in DOMAIN f :
    /\ strip(From[f[n]][Space]) = f[n] /\ NUL \notin ToSet(f[n])
    /\ n <= 4 => f[n] # <<>>

(* Every piece is a result, with no NUL in its fields, no space around     *)
(* them and none of the first four empty, and loses no byte.               *)
WellFormed ==
  \A n \in DOMAIN input :
    /\ Fields(n) = input[n].fields /\ Tidy(input[n].fields)
    /\ IsHostCheck(input[n].fields) \/ Meant(input[n].fields) # <<>>

(* From such an input the two clients read the same results; but           *)
(* send_iris.pl also reads host checks, takes "0" for nothing, and knows   *)
(* no limit.                                                               *)
PerlAgrees ==
  client = "perl" /\ eof /\ WellFormed =>
    packets = FlattenSeq([n \in DOMAIN input |-> MeantInPerl(input[n].fields)])
=============================================================================
