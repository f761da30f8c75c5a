------------------------------ MODULE MCDaemon ------------------------------
(***************************************************************************)
(* Small instances of Daemon: integers of 4 bits, lines of at most 9       *)
(* tokens, and files of up to two entries, of every kind that the parser   *)
(* tells apart.                                                            *)
(***************************************************************************)
EXTENDS Daemon

Words == {"5", "5x", "0", "20", "16384", "-1", "9", "16+3", "2^63"}
MCNumbers == [w \in Words |->
  CASE w = "5" \/ w = "5x" -> 5 [] w = "0" -> 0 [] w = "20" -> 2 [] w = "16384" -> 4
    [] w = "9" -> 9 [] w = "16+3" -> 19 [] OTHER -> -1]
MCOutOfRange == {"2^63"}

Row(name, gap, eq, value) ==
  [indent |-> <<>>, name |-> name, gap |-> gap, eq |-> eq,
   pad |-> <<SP>>, value |-> value, tail |-> <<>>]

Settings ==
  {Row(<<n>>, <<SP>>, TRUE, <<v>>) : n \in {"max_clients", "max_lifetime"},
                                       v \in Words \cup {"two"}}
    \cup {Row(<<n>>, <<SP>>, TRUE, <<v>>) : n \in {"port", "syslog_facility", "syslog_ident", "other"},
                                              v \in {"LOCAL3", "5"}}
Odd ==
  {Row(<<>>, <<>>, FALSE, <<>>),               \* blank
   Row(<<HASH>>, <<>>, FALSE, <<"two">>),      \* comments
   Row(<<HASH, "port">>, <<SP>>, TRUE, <<"5">>),
   Row(<<>>, <<>>, TRUE, <<"5">>),             \* no directive
   Row(<<"port">>, <<SP>>, TRUE, <<>>),        \* no value
   Row(<<"max_clients">>, <<>>, FALSE, <<>>),  \* nothing else
   Row(<<"port">>, <<>>, TRUE, <<"5">>),       \* no space before the "="
   Row(<<"port">>, <<SP, "x", SP>>, TRUE, <<"5">>),
   Row(<<"port">>, <<EQ, "two">>, TRUE, <<"5">>)}
Wide ==
  {[Row(<<"port">>, <<SP, SP>>, TRUE, <<"5", HASH>>) EXCEPT !.indent = <<SP>>, !.tail = <<SP>>],
   [Row(<<"port">>, <<SP>>, TRUE, <<"5", EQ>>) EXCEPT !.tail = <<SP, EQ>>],
   [Row(<<HASH>>, <<SP, SP>>, FALSE, <<"two", SP>>) EXCEPT
      !.tail = <<SP, SP, SP, "port", SP, EQ, "5">>]} \* its rest is a line to fgets

MCFiles ==
  {<<>>} \cup {<<e>> : e \in Settings \cup Odd \cup Wide}
    \cup {<<e, f>> : e \in Settings \cup Odd, f \in Odd \cup {Row(<<n>>, <<SP>>, TRUE, <<"5">>) :
                                                     n \in {"port", "max_clients", "max_lifetime"}}}
=============================================================================
