----------------------------- MODULE MCPduCodec -----------------------------
(***************************************************************************)
(* Small instances of PduCodec: a timestamp of one byte, two bytes of      *)
(* strings, every single flipped bit, pairs of them, and bursts of up to   *)
(* 32 bits behind the checksum.                                            *)
(***************************************************************************)
EXTENDS PduCodec

Word16(n) == Bits(n, 16)
MCBody == {<<Bits(104, 8), {}>>}
MCCode == {Word16(n) : n \in {2, 259}}
MCVersion == {Word16(1), Word16(256)}

\* around 0, around the wrap at 256, and past it
MCTime == {0, 100, 247, 255, 256, 300}

LastBit == 8 * PduLen - 1
InRest == 32 .. LastBit - 31    \* where a burst of 32 bits can begin
Flips ==
  {{b} : b \in 0 .. LastBit}
    \cup {{a, b} : a \in {0, 33}, b \in 0 .. LastBit}
    \cup {s .. s + n : s \in InRest, n \in {1, 7, 8, 31}}
    \cup {{b \in s .. s + 31 : (b - s) % k = 0} : s \in InRest, k \in {2, 3, 31}}
MCTrip == [skew : -11 .. 11, flip : {{}}] \cup [skew : {0}, flip : Flips]

\* the answer that t/00-crc32.t.c expects for "throw that hammer!\n"
Hammer == <<116, 104, 114, 111, 119, 32, 116, 104, 97, 116, 32,
            104, 97, 109, 109, 101, 114, 33, 10>>
ASSUME KnownAnswer ==
  crc32([n \in DOMAIN Hammer |-> Bits(Hammer[n], 8)])
    = {31, 28, 27, 23, 22, 21, 20, 18, 15, 14, 13, 11, 10, 3} \* 0x98f4ec08
=============================================================================
