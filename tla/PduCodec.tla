------------------------------- MODULE PduCodec -------------------------------
(***************************************************************************)
(* One PDU on its way from a sender to the broker: pdu_pack, pdu_unpack    *)
(* and crc32 of iris.c, and the packing of send_iris.pl.  The two hosts    *)
(* may differ in byte order, their clocks may disagree, and bits of the    *)
(* PDU may be flipped on the way.                                          *)
(*                                                                         *)
(* A byte is the set of its bits that are 1, and so is a word; bit 0 is    *)
(* the least significant one.  The members of struct pdu keep their order  *)
(* and their widths, but for the timestamp, whose TsBytes bytes wrap       *)
(* sooner than the 4 of iris.h, and for the three strings, which are       *)
(* BodyLen bytes together.                                                 *)
(***************************************************************************)
EXTENDS Integers, Sequences

CONSTANTS
  TsBytes,  \* sizeof(pdu->ts)
  BodyLen,  \* bytes of host, service and output
  MaxAge,   \* seconds a timestamp may differ from the broker's clock
  Body,     \* contents of the strings a sender may send
  Code,     \* return codes a sender may send
  Version,  \* protocol versions senders may speak
  Time,     \* times at which a PDU may be packed
  Trip      \* what may happen on the way: the broker's clock shows skew
            \* seconds more than the sender's did, the bits in flip are flipped

Wrap == 2 ^ (8 * TsBytes)
PduLen == 8 + TsBytes + BodyLen
Word(w) == SUBSET (0 .. w - 1)

ASSUME WidthAssumption == TsBytes \in Nat \ {0} /\ BodyLen \in Nat
ASSUME AgeAssumption == MaxAge \in 0 .. Wrap - 1
ASSUME PacketAssumption ==
  Version \subseteq Word(16) /\ Code \subseteq Word(16) /\ Body \subseteq [1 .. BodyLen -> Word(8)]
ASSUME TripAssumption ==
  Time \subseteq Nat /\ \A t \in Trip : t.skew \in Int /\ t.flip \in Word(8 * PduLen)

VARIABLES
  hosts,   \* the byte orders of the sender's and the broker's host
  packet,  \* what the sender packs
  at,      \* "sender", "wire", "broker" or "read"
  clock,   \* time() where the PDU is
  sent,    \* history: time() when it was packed
  wire,    \* the bytes of the PDU
  flipped, \* history: the bits that were flipped on the way
  pdu,     \* the PDU as pdu_unpack leaves it
  verdict  \* what pdu_unpack found

vars == <<hosts, packet, at, clock, sent, wire, flipped, pdu, verdict>>

-----------------------------------------------------------------------------
(***************************************************************************)
(* Words, bytes and memory.                                                *)
(***************************************************************************)
Orders == {"little", "big"}

Bits(n, w) == {b \in 0 .. w - 1 : (n \div 2 ^ b) % 2 = 1}
Number(bits, w) == CHOOSE n \in 0 .. 2 ^ w - 1 : Bits(n, w) = bits
Xor(a, b) == (a \ b) \cup (b \ a)
ShiftRight(a, n) == {b - n : b \in {x \in a : x >= n}}
LowByte(a) == a \cap 0 .. 7

\* a plausible bug: a byte that keeps the bits above it
StoreUnmasked(word, n, order) ==
  [k \in 1 .. n |-> ShiftRight(word, 8 * (IF order = "little" THEN k - 1 ELSE n - k))]

(* The n bytes of a word in memory, and the word that n bytes make. *)
Store(word, n, order) ==
  [k \in 1 .. n |-> LowByte(ShiftRight(word, 8 * (IF order = "little" THEN k - 1 ELSE n - k)))]
Load(bytes, order) ==
  LET n == Len(bytes) IN
  UNION {{b + 8 * (IF order = "little" THEN k - 1 ELSE n - k) : b \in bytes[k]} : k \in 1 .. n}

(* htons, htonl, ntohs and ntohl. *)
HostOrder(word, n, order) == word
NetworkOrder(word, n, order) == Load(Store(word, n, "big"), order)

(* struct pdu in the memory of a host. *)
Image(p, order) ==
  Store(p.crc32, 4, order) \o Store(p.ts, TsBytes, order)
    \o Store(p.version, 2, order) \o Store(p.rc, 2, order) \o p.body
Struct(m, order) ==
  [crc32   |-> Load(SubSeq(m, 1, 4), order),
   ts      |-> Load(SubSeq(m, 5, 4 + TsBytes), order),
   version |-> Load(SubSeq(m, 5 + TsBytes, 6 + TsBytes), order),
   rc      |-> Load(SubSeq(m, 7 + TsBytes, 8 + TsBytes), order),
   body    |-> SubSeq(m, 9 + TsBytes, Len(m))]

-----------------------------------------------------------------------------
(***************************************************************************)
(* crc32, by a table of what eight shifts do to each byte.                 *)
(***************************************************************************)
Polynomial == {5, 8, 9, 15, 19, 20, 21, 23, 24, 26, 27, 29, 30, 31} \* 0xedb88320
Ones == 0 .. 31
\* a plausible bug: a checksum that is kept in 16 bits
uint16_t(word) == word \cap 0 .. 15

uint32_t(word) == word \cap Ones  \* crc32 returns an unsigned long

Shifted(crc) == IF 0 \in crc THEN Xor(ShiftRight(crc, 1), Polynomial) ELSE ShiftRight(crc, 1)
CRC32 == [byte \in Word(8) |->
            LET crc[j \in 0 .. 8] == IF j = 0 THEN byte ELSE Shifted(crc[j - 1]) IN crc[8]]

Updated(crc, c) == Xor(ShiftRight(crc, 8), CRC32[LowByte(Xor(crc, c))])
crc32(buf) ==
  LET crc[i \in 0 .. Len(buf)] == IF i = 0 THEN Ones ELSE Updated(crc[i - 1], buf[i])
  IN Xor(Ones, crc[Len(buf)])

(* The same checksum by its definition, one bit of the message at a time:  *)
(* the remainder of a division by the polynomial.                          *)
OneBits(buf) == {n \in 1 .. 8 * Len(buf) : (n - 1) % 8 \in buf[(n - 1) \div 8 + 1]}
Divided(r, bit) ==
  IF 0 \in r <=> bit THEN ShiftRight(r, 1) ELSE Xor(ShiftRight(r, 1), Polynomial)
Remainder(buf) ==
  LET bits == OneBits(buf)
      r[n \in 0 .. 8 * Len(buf)] == IF n = 0 THEN Ones ELSE Divided(r[n - 1], n \in bits)
  IN Xor(Ones, r[8 * Len(buf)])

-----------------------------------------------------------------------------
(***************************************************************************)
(* pdu_pack and pdu_unpack.                                                *)
(***************************************************************************)
\* a plausible bug: the checksum is taken before the members are converted
SealedEarly(p, order) ==
  [crc32   |-> NetworkOrder(uint32_t(crc32(Image([p EXCEPT !.crc32 = {}], order))), 4, order),
   ts      |-> NetworkOrder(p.ts, TsBytes, order),
   version |-> NetworkOrder(p.version, 2, order),
   rc      |-> NetworkOrder(p.rc, 2, order),
   body    |-> p.body]

Sealed(p, order) ==
  LET q == [crc32   |-> {},
            ts      |-> NetworkOrder(p.ts, TsBytes, order),
            version |-> NetworkOrder(p.version, 2, order),
            rc      |-> NetworkOrder(p.rc, 2, order),
            body    |-> p.body]
  IN [q EXCEPT !.crc32 = NetworkOrder(uint32_t(crc32(Image(q, order))), 4, order)]

IRIS_PROTOCOL_VERSION == {0}  \* 1

(* ts is set just before, to (uint32_t)now. *)
Stamped(p, now) == [crc32 |-> {}, ts |-> Bits(now % Wrap, 8 * TsBytes),
                    version |-> p.version, rc |-> p.rc, body |-> p.body]

pdu_pack(p, now, order) ==
  Sealed([Stamped(p, now) EXCEPT !.version = IRIS_PROTOCOL_VERSION], order)

(* send_iris.pl: pack("NNnn...") and substr, on any host. *)
perl_pack(p, now) ==
  LET rest == Store(Stamped(p, now).ts, TsBytes, "big")
                \o Store(IRIS_PROTOCOL_VERSION, 2, "big")
                \o Store(p.rc, 2, "big") \o p.body
  IN Store(uint32_t(crc32(Store({}, 4, "big") \o rest)), 4, "big") \o rest

\* a plausible bug: a limit that must not be reached
too_old(a) == a >= MaxAge

(* now has 64 bits and ts does not: what is compared is now modulo Wrap,   *)
(* and what is subtracted is not.                                          *)
age(ts, now) == IF ts > now % Wrap THEN ts - now ELSE now - ts
outdated(a) == a > MaxAge

pdu_unpack(m, now, order) ==
  LET p == Struct(m, order)
      their_crc == NetworkOrder(p.crc32, 4, order)
      our_crc == uint32_t(crc32(Image([p EXCEPT !.crc32 = {}], order)))
      q == [crc32   |-> their_crc,
            ts      |-> NetworkOrder(p.ts, TsBytes, order),
            version |-> NetworkOrder(p.version, 2, order),
            rc      |-> NetworkOrder(p.rc, 2, order),
            body    |-> p.body]
  IN [pdu |-> IF our_crc # their_crc THEN [p EXCEPT !.crc32 = their_crc] ELSE q,
      verdict |-> IF our_crc # their_crc THEN "mismatch"
                  ELSE IF q.version # IRIS_PROTOCOL_VERSION THEN "version"
                  ELSE IF outdated(age(Number(q.ts, 8 * TsBytes), now)) THEN "age"
                  ELSE "good"]

-----------------------------------------------------------------------------
Nothing == [crc32 |-> {}, ts |-> {}, version |-> {}, rc |-> {}, body |-> <<>>]

Init ==
  /\ hosts \in [sender : Orders, broker : Orders]
  /\ packet \in [version : Version, rc : Code, body : Body]
  /\ clock \in Time /\ sent = clock
  /\ at = "sender" /\ wire = <<>> /\ flipped = {}
  /\ pdu = Nothing /\ verdict = "none"

Pack ==
  /\ at = "sender" /\ packet.version = IRIS_PROTOCOL_VERSION
  /\ at' = "wire" /\ sent' = clock
  /\ wire' = Image(pdu_pack(packet, clock, hosts.sender), hosts.sender)
  /\ UNCHANGED <<hosts, packet, clock, flipped, pdu, verdict>>

(* A sender that speaks another version and packs it alike. *)
PackOther ==
  /\ at = "sender" /\ packet.version # IRIS_PROTOCOL_VERSION
  /\ at' = "wire" /\ sent' = clock
  /\ wire' = Image(Sealed(Stamped(packet, clock), hosts.sender), hosts.sender)
  /\ UNCHANGED <<hosts, packet, clock, flipped, pdu, verdict>>

(* The PDU arrives. *)
Transit ==
  /\ at = "wire"
  /\ at' = "broker"
  /\ \E t \in Trip :
       /\ clock + t.skew >= 0
       /\ clock' = clock + t.skew
       /\ flipped' = t.flip
       /\ wire' = [k \in 1 .. Len(wire) |->
                     Xor(wire[k], {b \in 0 .. 7 : 8 * (k - 1) + b \in t.flip})]
  /\ UNCHANGED <<hosts, packet, sent, pdu, verdict>>

Unpack ==
  /\ at = "broker"
  /\ at' = "read"
  /\ LET r == pdu_unpack(wire, clock, hosts.broker) IN
       pdu' = r.pdu /\ verdict' = r.verdict
  /\ UNCHANGED <<hosts, packet, clock, sent, wire, flipped>>

Next == Pack \/ PackOther \/ Transit \/ Unpack
Spec == Init /\ [][Next]_vars

-----------------------------------------------------------------------------
TypeOK ==
  /\ hosts \in [sender : Orders, broker : Orders]
  /\ packet \in [version : Version, rc : Code, body : Body]
  /\ at \in {"sender", "wire", "broker", "read"}
  /\ clock \in Nat /\ sent \in Nat
  /\ wire \in Seq(Word(8))
  /\ flipped \in Word(8 * Len(wire))
  /\ pdu.crc32 \in Word(32) /\ pdu.ts \in Word(8 * TsBytes)
  /\ pdu.version \in Word(16) /\ pdu.rc \in Word(16)
  /\ verdict \in {"none", "mismatch", "version", "age", "good"}

Intact == at = "read" /\ flipped = {}

(* Whatever the byte orders of the two hosts, a PDU that was not damaged   *)
(* passes the checksum, and the broker reads the version, return code and  *)
(* strings that were packed.                                               *)
RoundTrip ==
  Intact =>
    /\ verdict # "mismatch"
    /\ [version |-> pdu.version, rc |-> pdu.rc, body |-> pdu.body] = packet
    /\ verdict = "version" <=> packet.version # IRIS_PROTOCOL_VERSION

(* The perl client puts the same bytes on the wire as the C client on a    *)
(* host of either byte order.                                              *)
ClientsAgree ==
  at = "wire" /\ packet.version = IRIS_PROTOCOL_VERSION => wire = perl_pack(packet, clock)

(* The checksum on the wire is the CRC-32 of the PDU with a zero checksum, *)
(* and a damaged PDU is never taken for a result.                          *)
Cleared(m) == [k \in 1 .. Len(m) |-> IF k <= 4 THEN {} ELSE m[k]]
ChecksumGuards ==
  /\ at = "wire" => Load(SubSeq(wire, 1, 4), "big") = Remainder(Cleared(wire))
  /\ at = "read" /\ flipped # {} => verdict = "mismatch"

(* A PDU that was not damaged is refused for its age exactly if the clocks *)
(* of sender and broker are more than MaxAge apart, in either direction,   *)
(* as t/03-pdu.t.c expects, until the timestamp wraps.  Once the broker's  *)
(* clock has passed the wrap the test is turned round: every PDU that does *)
(* not look to come from the future is refused, however fresh, and every   *)
(* other one is accepted, however far from the broker's clock.             *)
AgeWindow ==
  Intact /\ verdict # "version" =>
    /\ sent < Wrap /\ clock < Wrap =>
         (verdict = "good" <=> clock - sent <= MaxAge /\ sent - clock <= MaxAge)
    /\ clock >= Wrap => (verdict = "good" <=> sent % Wrap > clock % Wrap)
=============================================================================
