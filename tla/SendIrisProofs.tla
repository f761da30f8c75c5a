--------------------------- MODULE SendIrisProofs ---------------------------
(***************************************************************************)
(* Proofs about SendIris, for every input, buffer and size of the members, *)
(* network and broker: what the two clients read and write, and what "Sent *)
(* %d results" means.                                                      *)
(***************************************************************************)
EXTENDS SendIris, ScanProofs

(* A check result, as the clients put it into a struct pdu. *)
Packet == [host : Line, service : Line, rc : 0 .. 3, output : Line]

(***************************************************************************)
(* What the reader needs.                                                  *)
(***************************************************************************)
LEMMA CappedIsLine ==
  ASSUME NEW s \in Line, NEW len \in Nat \ {0}
  PROVE  Capped[s][len] \in Line
<1> DEFINE n == IF Len(s) < len THEN Len(s) ELSE len - 1
<1>1. n \in Nat /\ n <= Len(s)
  BY DEF Line
<1>2. Capped[s][len] = SubSeq(s, 1, n)
  BY DEF Capped
<1> HIDE DEF n
<1>. QED BY <1>1, <1>2, PartOfLine

LEMMA Names ==
  /\ {Tab} \in Bytes /\ {ETB} \in Bytes /\ {NUL} \in Bytes /\ Space \in Bytes
  /\ <<"H", "O", "S", "T">> \in Line
  /\ HostLen \in Nat \ {0} /\ ServiceLen \in Nat \ {0} /\ OutputLen \in Nat \ {0}
BY NamesAssumption, LengthAssumption DEF Bytes, Space, Line

-----------------------------------------------------------------------------
(***************************************************************************)
(* The fields of a piece and its text: where strtok finds a field, and     *)
(* what it leaves.                                                         *)
(***************************************************************************)
Led(fields) == [n \in DOMAIN fields |-> <<Tab>> \o fields[n]]
Spaced(fields) == [n \in DOMAIN fields |-> IF n = 1 THEN fields[n] ELSE <<Tab>> \o fields[n]]

LEMMA LedOf ==
  ASSUME NEW S, NEW f \in Seq(Seq(S)), Tab \in S
  PROVE  /\ Led(f) \in Seq(Seq(S)) /\ Spaced(f) \in Seq(Seq(S))
         /\ Len(Led(f)) = Len(f) /\ Len(Spaced(f)) = Len(f)
         /\ \A n \in 1 .. Len(f) :
              /\ Led(f)[n] = <<Tab>> \o f[n] /\ Led(f)[n] \in Seq(S)
              /\ Spaced(f)[n] = (IF n = 1 THEN f[n] ELSE <<Tab>> \o f[n])
              /\ Spaced(f)[n] \in Seq(S)
<1>1. Len(f) \in Nat /\ DOMAIN f = 1 .. Len(f)
  BY LenProperties
<1>2. <<Tab>> \in Seq(S)
  OBVIOUS
<1>3. ASSUME NEW n \in 1 .. Len(f) PROVE f[n] \in Seq(S) /\ <<Tab>> \o f[n] \in Seq(S)
  BY <1>2, ElementOfSeq, ConcatProperties
<1> DEFINE l == Led(f)
           p == Spaced(f)
<1>4. /\ \A n \in 1 .. Len(f) : l[n] = <<Tab>> \o f[n]
      /\ \A n \in 1 .. Len(f) : p[n] = IF n = 1 THEN f[n] ELSE <<Tab>> \o f[n]
  BY <1>1 DEF Led, Spaced
<1>5. l \in [1 .. Len(f) -> Seq(S)] /\ p \in [1 .. Len(f) -> Seq(S)]
  BY <1>1, <1>3 DEF Led, Spaced
<1> HIDE DEF l, p
<1>6. l \in Seq(Seq(S)) /\ p \in Seq(Seq(S)) /\ Len(l) = Len(f) /\ Len(p) = Len(f)
  <2> DEFINE Q == Seq(S)
  <2>1. l \in [1 .. Len(f) -> Q] /\ p \in [1 .. Len(f) -> Q]
    BY <1>5
  <2> HIDE DEF Q
  <2>2. l \in Seq(Q) /\ p \in Seq(Q) /\ Len(l) = Len(f) /\ Len(p) = Len(f)
    BY <1>1, <2>1, AsSeq
  <2>. QED BY <2>2 DEF Q
<1>7. ASSUME NEW n \in 1 .. Len(f) PROVE l[n] \in Seq(S) /\ p[n] \in Seq(S)
  BY <1>5
<1>. QED BY <1>4, <1>6, <1>7 DEF l, p

LEMMA FieldsAre ==
  ASSUME NEW f \in Seq(Field)
  PROVE  /\ f \in Seq(Seq(STRING \ {ETB})) /\ f \in Seq(Line)
         /\ Tab \in STRING \ {ETB} /\ Tab \in STRING
         /\ \A n \in 1 .. Len(f) : f[n] \in Line /\ Avoids(f[n], {Tab})
<1>1. Tab \in STRING /\ Tab # ETB
  BY NamesAssumption DEF Tab, ETB
<1>2. Field \subseteq Seq(STRING \ {ETB}) /\ Field \subseteq Line
  <2>1. ASSUME NEW w \in Field PROVE w \in Seq(STRING \ {ETB}) /\ w \in Line
    BY SeqMonotonic DEF Field, Line
  <2>. QED BY <2>1
<1>3. f \in Seq(Seq(STRING \ {ETB})) /\ f \in Seq(Line)
  <2> DEFINE Q == Seq(STRING \ {ETB})
  <2>1. Field \subseteq Q
    BY <1>2
  <2> HIDE DEF Q
  <2>2. f \in Seq(Q)
    BY <2>1, SeqMonotonic
  <2>3. f \in Seq(Line)
    BY <1>2, SeqMonotonic
  <2>. QED BY <2>2, <2>3 DEF Q
<1>4. ASSUME NEW n \in 1 .. Len(f) PROVE f[n] \in Line /\ Avoids(f[n], {Tab})
  <2>1. f[n] \in Field
    BY ElementOfSeq
  <2>2. \A i \in 1 .. Len(f[n]) : f[n][i] \in STRING \ {Tab, ETB}
    BY <2>1, ElementOfSeq DEF Field
  <2>. QED BY <1>2, <2>1, <2>2 DEF Avoids
<1>. QED BY <1>1, <1>3, <1>4

LEMMA TextIs == ASSUME NEW f PROVE Text(f) = FlattenSeq(Spaced(f))
BY DEF Text, Spaced

LEMMA TextIsLine ==
  ASSUME NEW f \in Seq(Field)
  PROVE  Text(f) \in Line /\ Avoids(Text(f), {ETB})
<1>1. PICK S : S = STRING \ {ETB}
  OBVIOUS
<1>2. f \in Seq(Seq(S)) /\ Tab \in S
  BY <1>1, FieldsAre
<1>3. Text(f) \in Seq(S)
  BY <1>2, LedOf, FlattenType, TextIs
<1>4. Text(f) \in Line
  BY <1>1, <1>3, SeqMonotonic DEF Line
<1>5. \A i \in 1 .. Len(Text(f)) : Text(f)[i] \in S
  BY <1>3, ElementOfSeq
<1>. QED BY <1>1, <1>4, <1>5 DEF Avoids

LEMMA TextNone == Text(<<>>) = <<>>
<1>1. Spaced(<<>>) = <<>>
  BY DEF Spaced
<1>. QED BY <1>1, TextIs, FlattenNone

LEMMA OneField == ASSUME NEW S, NEW w \in Seq(S) PROVE <<w>> \in Seq(Seq(S)) /\ Len(<<w>>) = 1
OBVIOUS

(* A text behind the delimiter. *)
LEMMA LedText ==
  ASSUME NEW f \in Seq(Field)
  PROVE  /\ FlattenSeq(Led(f)) = IF f = <<>> THEN <<>> ELSE <<Tab>> \o Text(f)
         /\ FlattenSeq(Led(f)) \in Line
<1>1. CASE f = <<>>
  <2>1. Led(f) = <<>> /\ <<>> \in Line
    BY <1>1 DEF Led, Line
  <2>. QED BY <1>1, <2>1, FlattenNone
<1>2. CASE f # <<>>
  <2>1. PICK S : S = STRING
    OBVIOUS
  <2>2. f \in Seq(Seq(S)) /\ Tab \in S
    BY <2>1, FieldsAre DEF Line
  <2>3. PICK Q : Q = Seq(S)
    OBVIOUS
  <2>4. f \in Seq(Q) /\ Len(f) \in Nat \ {0} /\ f[1] \in Q
    BY <1>2, <2>2, <2>3, EmptySeq, ElementOfSeq
  <2> DEFINE l == Led(f)
             p == Spaced(f)
             more == SubSeq(l, 2, Len(f))
             more2 == SubSeq(p, 2, Len(f))
  <2>5. /\ l \in Seq(Q) /\ p \in Seq(Q) /\ Len(l) = Len(f) /\ Len(p) = Len(f)
        /\ \A n \in 1 .. Len(f) : n # 1 => l[n] = p[n]
        /\ l[1] = <<Tab>> \o f[1] /\ p[1] = f[1] /\ l[1] \in Q /\ p[1] \in Q
    <3>1. 1 \in 1 .. Len(f)
      BY <2>4
    <3>2. /\ Led(f) \in Seq(Seq(S)) /\ Spaced(f) \in Seq(Seq(S))
          /\ Len(Led(f)) = Len(f) /\ Len(Spaced(f)) = Len(f)
          /\ \A n \in 1 .. Len(f) :
               /\ Led(f)[n] = <<Tab>> \o f[n] /\ Led(f)[n] \in Seq(S)
               /\ Spaced(f)[n] = (IF n = 1 THEN f[n] ELSE <<Tab>> \o f[n])
               /\ Spaced(f)[n] \in Seq(S)
      BY <2>2, LedOf
    <3>. QED BY <2>3, <3>1, <3>2
  <2> HIDE DEF l, p
  <2>6. l = <<l[1]>> \o more /\ p = <<p[1]>> \o more2
    <3>1. /\ 1 \in 1 .. Len(l) /\ Len(l) \in 1 .. Len(l)
          /\ 1 \in 1 .. Len(p) /\ Len(p) \in 1 .. Len(p) /\ 1 + 1 = 2
      BY <2>4, <2>5
    <3>2. SubSeq(l, 1, Len(l)) = l /\ SubSeq(p, 1, Len(p)) = p
      BY <2>5, SubSeqFull
    <3>3. /\ SubSeq(l, 1, Len(l)) = <<l[1]>> \o SubSeq(l, 1 + 1, Len(l))
          /\ SubSeq(p, 1, Len(p)) = <<p[1]>> \o SubSeq(p, 1 + 1, Len(p))
      BY <2>5, <3>1, SubSeqRecursiveFirst
    <3>. QED BY <2>5, <3>1, <3>2, <3>3
  <2>7. /\ more \in Seq(Q) /\ more2 = more
    <3>1. PICK m \in Nat : m = Len(f)
      BY <2>4
    <3>2. /\ \A n \in 2 .. m : l[n] \in Q /\ p[n] \in Q /\ p[n] = l[n]
      BY <2>5, <3>1, ElementOfSeq
    <3>3. /\ more \in Seq(Q) /\ Len(more) = (IF 2 <= m THEN m - 2 + 1 ELSE 0)
          /\ \A i \in 1 .. m - 2 + 1 : more[i] = l[2 + i - 1]
      BY <3>1, <3>2, SubSeqProperties
    <3>4. /\ more2 \in Seq(Q) /\ Len(more2) = (IF 2 <= m THEN m - 2 + 1 ELSE 0)
          /\ \A i \in 1 .. m - 2 + 1 : more2[i] = p[2 + i - 1]
      BY <3>1, <3>2, SubSeqProperties
    <3> HIDE DEF more, more2
    <3>5. ASSUME NEW i \in 1 .. Len(more) PROVE more[i] = more2[i]
      <4>1. i \in 1 .. m - 2 + 1 /\ 2 + i - 1 \in 2 .. m
        BY <3>3
      <4>. QED BY <3>2, <3>3, <3>4, <4>1
    <3>. QED BY <3>3, <3>4, <3>5, SeqEqual
  <2> HIDE DEF more, more2
  <2>8. /\ FlattenSeq(l) = l[1] \o FlattenSeq(more)
        /\ FlattenSeq(p) = p[1] \o FlattenSeq(more)
        /\ FlattenSeq(more) \in Seq(S)
    <3>1. /\ <<l[1]>> \in Seq(Seq(S)) /\ <<p[1]>> \in Seq(Seq(S)) /\ more \in Seq(Seq(S))
          /\ l[1] \in Seq(S) /\ p[1] \in Seq(S)
      BY <2>3, <2>5, <2>7, OneField
    <3>2. /\ FlattenSeq(<<l[1]>> \o more) = FlattenSeq(<<l[1]>>) \o FlattenSeq(more)
          /\ FlattenSeq(<<p[1]>> \o more) = FlattenSeq(<<p[1]>>) \o FlattenSeq(more)
      BY <3>1, FlattenConcat
    <3>3. FlattenSeq(<<l[1]>>) = l[1] /\ FlattenSeq(<<p[1]>>) = p[1]
      BY <3>1, FlattenOne
    <3>4. FlattenSeq(more) \in Seq(S)
      BY <3>1, FlattenType
    <3>. QED BY <2>6, <2>7, <3>2, <3>3, <3>4
  <2>9. FlattenSeq(l) = <<Tab>> \o FlattenSeq(p) /\ FlattenSeq(l) \in Seq(S)
    <3>1. PICK a \in Seq(S), b \in Seq(S), c \in Seq(S) :
            a = <<Tab>> /\ b = f[1] /\ c = FlattenSeq(more)
      <4>1. <<Tab>> \in Seq(S) /\ f[1] \in Seq(S) /\ FlattenSeq(more) \in Seq(S)
        BY <2>2, <2>3, <2>4, <2>8
      <4>. QED BY <4>1
    <3>2. (a \o b) \o c = a \o (b \o c) /\ a \o (b \o c) \in Seq(S)
      BY ConcatAssociative, ConcatProperties
    <3>. QED BY <2>5, <2>8, <3>1, <3>2
  <2>. QED BY <1>2, <2>1, <2>9, TextIs DEF l, p, Line
<1>. QED BY <1>1, <1>2

LEMMA FilledIs ==
  ASSUME NEW f \in Seq(Field)
  PROVE  /\ Filled(f) \in 0 .. Len(f) /\ Len(f) \in Nat
         /\ Filled(f) # 0 => f[Filled(f)] # <<>>
         /\ \A n \in 1 .. Len(f) : (Filled(f) = 0 \/ n < Filled(f)) => f[n] = <<>>
<1> DEFINE I == {n \in 1 .. Len(f) : f[n] # <<>>}
<1>1. PICK l \in Nat : l = Len(f)
  OBVIOUS
<1>2. Filled(f) = IF I # {} THEN Min(I) ELSE 0
  BY DEF Filled, SelectInSeq
<1>3. I \subseteq 1 .. l /\ I \subseteq Nat
  BY <1>1
<1>4. CASE I = {}
  <2>1. \A n \in 1 .. Len(f) : f[n] = <<>>
    BY <1>4
  <2> HIDE DEF I
  <2>. QED BY <1>1, <1>2, <1>4, <2>1
<1>5. CASE I # {}
  <2>1. PICK m \in I : \A n \in I : m <= n
    <3> HIDE DEF I
    <3>. QED BY <1>3, <1>5, Least
  <2>2. Filled(f) = m
    <3> HIDE DEF I
    <3>. QED BY <1>2, <1>3, <1>5, <2>1, MinIs
  <2>3. m \in 1 .. l /\ f[m] # <<>>
    BY <1>1
  <2>4. ASSUME NEW n \in 1 .. l, n < m PROVE f[n] = <<>>
    <3>1. ~(m <= n)
      BY <2>3, <2>4
    <3>. QED BY <1>1, <2>1, <3>1
  <2>. QED BY <1>1, <2>2, <2>3, <2>4
<1>. QED BY <1>4, <1>5

LEMMA BlankText ==
  ASSUME NEW f \in Seq(Field), \A n \in 1 .. Len(f) : f[n] = <<>>
  PROVE  AllIn(Text(f), {Tab})
<1>1. PICK S : S = {Tab}
  OBVIOUS
<1>2. Tab \in S /\ <<>> \in Seq(S) /\ Len(f) \in Nat
  BY <1>1
<1>3. f \in Seq(Seq(S))
  <2>1. PICK Q : Q = Seq(S)
    OBVIOUS
  <2>2. \A n \in 1 .. Len(f) : f[n] \in Q
    BY <1>2, <2>1
  <2>3. f \in [1 .. Len(f) -> Q]
    BY <2>2, LenProperties
  <2>. QED BY <1>2, <2>1, <2>3, AsSeq
<1>4. Text(f) \in Seq(S)
  BY <1>2, <1>3, LedOf, FlattenType, TextIs
<1>5. \A i \in 1 .. Len(Text(f)) : Text(f)[i] \in S
  BY <1>4, ElementOfSeq
<1>. QED BY <1>1, <1>5 DEF AllIn

LEMMA TextAround ==
  ASSUME NEW f \in Seq(Field), NEW m \in 1 .. Len(f)
  PROVE  /\ SubSeq(f, 1, m - 1) \in Seq(Field) /\ SubSeq(f, m + 1, Len(f)) \in Seq(Field)
         /\ Len(SubSeq(f, 1, m - 1)) = m - 1
         /\ \A n \in 1 .. m - 1 : SubSeq(f, 1, m - 1)[n] = f[n]
         /\ Text(f) = (Text(SubSeq(f, 1, m - 1)) \o (IF m = 1 THEN f[m] ELSE <<Tab>> \o f[m]))
                        \o FlattenSeq(Led(SubSeq(f, m + 1, Len(f))))
<1>1. PICK S : S = STRING
  OBVIOUS
<1>2. f \in Seq(Seq(S)) /\ Tab \in S
  BY <1>1, FieldsAre DEF Line
<1>3. PICK Q : Q = Seq(S)
  OBVIOUS
<1>4. PICK k \in Nat : k = Len(f) /\ m \in 1 .. k
  OBVIOUS
<1> DEFINE g == SubSeq(f, 1, m - 1)
           l == SubSeq(f, m + 1, Len(f))
           p == Spaced(f)
           first == SubSeq(p, 1, m - 1)
           last == SubSeq(p, m + 1, k)
<1>5. /\ g \in Seq(Field) /\ Len(g) = m - 1
      /\ \A n \in 1 .. m - 1 : g[n] = f[n]
      /\ l \in Seq(Field) /\ Len(l) = k - m
      /\ \A n \in 1 .. k - m : l[n] = f[m + n]
  BY <1>4, Around
<1>6. /\ p \in Seq(Q) /\ Len(p) = k
      /\ \A n \in 1 .. k : p[n] \in Q /\ p[n] = IF n = 1 THEN f[n] ELSE <<Tab>> \o f[n]
  BY <1>2, <1>3, <1>4, LedOf
<1>7. /\ first \in Seq(Q) /\ Len(first) = m - 1
      /\ \A n \in 1 .. m - 1 : first[n] = p[n]
      /\ last \in Seq(Q) /\ Len(last) = k - m
      /\ \A n \in 1 .. k - m : last[n] = p[m + n]
  <2> HIDE DEF p
  <2>1. m \in 1 .. Len(p)
    BY <1>4, <1>6
  <2>. QED BY <1>6, <2>1, Around
<1>8. p = (first \o <<p[m]>>) \o last
  <2> HIDE DEF p
  <2>1. SubSeq(p, 1, m) = SubSeq(p, 1, m - 1) \o <<p[m]>>
    <3>1. 1 \in 1 .. Len(p) /\ m \in 1 .. Len(p)
      BY <1>4, <1>6
    <3>. QED BY <1>6, <3>1, SubSeqRecursiveSecond
  <2>2. SubSeq(p, 1, m) \o SubSeq(p, m + 1, k) = SubSeq(p, 1, k) /\ SubSeq(p, 1, k) = p
    <3>1. 1 \in 1 .. Len(p) + 1 /\ m \in 1 - 1 .. Len(p) /\ k \in m .. Len(p)
      BY <1>4, <1>6
    <3>. QED BY <1>6, <3>1, ConcatAdjacentSubSeq, SubSeqFull
  <2>. QED BY <2>1, <2>2
<1> HIDE DEF g, l, first, last
<1>9. first = Spaced(g)
  <2>1. g \in Seq(Seq(S)) /\ l \in Seq(Seq(S))
    BY <1>1, <1>5, FieldsAre DEF Line
  <2>2. /\ Spaced(g) \in Seq(Q) /\ Len(Spaced(g)) = m - 1
        /\ \A n \in 1 .. m - 1 : Spaced(g)[n] = IF n = 1 THEN g[n] ELSE <<Tab>> \o g[n]
    <3>1. /\ Spaced(g) \in Seq(Seq(S)) /\ Len(Spaced(g)) = Len(g)
          /\ \A n \in 1 .. Len(g) : Spaced(g)[n] = IF n = 1 THEN g[n] ELSE <<Tab>> \o g[n]
      BY <1>2, <2>1, LedOf
    <3>. QED BY <1>3, <1>5, <3>1
  <2>3. ASSUME NEW n \in 1 .. m - 1 PROVE first[n] = Spaced(g)[n]
    <3>1. n \in 1 .. k
      BY <1>4
    <3>2. first[n] = p[n] /\ g[n] = f[n]
      BY <1>5, <1>7
    <3>3. p[n] = IF n = 1 THEN f[n] ELSE <<Tab>> \o f[n]
      BY <1>6, <3>1
    <3>4. Spaced(g)[n] = IF n = 1 THEN g[n] ELSE <<Tab>> \o g[n]
      BY <2>2
    <3>. QED BY <3>2, <3>3, <3>4
  <2>. QED BY <1>7, <2>2, <2>3, SeqEqual
<1>10. last = Led(l)
  <2>1. g \in Seq(Seq(S)) /\ l \in Seq(Seq(S))
    BY <1>1, <1>5, FieldsAre DEF Line
  <2>2. /\ Led(l) \in Seq(Q) /\ Len(Led(l)) = k - m
        /\ \A n \in 1 .. k - m : Led(l)[n] = <<Tab>> \o l[n]
    <3>1. /\ Led(l) \in Seq(Seq(S)) /\ Len(Led(l)) = Len(l)
          /\ \A n \in 1 .. Len(l) : Led(l)[n] = <<Tab>> \o l[n]
      BY <1>2, <2>1, LedOf
    <3>. QED BY <1>3, <1>5, <3>1
  <2>3. ASSUME NEW n \in 1 .. k - m PROVE last[n] = Led(l)[n]
    <3>1. m + n \in 1 .. k /\ m + n # 1
      BY <1>4
    <3>2. p[m + n] = <<Tab>> \o f[m + n]
      BY <1>6, <3>1
    <3>. QED BY <1>5, <1>7, <2>2, <3>2
  <2>. QED BY <1>7, <2>2, <2>3, SeqEqual
<1> HIDE DEF p
<1>11. FlattenSeq(p) = (FlattenSeq(first) \o p[m]) \o FlattenSeq(last)
  <2>1. p[m] \in Seq(S) /\ first \in Seq(Seq(S)) /\ last \in Seq(Seq(S))
    BY <1>3, <1>4, <1>6, <1>7
  <2>2. <<p[m]>> \in Seq(Seq(S))
    BY <2>1, OneField
  <2>3. first \o <<p[m]>> \in Seq(Seq(S))
    BY <2>1, <2>2, ConcatProperties
  <2>4. FlattenSeq(first \o <<p[m]>>) = FlattenSeq(first) \o p[m]
    <3>1. FlattenSeq(<<p[m]>>) = p[m]
      BY <2>1, FlattenOne
    <3>2. FlattenSeq(first \o <<p[m]>>) = FlattenSeq(first) \o FlattenSeq(<<p[m]>>)
      BY <2>1, <2>2, FlattenConcat
    <3>. QED BY <3>1, <3>2
  <2>. QED BY <1>8, <2>1, <2>3, <2>4, FlattenConcat
<1>12. p[m] = IF m = 1 THEN f[m] ELSE <<Tab>> \o f[m]
  BY <1>4, <1>6
<1>. QED BY <1>5, <1>9, <1>10, <1>11, <1>12, TextIs DEF g, l, p

(* The delimiters in front of the first field that is not empty.           *)
LEMMA TextOpens ==
  ASSUME NEW f \in Seq(Field)
  PROVE  /\ Filled(f) = 0 => AllIn(Text(f), {Tab})
         /\ Filled(f) # 0 =>
              \E a \in Line :
                AllIn(a, {Tab}) /\ Text(f) = a \o (Word(f) \o FlattenSeq(Led(Later(f))))
<1>1. CASE Filled(f) = 0
  <2>1. \A n \in 1 .. Len(f) : f[n] = <<>>
    BY <1>1, FilledIs
  <2>. QED BY <1>1, <2>1, BlankText
<1>2. CASE Filled(f) # 0
  <2> DEFINE m == Filled(f)
             g == SubSeq(f, 1, m - 1)
             t == FlattenSeq(Led(Later(f)))
  <2>1. m \in 1 .. Len(f) /\ Len(f) \in Nat /\ \A n \in 1 .. Len(f) : n < m => f[n] = <<>>
    BY <1>2, FilledIs
  <2>2. Later(f) = SubSeq(f, m + 1, Len(f)) /\ Word(f) = f[m]
    BY <1>2 DEF Later, Word
  <2> HIDE DEF m
  <2>3. /\ g \in Seq(Field) /\ Later(f) \in Seq(Field) /\ Len(g) = m - 1
        /\ \A n \in 1 .. m - 1 : g[n] = f[n]
        /\ Text(f) = (Text(g) \o (IF m = 1 THEN f[m] ELSE <<Tab>> \o f[m])) \o t
    <3>1. /\ SubSeq(f, 1, m - 1) \in Seq(Field) /\ SubSeq(f, m + 1, Len(f)) \in Seq(Field)
          /\ Len(SubSeq(f, 1, m - 1)) = m - 1
          /\ \A n \in 1 .. m - 1 : SubSeq(f, 1, m - 1)[n] = f[n]
          /\ Text(f) = (Text(SubSeq(f, 1, m - 1)) \o (IF m = 1 THEN f[m] ELSE <<Tab>> \o f[m]))
                         \o FlattenSeq(Led(SubSeq(f, m + 1, Len(f))))
      BY <2>1, TextAround
    <3>. QED BY <2>2, <3>1, Zenon
  <2> HIDE DEF g
  <2>4. AllIn(Text(g), {Tab}) /\ Text(g) \in Line /\ t \in Line /\ f[m] \in Line
    <3>1. \A n \in 1 .. Len(g) : g[n] = <<>>
      <4>1. ASSUME NEW n \in 1 .. m - 1 PROVE n < m /\ n \in 1 .. Len(f)
        BY <2>1
      <4>. QED BY <2>1, <2>3, <4>1
    <3>. QED BY <2>1, <2>3, <3>1, BlankText, TextIsLine, LedText, FieldsAre
  <2> HIDE DEF t
  <2>5. CASE m = 1
    <3>1. (Text(g) \o f[m]) \o t = Text(g) \o (f[m] \o t)
      <4>1. Text(g) \in Line /\ f[m] \in Line /\ t \in Line
        BY <2>4
      <4>. QED BY <4>1, JoinAssociative
    <3>. QED BY <1>2, <2>2, <2>3, <2>4, <2>5, <3>1 DEF t
  <2>6. CASE m # 1
    <3>1. PICK b \in Line : b = <<Tab>> /\ AllIn(b, {Tab})
      <4>1. <<Tab>> \in Line /\ AllIn(<<Tab>>, {Tab})
        BY NamesAssumption DEF Line, AllIn
      <4>. QED BY <4>1
    <3>2. PICK a \in Line : a = Text(g) \o b /\ AllIn(a, {Tab})
      <4>1. Text(g) \o b \in Line /\ AllIn(Text(g) \o b, {Tab})
        BY <2>4, <3>1, JoinAllIn, JoinedLine
      <4>. QED BY <4>1
    <3>3. (Text(g) \o (b \o f[m])) \o t = a \o (f[m] \o t)
      <4>1. PICK x \in Line, w \in Line, u \in Line : x = Text(g) /\ w = f[m] /\ u = t
        BY <2>4
      <4>2. x \o (b \o w) = (x \o b) \o w /\ ((x \o b) \o w) \o u = (x \o b) \o (w \o u)
        <5>1. x \o b \in Line
          BY JoinedLine
        <5>2. x \o (b \o w) = (x \o b) \o w
          BY JoinAssociative
        <5>3. ((x \o b) \o w) \o u = (x \o b) \o (w \o u)
          BY <5>1, JoinAssociative
        <5>. QED BY <5>2, <5>3
      <4>. QED BY <3>2, <4>1, <4>2
    <3>. QED BY <1>2, <2>2, <2>3, <2>6, <3>1, <3>2, <3>3 DEF t
  <2>. QED BY <2>5, <2>6
<1>. QED BY <1>1, <1>2

LEMMA WordIs ==
  ASSUME NEW f \in Seq(Field)
  PROVE  /\ Word(f) \in Line /\ Later(f) \in Seq(Field)
         /\ Filled(f) # 0 => Word(f) # <<>> /\ Avoids(Word(f), {Tab})
         /\ Filled(f) = 0 => Word(f) = <<>> /\ Later(f) = <<>>
<1>1. <<>> \in Line /\ <<>> \in Seq(Field)
  BY DEF Line
<1>2. Filled(f) \in 0 .. Len(f) /\ Len(f) \in Nat
  BY FilledIs
<1>3. Filled(f) # 0 => SubSeq(f, Filled(f) + 1, Len(f)) \in Seq(Field)
  BY <1>2, TextAround
<1>4. CASE Filled(f) = 0
  BY <1>1, <1>4 DEF Word, Later
<1>5. CASE Filled(f) # 0
  <2>1. Word(f) = f[Filled(f)] /\ Later(f) = SubSeq(f, Filled(f) + 1, Len(f))
    BY <1>5 DEF Word, Later
  <2>2. Filled(f) \in 1 .. Len(f) /\ f[Filled(f)] # <<>>
    BY <1>2, <1>5, FilledIs
  <2>. QED BY <1>3, <1>5, <2>1, <2>2, FieldsAre
<1>. QED BY <1>4, <1>5

(* What strtok returns, and what it leaves.                                *)
LEMMA StrtokIsWord ==
  ASSUME NEW f \in Seq(Field)
  PROVE  strtok(Text(f)) = Word(f) /\ Rest(Text(f)) = Text(Later(f))
<1>1. {Tab} \in Bytes /\ Text(f) \in Line /\ <<>> \in Line
  BY Names, TextIsLine DEF Line
<1>2. CASE Filled(f) = 0
  <2>1. AllIn(Text(f), {Tab}) /\ Text(f) \o <<>> = Text(f)
    BY <1>1, <1>2, TextOpens, ConcatEmptySeq DEF Line
  <2>2. From[Text(f)][{Tab}] = <<>>
    BY <1>1, <2>1, FromSkips
  <2>3. Before[<<>>][{Tab}] = <<>> /\ Behind[<<>>][{Tab}] = <<>>
    <3>1. Avoids(<<>>, {Tab}) /\ StartsIn(<<>>, {Tab}) /\ <<>> \o <<>> = <<>>
      BY <1>1, ConcatEmptySeq DEF Avoids, StartsIn, Line
    <3>. QED BY <1>1, <3>1, BeforeStops
  <2>. QED BY <1>2, <2>2, <2>3, WordIs, TextNone DEF strtok, Rest
<1>3. CASE Filled(f) # 0
  <2> DEFINE w == Word(f)
             t == FlattenSeq(Led(Later(f)))
  <2>1. w \in Line /\ w # <<>> /\ Avoids(w, {Tab}) /\ Later(f) \in Seq(Field)
    BY <1>3, WordIs
  <2>2. /\ t \in Line /\ t = IF Later(f) = <<>> THEN <<>> ELSE <<Tab>> \o Text(Later(f))
        /\ Text(Later(f)) \in Line
    BY <2>1, LedText, TextIsLine
  <2>3. PICK a \in Line : AllIn(a, {Tab}) /\ Text(f) = a \o (w \o t)
    BY <1>3, TextOpens
  <2> HIDE DEF w
  <2>4. w \o t \in Line /\ (w \o t)[1] \notin {Tab}
    <3>1. (w \o t)[1] = w[1]
      BY <2>1, <2>2, TailOfJoin
    <3>2. Len(w) \in Nat /\ Len(w) # 0 /\ 1 \in 1 .. Len(w)
      BY <2>1, NonEmpty DEF Line
    <3>. QED BY <2>1, <2>2, <3>1, <3>2, JoinedLine DEF Avoids
  <2>5. From[Text(f)][{Tab}] = w \o t
    <3> HIDE DEF t
    <3>. QED BY <1>1, <2>3, <2>4, FromSkips
  <2>6. t # <<>> => t[1] = Tab /\ Tail(t) = Text(Later(f))
    <3>1. PICK x \in Line : x = Text(Later(f))
      BY <2>2
    <3>2. <<Tab>> \in Line /\ <<Tab>> # <<>> /\ <<Tab>>[1] = Tab /\ Tail(<<Tab>>) = <<>>
      BY NamesAssumption DEF Line
    <3>3. (<<Tab>> \o x)[1] = Tab /\ Tail(<<Tab>> \o x) = <<>> \o x /\ <<>> \o x = x
      BY <3>2, TailOfJoin, ConcatEmptySeq DEF Line
    <3> HIDE DEF t
    <3>. QED BY <2>2, <3>1, <3>3
  <2>7. t = <<>> => Text(Later(f)) = <<>>
    <3>1. CASE Later(f) = <<>>
      BY <3>1, TextNone
    <3>2. CASE Later(f) # <<>>
      BY <2>2, <3>2
    <3>. QED BY <3>1, <3>2
  <2> HIDE DEF t
  <2>8. StartsIn(t, {Tab})
    BY <2>6 DEF StartsIn
  <2>9. /\ Before[w \o t][{Tab}] = w
        /\ Behind[w \o t][{Tab}] = IF t = <<>> THEN <<>> ELSE Tail(t)
    <3>1. PICK end \in Bytes : end = {Tab}
      BY <1>1
    <3>2. Avoids(w, end) /\ StartsIn(t, end)
      BY <2>1, <2>8, <3>1
    <3>3. w \in Line /\ t \in Line
      BY <2>1, <2>2
    <3>4. /\ Before[w \o t][end] = w
          /\ Behind[w \o t][end] = IF t = <<>> THEN <<>> ELSE Tail(t)
      BY <3>2, <3>3, BeforeStops
    <3>. QED BY <3>1, <3>4
  <2>. QED BY <2>5, <2>6, <2>7, <2>9 DEF strtok, Rest, w
<1>. QED BY <1>2, <1>3

(* A delimiter, or more than one, a word, and the delimiter that ends it.  *)
Heads(h, w) ==
  /\ w \in Line /\ w # <<>> /\ Avoids(w, {Tab})
  /\ \E a \in Line : AllIn(a, {Tab}) /\ h = a \o (w \o <<Tab>>)

LEMMA TabIsLine == <<Tab>> \in Line /\ {Tab} \in Bytes /\ AllIn(<<Tab>>, {Tab})
BY NamesAssumption DEF Line, Bytes, AllIn

LEMMA HeadsIsLine == ASSUME NEW h, NEW w, Heads(h, w) PROVE h \in Line
<1>1. PICK a \in Line : h = a \o (w \o <<Tab>>) /\ w \in Line
  BY DEF Heads
<1>2. w \o <<Tab>> \in Line
  BY <1>1, TabIsLine, JoinedLine
<1>. QED BY <1>1, <1>2, JoinedLine

(* strtok finds the word behind the delimiters in front of it; where       *)
(* something is left, it has found a word.                                 *)
LEMMA StrtokStops ==
  ASSUME NEW h \in Line, NEW w, Heads(h, w), NEW r \in Line
  PROVE  strtok(h \o r) = w /\ Rest(h \o r) = r
<1>1. PICK a \in Line : AllIn(a, {Tab}) /\ h = a \o (w \o <<Tab>>)
  BY DEF Heads
<1>2. w \in Line /\ w # <<>> /\ Avoids(w, {Tab})
  BY DEF Heads
<1>3. PICK t \in Line, tabs \in Bytes : t = <<Tab>> \o r /\ tabs = {Tab}
  BY TabIsLine, JoinedLine
<1>4. t # <<>> /\ t[1] = Tab /\ Tail(t) = r
  <2>0. <<Tab>> # <<>> /\ <<Tab>>[1] = Tab /\ Tail(<<Tab>>) = <<>>
    OBVIOUS
  <2>1. PICK b \in Line : b = <<Tab>> /\ b # <<>> /\ b[1] = Tab /\ Tail(b) = <<>>
    BY <2>0, TabIsLine
  <2>2. (b \o r)[1] = b[1] /\ b \o r # <<>> /\ Tail(b \o r) = Tail(b) \o r /\ <<>> \o r = r
    BY <2>1, TailOfJoin, ConcatEmptySeq DEF Line
  <2>. QED BY <1>3, <2>1, <2>2
<1>5. h \o r = a \o (w \o t)
  <2>1. PICK b \in Line : b = <<Tab>>
    BY TabIsLine
  <2>2. a \in Line /\ w \in Line /\ b \in Line /\ r \in Line
    BY <1>1, <1>2, <2>1
  <2>3. Glue(Glue(a, Glue(w, b)), r) = Glue(a, Glue(w, Glue(b, r)))
    BY <2>2, GlueFour
  <2>4. (a \o (w \o b)) \o r = a \o (w \o (b \o r))
    BY <2>3, Zenon DEF Glue
  <2>. QED BY <1>1, <1>3, <2>1, <2>4, Zenon
<1>6. w \o t \in Line /\ (w \o t)[1] \notin tabs
  <2>1. (w \o t)[1] = w[1] /\ w \o t \in Line
    BY <1>2, TailOfJoin, JoinedLine
  <2>2. 1 \in 1 .. Len(w)
    <3>1. Len(w) \in Nat /\ Len(w) # 0
      BY <1>2, NonEmpty DEF Line
    <3>. QED BY <3>1
  <2>. QED BY <1>2, <1>3, <2>1, <2>2 DEF Avoids
<1>7. From[a \o (w \o t)][tabs] = w \o t
  BY <1>1, <1>3, <1>6, FromSkips
<1>8. Before[w \o t][tabs] = w /\ Behind[w \o t][tabs] = IF t = <<>> THEN <<>> ELSE Tail(t)
  <2>1. Avoids(w, tabs) /\ StartsIn(t, tabs)
    BY <1>2, <1>3, <1>4 DEF StartsIn
  <2>. QED BY <1>2, <2>1, BeforeStops
<1>. QED BY <1>3, <1>4, <1>5, <1>7, <1>8 DEF strtok, Rest

LEMMA StrtokCuts ==
  ASSUME NEW x \in Line, Rest(x) # <<>>
  PROVE  \E h \in Line : x = h \o Rest(x) /\ Heads(h, strtok(x)) /\ Rest(x) \in Line
<1>1. PICK tabs \in Bytes : tabs = {Tab}
  BY TabIsLine
<1>2. PICK a \in Line, y \in Line : /\ x = a \o y /\ AllIn(a, tabs) /\ (y # <<>> => y[1] \notin tabs)
                                    /\ From[x][tabs] = y
  BY FromCuts
<1>3. PICK w \in Line, c \in Line :
        /\ y = w \o c /\ Avoids(w, tabs) /\ StartsIn(c, tabs)
        /\ Before[y][tabs] = w
        /\ Behind[y][tabs] = IF c = <<>> THEN <<>> ELSE Tail(c)
  BY BeforeCuts
<1>4. strtok(x) = w /\ Rest(x) = IF c = <<>> THEN <<>> ELSE Tail(c)
  BY <1>1, <1>2, <1>3 DEF strtok, Rest
<1>5. c # <<>> /\ Rest(x) = Tail(c) /\ c[1] = Tab
  BY <1>1, <1>3, <1>4 DEF StartsIn
<1>6. w # <<>>
  <2>1. SUFFICES ASSUME w = <<>> PROVE FALSE
    OBVIOUS
  <2>2. y = c
    BY <1>3, <2>1, ConcatEmptySeq DEF Line
  <2>. QED BY <1>1, <1>2, <1>5, <2>2
<1>7. PICK r \in Line : r = Tail(c)
  BY <1>5, TailOfJoin
<1>8. PICK b \in Line : b = <<Tab>>
  BY TabIsLine
<1>9. c = b \o r
  BY <1>5, <1>7, <1>8 DEF Line
<1>10. x = (a \o (w \o b)) \o r /\ a \o (w \o b) \in Line
  <2>0. a \in Line /\ w \in Line /\ b \in Line /\ r \in Line
    BY <1>2, <1>3, <1>7, <1>8
  <2>1. Glue(a, Glue(w, b)) \in Line /\ Glue(Glue(a, Glue(w, b)), r) = Glue(a, Glue(w, Glue(b, r)))
    BY <2>0, GlueFour
  <2>2. a \o (w \o b) \in Line /\ (a \o (w \o b)) \o r = a \o (w \o (b \o r))
    BY <2>1, Zenon DEF Glue
  <2>. QED BY <1>2, <1>3, <1>9, <2>2, Zenon
<1>11. Heads(a \o (w \o b), w)
  BY <1>1, <1>2, <1>3, <1>6, <1>8 DEF Heads
<1>. QED BY <1>4, <1>5, <1>7, <1>10, <1>11

LEMMA HeadsAvoids ==
  ASSUME NEW h, NEW w, Heads(h, w), NEW A, Tab \notin A
  PROVE  Avoids(h, A) <=> Avoids(w, A)
<1>1. PICK a \in Line : AllIn(a, {Tab}) /\ h = a \o (w \o <<Tab>>) /\ w \in Line
  BY DEF Heads
<1>2. PICK b \in Line : b = <<Tab>> /\ w \o b \in Line /\ Avoids(b, A)
  <2>1. <<Tab>> \in Line /\ Avoids(<<Tab>>, A)
    BY TabIsLine DEF Avoids
  <2>. QED BY <1>1, <2>1, JoinedLine
<1>3. Avoids(a, A)
  BY <1>1 DEF AllIn, Avoids
<1>4. Avoids(w, A) <=> Avoids(w \o b, A)
  BY <1>1, <1>2, JoinAvoids, PartsAvoid
<1>5. Avoids(w \o b, A) <=> Avoids(a \o (w \o b), A)
  BY <1>2, <1>3, JoinAvoids, PartsAvoid
<1>. QED BY <1>1, <1>2, <1>4, <1>5

LEMMA RestNone == strtok(<<>>) = <<>> /\ Rest(<<>>) = <<>>
<1>1. <<>> \in Seq(Field)
  OBVIOUS
<1>2. Filled(<<>>) = 0
  <2>1. PICK f \in Seq(Field) : f = <<>> /\ Len(f) = 0
    BY <1>1, EmptySeq
  <2>2. Filled(f) \in 0 .. Len(f)
    BY FilledIs
  <2>. QED BY <2>1, <2>2
<1>. QED BY <1>1, <1>2, StrtokIsWord, WordIs, TextNone

(* Three words, each with the delimiters around it. *)
Three(h, w1, w2, w3) ==
  \E h1 \in Line, h2 \in Line, h3 \in Line :
    h = Glue(h1, Glue(h2, h3)) /\ Heads(h1, w1) /\ Heads(h2, w2) /\ Heads(h3, w3)

LEMMA ThreeStop ==
  ASSUME NEW h, NEW w1, NEW w2, NEW w3, Three(h, w1, w2, w3), NEW r \in Line
  PROVE  /\ h \in Line
         /\ strtok(Glue(h, r)) = w1 /\ strtok(Rest(Glue(h, r))) = w2
         /\ strtok(Rest(Rest(Glue(h, r)))) = w3 /\ Rest(Rest(Rest(Glue(h, r)))) = r
<1>1. PICK h1 \in Line, h2 \in Line, h3 \in Line :
        h = Glue(h1, Glue(h2, h3)) /\ Heads(h1, w1) /\ Heads(h2, w2) /\ Heads(h3, w3)
  BY DEF Three
<1>2. PICK r3 \in Line : r3 = Glue(h3, r)
  BY <1>1, GlueAssociative
<1>3. PICK r2 \in Line : r2 = Glue(h2, r3)
  BY <1>1, <1>2, GlueAssociative
<1>4. h \in Line /\ Glue(h, r) = Glue(h1, r2)
  BY <1>1, <1>2, <1>3, GlueFour
<1>5. strtok(Glue(h1, r2)) = w1 /\ Rest(Glue(h1, r2)) = r2
  BY <1>1, <1>3, StrtokStops, Zenon DEF Glue
<1>6. strtok(Glue(h2, r3)) = w2 /\ Rest(Glue(h2, r3)) = r3
  BY <1>1, <1>2, StrtokStops, Zenon DEF Glue
<1>7. strtok(Glue(h3, r)) = w3 /\ Rest(Glue(h3, r)) = r
  BY <1>1, StrtokStops, Zenon DEF Glue
<1>8. strtok(r2) = w2 /\ Rest(r2) = r3
  BY <1>3, <1>6, Zenon
<1>9. strtok(r3) = w3 /\ Rest(r3) = r
  BY <1>2, <1>7, Zenon
<1>. QED BY <1>4, <1>5, <1>8, <1>9, Zenon

LEMMA ThreeCut ==
  ASSUME NEW x \in Line, Rest(Rest(Rest(x))) # <<>>
  PROVE  /\ Rest(Rest(Rest(x))) \in Line
         /\ \E h \in Line : /\ x = Glue(h, Rest(Rest(Rest(x))))
                           /\ Three(h, strtok(x), strtok(Rest(x)), strtok(Rest(Rest(x))))
<1>1. Rest(Rest(x)) # <<>>
  BY RestNone
<1>2. Rest(x) # <<>>
  BY <1>1, RestNone
<1>3. PICK h1 \in Line : x = h1 \o Rest(x) /\ Heads(h1, strtok(x)) /\ Rest(x) \in Line
  BY <1>2, StrtokCuts
<1>4. PICK y \in Line : y = Rest(x)
  BY <1>3
<1>5. PICK h2 \in Line : y = h2 \o Rest(y) /\ Heads(h2, strtok(y)) /\ Rest(y) \in Line
  <2>1. Rest(y) # <<>>
    BY <1>1, <1>4
  <2>. QED BY <1>4, <2>1, StrtokCuts
<1>6. PICK z \in Line : z = Rest(y)
  BY <1>5
<1>7. PICK h3 \in Line : z = h3 \o Rest(z) /\ Heads(h3, strtok(z)) /\ Rest(z) \in Line
  <2>1. Rest(z) # <<>>
    BY <1>4, <1>6
  <2>. QED BY <1>6, <2>1, StrtokCuts
<1>8. PICK r \in Line : r = Rest(z)
  BY <1>7
<1>9. PICK h \in Line : h = Glue(h1, Glue(h2, h3))
  BY <1>3, <1>5, <1>7, GlueFour
<1>10. x = Glue(h1, y) /\ y = Glue(h2, z) /\ z = Glue(h3, r)
  BY <1>3, <1>4, <1>5, <1>6, <1>7, <1>8, Zenon DEF Glue
<1>11. h1 \in Line /\ h2 \in Line /\ h3 \in Line /\ r \in Line
  BY <1>3, <1>5, <1>7, <1>8
<1>12. x = Glue(h, r)
  BY <1>9, <1>10, <1>11, GlueFour
<1>13. Three(h, strtok(x), strtok(y), strtok(z))
  BY <1>3, <1>5, <1>7, <1>9 DEF Three
<1>. QED BY <1>4, <1>6, <1>8, <1>9, <1>12, <1>13

LEMMA ThreeAvoid ==
  ASSUME NEW h, NEW w1, NEW w2, NEW w3, Three(h, w1, w2, w3), NEW A, Tab \notin A
  PROVE  Avoids(h, A) <=> Avoids(w1, A) /\ Avoids(w2, A) /\ Avoids(w3, A)
<1>1. PICK h1 \in Line, h2 \in Line, h3 \in Line :
        h = Glue(h1, Glue(h2, h3)) /\ Heads(h1, w1) /\ Heads(h2, w2) /\ Heads(h3, w3)
  BY DEF Three
<1>2. /\ Avoids(h1, A) <=> Avoids(w1, A)
      /\ Avoids(h2, A) <=> Avoids(w2, A)
      /\ Avoids(h3, A) <=> Avoids(w3, A)
  BY <1>1, HeadsAvoids
<1>3. Avoids(Glue(h2, h3), A) <=> Avoids(h2, A) /\ Avoids(h3, A)
  BY <1>1, JoinAvoids, PartsAvoid, Zenon DEF Glue
<1>4. PICK g \in Line : g = Glue(h2, h3)
  BY <1>1, GlueAssociative
<1>5. Avoids(Glue(h1, g), A) <=> Avoids(h1, A) /\ Avoids(g, A)
  BY <1>1, <1>4, JoinAvoids, PartsAvoid, Zenon DEF Glue
<1>. QED BY <1>1, <1>2, <1>3, <1>4, <1>5, Zenon

LEMMA WordAvoids == ASSUME NEW w \in Line, NEW b PROVE Avoids(w, {b}) <=> b \notin ToSet(w)
<1>1. DOMAIN w = 1 .. Len(w)
  BY LenProperties DEF Line
<1>. QED BY <1>1 DEF Avoids, ToSet

(* The result of three words and the output, if there is one. *)
Digits == {<<"0">>, <<"1">>, <<"2">>, <<"3">>}
Made(w1, w2, w3, output) ==
  IF w3 \in Digits /\ output # <<>>
  THEN <<[host    |-> Capped[w1][HostLen],
          service |-> Capped[w2][ServiceLen],
          rc      |-> Value(w3[1]),
          output  |-> Capped[output][OutputLen]]>>
  ELSE <<>>

LEMMA ResultMade ==
  ASSUME NEW x \in Line, NEW s, s = strip(Before[x][{NUL}])
  PROVE  Result[x] = Made(strtok(s), strtok(Rest(s)), strtok(Rest(Rest(s))), Rest(Rest(Rest(s))))
BY Zenon DEF Result, Made, Digits

LEMMA MeantMade ==
  ASSUME NEW f, NEW o, o = strip(Before[Text(Later(Later(Later(f))))][{NUL}])
  PROVE  Meant(f) = IF NUL \notin ToSet(Word(f)) \cup ToSet(Word(Later(f)))
                    THEN Made(Word(f), Word(Later(f)), Word(Later(Later(f))), o) ELSE <<>>
<1>1. CASE NUL \in ToSet(Word(f)) \cup ToSet(Word(Later(f)))
  BY <1>1 DEF Meant
<1>2. CASE NUL \notin ToSet(Word(f)) \cup ToSet(Word(Later(f)))
  <2>1. CASE Word(Later(Later(f))) \in Digits /\ o # <<>>
    BY <1>2, <2>1 DEF Meant, Made, Digits
  <2>2. CASE ~(Word(Later(Later(f))) \in Digits /\ o # <<>>)
    BY <1>2, <2>2 DEF Meant, Made, Digits
  <2>. QED BY <2>1, <2>2
<1>. QED BY <1>1, <1>2

(* The words of a text, as strtok and as Meant finds them. *)
LEMMA TextWords ==
  ASSUME NEW f \in Seq(Field)
  PROVE  /\ Text(f) \in Line /\ Word(f) \in Line /\ Word(Later(f)) \in Line
         /\ Word(Later(Later(f))) \in Line /\ Text(Later(Later(Later(f)))) \in Line
         /\ strtok(Text(f)) = Word(f) /\ strtok(Rest(Text(f))) = Word(Later(f))
         /\ strtok(Rest(Rest(Text(f)))) = Word(Later(Later(f)))
         /\ Rest(Rest(Rest(Text(f)))) = Text(Later(Later(Later(f))))
<1>1. PICK g \in Seq(Field) : g = Later(f)
  BY WordIs
<1>2. PICK h \in Seq(Field) : h = Later(g)
  BY WordIs
<1>3. PICK k \in Seq(Field) : k = Later(h)
  BY WordIs
<1>4. Text(f) \in Line /\ Word(f) \in Line /\ strtok(Text(f)) = Word(f) /\ Rest(Text(f)) = Text(g)
  BY <1>1, TextIsLine, WordIs, StrtokIsWord
<1>5. Word(g) \in Line /\ strtok(Text(g)) = Word(g) /\ Rest(Text(g)) = Text(h)
  BY <1>2, WordIs, StrtokIsWord
<1>6. Word(h) \in Line /\ strtok(Text(h)) = Word(h) /\ Rest(Text(h)) = Text(k) /\ Text(k) \in Line
  BY <1>3, WordIs, StrtokIsWord, TextIsLine
<1>. QED BY <1>1, <1>2, <1>3, <1>4, <1>5, <1>6, Zenon

(* What is left where the NUL and the space at the end are cut off. *)
LEMMA StripCuts ==
  ASSUME NEW x \in Line
  PROVE  \E o \in Line, c2 \in Line, c1 \in Line :
           /\ x = Glue(Glue(o, c2), c1) /\ Avoids(Glue(o, c2), {NUL}) /\ StartsIn(c1, {NUL})
           /\ EndsOutside(o, Space) /\ AllIn(c2, Space)
           /\ o = strip(Before[x][{NUL}])
<1>1. PICK end \in Bytes, drop \in Bytes : end = {NUL} /\ drop = Space
  BY Names
<1>2. PICK b \in Line, c1 \in Line :
        /\ x = b \o c1 /\ Avoids(b, end) /\ StartsIn(c1, end) /\ Before[x][end] = b
  BY BeforeCuts
<1>3. PICK o \in Line, c2 \in Line :
        b = o \o c2 /\ EndsOutside(o, drop) /\ AllIn(c2, drop) /\ Trimmed[b][drop] = o
  BY TrimmedCuts
<1>4. x = Glue(Glue(o, c2), c1) /\ b = Glue(o, c2)
  BY <1>2, <1>3, Zenon DEF Glue
<1>5. o = strip(Before[x][{NUL}])
  BY <1>1, <1>2, <1>3, Zenon DEF strip
<1>. QED BY <1>1, <1>2, <1>3, <1>4, <1>5

LEMMA StripStops ==
  ASSUME NEW o \in Line, NEW c2 \in Line, NEW c1 \in Line,
         Avoids(Glue(o, c2), {NUL}), StartsIn(c1, {NUL}), EndsOutside(o, Space), AllIn(c2, Space)
  PROVE  strip(Before[Glue(Glue(o, c2), c1)][{NUL}]) = o
<1>1. PICK end \in Bytes, drop \in Bytes : end = {NUL} /\ drop = Space
  BY Names
<1>2. PICK b \in Line : b = Glue(o, c2)
  BY GlueAssociative
<1>3. Before[b \o c1][end] = b
  BY <1>1, <1>2, BeforeStops
<1>4. Trimmed[o \o c2][drop] = o
  BY <1>1, TrimmedStops
<1>5. Before[Glue(b, c1)][end] = b /\ Trimmed[Glue(o, c2)][drop] = o
  BY <1>3, <1>4, Zenon DEF Glue
<1>. QED BY <1>1, <1>2, <1>5, Zenon DEF strip

LEMMA LastOfGlue ==
  ASSUME NEW s \in Line, NEW t \in Line, t # <<>>, NEW A
  PROVE  EndsOutside(Glue(s, t), A) <=> EndsOutside(t, A)
<1>1. Glue(s, t) # <<>> /\ Glue(s, t)[Len(Glue(s, t))] = t[Len(t)]
  BY LastOfJoin, Zenon DEF Glue
<1>. QED BY <1>1 DEF EndsOutside

LEMMA GlueAvoids ==
  ASSUME NEW s \in Line, NEW t \in Line, NEW A
  PROVE  Avoids(Glue(s, t), A) <=> Avoids(s, A) /\ Avoids(t, A)
BY JoinAvoids, PartsAvoid, Zenon DEF Glue

(* If strtok leaves an output, a text without what a NUL hides and without *)
(* the space at its end has the words of the text, and the output that     *)
(* Meant finds.                                                            *)
LEMMA OutputFound ==
  ASSUME NEW x \in Line, NEW s, s = strip(Before[x][{NUL}]), Rest(Rest(Rest(s))) # <<>>
  PROVE  /\ strtok(x) = strtok(s) /\ strtok(Rest(x)) = strtok(Rest(s))
         /\ strtok(Rest(Rest(x))) = strtok(Rest(Rest(s)))
         /\ strip(Before[Rest(Rest(Rest(x)))][{NUL}]) = Rest(Rest(Rest(s)))
         /\ Avoids(strtok(s), {NUL}) /\ Avoids(strtok(Rest(s)), {NUL})
<1>1. PICK o1 \in Line, c2 \in Line, c1 \in Line :
        /\ x = Glue(Glue(o1, c2), c1) /\ Avoids(Glue(o1, c2), {NUL}) /\ StartsIn(c1, {NUL})
        /\ EndsOutside(o1, Space) /\ AllIn(c2, Space) /\ o1 = s
  BY StripCuts
<1>2. s \in Line
  BY <1>1
<1>3. PICK o \in Line : o = Rest(Rest(Rest(s)))
  BY <1>2, ThreeCut
<1>4. PICK w1, w2, w3 : w1 = strtok(s) /\ w2 = strtok(Rest(s)) /\ w3 = strtok(Rest(Rest(s)))
  OBVIOUS
<1>5. PICK h \in Line : s = Glue(h, o) /\ Three(h, w1, w2, w3)
  BY <1>2, <1>3, <1>4, ThreeCut
<1>6. PICK p \in Line : p = Glue(o, c2) /\ Glue(s, c2) = Glue(h, p)
  BY <1>5, GlueAssociative
<1>7. PICK r \in Line : r = Glue(p, c1) /\ x = Glue(h, r)
  <2>1. Glue(Glue(h, p), c1) = Glue(h, Glue(p, c1)) /\ Glue(p, c1) \in Line
    BY GlueAssociative
  <2>. QED BY <1>1, <1>6, <2>1
<1>8. strtok(x) = w1 /\ strtok(Rest(x)) = w2 /\ strtok(Rest(Rest(x))) = w3 /\ Rest(Rest(Rest(x))) = r
  BY <1>5, <1>7, ThreeStop
<1>9. Avoids(h, {NUL}) /\ Avoids(p, {NUL})
  BY <1>1, <1>6, GlueAvoids
<1>10. EndsOutside(o, Space)
  BY <1>1, <1>3, <1>5, LastOfGlue
<1>11. strip(Before[r][{NUL}]) = o
  <2>1. Avoids(Glue(o, c2), {NUL}) /\ r = Glue(Glue(o, c2), c1)
    BY <1>6, <1>7, <1>9
  <2>2. strip(Before[Glue(Glue(o, c2), c1)][{NUL}]) = o
    BY <1>1, <1>10, <2>1, StripStops
  <2>. QED BY <2>1, <2>2
<1>12. Avoids(w1, {NUL}) /\ Avoids(w2, {NUL})
  <2>1. Tab \notin {NUL}
    BY DEF Tab, NUL
  <2>. QED BY <1>5, <1>9, <2>1, ThreeAvoid
<1>. QED BY <1>3, <1>4, <1>8, <1>11, <1>12

(* And if Meant finds an output behind words that no NUL cuts, so does     *)
(* strtok.                                                                 *)
LEMMA OutputMissed ==
  ASSUME NEW x \in Line, NEW s, s = strip(Before[x][{NUL}]),
         Avoids(strtok(x), {NUL}), Avoids(strtok(Rest(x)), {NUL}), Avoids(strtok(Rest(Rest(x))), {NUL}),
         NEW r \in Line, r = Rest(Rest(Rest(x))), strip(Before[r][{NUL}]) # <<>>
  PROVE  Rest(Rest(Rest(s))) # <<>>
<1>1. PICK o \in Line, c2 \in Line, c1 \in Line :
        /\ r = Glue(Glue(o, c2), c1) /\ Avoids(Glue(o, c2), {NUL}) /\ StartsIn(c1, {NUL})
        /\ EndsOutside(o, Space) /\ AllIn(c2, Space)
        /\ o = strip(Before[r][{NUL}])
  BY StripCuts
<1>2. o # <<>> /\ r # <<>>
  <2>1. Glue(o, c2) # <<>>
    BY <1>1, ConcatEqualIffEmpty DEF Glue, Line
  <2>2. PICK p \in Line : p = Glue(o, c2)
    BY GlueAssociative
  <2>3. Glue(p, c1) # <<>>
    BY <2>1, <2>2, ConcatEqualIffEmpty DEF Glue, Line
  <2>. QED BY <1>1, <2>2, <2>3
<1>3. PICK w1, w2, w3 : w1 = strtok(x) /\ w2 = strtok(Rest(x)) /\ w3 = strtok(Rest(Rest(x)))
  OBVIOUS
<1>4. PICK h \in Line : x = Glue(h, r) /\ Three(h, w1, w2, w3)
  BY <1>2, <1>3, ThreeCut
<1>5. Avoids(h, {NUL})
  <2>1. Tab \notin {NUL}
    BY DEF Tab, NUL
  <2>. QED BY <1>3, <1>4, <2>1, ThreeAvoid
<1>6. PICK t \in Line : t = Glue(h, o)
  BY GlueAssociative
<1>7. x = Glue(Glue(t, c2), c1) /\ Glue(t, c2) = Glue(h, Glue(o, c2))
  <2>1. Glue(t, c2) = Glue(h, Glue(o, c2))
    BY <1>6, GlueAssociative
  <2>2. PICK p \in Line : p = Glue(o, c2)
    BY GlueAssociative
  <2>3. Glue(Glue(h, p), c1) = Glue(h, Glue(p, c1))
    BY GlueAssociative
  <2>. QED BY <1>1, <1>4, <2>1, <2>2, <2>3, Zenon
<1>8. Avoids(Glue(t, c2), {NUL})
  <2>1. PICK p \in Line : p = Glue(o, c2)
    BY GlueAssociative
  <2>2. Avoids(Glue(h, p), {NUL})
    BY <1>1, <1>5, <2>1, GlueAvoids
  <2>. QED BY <1>7, <2>1, <2>2
<1>9. EndsOutside(t, Space)
  BY <1>1, <1>2, <1>6, LastOfGlue
<1>10. s = t
  BY <1>1, <1>7, <1>8, <1>9, StripStops
<1>11. Rest(Rest(Rest(Glue(h, o)))) = o
  BY <1>4, ThreeStop
<1>. QED BY <1>2, <1>6, <1>10, <1>11

(* A piece that fits the buffer gives the result it means. *)
LEMMA ResultIsMeant == ASSUME NEW f \in Seq(Field) PROVE Result[Text(f)] = Meant(f)
<1>1. PICK x \in Line, r \in Line, w1 \in Line, w2 \in Line, w3 \in Line :
        /\ x = Text(f) /\ r = Text(Later(Later(Later(f))))
        /\ w1 = Word(f) /\ w2 = Word(Later(f)) /\ w3 = Word(Later(Later(f)))
        /\ strtok(x) = w1 /\ strtok(Rest(x)) = w2 /\ strtok(Rest(Rest(x))) = w3
        /\ r = Rest(Rest(Rest(x)))
  BY TextWords
<1>2. PICK s : s = strip(Before[x][{NUL}])
  OBVIOUS
<1>3. PICK o : o = strip(Before[r][{NUL}])
  OBVIOUS
<1>4. Result[x] = Made(strtok(s), strtok(Rest(s)), strtok(Rest(Rest(s))), Rest(Rest(Rest(s))))
  BY <1>2, ResultMade
<1>5. Meant(f) = IF NUL \notin ToSet(w1) \cup ToSet(w2) THEN Made(w1, w2, w3, o) ELSE <<>>
  BY <1>1, <1>3, MeantMade
<1>6. CASE Rest(Rest(Rest(s))) # <<>>
  <2>1. /\ w1 = strtok(s) /\ w2 = strtok(Rest(s)) /\ w3 = strtok(Rest(Rest(s)))
        /\ o = Rest(Rest(Rest(s))) /\ Avoids(w1, {NUL}) /\ Avoids(w2, {NUL})
    <3>1. /\ strtok(x) = strtok(s) /\ strtok(Rest(x)) = strtok(Rest(s))
          /\ strtok(Rest(Rest(x))) = strtok(Rest(Rest(s)))
          /\ strip(Before[Rest(Rest(Rest(x)))][{NUL}]) = Rest(Rest(Rest(s)))
          /\ Avoids(strtok(s), {NUL}) /\ Avoids(strtok(Rest(s)), {NUL})
      BY <1>2, <1>6, OutputFound
    <3>. QED BY <1>1, <1>3, <3>1, Zenon
  <2>2. NUL \notin ToSet(w1) \cup ToSet(w2)
    BY <2>1, WordAvoids
  <2>3. Result[x] = Made(w1, w2, w3, o)
    BY <1>4, <2>1, Zenon
  <2>4. Meant(f) = Made(w1, w2, w3, o)
    BY <1>5, <2>2, Zenon
  <2>. QED BY <1>1, <2>3, <2>4, Zenon
<1>7. CASE Rest(Rest(Rest(s))) = <<>>
  <2>1. Result[x] = <<>>
    BY <1>4, <1>7 DEF Made
  <2>2. ASSUME NUL \notin ToSet(w1) \cup ToSet(w2), w3 \in Digits, o # <<>> PROVE FALSE
    <3>1. Avoids(w1, {NUL}) /\ Avoids(w2, {NUL})
      BY <2>2, WordAvoids
    <3>2. Avoids(w3, {NUL})
      BY <2>2 DEF Avoids, Digits, NUL
    <3>. QED BY <1>1, <1>2, <1>3, <1>7, <2>2, <3>1, <3>2, OutputMissed
  <2>3. Meant(f) = <<>>
    <3>1. CASE NUL \notin ToSet(w1) \cup ToSet(w2)
      <4>1. ~(w3 \in Digits /\ o # <<>>)
        BY <2>2, <3>1
      <4>2. Made(w1, w2, w3, o) = <<>>
        BY <4>1 DEF Made
      <4>. QED BY <1>5, <3>1, <4>2, Zenon
    <3>2. CASE NUL \in ToSet(w1) \cup ToSet(w2)
      BY <1>5, <3>2, Zenon
    <3>. QED BY <3>1, <3>2
  <2>. QED BY <1>1, <2>1, <2>3, Zenon
<1>. QED BY <1>6, <1>7

-----------------------------------------------------------------------------
(***************************************************************************)
(* The words that send_iris.pl finds.                                      *)
(***************************************************************************)
Neat(w) ==
  /\ w \in Line /\ w # <<>> /\ Avoids(w, {Tab}) /\ Avoids(w, {NUL})
  /\ w[1] \notin Space /\ EndsOutside(w, Space)

LEMMA NeatField ==
  ASSUME NEW f \in Seq(Field), Tidy(f), NEW n \in 1 .. Len(f), n <= 4
  PROVE  Neat(f[n])
<1>1. PICK w \in Line : w = f[n] /\ Avoids(w, {Tab})
  BY FieldsAre
<1>2. strip(From[w][Space]) = w /\ NUL \notin ToSet(w) /\ w # <<>>
  <2>1. n \in DOMAIN f
    BY LenProperties
  <2>. QED BY <1>1, <2>1 DEF Tidy
<1>3. PICK drop \in Bytes : drop = Space
  BY Names
<1>4. PICK a \in Line, b \in Line :
        w = a \o b /\ AllIn(a, drop) /\ (b # <<>> => b[1] \notin drop) /\ From[w][drop] = b
  BY FromCuts
<1>5. PICK d \in Line, c \in Line :
        b = d \o c /\ EndsOutside(d, drop) /\ AllIn(c, drop) /\ Trimmed[b][drop] = d
  BY TrimmedCuts
<1>6. d = w
  BY <1>2, <1>3, <1>4, <1>5, Zenon DEF strip
<1>7. a = <<>>
  <2>1. PICK i \in Nat, j \in Nat, k \in Nat, l \in Nat :
          i = Len(a) /\ j = Len(b) /\ k = Len(c) /\ l = Len(w)
    BY DEF Line
  <2>2. l = i + j
    BY <1>4, <2>1, JoinedLine
  <2>3. j = l + k
    BY <1>5, <1>6, <2>1, JoinedLine
  <2>4. i = 0
    BY <2>2, <2>3
  <2>. QED BY <2>1, <2>4, NonEmpty
<1>8. b = w
  <2>1. <<>> \o b = b
    BY ConcatEmptySeq DEF Line
  <2>. QED BY <1>4, <1>7, <2>1
<1>. QED BY <1>1, <1>2, <1>3, <1>4, <1>5, <1>6, <1>8, WordAvoids DEF Neat

(* One word, and what is left behind the tab.                              *)
Leaves(t, r) ==
  /\ StartsIn(t, {Tab}) /\ r = (IF t = <<>> THEN <<>> ELSE Tail(t))
  /\ r # <<>> => r[1] \notin Space

LEMMA SplitAt ==
  ASSUME NEW w \in Line, Neat(w), NEW t \in Line, NEW r \in Line, Leaves(t, r)
  PROVE  First[Glue(w, t)] = w /\ Others[Glue(w, t)] = r
<1>1. PICK tabs \in Bytes, drop \in Bytes : tabs = {Tab} /\ drop = Space
  BY Names
<1>2. w \in Line /\ Avoids(w, tabs) /\ EndsOutside(w, drop)
  BY <1>1 DEF Neat
<1>3. PICK x \in Line : x = w \o t
  BY <1>2, JoinedLine
<1>4. Before[x][tabs] = w /\ Behind[x][tabs] = r
  BY <1>1, <1>2, <1>3, BeforeStops DEF Leaves
<1>5. PICK none \in Line : none = <<>> /\ AllIn(none, drop) /\ w \o none = w /\ none \o r = r
  <2>1. <<>> \in Line /\ AllIn(<<>>, drop) /\ w \o <<>> = w /\ <<>> \o r = r
    BY <1>2, ConcatEmptySeq DEF Line, AllIn
  <2>. QED BY <2>1
<1>6. Trimmed[w][drop] = w
  <2>1. Trimmed[w \o none][drop] = w
    BY <1>2, <1>5, TrimmedStops
  <2>. QED BY <1>5, <2>1
<1>7. From[r][drop] = r
  <2>1. From[none \o r][drop] = r
    BY <1>1, <1>5, FromSkips DEF Leaves
  <2>. QED BY <1>5, <2>1
<1>8. First[x] = w /\ Others[x] = r
  BY <1>1, <1>4, <1>6, <1>7, Zenon DEF First, Others
<1>. QED BY <1>3, <1>8, Zenon DEF Glue

LEMMA TextAvoids ==
  ASSUME NEW f \in Seq(Field), \A n \in 1 .. Len(f) : NUL \notin ToSet(f[n])
  PROVE  Avoids(Text(f), {NUL})
<1>1. PICK S : S = STRING \ {NUL}
  OBVIOUS
<1>2. Tab \in S /\ Len(f) \in Nat
  <2>1. Tab # NUL
    BY DEF Tab, NUL
  <2>. QED BY <1>1, <2>1, FieldsAre
<1>3. f \in Seq(Seq(S))
  <2>1. PICK Q : Q = Seq(S)
    OBVIOUS
  <2>2. ASSUME NEW n \in 1 .. Len(f) PROVE f[n] \in Q
    <3>1. PICK w \in Line : w = f[n] /\ NUL \notin ToSet(w)
      BY FieldsAre
    <3>2. Len(w) \in Nat /\ Avoids(w, {NUL}) /\ \A i \in 1 .. Len(w) : w[i] \in STRING
      BY <3>1, WordAvoids, ElementOfSeq DEF Line
    <3>3. \A i \in 1 .. Len(w) : w[i] \in S
      BY <1>1, <3>2 DEF Avoids
    <3>4. w \in [1 .. Len(w) -> S]
      BY <3>3, LenProperties DEF Line
    <3>. QED BY <2>1, <3>1, <3>2, <3>4, AsSeq
  <2>3. f \in [1 .. Len(f) -> Q]
    BY <2>2, LenProperties
  <2>. QED BY <1>2, <2>1, <2>3, AsSeq
<1>4. Text(f) \in Seq(S)
  BY <1>2, <1>3, LedOf, FlattenType, TextIs
<1>5. \A i \in 1 .. Len(Text(f)) : Text(f)[i] \in S
  BY <1>4, ElementOfSeq
<1>. QED BY <1>1, <1>5 DEF Avoids

(* A text whose first field is not empty.                                  *)
LEMMA OpensWith ==
  ASSUME NEW f \in Seq(Field), f # <<>>, f[1] # <<>>
  PROVE  /\ Word(f) = f[1] /\ Later(f) \in Seq(Field) /\ Len(Later(f)) = Len(f) - 1
         /\ Later(f) = SubSeq(f, 2, Len(f))
         /\ \A n \in 1 .. Len(f) - 1 : Later(f)[n] = f[1 + n]
         /\ Text(f) = Glue(f[1], IF Later(f) = <<>> THEN <<>> ELSE Glue(<<Tab>>, Text(Later(f))))
<1>1. PICK l \in Nat : l = Len(f) /\ l # 0
  BY EmptySeq
<1>2. Filled(f) = 1
  <2>1. PICK i : i = Filled(f)
    OBVIOUS
  <2>2. i \in 0 .. l /\ \A n \in 1 .. l : (i = 0 \/ n < i) => f[n] = <<>>
    BY <1>1, <2>1, FilledIs
  <2>. QED BY <1>1, <2>1, <2>2
<1>3. Word(f) = f[1] /\ Later(f) = SubSeq(f, 1 + 1, Len(f))
  BY <1>2 DEF Word, Later
<1>4. 1 \in 1 .. Len(f)
  BY <1>1
<1>5. /\ Later(f) \in Seq(Field) /\ Len(Later(f)) = Len(f) - 1
      /\ \A n \in 1 .. Len(f) - 1 : Later(f)[n] = f[1 + n]
  <2>1. /\ SubSeq(f, 1 + 1, Len(f)) \in Seq(Field) /\ Len(SubSeq(f, 1 + 1, Len(f))) = Len(f) - 1
        /\ \A n \in 1 .. Len(f) - 1 : SubSeq(f, 1 + 1, Len(f))[n] = f[1 + n]
    BY <1>4, BackOf
  <2>. QED BY <1>3, <2>1
<1>6. PICK g \in Seq(Field) : g = Later(f)
  BY <1>5
<1>7. Text(f) = f[1] \o FlattenSeq(Led(g))
  <2>0. SubSeq(f, 1, 1 - 1) = <<>>
    OBVIOUS
  <2>1. Text(f) = (Text(SubSeq(f, 1, 1 - 1)) \o (IF 1 = 1 THEN f[1] ELSE <<Tab>> \o f[1]))
                     \o FlattenSeq(Led(SubSeq(f, 1 + 1, Len(f))))
    BY <1>4, TextAround
  <2>2. Text(f) = (<<>> \o f[1]) \o FlattenSeq(Led(g))
    BY <1>3, <1>6, <2>0, <2>1, TextNone, Zenon
  <2>3. <<>> \o f[1] = f[1]
    <3>1. PICK w \in Line : w = f[1]
      BY <1>4, FieldsAre
    <3>. QED BY <3>1, ConcatEmptySeq DEF Line
  <2>. QED BY <2>2, <2>3
<1>8. FlattenSeq(Led(g)) = IF g = <<>> THEN <<>> ELSE <<Tab>> \o Text(g)
  BY LedText
<1>9. Text(f) = Glue(f[1], IF g = <<>> THEN <<>> ELSE Glue(<<Tab>>, Text(g)))
  BY <1>7, <1>8, Zenon DEF Glue
<1>10. Later(f) = SubSeq(f, 2, Len(f))
  BY <1>3
<1>. QED BY <1>3, <1>5, <1>6, <1>9, <1>10

LEMMA Opens3 ==
  ASSUME NEW f \in Seq(Field), Len(f) >= 3, f[1] # <<>>, f[2] # <<>>, f[3] # <<>>,
         NEW g, g = SubSeq(f, 4, Len(f))
  PROVE  /\ g \in Seq(Field) /\ Len(g) = Len(f) - 3 /\ \A n \in 1 .. Len(f) - 3 : g[n] = f[3 + n]
         /\ Word(f) = f[1] /\ Word(Later(f)) = f[2] /\ Word(Later(Later(f))) = f[3]
         /\ Later(Later(Later(f))) = g
         /\ Text(f) = Glue(f[1], Glue(<<Tab>>, Glue(f[2], Glue(<<Tab>>, Glue(f[3],
                        IF g = <<>> THEN <<>> ELSE Glue(<<Tab>>, Text(g)))))))
<1>1. PICK l \in Nat : l = Len(f) /\ l >= 3
  OBVIOUS
<1>2. g \in Seq(Field) /\ Len(g) = l - 3 /\ \A n \in 1 .. l - 3 : g[n] = f[3 + n]
  <2>1. 3 \in 1 .. Len(f) /\ 3 + 1 = 4
    BY <1>1
  <2>2. /\ SubSeq(f, 3 + 1, Len(f)) \in Seq(Field) /\ Len(SubSeq(f, 3 + 1, Len(f))) = Len(f) - 3
        /\ \A n \in 1 .. Len(f) - 3 : SubSeq(f, 3 + 1, Len(f))[n] = f[3 + n]
    BY <2>1, BackOf
  <2>. QED BY <1>1, <2>1, <2>2
<1>3. f # <<>>
  BY <1>1, EmptySeq
<1>4. PICK h \in Seq(Field) :
        /\ h = Later(f) /\ Len(h) = l - 1 /\ \A n \in 1 .. l - 1 : h[n] = f[1 + n]
        /\ Word(f) = f[1]
        /\ Text(f) = Glue(f[1], IF h = <<>> THEN <<>> ELSE Glue(<<Tab>>, Text(h)))
  BY <1>1, <1>3, OpensWith
<1>5. h # <<>> /\ h[1] = f[2] /\ h[1] # <<>>
  BY <1>1, <1>4, EmptySeq
<1>6. PICK k \in Seq(Field) :
        /\ k = Later(h) /\ Len(k) = l - 2 /\ \A n \in 1 .. l - 2 : k[n] = h[1 + n]
        /\ Word(h) = f[2]
        /\ Text(h) = Glue(f[2], IF k = <<>> THEN <<>> ELSE Glue(<<Tab>>, Text(k)))
  <2>1. /\ Word(h) = h[1] /\ Later(h) \in Seq(Field) /\ Len(Later(h)) = Len(h) - 1
        /\ \A n \in 1 .. Len(h) - 1 : Later(h)[n] = h[1 + n]
        /\ Text(h) = Glue(h[1], IF Later(h) = <<>> THEN <<>> ELSE Glue(<<Tab>>, Text(Later(h))))
    BY <1>5, OpensWith
  <2>2. Len(h) - 1 = l - 2
    BY <1>1, <1>4
  <2>3. PICK k \in Seq(Field) : k = Later(h)
    BY <2>1
  <2>. QED BY <1>5, <2>1, <2>2, <2>3
<1>7. k # <<>> /\ k[1] = f[3] /\ k[1] # <<>>
  <2>1. k[1] = h[2] /\ h[2] = f[3]
    BY <1>1, <1>4, <1>6
  <2>. QED BY <1>1, <1>6, <2>1, EmptySeq
<1>8. PICK m \in Seq(Field) :
        /\ m = Later(k) /\ Len(m) = l - 3 /\ \A n \in 1 .. l - 3 : m[n] = k[1 + n]
        /\ Word(k) = f[3]
        /\ Text(k) = Glue(f[3], IF m = <<>> THEN <<>> ELSE Glue(<<Tab>>, Text(m)))
  <2>1. /\ Word(k) = k[1] /\ Later(k) \in Seq(Field) /\ Len(Later(k)) = Len(k) - 1
        /\ \A n \in 1 .. Len(k) - 1 : Later(k)[n] = k[1 + n]
        /\ Text(k) = Glue(k[1], IF Later(k) = <<>> THEN <<>> ELSE Glue(<<Tab>>, Text(Later(k))))
    BY <1>7, OpensWith
  <2>2. Len(k) - 1 = l - 3
    BY <1>1, <1>6
  <2>3. PICK m \in Seq(Field) : m = Later(k)
    BY <2>1
  <2>. QED BY <1>7, <2>1, <2>2, <2>3
<1>9. m = g
  <2>1. ASSUME NEW n \in 1 .. l - 3 PROVE m[n] = g[n]
    <3>1. m[n] = k[1 + n]
      BY <1>8
    <3>2. k[1 + n] = h[1 + (1 + n)]
      <4>1. 1 + n \in 1 .. l - 2
        BY <1>1
      <4>. QED BY <1>6, <4>1
    <3>3. h[1 + (1 + n)] = f[1 + (1 + (1 + n))]
      <4>1. 1 + (1 + n) \in 1 .. l - 1
        BY <1>1
      <4>. QED BY <1>4, <4>1
    <3>4. 1 + (1 + (1 + n)) = 3 + n
      OBVIOUS
    <3>. QED BY <1>2, <3>1, <3>2, <3>3, <3>4
  <2>2. Len(m) = Len(g) /\ \A n \in 1 .. Len(m) : m[n] = g[n]
    BY <1>1, <1>2, <1>8, <2>1
  <2>. QED BY <1>2, <2>2, SeqEqual
<1>10. Text(f) = Glue(f[1], Glue(<<Tab>>, Glue(f[2], Glue(<<Tab>>, Glue(f[3],
                    IF g = <<>> THEN <<>> ELSE Glue(<<Tab>>, Text(g)))))))
  <2>1. Text(f) = Glue(f[1], Glue(<<Tab>>, Text(h)))
    BY <1>4, <1>5, Zenon
  <2>2. Text(h) = Glue(f[2], Glue(<<Tab>>, Text(k)))
    BY <1>6, <1>7, Zenon
  <2>3. Text(k) = Glue(f[3], IF g = <<>> THEN <<>> ELSE Glue(<<Tab>>, Text(g)))
    BY <1>8, <1>9, Zenon
  <2>. QED BY <2>1, <2>2, <2>3, Zenon
<1>. QED BY <1>1, <1>2, <1>4, <1>6, <1>8, <1>9, <1>10

(* What stands behind the third word: the output, and space.               *)
LEMMA PerlOutput ==
  ASSUME NEW g \in Seq(Field), g # <<>> => Neat(g[1]),
         \A n \in 1 .. Len(g) : NUL \notin ToSet(g[n])
  PROVE  \E o \in Line, t \in Line, u \in Line :
           /\ o = strip(Text(g)) /\ Avoids(o, {NUL}) /\ o = strip(Before[Text(g)][{NUL}])
           /\ (IF g = <<>> THEN <<>> ELSE Glue(<<Tab>>, Text(g))) = Glue(t, u)
           /\ AllIn(u, Space) /\ StartsIn(t, {Tab}) /\ EndsOutside(t, Space)
           /\ o = (IF t = <<>> THEN <<>> ELSE Tail(t)) /\ (o # <<>> => o[1] \notin Space)
           /\ (t = <<>> <=> g = <<>>)
<1>1. PICK nul \in Bytes, drop \in Bytes : nul = {NUL} /\ drop = Space
  BY Names
<1>2. PICK x \in Line : x = Text(g) /\ Avoids(x, nul)
  BY <1>1, TextIsLine, TextAvoids
<1>3. PICK none \in Line : none = <<>>
  <2>1. <<>> \in Line
    BY DEF Line
  <2>. QED BY <2>1
<1>4. Before[x][nul] = x
  <2>1. StartsIn(none, nul) /\ x \o none = x
    BY <1>3, ConcatEmptySeq DEF StartsIn, Line
  <2>2. Before[x \o none][nul] = x
    BY <1>2, <2>1, BeforeStops
  <2>. QED BY <2>1, <2>2
<1>5. PICK o \in Line, u \in Line :
        x = o \o u /\ EndsOutside(o, drop) /\ AllIn(u, drop) /\ Trimmed[x][drop] = o
  BY TrimmedCuts
<1>6. o = strip(Text(g)) /\ o = strip(Before[Text(g)][{NUL}])
  BY <1>1, <1>2, <1>4, <1>5, Zenon DEF strip
<1>7. Avoids(o, {NUL})
  BY <1>1, <1>2, <1>5, PartsAvoid
<1>8. CASE g = <<>>
  <2>1. x = <<>>
    BY <1>2, <1>8, TextNone
  <2>2. o = <<>> /\ u = <<>>
    <3>1. o \o u = <<>>
      BY <1>5, <2>1
    <3>2. o \in Seq(STRING) /\ u \in Seq(STRING)
      BY DEF Line
    <3>. QED BY <3>1, <3>2, ConcatEqualIffEmpty
  <2>3. Glue(o, u) = <<>> /\ StartsIn(o, {Tab}) /\ EndsOutside(o, Space)
    BY <1>5, <2>1, <2>2, Zenon DEF Glue, StartsIn, EndsOutside
  <2>. QED BY <1>1, <1>5, <1>6, <1>7, <1>8, <2>2, <2>3
<1>9. CASE g # <<>>
  <2>1. Neat(g[1]) /\ g[1] # <<>>
    BY <1>9 DEF Neat
  <2>2. PICK w, y : w = g[1] /\ Neat(w) /\ x = Glue(w, y) /\ y \in Line
    <3>1. PICK h \in Seq(Field) : h = Later(g)
      BY WordIs
    <3>2. PICK y : y = IF h = <<>> THEN <<>> ELSE Glue(<<Tab>>, Text(h))
      OBVIOUS
    <3>3. y \in Line
      <4>1. Text(h) \in Line /\ <<Tab>> \in Line /\ <<>> \in Line
        BY <1>3, TextIsLine, TabIsLine
      <4>2. Glue(<<Tab>>, Text(h)) \in Line
        BY <4>1, GlueAssociative
      <4>. QED BY <3>2, <4>1, <4>2
    <3>4. Text(g) = Glue(g[1], y)
      BY <1>9, <2>1, <3>1, <3>2, OpensWith
    <3>. QED BY <1>2, <2>1, <3>3, <3>4
  <2>3. x # <<>> /\ x[1] = w[1] /\ w[1] \notin drop
    <3>1. w \in Line /\ w # <<>>
      BY <2>2 DEF Neat
    <3>2. (w \o y)[1] = w[1] /\ w \o y # <<>>
      BY <2>2, <3>1, TailOfJoin
    <3>3. x = w \o y
      BY <2>2, Zenon DEF Glue
    <3>. QED BY <1>1, <2>2, <3>2, <3>3 DEF Neat
  <2>4. o # <<>>
    <3>1. SUFFICES ASSUME o = <<>> PROVE FALSE
      OBVIOUS
    <3>2. x = u
      BY <1>5, <3>1, ConcatEmptySeq DEF Line
    <3>3. 1 \in 1 .. Len(u)
      <4>1. Len(u) \in Nat /\ Len(u) # 0
        BY <2>3, <3>2, NonEmpty DEF Line
      <4>. QED BY <4>1
    <3>. QED BY <1>5, <2>3, <3>2, <3>3 DEF AllIn
  <2>5. o[1] \notin drop
    <3>1. (o \o u)[1] = o[1]
      BY <2>4, TailOfJoin
    <3>. QED BY <1>5, <2>3, <3>1
  <2>6. PICK tab \in Line : tab = <<Tab>> /\ tab # <<>> /\ tab[1] = Tab /\ Tail(tab) = <<>>
    <3>1. <<Tab>> # <<>> /\ <<Tab>>[1] = Tab /\ Tail(<<Tab>>) = <<>>
      OBVIOUS
    <3>. QED BY <3>1, TabIsLine
  <2>7. PICK t \in Line : t = Glue(tab, o)
    BY GlueAssociative
  <2>8. Glue(<<Tab>>, Text(g)) = Glue(t, u)
    <3>1. Glue(Glue(tab, o), u) = Glue(tab, Glue(o, u))
      BY GlueAssociative
    <3>2. x = Glue(o, u)
      BY <1>5, Zenon DEF Glue
    <3>. QED BY <1>2, <2>6, <2>7, <3>1, <3>2, Zenon
  <2>9. t # <<>> /\ t[1] = Tab /\ Tail(t) = o
    <3>1. (tab \o o)[1] = tab[1] /\ tab \o o # <<>> /\ Tail(tab \o o) = Tail(tab) \o o
      BY <2>6, TailOfJoin
    <3>2. <<>> \o o = o
      BY ConcatEmptySeq DEF Line
    <3>3. t = tab \o o
      BY <2>7, Zenon DEF Glue
    <3>. QED BY <2>6, <3>1, <3>2, <3>3
  <2>10. EndsOutside(t, Space)
    BY <1>1, <1>5, <2>4, <2>7, LastOfGlue
  <2>11. StartsIn(t, {Tab})
    BY <2>9 DEF StartsIn
  <2>. QED BY <1>1, <1>5, <1>6, <1>7, <1>9, <2>5, <2>8, <2>9, <2>10, <2>11
<1>. QED BY <1>8, <1>9

LEMMA TabThen ==
  ASSUME NEW x \in Line
  PROVE  \E p \in Line :
           p = Glue(<<Tab>>, x) /\ p # <<>> /\ StartsIn(p, {Tab}) /\ Tail(p) = x
<1>1. PICK tab \in Line : tab = <<Tab>> /\ tab # <<>> /\ tab[1] = Tab /\ Tail(tab) = <<>>
  <2>1. <<Tab>> # <<>> /\ <<Tab>>[1] = Tab /\ Tail(<<Tab>>) = <<>>
    OBVIOUS
  <2>. QED BY <2>1, TabIsLine
<1>2. /\ (tab \o x)[1] = tab[1] /\ tab \o x # <<>>
      /\ Tail(tab \o x) = Tail(tab) \o x
  BY <1>1, TailOfJoin
<1>3. <<>> \o x = x
  BY ConcatEmptySeq DEF Line
<1>4. PICK p \in Line : p = tab \o x
  BY JoinedLine
<1>5. p # <<>> /\ p[1] = Tab /\ Tail(p) = x
  BY <1>1, <1>2, <1>3, <1>4
<1>6. p = Glue(<<Tab>>, x)
  BY <1>1, <1>4, Zenon DEF Glue
<1>. QED BY <1>5, <1>6 DEF StartsIn

LEMMA NeatStart ==
  ASSUME NEW w, Neat(w), NEW t \in Line
  PROVE  \E s \in Line : s = Glue(w, t) /\ s # <<>> /\ s[1] \notin Space
<1>1. w \in Line /\ w # <<>> /\ w[1] \notin Space
  BY DEF Neat
<1>2. (w \o t)[1] = w[1] /\ w \o t # <<>>
  BY <1>1, TailOfJoin
<1>3. PICK s \in Line : s = w \o t
  BY <1>1, JoinedLine
<1>4. s = Glue(w, t)
  BY <1>3, Zenon DEF Glue
<1>. QED BY <1>1, <1>2, <1>3, <1>4

(* What send_iris.pl finds in x: the fields a, b and c, and the output o.  *)
Finds(x, a, b, c, o, s, two, three) ==
  /\ s = From[Trimmed[x][Space]][Space] /\ First[s] = a /\ Others[s] = two
  /\ First[two] = b /\ Others[two] = three /\ First[three] = c /\ Others[three] = o

(* It finds the fields of a tidy piece, whatever space is in front of it.  *)
LEMMA PerlWords ==
  ASSUME NEW f \in Seq(Field), Len(f) >= 3, Tidy(f), NEW lead \in Line, AllIn(lead, Space),
         NEW g, g = SubSeq(f, 4, Len(f))
  PROVE  \E o \in Line, s \in Line, two \in Line, three \in Line :
           /\ o = strip(Text(g)) /\ Avoids(o, {NUL}) /\ o = strip(Before[Text(g)][{NUL}])
           /\ Finds(Glue(lead, Text(f)), f[1], f[2], f[3], o, s, two, three)
<1>1. PICK drop \in Bytes : drop = Space
  BY Names
<1>2. PICK a \in Line, b \in Line, c \in Line :
        a = f[1] /\ b = f[2] /\ c = f[3] /\ Neat(a) /\ Neat(b) /\ Neat(c)
  <2>1. PICK l \in Nat : l = Len(f) /\ l >= 3
    OBVIOUS
  <2>2. Neat(f[1]) /\ Neat(f[2]) /\ Neat(f[3])
    BY <2>1, NeatField
  <2>. QED BY <2>2 DEF Neat
<1>3. /\ g \in Seq(Field) /\ Len(g) = Len(f) - 3 /\ \A n \in 1 .. Len(f) - 3 : g[n] = f[3 + n]
      /\ Text(f) = Glue(f[1], Glue(<<Tab>>, Glue(f[2], Glue(<<Tab>>, Glue(f[3],
                       IF g = <<>> THEN <<>> ELSE Glue(<<Tab>>, Text(g)))))))
  <2>1. f[1] # <<>> /\ f[2] # <<>> /\ f[3] # <<>>
    BY <1>2 DEF Neat
  <2>. QED BY <2>1, Opens3
<1>4. PICK o \in Line, t \in Line, u \in Line :
        /\ o = strip(Text(g)) /\ Avoids(o, {NUL}) /\ o = strip(Before[Text(g)][{NUL}])
        /\ (IF g = <<>> THEN <<>> ELSE Glue(<<Tab>>, Text(g))) = Glue(t, u)
        /\ AllIn(u, Space) /\ StartsIn(t, {Tab}) /\ EndsOutside(t, Space)
        /\ o = (IF t = <<>> THEN <<>> ELSE Tail(t)) /\ (o # <<>> => o[1] \notin Space)
        /\ (t = <<>> <=> g = <<>>)
  <2>1. PICK l \in Nat : l = Len(f) /\ l >= 3
    OBVIOUS
  <2>2. g # <<>> => Neat(g[1])
    <3>1. SUFFICES ASSUME g # <<>> PROVE Neat(g[1])
      OBVIOUS
    <3>2. 1 \in 1 .. l - 3
      <4>1. Len(g) # 0
        BY <1>3, <3>1, EmptySeq
      <4>. QED BY <1>3, <2>1, <4>1
    <3>3. g[1] = f[4] /\ 4 \in 1 .. Len(f) /\ 4 <= 4
      BY <1>3, <2>1, <3>2
    <3>4. Neat(f[4])
      BY <3>3, NeatField
    <3>. QED BY <3>3, <3>4
  <2>3. ASSUME NEW n \in 1 .. Len(g) PROVE NUL \notin ToSet(g[n])
    <3>1. n \in 1 .. l - 3 /\ 3 + n \in DOMAIN f
      BY <1>3, <2>1, LenProperties
    <3>2. g[n] = f[3 + n]
      BY <1>3, <2>1, <3>1
    <3>. QED BY <3>1, <3>2 DEF Tidy
  <2>. QED BY <1>3, <2>2, <2>3, PerlOutput
<1>5. PICK three \in Line : three = Glue(c, t) /\ three # <<>> /\ three[1] \notin Space
  BY <1>2, NeatStart
<1>6. PICK p2 \in Line : p2 = Glue(<<Tab>>, three) /\ p2 # <<>> /\ StartsIn(p2, {Tab}) /\ Tail(p2) = three
  BY TabThen
<1>7. PICK two \in Line : two = Glue(b, p2) /\ two # <<>> /\ two[1] \notin Space
  BY <1>2, NeatStart
<1>8. PICK p1 \in Line : p1 = Glue(<<Tab>>, two) /\ p1 # <<>> /\ StartsIn(p1, {Tab}) /\ Tail(p1) = two
  BY TabThen
<1>9. PICK s \in Line : s = Glue(a, p1) /\ s # <<>> /\ s[1] \notin Space
  BY <1>2, NeatStart
<1>10. Text(f) = Glue(s, u)
  <2>1. PICK tab \in Line : tab = <<Tab>>
    BY TabIsLine
  <2>2. Text(f) = Glue(a, Glue(tab, Glue(b, Glue(tab, Glue(c, Glue(t, u))))))
    BY <1>2, <1>3, <1>4, <2>1, Zenon
  <2>3. Glue(c, Glue(t, u)) = Glue(three, u)
    BY <1>5, GlueAssociative
  <2>4. Glue(tab, Glue(three, u)) = Glue(p2, u)
    BY <1>6, <2>1, GlueAssociative
  <2>5. Glue(b, Glue(p2, u)) = Glue(two, u)
    BY <1>7, GlueAssociative
  <2>6. Glue(tab, Glue(two, u)) = Glue(p1, u)
    BY <1>8, <2>1, GlueAssociative
  <2>7. Glue(a, Glue(p1, u)) = Glue(s, u)
    BY <1>9, GlueAssociative
  <2>. QED BY <2>2, <2>3, <2>4, <2>5, <2>6, <2>7, Zenon
<1>11. PICK w \in Line : w = Glue(lead, s) /\ Glue(lead, Text(f)) = Glue(w, u)
  BY <1>10, GlueAssociative
<1>12. EndsOutside(w, drop)
  <2>1. EndsOutside(three, drop)
    <3>1. CASE t = <<>>
      <4>1. three = c
        <5>1. c \o <<>> = c
          BY ConcatEmptySeq DEF Line
        <5>. QED BY <1>5, <3>1, <5>1 DEF Glue
      <4>. QED BY <1>1, <1>2, <4>1 DEF Neat
    <3>2. CASE t # <<>>
      BY <1>1, <1>4, <1>5, <3>2, LastOfGlue
    <3>. QED BY <3>1, <3>2
  <2>2. EndsOutside(p2, drop)
    BY <1>5, <1>6, <2>1, TabIsLine, LastOfGlue
  <2>3. EndsOutside(two, drop)
    BY <1>6, <1>7, <2>2, LastOfGlue
  <2>4. EndsOutside(p1, drop)
    BY <1>7, <1>8, <2>3, TabIsLine, LastOfGlue
  <2>5. EndsOutside(s, drop)
    BY <1>8, <1>9, <2>4, LastOfGlue
  <2>. QED BY <1>9, <1>11, <2>5, LastOfGlue
<1>13. s = From[Trimmed[Glue(lead, Text(f))][Space]][Space]
  <2>1. Trimmed[w \o u][drop] = w
    BY <1>1, <1>4, <1>12, TrimmedStops
  <2>2. From[lead \o s][drop] = s
    BY <1>1, <1>9, FromSkips
  <2>3. Trimmed[Glue(w, u)][drop] = w /\ From[Glue(lead, s)][drop] = s
    BY <2>1, <2>2, Zenon DEF Glue
  <2>. QED BY <1>1, <1>11, <2>3, Zenon
<1>14. First[Glue(a, p1)] = a /\ Others[Glue(a, p1)] = two
  <2>1. Leaves(p1, two)
    BY <1>7, <1>8 DEF Leaves
  <2>. QED BY <1>2, <1>7, <1>8, <2>1, SplitAt
<1>15. First[Glue(b, p2)] = b /\ Others[Glue(b, p2)] = three
  <2>1. Leaves(p2, three)
    BY <1>5, <1>6 DEF Leaves
  <2>. QED BY <1>2, <1>5, <1>6, <2>1, SplitAt
<1>16. First[Glue(c, t)] = c /\ Others[Glue(c, t)] = o
  <2>1. Leaves(t, o)
    BY <1>4 DEF Leaves
  <2>. QED BY <1>2, <1>4, <2>1, SplitAt
<1>17. /\ First[s] = f[1] /\ Others[s] = two
       /\ First[two] = f[2] /\ Others[two] = three
       /\ First[three] = f[3] /\ Others[three] = o
  BY <1>2, <1>5, <1>7, <1>9, <1>14, <1>15, <1>16, Zenon
<1>18. Finds(Glue(lead, Text(f)), f[1], f[2], f[3], o, s, two, three)
  BY <1>13, <1>17, Zenon DEF Finds
<1>. QED BY <1>4, <1>18

LEMMA DigitIs ==
  ASSUME NEW d \in Digit
  PROVE  Numeric[<<d>>] = Value(d) /\ Value(d) \in Nat /\ <<d>> \in Line
<1>1. PICK w \in Line : w = <<d>> /\ Len(w) = 1 /\ w[1] = d /\ w # <<>>
  <2>1. d \in STRING
    BY NamesAssumption DEF Digit
  <2>2. <<d>> \in Line
    <3>1. PICK S : S = STRING
      OBVIOUS
    <3>2. d \in S
      BY <2>1, <3>1
    <3>3. <<d>> \in Seq(S)
      BY <3>2
    <3>. QED BY <3>1, <3>3 DEF Line
  <2>3. Len(<<d>>) = 1 /\ <<d>>[1] = d /\ <<d>> # <<>>
    OBVIOUS
  <2>. QED BY <2>2, <2>3
<1>2. PICK digits \in Bytes, zero \in Bytes : digits = Digit /\ zero = {"0"}
  BY NamesAssumption DEF Bytes, Digit
<1>3. PICK none \in Line : none = <<>> /\ Len(none) = 0 /\ w \o none = w /\ none \o w = w
  <2>1. <<>> \in Line /\ Len(<<>>) = 0 /\ w \o <<>> = w /\ <<>> \o w = w
    BY ConcatEmptySeq DEF Line
  <2>. QED BY <2>1
<1>4. From[w][digits] = none
  <2>1. AllIn(w, digits)
    BY <1>1, <1>2 DEF AllIn
  <2>2. From[w \o none][digits] = none
    BY <1>3, <2>1, FromSkips
  <2>. QED BY <1>3, <2>2
<1>5. SubSeq(w, 1, Len(w) - Len(From[w][digits])) = w
  <2>1. Len(w) - Len(From[w][digits]) = Len(w)
    BY <1>1, <1>3, <1>4
  <2>. QED BY <2>1, SubSeqFull DEF Line
<1>6. PICK number \in Line :
        /\ number = From[w][zero]
        /\ d = "0" => Len(number) = 0
        /\ d # "0" => Len(number) = 1 /\ number[1] = d
  <2>1. CASE d = "0"
    <3>1. AllIn(w, zero)
      BY <1>1, <1>2, <2>1 DEF AllIn
    <3>2. From[w \o none][zero] = none
      BY <1>3, <3>1, FromSkips
    <3>. QED BY <1>3, <2>1, <3>2
  <2>2. CASE d # "0"
    <3>1. AllIn(none, zero) /\ w[1] \notin zero
      BY <1>1, <1>2, <1>3, <2>2 DEF AllIn
    <3>2. From[none \o w][zero] = w
      BY <1>3, <3>1, FromSkips
    <3>. QED BY <1>1, <1>3, <2>2, <3>2
  <2>. QED BY <2>1, <2>2
<1>7. Numeric[w] = CASE Len(number) = 0 -> 0 [] Len(number) = 1 -> Value(number[1]) [] OTHER -> 10
  BY <1>2, <1>5, <1>6, Zenon DEF Numeric
<1>8. Value(d) \in Nat /\ (d = "0" => Value(d) = 0)
  BY DEF Value
<1>9. Numeric[w] = Value(d)
  <2>1. CASE d = "0"
    BY <1>6, <1>7, <1>8, <2>1
  <2>2. CASE d # "0"
    <3>1. Len(number) = 1 /\ number[1] = d /\ Len(number) # 0
      BY <1>6, <2>2
    <3>. QED BY <1>7, <3>1
  <2>. QED BY <2>1, <2>2
<1>. QED BY <1>1, <1>8, <1>9

LEMMA MemberIsCapped ==
  ASSUME NEW w \in Line, Avoids(w, {NUL}), NEW len \in Nat \ {0}
  PROVE  Member(w, len) = Capped[w][len]
<1>1. PICK nul \in Bytes : nul = {NUL}
  BY Names
<1> DEFINE n == IF Len(w) < len THEN Len(w) ELSE len - 1
<1>2. n \in 0 .. Len(w)
  BY DEF Line
<1>3. Capped[w][len] = SubSeq(w, 1, n)
  BY DEF Capped
<1> HIDE DEF n
<1>4. PICK b \in Line, c \in Line : b = SubSeq(w, 1, n) /\ w = b \o c
  <2>1. /\ SubSeq(w, 1, n) \in Line /\ SubSeq(w, n + 1, Len(w)) \in Line
        /\ w = SubSeq(w, 1, n) \o SubSeq(w, n + 1, Len(w))
    BY <1>2, Divided2
  <2>. QED BY <2>1
<1>5. Avoids(b, nul)
  BY <1>1, <1>4, PartsAvoid
<1>6. PICK none \in Line : none = <<>> /\ b \o none = b
  <2>1. <<>> \in Line /\ b \o <<>> = b
    BY ConcatEmptySeq DEF Line
  <2>. QED BY <2>1
<1>7. Before[b][nul] = b
  <2>1. StartsIn(none, nul)
    BY <1>6 DEF StartsIn
  <2>2. Before[b \o none][nul] = b
    BY <1>5, <2>1, BeforeStops
  <2>. QED BY <1>6, <2>2
<1>. QED BY <1>1, <1>3, <1>4, <1>7, Zenon DEF Member

(* The result that send_iris.pl makes of the words it finds. *)
HostWord == <<"H", "O", "S", "T">>
TakenForHost(b, o) == ~Truth(o) /\ Truth(b) /\ b \in {<<d>> : d \in Digit}
PerlMade(a, b, c, o) ==
  LET service == IF TakenForHost(b, o) THEN HostWord ELSE b
      rc == Numeric[IF TakenForHost(b, o) THEN b ELSE c]
  IN IF Truth(a) /\ Truth(service)
     THEN <<[host    |-> Member(a, HostLen),
             service |-> Member(service, ServiceLen),
             rc      |-> IF rc \in 0 .. 3 THEN rc ELSE 3,
             output  |-> Member(IF TakenForHost(b, o) THEN c ELSE o, OutputLen)]>>
     ELSE <<>>

LEMMA PerlMakes ==
  ASSUME NEW x \in Line, NEW a, NEW b, NEW c, NEW o, NEW s, NEW two, NEW three,
         Finds(x, a, b, c, o, s, two, three)
  PROVE  PerlResult[x] = PerlMade(a, b, c, o)
<1>0. /\ s = From[Trimmed[x][Space]][Space] /\ First[s] = a /\ Others[s] = two
      /\ First[two] = b /\ Others[two] = three /\ First[three] = c /\ Others[three] = o
  BY Zenon DEF Finds
<1>1. PerlResult[x] =
        LET isHost == ~Truth(o) /\ Truth(b) /\ b \in {<<d>> : d \in Digit}
            rc == Numeric[First[IF isHost THEN two ELSE three]]
            service == IF isHost THEN <<"H", "O", "S", "T">> ELSE b
        IN IF Truth(a) /\ Truth(service)
           THEN <<[host    |-> Member(a, HostLen),
                   service |-> Member(service, ServiceLen),
                   rc      |-> IF rc \in 0 .. 3 THEN rc ELSE 3,
                   output  |-> Member(IF isHost THEN First[three] ELSE o, OutputLen)]>>
           ELSE <<>>
  BY <1>0, Zenon DEF PerlResult
<1>2. CASE TakenForHost(b, o)
  BY <1>0, <1>1, <1>2, Zenon DEF PerlMade, TakenForHost, HostWord
<1>3. CASE ~TakenForHost(b, o)
  BY <1>0, <1>1, <1>3, Zenon DEF PerlMade, TakenForHost, HostWord
<1>. QED BY <1>2, <1>3

(* What Later leaves is shorter: only three fields or more have a third    *)
(* word.                                                                   *)
LEMMA LaterIsShorter ==
  ASSUME NEW f \in Seq(Field)
  PROVE  /\ f # <<>> => Len(Later(f)) < Len(f)
         /\ f = <<>> => Word(f) = <<>> /\ Later(f) = <<>>
<1>1. PICK l \in Nat : l = Len(f)
  OBVIOUS
<1>2. PICK n \in 0 .. l : n = Filled(f)
  BY <1>1, FilledIs
<1>3. CASE n = 0
  <2>1. Word(f) = <<>> /\ Later(f) = <<>>
    BY <1>2, <1>3, WordIs
  <2>2. Len(Later(f)) = 0
    BY <2>1
  <2>3. f # <<>> => l # 0
    BY <1>1, EmptySeq
  <2>. QED BY <1>1, <2>1, <2>2, <2>3
<1>4. CASE n # 0
  <2>1. n \in 1 .. Len(f) /\ f # <<>>
    <3>1. n \in 1 .. l /\ l # 0
      BY <1>4
    <3>. QED BY <1>1, <3>1
  <2>2. Later(f) = SubSeq(f, n + 1, Len(f))
    BY <1>2, <1>4 DEF Later
  <2>3. Len(SubSeq(f, n + 1, Len(f))) = Len(f) - n
    BY <2>1, BackOf
  <2>. QED BY <1>1, <2>1, <2>2, <2>3
<1>. QED BY <1>3, <1>4

LEMMA ThirdWord ==
  ASSUME NEW f \in Seq(Field), Word(Later(Later(f))) # <<>>
  PROVE  Len(f) >= 3
<1>1. PICK g \in Seq(Field), h \in Seq(Field) : g = Later(f) /\ h = Later(g)
  <2>1. Later(f) \in Seq(Field)
    BY WordIs
  <2>2. Later(Later(f)) \in Seq(Field)
    BY <2>1, WordIs
  <2>. QED BY <2>1, <2>2
<1>2. h # <<>>
  BY <1>1, LaterIsShorter
<1>3. g # <<>> /\ Len(h) < Len(g)
  BY <1>1, <1>2, LaterIsShorter
<1>4. f # <<>> /\ Len(g) < Len(f)
  BY <1>1, <1>3, LaterIsShorter
<1>5. Len(h) # 0
  BY <1>2, EmptySeq
<1>. QED BY <1>3, <1>4, <1>5

LEMMA HasThree ==
  ASSUME NEW f \in Seq(Field), IsHostCheck(f) \/ Meant(f) # <<>>
  PROVE  Len(f) >= 3
<1>1. CASE IsHostCheck(f)
  BY <1>1 DEF IsHostCheck
<1>2. CASE Meant(f) # <<>>
  <2>1. Word(Later(Later(f))) \in Digits
    BY <1>2, MeantMade, Zenon DEF Made
  <2>2. ASSUME NEW w \in Digits PROVE w # <<>>
    <3>1. PICK d : w = <<d>>
      BY Zenon DEF Digits
    <3>. QED BY <3>1
  <2>. QED BY <2>1, <2>2, ThirdWord
<1>. QED BY <1>1, <1>2

(* What send_iris.pl makes of a tidy piece that is well-formed.            *)
LEMMA PerlResultIs ==
  ASSUME NEW f \in Seq(Field), Tidy(f), IsHostCheck(f) \/ Meant(f) # <<>>,
         NEW lead \in Line, AllIn(lead, Space)
  PROVE  PerlResult[Glue(lead, Text(f))] = MeantInPerl(f)
<1>1. Len(f) >= 3
  BY HasThree
<1>2. PICK a, b, c : a = f[1] /\ b = f[2] /\ c = f[3] /\ Neat(a) /\ Neat(b) /\ Neat(c)
  <2>1. PICK l \in Nat : l = Len(f) /\ l >= 3
    BY <1>1
  <2>2. Neat(f[1]) /\ Neat(f[2]) /\ Neat(f[3])
    BY <2>1, NeatField
  <2>. QED BY <2>2
<1>3. PICK g : g = SubSeq(f, 4, Len(f))
  OBVIOUS
<1>4. PICK o \in Line, s \in Line, two \in Line, three \in Line :
        /\ o = strip(Text(g)) /\ Avoids(o, {NUL}) /\ o = strip(Before[Text(g)][{NUL}])
        /\ Finds(Glue(lead, Text(f)), f[1], f[2], f[3], o, s, two, three)
  BY <1>1, <1>3, PerlWords
<1>5. PerlResult[Glue(lead, Text(f))] = PerlMade(a, b, c, o)
  <2>1. Glue(lead, Text(f)) \in Line
    BY TextIsLine, GlueAssociative
  <2>. QED BY <1>2, <1>4, <2>1, PerlMakes
<1>6. /\ a \in Line /\ b \in Line /\ c \in Line
      /\ Avoids(a, {NUL}) /\ Avoids(b, {NUL}) /\ Avoids(c, {NUL})
      /\ a # <<>> /\ b # <<>> /\ c # <<>>
  BY <1>2 DEF Neat
<1>7. Meant(f) = Made(a, b, c, o)
  <2>1. /\ Word(f) = f[1] /\ Word(Later(f)) = f[2] /\ Word(Later(Later(f))) = f[3]
        /\ Later(Later(Later(f))) = g
    BY <1>1, <1>2, <1>3, <1>6, Opens3
  <2>2. NUL \notin ToSet(a) \cup ToSet(b)
    BY <1>6, WordAvoids
  <2>3. o = strip(Before[Text(Later(Later(Later(f))))][{NUL}])
    BY <1>4, <2>1, Zenon
  <2>4. Meant(f) = IF NUL \notin ToSet(Word(f)) \cup ToSet(Word(Later(f)))
                   THEN Made(Word(f), Word(Later(f)), Word(Later(Later(f))), o) ELSE <<>>
    BY <2>3, MeantMade
  <2>. QED BY <1>2, <2>1, <2>2, <2>4, Zenon
<1>8. IsHostCheck(f) <=> b \in {<<d>> : d \in Digit} /\ ~Truth(o)
  BY <1>1, <1>2, <1>3, <1>4, Zenon DEF IsHostCheck
<1>9. /\ Member(a, HostLen) = Capped[a][HostLen] /\ Member(b, ServiceLen) = Capped[b][ServiceLen]
      /\ Member(c, OutputLen) = Capped[c][OutputLen] /\ Member(o, OutputLen) = Capped[o][OutputLen]
      /\ Member(HostWord, ServiceLen) = Capped[HostWord][ServiceLen]
  <2>1. HostWord \in Line /\ Avoids(HostWord, {NUL})
    BY Names DEF HostWord, Avoids, NUL
  <2>. QED BY <1>4, <1>6, <2>1, Names, MemberIsCapped
<1>10. Truth(HostWord) /\ (Truth(a) <=> a # <<"0">>) /\ (Truth(b) <=> b # <<"0">>)
  BY <1>6 DEF Truth, HostWord
<1>11. CASE <<"0">> \in {a, b}
  <2>1. ~(Truth(a) /\ Truth(IF TakenForHost(b, o) THEN HostWord ELSE b))
    BY <1>10, <1>11 DEF TakenForHost
  <2>2. PerlMade(a, b, c, o) = <<>>
    BY <2>1, Zenon DEF PerlMade
  <2>3. MeantInPerl(f) = <<>>
    BY <1>2, <1>11, Zenon DEF MeantInPerl
  <2>. QED BY <1>5, <2>2, <2>3
<1>12. CASE <<"0">> \notin {a, b} /\ IsHostCheck(f)
  <2>1. TakenForHost(b, o) /\ Truth(a)
    BY <1>8, <1>10, <1>12 DEF TakenForHost
  <2>2. PICK d \in Digit : b = <<d>>
    BY <1>8, <1>12
  <2>3. d # "0" /\ Numeric[b] = Value(d) /\ b[1] = d /\ (b = <<"7">> <=> d = "7")
    BY <1>12, <2>2, DigitIs
  <2>4. (IF Value(d) \in 0 .. 3 THEN Value(d) ELSE 3) = (IF d = "7" THEN 3 ELSE Value(d))
    BY <2>3 DEF Digit, Value
  <2>5. (IF Numeric[b] \in 0 .. 3 THEN Numeric[b] ELSE 3) = IF b = <<"7">> THEN 3 ELSE Value(b[1])
    BY <2>3, <2>4
  <2>6. PerlMade(a, b, c, o) =
          <<[host    |-> Member(a, HostLen),
             service |-> Member(HostWord, ServiceLen),
             rc      |-> IF Numeric[b] \in 0 .. 3 THEN Numeric[b] ELSE 3,
             output  |-> Member(c, OutputLen)]>>
    BY <1>10, <2>1, Zenon DEF PerlMade
  <2>7. MeantInPerl(f) =
          <<[host    |-> Capped[a][HostLen],
             service |-> Capped[HostWord][ServiceLen],
             rc      |-> IF b = <<"7">> THEN 3 ELSE Value(b[1]),
             output  |-> Capped[c][OutputLen]]>>
    BY <1>2, <1>12, Zenon DEF MeantInPerl, HostWord
  <2>. QED BY <1>5, <1>9, <2>5, <2>6, <2>7, Zenon
<1>13. CASE <<"0">> \notin {a, b} /\ ~IsHostCheck(f)
  <2>1. ~TakenForHost(b, o) /\ Truth(a) /\ Truth(b)
    BY <1>8, <1>10, <1>13 DEF TakenForHost
  <2>2. c \in Digits /\ o # <<>> /\ Made(a, b, c, o) # <<>>
    BY <1>7, <1>13, Zenon DEF Made
  <2>3. PICK d \in {"0", "1", "2", "3"} : c = <<d>>
    BY <2>2 DEF Digits
  <2>4. d \in Digit /\ Value(d) \in 0 .. 3
    BY DEF Digit, Value
  <2>5. Numeric[c] = Value(d) /\ c[1] = d
    BY <2>3, <2>4, DigitIs
  <2>6. (IF Numeric[c] \in 0 .. 3 THEN Numeric[c] ELSE 3) = Value(c[1])
    BY <2>4, <2>5
  <2>7. PerlMade(a, b, c, o) =
          <<[host    |-> Member(a, HostLen),
             service |-> Member(b, ServiceLen),
             rc      |-> IF Numeric[c] \in 0 .. 3 THEN Numeric[c] ELSE 3,
             output  |-> Member(o, OutputLen)]>>
    BY <2>1, Zenon DEF PerlMade
  <2>8. Made(a, b, c, o) =
          <<[host    |-> Capped[a][HostLen],
             service |-> Capped[b][ServiceLen],
             rc      |-> Value(c[1]),
             output  |-> Capped[o][OutputLen]]>>
    BY <2>2, Zenon DEF Made
  <2>9. MeantInPerl(f) = Meant(f)
    BY <1>2, <1>13, Zenon DEF MeantInPerl
  <2>. QED BY <1>5, <1>7, <1>9, <2>6, <2>7, <2>8, <2>9, Zenon
<1>. QED BY <1>11, <1>12, <1>13

-----------------------------------------------------------------------------
(***************************************************************************)
(* The pieces and the bytes of the input.                                  *)
(***************************************************************************)
Layout(in) == [n \in DOMAIN in |-> Text(in[n].fields) \o in[n].end]
Left(in, n) == FlattenSeq(SubSeq(Layout(in), n + 1, Len(in)))

LEMMA EndBytes == <<ETB>> \in Line /\ <<ETB, NL>> \in Line /\ <<NL>> \in Line /\ <<>> \in Line
BY NamesAssumption DEF Line

LEMMA PieceIs ==
  ASSUME NEW in \in Seq(Piece), NEW n \in 1 .. Len(in)
  PROVE  /\ in[n].fields \in Seq(Field) /\ in[n].end \in {<<ETB>>, <<ETB, NL>>, <<>>}
         /\ in[n].end \in Line /\ Text(in[n].fields) \in Line
         /\ <<ETB>> \in Line /\ <<NL>> \in Line /\ <<>> \in Line
<1>1. in[n] \in Piece
  BY ElementOfSeq
<1>2. in[n].fields \in Seq(Field) /\ in[n].end \in {<<ETB>>, <<ETB, NL>>, <<>>}
  BY <1>1 DEF Piece
<1>. QED BY <1>2, EndBytes, TextIsLine

LEMMA LayoutIs ==
  ASSUME NEW in \in Seq(Piece)
  PROVE  /\ Layout(in) \in Seq(Line) /\ Len(Layout(in)) = Len(in) /\ Len(in) \in Nat
         /\ \A n \in 1 .. Len(in) : Layout(in)[n] = Text(in[n].fields) \o in[n].end
<1>1. Len(in) \in Nat /\ DOMAIN in = 1 .. Len(in)
  BY LenProperties
<1> DEFINE l == Layout(in)
<1>2. \A n \in 1 .. Len(in) : l[n] = Text(in[n].fields) \o in[n].end
  BY <1>1 DEF Layout
<1>3. \A n \in 1 .. Len(in) : Text(in[n].fields) \o in[n].end \in Line
  BY PieceIs, JoinedLine
<1>4. l \in [1 .. Len(in) -> Line]
  BY <1>1, <1>3 DEF Layout
<1> HIDE DEF l
<1>. QED BY <1>1, <1>2, <1>4, AsSeq DEF l

(* The bytes behind the text of a piece. *)
Ends(in, n) == in[n].end \o Left(in, n)

LEMMA LeftIs ==
  ASSUME NEW in \in Seq(Piece)
  PROVE  /\ Stream(in) \in Line /\ Left(in, 0) = Stream(in)
         /\ Left(in, Len(in)) = <<>>
         /\ \A n \in 1 .. Len(in) :
              /\ Left(in, n) \in Line /\ Ends(in, n) \in Line
              /\ Left(in, n - 1) = Text(in[n].fields) \o Ends(in, n)
<1>1. PICK S : S = STRING
  OBVIOUS
<1>2. PICK l \in Seq(Seq(S)) : l = Layout(in)
  BY <1>1, LayoutIs DEF Line
<1>3. PICK k \in Nat : k = Len(in) /\ k = Len(l)
  BY <1>2, LayoutIs
<1>4. Stream(in) = FlattenSeq(l)
  BY <1>2 DEF Stream, Layout
<1>5. Stream(in) \in Line
  BY <1>1, <1>4, FlattenType DEF Line
<1>6. Left(in, 0) = Stream(in)
  <2>1. SubSeq(l, 1, k) = l /\ 0 + 1 = 1
    <3>1. PICK Q : Q = Seq(S)
      OBVIOUS
    <3>2. l \in Seq(Q)
      BY <3>1
    <3>. QED BY <1>3, <3>2, SubSeqFull
  <2>. QED BY <1>2, <1>3, <1>4, <2>1, Zenon DEF Left
<1>7. Left(in, Len(in)) = <<>>
  <2>1. SubSeq(l, k + 1, k) = <<>>
    <3>1. k + 1 \in Int /\ k \in Int /\ k < k + 1
      BY <1>3
    <3>. QED BY <3>1, SubSeqEmpty
  <2>. QED BY <1>2, <1>3, <2>1, FlattenNone, Zenon DEF Left
<1>8. ASSUME NEW n \in 1 .. k
      PROVE  /\ Left(in, n) \in Line /\ Ends(in, n) \in Line
             /\ Left(in, n - 1) = Text(in[n].fields) \o Ends(in, n)
  <2> DEFINE p == l[n]
             more == SubSeq(l, n + 1, k)
  <2>1. p \in Seq(S) /\ p = Text(in[n].fields) \o in[n].end
    BY <1>2, <1>3, LayoutIs, ElementOfSeq
  <2>2. more \in Seq(Seq(S))
    BY <1>3, Around
  <2>3. SubSeq(l, n, k) = <<p>> \o more
    <3>1. n \in 1 .. Len(l) /\ k \in n .. Len(l)
      BY <1>3
    <3>2. PICK Q : Q = Seq(S)
      OBVIOUS
    <3>3. l \in Seq(Q)
      BY <3>2
    <3>. QED BY <3>1, <3>3, SubSeqRecursiveFirst
  <2> HIDE DEF p, more
  <2>4. FlattenSeq(<<p>> \o more) = p \o FlattenSeq(more)
    <3>1. <<p>> \in Seq(Seq(S)) /\ FlattenSeq(<<p>>) = p
      BY <2>1, OneField, FlattenOne
    <3>2. FlattenSeq(<<p>> \o more) = FlattenSeq(<<p>>) \o FlattenSeq(more)
      BY <2>2, <3>1, FlattenConcat
    <3>. QED BY <3>1, <3>2
  <2>5. Left(in, n) = FlattenSeq(more) /\ Left(in, n - 1) = p \o Left(in, n)
    <3>1. (n - 1) + 1 = n
      OBVIOUS
    <3>. QED BY <1>2, <1>3, <2>3, <2>4, <3>1 DEF Left, more
  <2>6. Left(in, n) \in Line
    BY <1>1, <2>2, <2>5, FlattenType DEF Line
  <2>7. n \in 1 .. Len(in)
    BY <1>3
  <2>8. Ends(in, n) \in Line
    BY <2>6, <2>7, PieceIs, JoinedLine DEF Ends
  <2>9. (Text(in[n].fields) \o in[n].end) \o Left(in, n) = Text(in[n].fields) \o Ends(in, n)
    <3>1. PICK a \in Line, b \in Line, c \in Line :
            a = Text(in[n].fields) /\ b = in[n].end /\ c = Left(in, n)
      BY <2>6, <2>7, PieceIs
    <3>2. (a \o b) \o c = a \o (b \o c)
      BY JoinAssociative
    <3>. QED BY <3>1, <3>2 DEF Ends
  <2>. QED BY <2>1, <2>5, <2>6, <2>8, <2>9
<1>. QED BY <1>3, <1>5, <1>6, <1>7, <1>8

(* A piece that has lost its first byte. *)
LEMMA DroppedText ==
  ASSUME NEW f \in Seq(Field), Text(f) # <<>>, Head(Text(f)) # Tab
  PROVE  /\ <<Tail(f[1])>> \o Tail(f) \in Seq(Field)
         /\ Text(<<Tail(f[1])>> \o Tail(f)) = Tail(Text(f))
<1> DEFINE w == f[1]
           l == SubSeq(f, 2, Len(f))
           t == FlattenSeq(Led(l))
           h == <<Tail(w)>> \o Tail(f)
<1>1. f # <<>> /\ Len(f) \in Nat /\ 1 \in 1 .. Len(f)
  BY TextNone, EmptySeq
<1>2. l \in Seq(Field) /\ Text(f) = w \o t /\ w \in Field /\ w \in Line /\ t \in Line
  <2>1. /\ SubSeq(f, 1 + 1, Len(f)) \in Seq(Field)
        /\ Text(f) = (Text(SubSeq(f, 1, 1 - 1)) \o (IF 1 = 1 THEN f[1] ELSE <<Tab>> \o f[1]))
                        \o FlattenSeq(Led(SubSeq(f, 1 + 1, Len(f))))
    BY <1>1, TextAround
  <2>2. SubSeq(f, 1, 1 - 1) = <<>> /\ 1 + 1 = 2
    BY SubSeqEmpty
  <2>3. w \in Field /\ w \in Line
    BY <1>1, ElementOfSeq, FieldsAre
  <2>4. <<>> \o w = w
    BY <2>3, ConcatEmptySeq DEF Line
  <2>. QED BY <2>1, <2>2, <2>3, <2>4, TextNone, LedText
<1> HIDE DEF t
<1>3. w # <<>>
  <2>1. SUFFICES ASSUME w = <<>> PROVE FALSE
    OBVIOUS
  <2>2. Text(f) = t
    BY <1>2, <2>1, ConcatEmptySeq DEF Line
  <2>3. t = <<Tab>> \o Text(l) /\ Text(l) \in Line
    BY <1>2, <2>2, LedText, TextIsLine DEF t
  <2>4. <<Tab>> \in Line /\ <<Tab>> # <<>> /\ <<Tab>>[1] = Tab
    BY NamesAssumption DEF Line
  <2>5. Head(<<Tab>> \o Text(l)) = Tab
    BY <2>3, <2>4, TailOfJoin
  <2>. QED BY <2>2, <2>3, <2>5
<1>4. Tail(Text(f)) = Tail(w) \o t
  <2> HIDE DEF w
  <2>. QED BY <1>2, <1>3, TailOfJoin
<1>5. Tail(w) \in Field /\ Tail(w) \in Line
  BY <1>2, <1>3, HeadTailProperties, TailOfJoin DEF Field
<1> HIDE DEF w
<1>6. Tail(f) = l /\ <<Tail(w)>> \in Seq(Field) /\ Len(<<Tail(w)>>) = 1
  BY <1>1, <1>5, TailIsSubSeq
<1>7. /\ h \in Seq(Field) /\ Len(h) = 1 + Len(l) /\ Len(l) \in Nat
      /\ h[1] = Tail(w) /\ \A n \in 1 .. Len(l) : h[1 + n] = l[n]
  <2>1. /\ h \in Seq(Field) /\ Len(h) = 1 + Len(l) /\ Len(l) \in Nat
        /\ \A n \in 1 .. 1 + Len(l) : h[n] = IF n <= 1 THEN <<Tail(w)>>[n] ELSE l[n - 1]
    <3>1. PICK a \in Seq(Field), b \in Seq(Field) : a = <<Tail(w)>> /\ b = l
      BY <1>2, <1>6
    <3>2. /\ a \o b \in Seq(Field) /\ Len(a \o b) = Len(a) + Len(b) /\ Len(b) \in Nat
          /\ \A n \in 1 .. Len(a) + Len(b) : (a \o b)[n] = IF n <= Len(a) THEN a[n] ELSE b[n - Len(a)]
      BY ConcatProperties
    <3>3. h = a \o b /\ Len(a) = 1
      BY <1>6, <3>1
    <3> HIDE DEF h, l
    <3>. QED BY <3>1, <3>2, <3>3
  <2> HIDE DEF h
  <2>2. 1 \in 1 .. 1 + Len(l) /\ h[1] = <<Tail(w)>>[1]
    BY <2>1
  <2>3. ASSUME NEW n \in 1 .. Len(l) PROVE h[1 + n] = l[n]
    <3>1. 1 + n \in 1 .. 1 + Len(l) /\ ~(1 + n <= 1) /\ (1 + n) - 1 = n
      BY <2>1
    <3>. QED BY <2>1, <3>1
  <2>. QED BY <2>1, <2>2, <2>3
<1> HIDE DEF h, l
<1>8. SubSeq(h, 2, Len(h)) = l
  <2>1. 1 \in 1 .. Len(h) /\ 1 + 1 = 2 /\ Len(h) - 1 = Len(l)
    BY <1>7
  <2>2. /\ SubSeq(h, 2, Len(h)) \in Seq(Field) /\ Len(SubSeq(h, 2, Len(h))) = Len(l)
        /\ \A n \in 1 .. Len(l) : SubSeq(h, 2, Len(h))[n] = h[1 + n]
    BY <1>7, <2>1, Around
  <2>. QED BY <1>2, <1>7, <2>2, SeqEqual
<1>9. Text(h) = Tail(w) \o t
  <2>1. Text(h) = (Text(SubSeq(h, 1, 1 - 1)) \o (IF 1 = 1 THEN h[1] ELSE <<Tab>> \o h[1]))
                     \o FlattenSeq(Led(SubSeq(h, 1 + 1, Len(h))))
    <3>1. 1 \in 1 .. Len(h)
      BY <1>7
    <3>. QED BY <1>7, <3>1, TextAround
  <2>2. SubSeq(h, 1, 1 - 1) = <<>> /\ 1 + 1 = 2
    BY SubSeqEmpty
  <2>3. <<>> \o Tail(w) = Tail(w)
    BY <1>5, ConcatEmptySeq DEF Line
  <2>. QED BY <1>7, <1>8, <2>1, <2>2, <2>3, TextNone DEF t, l
<1>. QED BY <1>4, <1>7, <1>9 DEF h, w

(* A piece loses its first byte where the byte behind ETB is not given     *)
(* back.                                                                   *)
Loses(n) ==
  /\ n > 1 /\ input[n - 1].end = <<ETB>>
  /\ Text(input[n].fields) # <<>> /\ Head(Text(input[n].fields)) \in {NL, NUL, High}

LEMMA FieldsIs ==
  ASSUME input \in Seq(Piece), NEW n \in 1 .. Len(input)
  PROVE  /\ Fields(n) \in Seq(Field) /\ Text(Fields(n)) \in Line /\ Avoids(Text(Fields(n)), {ETB})
         /\ Text(Fields(n)) = IF Loses(n) THEN Tail(Text(input[n].fields)) ELSE Text(input[n].fields)
<1> DEFINE f == input[n].fields
<1>1. f \in Seq(Field)
  BY PieceIs
<1>2. Fields(n) = IF Loses(n) THEN <<Tail(f[1])>> \o Tail(f) ELSE f
  BY DEF Fields, Loses
<1>3. Loses(n) => Text(f) # <<>> /\ Head(Text(f)) # Tab
  BY DEF Loses, NL, NUL, High, Tab
<1> HIDE DEF f
<1>4. Loses(n) => /\ <<Tail(f[1])>> \o Tail(f) \in Seq(Field)
                  /\ Text(<<Tail(f[1])>> \o Tail(f)) = Tail(Text(f))
  BY <1>1, <1>3, DroppedText
<1>5. Fields(n) \in Seq(Field) /\ Text(Fields(n)) = IF Loses(n) THEN Tail(Text(f)) ELSE Text(f)
  BY <1>1, <1>2, <1>4
<1>. QED BY <1>5, TextIsLine DEF f

LEMMA EndsIs ==
  ASSUME NEW in \in Seq(Piece), \A n \in DOMAIN in : in[n].end = <<>> => n = Len(in),
         NEW n \in 1 .. Len(in)
  PROVE  /\ Ends(in, n) \in Line /\ StartsIn(Ends(in, n), {ETB})
         /\ in[n].end = <<>> => n = Len(in) /\ Ends(in, n) = <<>>
         /\ in[n].end # <<>> => Ends(in, n) # <<>>
         /\ in[n].end = <<ETB>> => Tail(Ends(in, n)) = Left(in, n)
         /\ in[n].end = <<ETB, NL>> => Tail(Ends(in, n)) = <<NL>> \o Left(in, n)
<1> DEFINE e == in[n].end
           l == Left(in, n)
<1>1. /\ e \in {<<ETB>>, <<ETB, NL>>, <<>>} /\ e \in Line /\ l \in Line
      /\ Ends(in, n) = e \o l /\ Ends(in, n) \in Line
  BY PieceIs, LeftIs DEF Ends
<1>2. e = <<>> => n = Len(in) /\ l = <<>>
  <2>1. n \in DOMAIN in
    BY LenProperties
  <2>. QED BY <2>1, LeftIs
<1>3. e = <<>> => e \o l = <<>>
  BY <1>2, ConcatEmptySeq, EndBytes DEF Line
<1>4. e # <<>> => e[1] = ETB
  BY <1>1
<1>5. e = <<ETB>> => Tail(e) = <<>>
  OBVIOUS
<1>6. e = <<ETB, NL>> => Tail(e) = <<NL>>
  OBVIOUS
<1> HIDE DEF e, l
<1>7. e # <<>> => (e \o l)[1] = ETB /\ e \o l # <<>> /\ Tail(e \o l) = Tail(e) \o l
  BY <1>1, <1>4, TailOfJoin
<1>8. <<>> \o l = l
  BY <1>1, ConcatEmptySeq DEF Line
<1>9. StartsIn(Ends(in, n), {ETB})
  BY <1>1, <1>3, <1>7 DEF StartsIn
<1>10. e = <<ETB>> => Tail(Ends(in, n)) = l
  <2>. SUFFICES ASSUME e = <<ETB>> PROVE Tail(Ends(in, n)) = l
    OBVIOUS
  <2>1. e # <<>>
    OBVIOUS
  <2>. QED BY <1>1, <1>5, <1>7, <1>8, <2>1
<1>11. e = <<ETB, NL>> => Tail(Ends(in, n)) = <<NL>> \o l
  BY <1>1, <1>6, <1>7
<1>. QED BY <1>1, <1>2, <1>3, <1>7, <1>9, <1>10, <1>11 DEF e, l

(* What is to be read when the piece n comes next.                         *)
Coming(n) == IF n <= Len(input) THEN Text(Fields(n)) \o Ends(input, n) ELSE <<>>

Divides == input \in Seq(Piece) /\ \A n \in DOMAIN input : input[n].end = <<>> => n = Len(input)

LEMMA UngetcOf ==
  ASSUME NEW s \in Line
  PROVE  /\ Ungetc(s) \in Line
         /\ (s # <<>> /\ s[1] \in {NL, NUL, High} => Ungetc(s) = Tail(s))
         /\ (s = <<>> \/ s[1] \notin {NL, NUL, High} => Ungetc(s) = s)
<1>1. s # <<>> => Head(s) = s[1] /\ Tail(s) \in Line
  BY HeadTailProperties DEF Line
<1>. QED BY <1>1 DEF Ungetc

LEMMA NextPiece ==
  ASSUME Divides, NEW n \in 1 .. Len(input), Ends(input, n) # <<>>
  PROVE  Ungetc(Tail(Ends(input, n))) = Coming(n + 1)
<1> DEFINE e == Ends(input, n)
           l == Left(input, n)
<1>1. /\ input[n].end \in {<<ETB>>, <<ETB, NL>>} /\ l \in Line
      /\ input[n].end = <<ETB>> => Tail(e) = l
      /\ input[n].end = <<ETB, NL>> => Tail(e) = <<NL>> \o l
  BY PieceIs, EndsIs, LeftIs DEF Divides
<1>2. CASE n = Len(input)
  <2>1. l = <<>> /\ Coming(n + 1) = <<>>
    BY <1>2, LeftIs DEF Divides, Coming
  <2>2. <<NL>> \o <<>> = <<NL>> /\ <<NL>>[1] = NL /\ Tail(<<NL>>) = <<>> /\ <<NL>> # <<>>
    BY EndBytes, ConcatEmptySeq DEF Line
  <2>3. Ungetc(<<>>) = <<>> /\ Ungetc(<<NL>>) = <<>>
    BY <2>2, EndBytes, UngetcOf
  <2> HIDE DEF e, l
  <2>. QED BY <1>1, <2>1, <2>2, <2>3 DEF e
<1>3. CASE n # Len(input)
  <2> DEFINE f == input[n + 1].fields
             u == Ends(input, n + 1)
  <2>1. n + 1 \in 1 .. Len(input) /\ (n + 1) - 1 = n /\ n + 1 > 1 /\ input \in Seq(Piece)
    BY <1>3 DEF Divides
  <2>2. l = Text(f) \o u /\ u \in Line /\ Text(f) \in Line /\ Coming(n + 1) = Text(Fields(n + 1)) \o u
    BY <2>1, LeftIs, PieceIs DEF Coming
  <2>3. StartsIn(u, {ETB})
    BY <2>1, EndsIs DEF Divides
  <2>4. Text(Fields(n + 1)) = IF Loses(n + 1) THEN Tail(Text(f)) ELSE Text(f)
    BY <2>1, FieldsIs
  <2>5. Loses(n + 1) <=> /\ input[n].end = <<ETB>> /\ Text(f) # <<>>
                         /\ Head(Text(f)) \in {NL, NUL, High}
    BY <2>1 DEF Loses
  <2> HIDE DEF e, f, u
  <2>6. CASE input[n].end = <<ETB, NL>>
    <3>1. ~Loses(n + 1)
      <4>1. <<ETB, NL>> # <<ETB>>
        OBVIOUS
      <4>. QED BY <2>5, <2>6, <4>1
    <3>2. <<NL>> \in Line /\ <<NL>> # <<>> /\ <<NL>>[1] = NL /\ Tail(<<NL>>) = <<>> /\ <<>> \o l = l
      BY <1>1, EndBytes, ConcatEmptySeq DEF Line
    <3>3. /\ <<NL>> \o l \in Line /\ (<<NL>> \o l)[1] = NL /\ <<NL>> \o l # <<>>
          /\ Tail(<<NL>> \o l) = l
      <4>1. PICK b \in Line : b = <<NL>> /\ b # <<>> /\ b[1] = NL /\ Tail(b) = <<>>
        BY <3>2
      <4> HIDE DEF l
      <4>2. b \o l \in Line /\ (b \o l)[1] = b[1] /\ b \o l # <<>> /\ Tail(b \o l) = Tail(b) \o l
        BY <1>1, <4>1, TailOfJoin, JoinedLine
      <4>. QED BY <3>2, <4>1, <4>2
    <3>4. Ungetc(<<NL>> \o l) = l
      BY <3>3, UngetcOf
    <3>. QED BY <1>1, <2>2, <2>4, <2>6, <3>1, <3>4 DEF e
  <2>7. CASE input[n].end = <<ETB>>
    <3>1. CASE Text(f) = <<>>
      <4>1. l = u /\ Coming(n + 1) = u
        <5>1. <<>> \o u = u
          BY <2>2, ConcatEmptySeq DEF Line
        <5>. QED BY <2>2, <2>4, <2>5, <3>1, <5>1
      <4>2. u = <<>> \/ u[1] \notin {NL, NUL, High}
        BY <2>3 DEF StartsIn, ETB, NL, NUL, High
      <4>3. Ungetc(u) = u
        BY <2>2, <4>2, UngetcOf
      <4>. QED BY <1>1, <2>7, <4>1, <4>3 DEF e
    <3>2. CASE Text(f) # <<>>
      <4>1. /\ l[1] = Text(f)[1] /\ l # <<>> /\ Head(Text(f)) = Text(f)[1]
            /\ Tail(l) = Tail(Text(f)) \o u
        BY <2>2, <3>2, TailOfJoin
      <4>2. Loses(n + 1) <=> l[1] \in {NL, NUL, High}
        BY <2>5, <2>7, <3>2, <4>1
      <4>3. Ungetc(l) = IF Loses(n + 1) THEN Tail(l) ELSE l
        BY <1>1, <4>1, <4>2, UngetcOf
      <4>4. Ungetc(l) = Coming(n + 1)
        BY <2>2, <2>4, <4>1, <4>3
      <4>. QED BY <1>1, <2>7, <4>4 DEF e
    <3>. QED BY <3>1, <3>2
  <2>. QED BY <1>1, <2>6, <2>7
<1>. QED BY <1>2, <1>3

-----------------------------------------------------------------------------
(* What the clients make of a line is nothing, or one result whose return  *)
(* code is one of the four that Icinga knows (iris.c:477-526;              *)
(* send_iris.pl:64-80).                                                    *)
LEMMA OneOrNone ==
  ASSUME NEW r, NEW p \in Packet, r = <<p>> \/ r = <<>>
  PROVE  r \in Seq(Packet)
<1>1. <<p>> \in Seq(Packet) /\ <<>> \in Seq(Packet)
  OBVIOUS
<1>. QED BY <1>1

LEMMA ResultIsPackets ==
  ASSUME NEW line \in Line PROVE Result[line] \in Seq(Packet)
<1> DEFINE s == strip(Before[line][{NUL}])
           service == Rest(s)
           rc == Rest(service)
           output == Rest(rc)
           p == [host    |-> Capped[strtok(s)][HostLen],
                 service |-> Capped[strtok(service)][ServiceLen],
                 rc      |-> Value(strtok(rc)[1]),
                 output  |-> Capped[output][OutputLen]]
<1>1. ASSUME NEW w \in Line PROVE strtok(w) \in Line /\ Rest(w) \in Line
  BY Names, FromIsLine, BeforeIsLine, BehindIsLine DEF strtok, Rest
<1>2. s \in Line
  BY Names, BeforeIsLine, TrimmedIsLine DEF strip
<1> HIDE DEF s
<1>3. service \in Line
  BY <1>1, <1>2
<1> HIDE DEF service
<1>4. rc \in Line
  BY <1>1, <1>3
<1> HIDE DEF rc
<1>5. output \in Line
  BY <1>1, <1>4
<1> HIDE DEF output
<1>6. Result[line] = IF strtok(rc) \in {<<"0">>, <<"1">>, <<"2">>, <<"3">>} /\ output # <<>>
                     THEN <<p>> ELSE <<>>
  BY DEF Result, s, service, rc, output
<1>7. ASSUME strtok(rc) \in {<<"0">>, <<"1">>, <<"2">>, <<"3">>} PROVE p \in Packet
  <2>1. Value(strtok(rc)[1]) \in 0 .. 3
    BY <1>7 DEF Value
  <2>2. /\ Capped[strtok(s)][HostLen] \in Line
        /\ Capped[strtok(service)][ServiceLen] \in Line
        /\ Capped[output][OutputLen] \in Line
    BY <1>1, <1>2, <1>3, <1>5, Names, CappedIsLine
  <2>. QED BY <2>1, <2>2 DEF Packet
<1> HIDE DEF p
<1>. QED BY <1>6, <1>7, OneOrNone

LEMMA PerlResultIsPackets ==
  ASSUME NEW line \in Line PROVE PerlResult[line] \in Seq(Packet)
<1> DEFINE s == From[Trimmed[line][Space]][Space]
           two == Others[s]
           three == Others[two]
           four == Others[three]
           isHost == ~Truth(four) /\ Truth(First[two]) /\ First[two] \in {<<d>> : d \in Digit}
           rc == Numeric[First[IF isHost THEN two ELSE three]]
           service == IF isHost THEN <<"H", "O", "S", "T">> ELSE First[two]
           p == [host    |-> Member(First[s], HostLen),
                 service |-> Member(service, ServiceLen),
                 rc      |-> IF rc \in 0 .. 3 THEN rc ELSE 3,
                 output  |-> Member(IF isHost THEN First[three] ELSE four, OutputLen)]
<1>1. ASSUME NEW w \in Line PROVE First[w] \in Line /\ Others[w] \in Line
  BY Names, FromIsLine, BeforeIsLine, BehindIsLine, TrimmedIsLine DEF First, Others
<1>2. ASSUME NEW w \in Line, NEW len \in Nat \ {0} PROVE Member(w, len) \in Line
  BY Names, CappedIsLine, BeforeIsLine DEF Member
<1>3. s \in Line
  BY Names, FromIsLine, TrimmedIsLine
<1> HIDE DEF s
<1>4. two \in Line
  BY <1>1, <1>3
<1> HIDE DEF two
<1>5. three \in Line
  BY <1>1, <1>4
<1> HIDE DEF three
<1>6. four \in Line
  BY <1>1, <1>5
<1> HIDE DEF four
<1>7. PerlResult[line] = IF Truth(First[s]) /\ Truth(service) THEN <<p>> ELSE <<>>
  BY DEF PerlResult, s, two, three, four
<1> HIDE DEF isHost, rc
<1>8. p \in Packet
  <2>1. service \in Line /\ (IF isHost THEN First[three] ELSE four) \in Line
    BY <1>1, <1>4, <1>5, <1>6, Names
  <2>2. (IF rc \in 0 .. 3 THEN rc ELSE 3) \in 0 .. 3
    OBVIOUS
  <2> HIDE DEF service
  <2>. QED BY <1>1, <1>2, <1>3, <2>1, <2>2, Names DEF Packet
<1> HIDE DEF p, service
<1>. QED BY <1>7, <1>8, OneOrNone

(* The bytes and the results that read_packets holds (iris.c:477-526).     *)
Typed == rest \in Line /\ packets \in Seq(Packet)

LEMMA ReadLineTyped == Typed /\ ReadLine => Typed'
<1>. SUFFICES ASSUME Typed, ReadLine PROVE Typed'
  OBVIOUS
<1> DEFINE n == LineLength(rest)
           m == IF fault = "stream" /\ n = Len(rest) THEN MaxLine - n ELSE 0
           high == [k \in 1 .. m |-> High]
           line == SubSeq(rest, 1, n) \o high
           next == SubSeq(rest, n + 2, Len(rest))
<1>1. Len(rest) \in Nat
  BY DEF Typed, Line
<1>2. n \in Nat /\ n <= Len(rest) /\ n <= MaxLine
  <2>1. /\ Before[rest][{ETB}] \in Line
        /\ Len(Before[rest][{ETB}]) <= Len(rest)
    <3>1. {ETB} \in Bytes
      BY NamesAssumption DEF Bytes
    <3>. QED BY <3>1, BeforeIsLine DEF Typed
  <2>2. Len(Before[rest][{ETB}]) \in Nat
    BY <2>1 DEF Line
  <2>. QED BY <1>1, <2>1, <2>2, LengthAssumption DEF LineLength, InBuffer
<1>3. /\ packets' = packets \o Result[line]
      /\ rest' = Ungetc(next)
  BY DEF ReadLine
<1>4. m \in Nat
  BY <1>2, LengthAssumption
<1> HIDE DEF n, m
<1>5. high \in Seq(STRING)
  <2>1. High \in STRING
    BY NamesAssumption
  <2>2. high \in [1 .. m -> STRING]
    BY <2>1
  <2> HIDE DEF high
  <2>. QED BY <1>4, <2>2, SeqDef
<1>6. SubSeq(rest, 1, n) \in Seq(STRING)
  <2>1. \A k \in 1 .. n : rest[k] \in STRING
    BY <1>1, <1>2 DEF Typed, Line
  <2>. QED BY <2>1, <1>2, SubSeqProperties
<1>7. next \in Seq(STRING)
  <2>1. \A k \in n + 2 .. Len(rest) : rest[k] \in STRING
    BY <1>1, <1>2 DEF Typed, Line
  <2>. QED BY <2>1, <1>1, <1>2, SubSeqProperties
<1> HIDE DEF high, next
<1>8. Result[line] \in Seq(Packet)
  <2>1. line \in Line
    BY <1>5, <1>6 DEF Line
  <2> HIDE DEF line
  <2>. QED BY <2>1, ResultIsPackets
<1>9. rest' \in Line
  BY <1>3, <1>7, HeadTailProperties DEF Ungetc, Line
<1>. QED BY <1>3, <1>8, <1>9 DEF Typed

(* One turn of the loop of send_iris.pl. *)
LEMMA ReadPieceTyped == Typed /\ ReadPiece => Typed'
<1>. SUFFICES ASSUME Typed, ReadPiece PROVE Typed'
  OBVIOUS
<1>1. rest \in Line /\ Before[rest][{ETB}] \in Line /\ rest' \in Line
  BY Names, BeforeIsLine, BehindIsLine DEF Typed, ReadPiece
<1>2. PerlResult[Before[rest][{ETB}]] \in Seq(Packet)
  BY <1>1, PerlResultIsPackets
<1>. QED BY <1>1, <1>2 DEF Typed, ReadPiece

LEMMA InitTyped == ReaderInit => Typed
<1>. SUFFICES ASSUME ReaderInit PROVE Typed
  OBVIOUS
<1>1. input \in Seq(Piece) /\ rest = Stream(input) /\ packets = <<>>
  BY InputAssumption DEF ReaderInit
<1>. QED BY <1>1, LeftIs DEF Typed

LEMMA ReaderTyped == Typed /\ ReaderNext => Typed'
<1>1. Typed /\ NoMemory => Typed'
  BY DEF Typed, NoMemory
<1>. QED BY <1>1, ReadLineTyped, ReadPieceTyped DEF ReaderNext

-----------------------------------------------------------------------------
(***************************************************************************)
(* What read_packets has read.  Each piece behind which it is has given    *)
(* its results, got; the one that it is in, when that does not fit the     *)
(* buffer, has given part.  Reading between two pieces it reads what is    *)
(* left of the input, but for the byte that Ungetc drops.                  *)
(***************************************************************************)
Between(got, part) ==
  /\ part = <<>> /\ rest = Coming(Len(got) + 1)
  /\ overran <=> \E m \in 1 .. Len(got) : Length(m) >= MaxLine

Inside(got) ==
  LET n == Len(got) + 1
  IN /\ n <= Len(input) /\ overran /\ Length(n) > MaxLine
     /\ \E v \in Line : Avoids(v, {ETB}) /\ rest = v \o Ends(input, n)

Reads(got, part) ==
  /\ Len(got) <= Len(input)
  /\ packets = FlattenSeq(got) \o part
  /\ \A m \in 1 .. Len(got) : Length(m) <= MaxLine => got[m] = Result[Text(Fields(m))]
  /\ Between(got, part) \/ Inside(got)

ReaderInv ==
  client = "c" /\ fault = "none" =>
    /\ Divides /\ overran \in BOOLEAN
    /\ eof => rest = <<>>
    /\ \E got \in Seq(Seq(Packet)), part \in Seq(Packet) : Reads(got, part)

(* The line that the for loop stores, and what is behind it, where text    *)
(* without ETB comes before ETB or before the end of the input.            *)
LEMMA LineOf ==
  ASSUME NEW v \in Line, NEW u \in Line, Avoids(v, {ETB}), StartsIn(u, {ETB})
  PROVE  /\ Len(v) <= MaxLine =>
              /\ LineLength(v \o u) = Len(v) /\ SubSeq(v \o u, 1, Len(v)) = v
              /\ SubSeq(v \o u, Len(v) + 2, Len(v \o u)) = IF u = <<>> THEN <<>> ELSE Tail(u)
         /\ Len(v) > MaxLine =>
              /\ LineLength(v \o u) = MaxLine
              /\ \E x \in Line :
                   /\ Avoids(x, {ETB})
                   /\ Ungetc(SubSeq(v \o u, MaxLine + 2, Len(v \o u))) = x \o u
<1> DEFINE s == v \o u
<1>1. /\ s \in Line /\ Len(s) = Len(v) + Len(u) /\ Len(v) \in Nat /\ Len(u) \in Nat
      /\ MaxLine \in Nat
  BY JoinedLine, LengthAssumption
<1>2. LineLength(s) = IF Len(v) < MaxLine THEN Len(v) ELSE MaxLine
  <2>1. PICK end \in Bytes : end = {ETB}
    BY Names
  <2>2. Avoids(v, end) /\ StartsIn(u, end)
    BY <2>1
  <2>3. Before[s][end] = v
    BY <2>2, BeforeStops
  <2>. QED BY <2>1, <2>3 DEF LineLength, InBuffer
<1>3. ASSUME Len(v) <= MaxLine
      PROVE  /\ LineLength(s) = Len(v) /\ SubSeq(s, 1, Len(v)) = v
             /\ SubSeq(s, Len(v) + 2, Len(s)) = IF u = <<>> THEN <<>> ELSE Tail(u)
  <2>1. LineLength(s) = Len(v)
    BY <1>1, <1>2, <1>3
  <2>2. SubSeq(s, 1, Len(v)) = v /\ SubSeq(s, Len(v) + 1, Len(s)) = u
    BY SplitLine
  <2>3. ASSUME u = <<>> PROVE SubSeq(s, Len(v) + 2, Len(s)) = <<>>
    <3>1. Len(u) = 0
      BY <2>3, NonEmpty
    <3>2. Len(v) + 2 \in Int /\ Len(s) \in Int /\ Len(s) < Len(v) + 2
      BY <1>1, <3>1
    <3> HIDE DEF s
    <3>. QED BY <3>2, SubSeqEmpty
  <2>4. ASSUME u # <<>> PROVE SubSeq(s, Len(v) + 2, Len(s)) = Tail(u)
    <3>1. Len(u) # 0
      BY <2>4, NonEmpty
    <3>2. Len(v) + 1 \in 1 .. Len(s) /\ Len(s) \in Len(v) + 1 .. Len(s) /\ (Len(v) + 1) + 1 = Len(v) + 2
      BY <1>1, <3>1
    <3> HIDE DEF s
    <3>3. Tail(SubSeq(s, Len(v) + 1, Len(s))) = SubSeq(s, (Len(v) + 1) + 1, Len(s))
      BY <1>1, <3>2, HeadTailOfSubSeq DEF Line
    <3>. QED BY <2>2, <3>2, <3>3
  <2>. QED BY <2>1, <2>2, <2>3, <2>4
<1>4. ASSUME Len(v) > MaxLine
      PROVE  /\ LineLength(s) = MaxLine
             /\ \E x \in Line :
                  Avoids(x, {ETB}) /\ Ungetc(SubSeq(s, MaxLine + 2, Len(s))) = x \o u
  <2>1. LineLength(s) = MaxLine
    BY <1>1, <1>2, <1>4
  <2>2. PICK n \in 0 .. Len(v) : n = MaxLine + 1
    BY <1>1, <1>4
  <2>3. PICK a \in Line, b \in Line :
          /\ v = a \o b /\ Len(a) = n /\ Len(b) = Len(v) - n
          /\ \A i \in 1 .. Len(v) - n : b[i] = v[n + i]
    BY Divided2
  <2>4. Avoids(b, {ETB})
    <3>1. ASSUME NEW i \in 1 .. Len(b) PROVE b[i] \notin {ETB}
      <4>1. i \in 1 .. Len(v) - n /\ n + i \in 1 .. Len(v)
        BY <1>1, <2>3
      <4>. QED BY <2>3, <4>1 DEF Avoids
    <3>. QED BY <3>1 DEF Avoids
  <2>5. SubSeq(s, MaxLine + 2, Len(s)) = b \o u
    <3>1. s = a \o (b \o u) /\ b \o u \in Line
      <4>1. (a \o b) \o u = a \o (b \o u)
        BY JoinAssociative
      <4>2. b \o u \in Line
        BY JoinedLine
      <4>. QED BY <2>3, <4>1, <4>2
    <3>2. n + 1 = MaxLine + 2
      BY <1>1, <2>2
    <3> HIDE DEF s
    <3>. QED BY <2>3, <3>1, <3>2, SplitLine
  <2>6. \E x \in Line : Avoids(x, {ETB}) /\ Ungetc(b \o u) = x \o u
    <3>1. CASE b = <<>>
      <4>1. b \o u = u
        BY <3>1, ConcatEmptySeq DEF Line
      <4>2. u = <<>> \/ u[1] \notin {NL, NUL, High}
        BY DEF StartsIn, ETB, NL, NUL, High
      <4>3. Ungetc(u) = u
        BY <4>2, UngetcOf
      <4>. QED BY <2>4, <4>1, <4>3
    <3>2. CASE b # <<>>
      <4>1. b \o u \in Line /\ b \o u # <<>> /\ Tail(b) \in Line /\ Tail(b \o u) = Tail(b) \o u
        BY <3>2, TailOfJoin, JoinedLine
      <4>2. Ungetc(b \o u) \in {b \o u, Tail(b) \o u}
        BY <4>1, UngetcOf
      <4>3. Avoids(Tail(b), {ETB})
        <5>1. /\ Len(Tail(b)) = Len(b) - 1 /\ Len(b) \in Nat
              /\ \A i \in 1 .. Len(Tail(b)) : Tail(b)[i] = b[i + 1]
          BY <3>2, HeadTailProperties DEF Line
        <5>2. ASSUME NEW i \in 1 .. Len(Tail(b)) PROVE Tail(b)[i] \notin {ETB}
          <6>1. i + 1 \in 1 .. Len(b)
            BY <5>1
          <6>. QED BY <2>4, <5>1, <6>1 DEF Avoids
        <5>. QED BY <5>2 DEF Avoids
      <4>. QED BY <2>4, <4>1, <4>2, <4>3
    <3>. QED BY <3>1, <3>2
  <2>. QED BY <2>1, <2>5, <2>6
<1>. QED BY <1>3, <1>4

LEMMA ResultNone == Result[<<>>] = <<>>
<1>1. <<>> \in Line /\ <<>> \in Seq(Field) /\ {NUL} \in Bytes /\ Space \in Bytes
  BY Names DEF Line
<1>2. Before[<<>>][{NUL}] = <<>>
  <2>1. Avoids(<<>>, {NUL}) /\ StartsIn(<<>>, {NUL}) /\ <<>> \o <<>> = <<>>
    BY <1>1, ConcatEmptySeq DEF Avoids, StartsIn, Line
  <2>. QED BY <1>1, <2>1, BeforeStops
<1>3. Trimmed[<<>>][Space] = <<>>
  <2>1. EndsOutside(<<>>, Space) /\ AllIn(<<>>, Space) /\ <<>> \o <<>> = <<>>
    BY <1>1, ConcatEmptySeq DEF EndsOutside, AllIn, Line
  <2>. QED BY <1>1, <2>1, TrimmedStops
<1>. QED BY <1>1, <1>2, <1>3, RestNone DEF Result, strip

LEMMA SameInput ==
  ASSUME input' = input
  PROVE  /\ \A m \in Nat : Length(m)' = Length(m)
         /\ \A m \in Nat : Text(Fields(m))' = Text(Fields(m))
         /\ \A m \in Nat : Coming(m)' = Coming(m)
         /\ \A m \in Nat : Ends(input, m)' = Ends(input, m)
         /\ Len(input)' = Len(input) /\ (Divides' <=> Divides)
BY DEF Length, Fields, Coming, Divides

(* One turn of the loop, without a failure. *)
LEMMA TurnIs ==
  ASSUME ReadLine, fault = "none", rest \in Line
  PROVE  /\ UNCHANGED <<client, fault, input>> /\ LineLength(rest) \in 0 .. Len(rest)
         /\ packets' = packets \o Result[SubSeq(rest, 1, LineLength(rest))]
         /\ overran' = (overran \/ LineLength(rest) = MaxLine)
         /\ rest' = Ungetc(SubSeq(rest, LineLength(rest) + 2, Len(rest)))
         /\ eof' => rest' = <<>>
         /\ SubSeq(rest, 1, LineLength(rest)) \in Line
<1> DEFINE n == LineLength(rest)
           high == [k \in 1 .. 0 |-> High]
           line == SubSeq(rest, 1, n)
<1>1. n \in 0 .. Len(rest) /\ Len(rest) \in Nat
  <2>1. /\ Before[rest][{ETB}] \in Line
        /\ Len(Before[rest][{ETB}]) <= Len(rest)
    BY Names, BeforeIsLine
  <2>2. Len(Before[rest][{ETB}]) \in Nat /\ Len(rest) \in Nat
    BY <2>1 DEF Line
  <2>. QED BY <2>1, <2>2, LengthAssumption DEF LineLength, InBuffer
<1>2. line \in Line /\ Len(line) = n
  BY <1>1, Divided2
<1>3. line \o high = line
  <2>1. high = <<>>
    OBVIOUS
  <2> HIDE DEF line, high
  <2>. QED BY <1>2, <2>1, ConcatEmptySeq DEF Line
<1>4. /\ packets' = packets \o Result[line \o high]
      /\ overran' = (overran \/ Len(line \o high) = MaxLine)
      /\ rest' = Ungetc(SubSeq(rest, n + 2, Len(rest)))
      /\ eof' = (Len(rest) <= n + 1)
      /\ UNCHANGED <<client, fault, input>>
  <2> DEFINE m == IF fault = "stream" /\ n = Len(rest) THEN MaxLine - n ELSE 0
             more == [k \in 1 .. m |-> High]
  <2>1. m = 0 /\ fault # "stream"
    OBVIOUS
  <2>2. /\ packets' = packets \o Result[line \o more]
        /\ overran' = (overran \/ Len(line \o more) = MaxLine)
        /\ rest' = Ungetc(SubSeq(rest, n + 2, Len(rest)))
        /\ eof' = (~(fault = "stream") /\ Len(rest) <= n + 1)
        /\ UNCHANGED <<client, fault, input>>
    BY Zenon DEF ReadLine
  <2>3. more = high
    <3> HIDE DEF m
    <3>. QED BY <2>1
  <2> HIDE DEF m, more, high, line, n
  <2>. QED BY <2>1, <2>2, <2>3
<1>5. eof' => rest' = <<>>
  <2>. SUFFICES ASSUME eof' PROVE rest' = <<>>
    OBVIOUS
  <2>1. Len(rest) <= n + 1
    BY <1>4
  <2> HIDE DEF n
  <2>2. SubSeq(rest, n + 2, Len(rest)) = <<>>
    <3>1. n + 2 \in Int /\ Len(rest) \in Int /\ Len(rest) < n + 2
      BY <1>1, <2>1
    <3>. QED BY <3>1, SubSeqEmpty
  <2>. QED BY <1>4, <2>2 DEF Ungetc
<1> HIDE DEF line, n, high
<1>6. overran' = (overran \/ n = MaxLine) /\ packets' = packets \o Result[line]
  BY <1>2, <1>3, <1>4
<1>. QED BY <1>1, <1>2, <1>4, <1>5, <1>6 DEF line, n

(* The results of a piece that ends here, and of one that goes on.         *)
LEMMA GotOneMore ==
  ASSUME NEW P, NEW got \in Seq(Seq(P)), NEW part \in Seq(P), NEW r \in Seq(P)
  PROVE  /\ part \o r \in Seq(P) /\ Append(got, part \o r) \in Seq(Seq(P))
         /\ Len(Append(got, part \o r)) = Len(got) + 1
         /\ \A m \in 1 .. Len(got) : Append(got, part \o r)[m] = got[m]
         /\ Append(got, part \o r)[Len(got) + 1] = part \o r
         /\ FlattenSeq(Append(got, part \o r)) = (FlattenSeq(got) \o part) \o r
         /\ (FlattenSeq(got) \o part) \o r = FlattenSeq(got) \o (part \o r)
         /\ FlattenSeq(got) \o (part \o r) \in Seq(P)
<1>1. FlattenSeq(got) \in Seq(P) /\ part \o r \in Seq(P)
  BY FlattenType, ConcatProperties
<1>2. FlattenSeq(Append(got, part \o r)) = FlattenSeq(got) \o (part \o r)
  BY <1>1, FlattenAppend
<1>3. /\ (FlattenSeq(got) \o part) \o r = FlattenSeq(got) \o (part \o r)
      /\ FlattenSeq(got) \o (part \o r) \in Seq(P)
  <2>1. PICK f \in Seq(P) : f = FlattenSeq(got)
    BY <1>1
  <2>2. (f \o part) \o r = f \o (part \o r)
    BY ConcatAssociative, SMTT(30)
  <2>3. f \o (part \o r) \in Seq(P)
    BY <1>1, ConcatProperties
  <2>. QED BY <2>1, <2>2, <2>3
<1>4. PICK Q : Q = Seq(P)
  OBVIOUS
<1>5. PICK p \in Q : p = part \o r
  BY <1>1, <1>4
<1>6. /\ Append(got, p) \in Seq(Q) /\ Len(Append(got, p)) = Len(got) + 1
      /\ \A m \in 1 .. Len(got) : Append(got, p)[m] = got[m]
      /\ Append(got, p)[Len(got) + 1] = p
  BY <1>4, AppendProperties
<1>. QED BY <1>1, <1>2, <1>3, <1>4, <1>5, <1>6

LEMMA ReadLineInv == Typed /\ ReaderInv /\ ReadLine => ReaderInv'
<1>. SUFFICES ASSUME Typed, ReaderInv, ReadLine, client' = "c", fault' = "none"
              PROVE  /\ Divides' /\ overran' \in BOOLEAN
                     /\ eof' => rest' = <<>>
                     /\ \E got \in Seq(Seq(Packet)), part \in Seq(Packet) : Reads(got, part)'
  BY DEF ReaderInv
<1> DEFINE z == LineLength(rest)
           line == SubSeq(rest, 1, z)
<1>1. client = "c" /\ fault = "none" /\ input' = input /\ rest \in Line /\ packets \in Seq(Packet)
  BY DEF ReadLine, Typed
<1>2. /\ packets' = packets \o Result[line]
      /\ overran' = (overran \/ z = MaxLine)
      /\ rest' = Ungetc(SubSeq(rest, z + 2, Len(rest)))
      /\ eof' => rest' = <<>>
      /\ line \in Line
  BY <1>1, TurnIs
<1>3. /\ Divides /\ overran \in BOOLEAN
      /\ \E got \in Seq(Seq(Packet)), part \in Seq(Packet) : Reads(got, part)
  BY <1>1 DEF ReaderInv
<1>4. Divides' /\ overran' \in BOOLEAN
  BY <1>1, <1>2, <1>3, SameInput
<1>5. PICK got \in Seq(Seq(Packet)), part \in Seq(Packet) : Reads(got, part)
  BY <1>3
<1> DEFINE n == Len(got) + 1
           u == Ends(input, n)
<1>6. n \in Nat /\ Len(got) \in Nat /\ Len(got) < n /\ Len(input) \in Nat /\ input \in Seq(Piece)
  <2>1. input \in Seq(Piece) /\ Len(got) \in Nat
    BY <1>3 DEF Divides
  <2>. QED BY <2>1
<1>7. /\ Len(got) <= Len(input) /\ packets = FlattenSeq(got) \o part
      /\ \A m \in 1 .. Len(got) : Length(m) <= MaxLine => got[m] = Result[Text(Fields(m))]
      /\ Between(got, part) \/ Inside(got)
  BY <1>5 DEF Reads
<1>8. CASE ~(n <= Len(input))
  <2>1. part = <<>> /\ rest = <<>> /\ (overran <=> \E m \in 1 .. Len(got) : Length(m) >= MaxLine)
    BY <1>7, <1>8 DEF Between, Inside, Coming
  <2>2. z = 0 /\ line = <<>> /\ rest' = <<>> /\ z # MaxLine
    <3>1. /\ LineLength(<<>> \o <<>>) = Len(<<>>)
          /\ SubSeq(<<>> \o <<>>, Len(<<>>) + 2, Len(<<>> \o <<>>)) = <<>>
          /\ SubSeq(<<>> \o <<>>, 1, Len(<<>>)) = <<>>
      <4>1. PICK e \in Line : e = <<>> /\ Len(e) = 0
        BY EndBytes, NonEmpty
      <4>2. Avoids(e, {ETB}) /\ StartsIn(e, {ETB}) /\ Len(e) <= MaxLine
        BY <4>1, LengthAssumption DEF Avoids, StartsIn
      <4>3. /\ LineLength(e \o e) = Len(e) /\ SubSeq(e \o e, 1, Len(e)) = e
            /\ SubSeq(e \o e, Len(e) + 2, Len(e \o e)) = IF e = <<>> THEN <<>> ELSE Tail(e)
        BY <4>2, LineOf
      <4>. QED BY <4>1, <4>3
    <3>2. <<>> \o <<>> = <<>> /\ Len(<<>>) = 0
      BY EndBytes, ConcatEmptySeq, NonEmpty DEF Line
    <3>3. Ungetc(<<>>) = <<>>
      BY DEF Ungetc
    <3>4. LineLength(<<>>) = 0 /\ SubSeq(<<>>, 0 + 2, Len(<<>>)) = <<>> /\ SubSeq(<<>>, 1, 0) = <<>>
      BY <3>1, <3>2
    <3>. QED BY <1>2, <2>1, <3>3, <3>4, LengthAssumption
  <2>3. packets' = packets /\ overran' = overran
    <3>1. packets' = packets \o <<>>
      BY <1>2, <2>2, ResultNone
    <3>. QED BY <1>1, <1>2, <1>3, <2>2, <3>1, ConcatEmptySeq
  <2>4. Reads(got, part)'
    <3>1. rest' = Coming(n)'
      BY <1>1, <1>6, <1>8, <2>2, SameInput DEF Coming
    <3>2. \A m \in 1 .. Len(got) : m \in Nat
      BY <1>6
    <3>3. Between(got, part)'
      BY <1>1, <2>1, <2>3, <3>1, <3>2, SameInput DEF Between
    <3>4. \A m \in 1 .. Len(got) : Length(m)' = Length(m) /\ Text(Fields(m))' = Text(Fields(m))
      BY <1>1, <3>2, SameInput
    <3>. QED BY <1>1, <1>7, <2>3, <3>3, <3>4 DEF Reads
  <2>. QED BY <1>2, <1>4, <2>4
<1>9. CASE n <= Len(input)
  <2>0. n \in 1 .. Len(input)
    BY <1>6, <1>9
  <2>1. u \in Line /\ StartsIn(u, {ETB}) /\ (u = <<>> => n = Len(input))
    BY <1>3, <2>0, EndsIs DEF Divides
  <2>2. PICK v \in Line : /\ Avoids(v, {ETB}) /\ rest = v \o u
                          /\ \/ Between(got, part) /\ v = Text(Fields(n))
                             \/ overran /\ Length(n) > MaxLine
    <3>1. CASE Between(got, part)
      <4>1. rest = Text(Fields(n)) \o u
        BY <1>9, <3>1 DEF Between, Coming
      <4>. QED BY <1>6, <2>0, <3>1, <4>1, FieldsIs
    <3>2. CASE Inside(got)
      BY <3>2 DEF Inside
    <3>. QED BY <1>7, <3>1, <3>2
  <2>3. Length(n) \in Nat /\ Len(v) \in Nat /\ MaxLine \in Nat /\ MaxLine # 0
    <3>1. Text(Fields(n)) \in Line
      BY <1>6, <2>0, FieldsIs
    <3>. QED BY <3>1, LengthAssumption DEF Length, Line
  <2> HIDE DEF line, z
  <2>4. PICK r \in Seq(Packet) : r = Result[line]
    BY <1>2, ResultIsPackets
  <2>5. PICK got2 \in Seq(Seq(Packet)), more \in Seq(Packet) :
          /\ Len(got2) = n /\ more = part \o r
          /\ \A m \in 1 .. Len(got) : got2[m] = got[m]
          /\ got2[n] = part \o r
          /\ FlattenSeq(got2) = (FlattenSeq(got) \o part) \o r
          /\ (FlattenSeq(got) \o part) \o r = FlattenSeq(got) \o more
          /\ FlattenSeq(got) \o more \in Seq(Packet)
    <3> DEFINE g == Append(got, part \o r)
    <3>1. /\ part \o r \in Seq(Packet) /\ g \in Seq(Seq(Packet)) /\ Len(g) = n
          /\ \A m \in 1 .. Len(got) : g[m] = got[m]
          /\ g[n] = part \o r
          /\ FlattenSeq(g) = (FlattenSeq(got) \o part) \o r
          /\ (FlattenSeq(got) \o part) \o r = FlattenSeq(got) \o (part \o r)
          /\ FlattenSeq(got) \o (part \o r) \in Seq(Packet)
      <4>1. PICK P : P = Packet
        OBVIOUS
      <4>2. got \in Seq(Seq(P)) /\ part \in Seq(P) /\ r \in Seq(P)
        BY <4>1
      <4>3. /\ part \o r \in Seq(P) /\ Append(got, part \o r) \in Seq(Seq(P))
            /\ Len(Append(got, part \o r)) = Len(got) + 1
            /\ \A m \in 1 .. Len(got) : Append(got, part \o r)[m] = got[m]
            /\ Append(got, part \o r)[Len(got) + 1] = part \o r
            /\ FlattenSeq(Append(got, part \o r)) = (FlattenSeq(got) \o part) \o r
            /\ (FlattenSeq(got) \o part) \o r = FlattenSeq(got) \o (part \o r)
            /\ FlattenSeq(got) \o (part \o r) \in Seq(P)
        BY <4>2, GotOneMore
      <4>. QED BY <4>1, <4>3
    <3> HIDE DEF g
    <3>. QED BY <3>1
  <2>6. packets' = FlattenSeq(got2) /\ packets' = FlattenSeq(got) \o more
    BY <1>2, <1>7, <2>4, <2>5
  <2>7. \A m \in 1 .. n : Length(m)' = Length(m) /\ Text(Fields(m))' = Text(Fields(m))
    <3>1. \A m \in 1 .. n : m \in Nat
      BY <1>6
    <3>. QED BY <1>1, <3>1, SameInput
  <2>8. CASE Len(v) <= MaxLine
    <3>1. z = Len(v) /\ line = v /\ SubSeq(rest, z + 2, Len(rest)) = IF u = <<>> THEN <<>> ELSE Tail(u)
      <4> HIDE DEF u
      <4>1. /\ LineLength(v \o u) = Len(v) /\ SubSeq(v \o u, 1, Len(v)) = v
            /\ SubSeq(v \o u, Len(v) + 2, Len(v \o u)) = IF u = <<>> THEN <<>> ELSE Tail(u)
        BY <2>1, <2>2, <2>8, LineOf
      <4>. QED BY <2>2, <4>1 DEF z, line
    <3>2. rest' = Coming(n + 1)
      <4>1. CASE u = <<>>
        <5>1. Coming(n + 1) = <<>>
          BY <1>6, <2>1, <4>1 DEF Coming
        <5>. QED BY <1>2, <3>1, <4>1, <5>1 DEF Ungetc
      <4>2. CASE u # <<>>
        <5> HIDE DEF n
        <5>. QED BY <1>2, <1>3, <2>0, <3>1, <4>2, NextPiece
      <4>. QED BY <4>1, <4>2
    <3>3. Length(n) <= MaxLine => got2[n] = Result[Text(Fields(n))]
      <4>. SUFFICES ASSUME Length(n) <= MaxLine PROVE got2[n] = Result[Text(Fields(n))]
        OBVIOUS
      <4>1. part = <<>> /\ v = Text(Fields(n))
        BY <2>2, <2>3 DEF Between
      <4>2. got2[n] = <<>> \o r
        BY <2>5, <4>1
      <4>. QED BY <2>4, <3>1, <4>1, <4>2, ConcatEmptySeq
    <3>4. overran' <=> \E m \in 1 .. n : Length(m) >= MaxLine
      <4>1. CASE Between(got, part) /\ v = Text(Fields(n))
        <5>1. overran <=> \E m \in 1 .. Len(got) : Length(m) >= MaxLine
          BY <4>1 DEF Between
        <5>2. z = MaxLine <=> Length(n) >= MaxLine
          BY <2>3, <2>8, <3>1, <4>1 DEF Length
        <5>3. \A m : m \in 1 .. n <=> m \in 1 .. Len(got) \/ m = n
          BY <1>6
        <5> HIDE DEF n
        <5>. QED BY <1>2, <5>1, <5>2, <5>3
      <4>2. CASE overran /\ Length(n) > MaxLine
        <5>1. n \in 1 .. n /\ Length(n) >= MaxLine
          BY <1>6, <2>3, <4>2
        <5>. QED BY <1>2, <4>2, <5>1
      <4>. QED BY <2>2, <4>1, <4>2
    <3>5. Between(got2, <<>>)'
      <4>1. Coming(n + 1)' = Coming(n + 1)
        BY <1>1, <1>6, SameInput
      <4>. QED BY <2>5, <2>7, <3>2, <3>4, <4>1 DEF Between
    <3>6. \A m \in 1 .. n : Length(m)' <= MaxLine => got2[m] = Result[Text(Fields(m))']
      <4>1. ASSUME NEW m \in 1 .. n, Length(m) <= MaxLine PROVE got2[m] = Result[Text(Fields(m))]
        <5>1. CASE m = n
          BY <3>3, <4>1, <5>1
        <5>2. CASE m # n
          <6>1. PICK k \in Nat : k = Len(got) /\ n = k + 1 /\ m \in 1 .. k + 1
            BY <1>6
          <6>2. m \in 1 .. Len(got)
            BY <5>2, <6>1
          <6>. QED BY <1>7, <2>5, <4>1, <6>2
        <5>. QED BY <5>1, <5>2
      <4>. QED BY <2>7, <4>1
    <3>7. packets' = FlattenSeq(got2) \o <<>> /\ <<>> \in Seq(Packet)
      BY <2>5, <2>6, ConcatEmptySeq
    <3>8. Reads(got2, <<>>)'
      BY <1>1, <1>9, <2>5, <3>5, <3>6, <3>7 DEF Reads
    <3>. QED BY <1>2, <1>4, <2>5, <3>7, <3>8
  <2>9. CASE ~(Len(v) <= MaxLine)
    <3>1. Len(v) > MaxLine
      BY <2>3, <2>9
    <3>2. z = MaxLine /\ \E x \in Line :
            Avoids(x, {ETB}) /\ Ungetc(SubSeq(rest, MaxLine + 2, Len(rest))) = x \o u
      <4> HIDE DEF u
      <4>1. /\ LineLength(v \o u) = MaxLine
            /\ \E x \in Line :
                 /\ Avoids(x, {ETB})
                 /\ Ungetc(SubSeq(v \o u, MaxLine + 2, Len(v \o u))) = x \o u
        BY <2>1, <2>2, <3>1, LineOf
      <4>. QED BY <2>2, <4>1 DEF z
    <3>3. PICK x \in Line : Avoids(x, {ETB}) /\ rest' = x \o u
      BY <1>2, <3>2
    <3>4. Length(n) > MaxLine /\ overran'
      BY <1>2, <2>2, <3>1, <3>2 DEF Length
    <3>5. Inside(got)'
      <4>1. Ends(input, n)' = u /\ Length(n)' = Length(n)
        BY <1>1, <1>6, SameInput
      <4>. QED BY <1>1, <1>9, <3>3, <3>4, <4>1 DEF Inside
    <3>6. \A m \in 1 .. Len(got) : Length(m)' = Length(m) /\ Text(Fields(m))' = Text(Fields(m))
      <4>1. \A m \in 1 .. Len(got) : m \in 1 .. n
        BY <1>6
      <4>. QED BY <2>7, <4>1
    <3>7. Reads(got, more)'
      BY <1>1, <1>7, <2>6, <3>5, <3>6 DEF Reads
    <3>. QED BY <1>2, <1>4, <2>5, <3>7
  <2>. QED BY <2>8, <2>9
<1>. QED BY <1>8, <1>9

LEMMA StartsBetween == ASSUME Divides, rest = Stream(input) PROVE rest = Coming(1)
<1>1. input \in Seq(Piece) /\ Len(input) \in Nat /\ rest = Left(input, 0)
  BY LeftIs DEF Divides
<1>2. CASE Len(input) = 0
  <2>1. Left(input, 0) = <<>>
    BY <1>1, <1>2, LeftIs
  <2>. QED BY <1>1, <1>2, <2>1 DEF Coming
<1>3. CASE Len(input) # 0
  <2>1. 1 \in 1 .. Len(input) /\ 1 - 1 = 0 /\ ~(1 > 1) /\ 1 <= Len(input)
    BY <1>1, <1>3
  <2>2. Left(input, 1 - 1) = Text(input[1].fields) \o Ends(input, 1)
    BY <1>1, <2>1, LeftIs
  <2>3. Text(Fields(1)) = Text(input[1].fields)
    BY <1>1, <2>1, FieldsIs DEF Loses
  <2>. QED BY <1>1, <2>1, <2>2, <2>3 DEF Coming
<1>. QED BY <1>2, <1>3

LEMMA InitReaderInv == ReaderInit => ReaderInv
<1>. SUFFICES ASSUME ReaderInit PROVE ReaderInv
  OBVIOUS
<1>1. Divides
  BY InputAssumption DEF ReaderInit, Divides
<1>2. rest = Coming(1)
  BY <1>1, StartsBetween DEF ReaderInit
<1>3. PICK got \in Seq(Seq(Packet)), part \in Seq(Packet) : got = <<>> /\ part = <<>> /\ Len(got) = 0
  <2>1. <<>> \in Seq(Seq(Packet)) /\ <<>> \in Seq(Packet) /\ Len(<<>>) = 0
    BY EmptySeq
  <2>. QED BY <2>1
<1>4. Len(input) \in Nat
  BY <1>1, LenProperties DEF Divides
<1>5. packets = FlattenSeq(got) \o part
  <2>1. part \o part = part
    BY <1>3, ConcatEmptySeq
  <2>. QED BY <1>3, <2>1, FlattenNone DEF ReaderInit
<1>6. Between(got, part)
  <2>1. Len(got) + 1 = 1 /\ ~(\E m \in 1 .. Len(got) : Length(m) >= MaxLine) /\ overran = FALSE
    BY <1>3 DEF ReaderInit
  <2>. QED BY <1>2, <1>3, <2>1 DEF Between
<1>7. Reads(got, part)
  BY <1>3, <1>4, <1>5, <1>6 DEF Reads
<1>. QED BY <1>1, <1>7 DEF ReaderInit, ReaderInv

LEMMA SameReader == ReaderInv /\ UNCHANGED readerVars => ReaderInv'
<1>. SUFFICES ASSUME ReaderInv, UNCHANGED readerVars, client' = "c", fault' = "none"
              PROVE  /\ Divides' /\ overran' \in BOOLEAN
                     /\ eof' => rest' = <<>>
                     /\ \E got \in Seq(Seq(Packet)), part \in Seq(Packet) : Reads(got, part)'
  BY DEF ReaderInv
<1>1. /\ client = "c" /\ fault = "none"
      /\ input' = input /\ rest' = rest /\ eof' = eof /\ packets' = packets /\ overran' = overran
  BY DEF readerVars
<1>2. /\ Divides /\ overran \in BOOLEAN /\ (eof => rest = <<>>)
      /\ \E got \in Seq(Seq(Packet)), part \in Seq(Packet) : Reads(got, part)
  BY <1>1 DEF ReaderInv
<1>3. PICK got \in Seq(Seq(Packet)), part \in Seq(Packet) : Reads(got, part)
  BY <1>2
<1>4. /\ \A m \in 1 .. Len(got) : Length(m)' = Length(m) /\ Text(Fields(m))' = Text(Fields(m))
      /\ Length(Len(got) + 1)' = Length(Len(got) + 1)
      /\ Coming(Len(got) + 1)' = Coming(Len(got) + 1)
      /\ Ends(input, Len(got) + 1)' = Ends(input, Len(got) + 1)
  <2>1. Len(got) \in Nat /\ Len(got) + 1 \in Nat
    OBVIOUS
  <2>2. \A m \in 1 .. Len(got) : m \in Nat
    BY <2>1
  <2>. QED BY <1>1, <2>1, <2>2, SameInput
<1>5. Reads(got, part)'
  <2>1. Between(got, part) => Between(got, part)'
    BY <1>1, <1>4 DEF Between
  <2>2. Inside(got) => Inside(got)'
    BY <1>1, <1>4 DEF Inside
  <2>. QED BY <1>1, <1>3, <1>4, <2>1, <2>2 DEF Reads
<1>. QED BY <1>1, <1>2, <1>5, SameInput

LEMMA ResultsOf ==
  ASSUME NEW S, NEW g \in Seq(S), NEW from \in Nat, NEW to \in Int, Len(g) = to - from + 1,
         \A m \in 1 .. Len(g) : g[m] = Meant(Fields(from + m - 1))
  PROVE  Results(from, to) = FlattenSeq(g)
<1>1. PICK k \in Nat : k = Len(g) /\ k = to - from + 1
  OBVIOUS
<1>2. g = [m \in 1 .. k |-> g[m]]
  BY <1>1, LenProperties
<1>3. [m \in 1 .. k |-> g[m]] = [m \in 1 .. k |-> Meant(Fields(from + m - 1))]
  BY <1>1
<1>. QED BY <1>1, <1>2, <1>3, Zenon DEF Results

(* At the end of the input each piece has given its results. *)
LEMMA AllRead ==
  ASSUME ReaderInv, Typed, client = "c", eof, fault = "none"
  PROVE  \E got \in Seq(Seq(Packet)) :
           /\ Len(got) = Len(input) /\ packets = FlattenSeq(got)
           /\ \A m \in 1 .. Len(input) : Length(m) <= MaxLine => got[m] = Result[Text(Fields(m))]
           /\ overran <=> \E m \in 1 .. Len(input) : Length(m) >= MaxLine
<1>1. Divides /\ overran \in BOOLEAN /\ rest = <<>> /\ packets \in Seq(Packet)
  BY DEF ReaderInv, Typed
<1>2. PICK got \in Seq(Seq(Packet)), part \in Seq(Packet) : Reads(got, part)
  BY DEF ReaderInv
<1> DEFINE n == Len(got) + 1
<1>3. /\ n \in Nat /\ Len(got) \in Nat /\ Len(input) \in Nat /\ input \in Seq(Piece)
      /\ MaxLine \in Nat /\ MaxLine # 0
  <2>1. input \in Seq(Piece) /\ Len(got) \in Nat
    BY <1>1 DEF Divides
  <2>. QED BY <2>1, LengthAssumption
<1>4. /\ Len(got) <= Len(input) /\ packets = FlattenSeq(got) \o part
      /\ \A m \in 1 .. Len(got) : Length(m) <= MaxLine => got[m] = Result[Text(Fields(m))]
      /\ Between(got, part) \/ Inside(got)
  BY <1>2 DEF Reads
<1>5. CASE ~(n <= Len(input))
  <2>1. part = <<>> /\ (overran <=> \E m \in 1 .. Len(got) : Length(m) >= MaxLine)
    BY <1>4, <1>5 DEF Between, Inside
  <2>2. Len(got) = Len(input)
    BY <1>3, <1>4, <1>5
  <2>3. packets = FlattenSeq(got)
    <3>1. PICK f \in Seq(Packet) : f = FlattenSeq(got)
      <4>1. PICK P : P = Packet
        OBVIOUS
      <4>. QED BY <4>1, FlattenType
    <3>. QED BY <1>4, <2>1, <3>1, ConcatEmptySeq
  <2>. QED BY <1>4, <2>1, <2>2, <2>3
<1>6. CASE n <= Len(input)
  <2>1. n \in 1 .. Len(input) /\ Text(Fields(n)) \in Line /\ Ends(input, n) \in Line
    BY <1>3, <1>6, FieldsIs, LeftIs
  <2>2. Ends(input, n) = <<>>
    <3> DEFINE u == Ends(input, n)
    <3>1. \E v \in Line : rest = v \o u
      BY <1>4, <1>6, <2>1 DEF Between, Inside, Coming
    <3> HIDE DEF u
    <3>2. PICK v \in Line : v \o u = <<>>
      BY <1>1, <3>1
    <3>. QED BY <2>1, <3>2, ConcatEqualIffEmpty DEF Line, u
  <2>3. n = Len(input)
    <3> HIDE DEF n
    <3>1. input[n].end = <<>>
      BY <1>1, <2>1, <2>2, EndsIs DEF Divides
    <3>. QED BY <1>1, <2>1, <3>1, EndsIs DEF Divides
  <2>4. PICK got2 \in Seq(Seq(Packet)) :
          /\ Len(got2) = n /\ packets = FlattenSeq(got2)
          /\ \A m \in 1 .. Len(got) : got2[m] = got[m]
          /\ got2[n] = part
    <3>1. PICK P : P = Packet
      OBVIOUS
    <3>2. PICK r \in Seq(P) : r = <<>>
      BY EmptySeq
    <3>3. got \in Seq(Seq(P)) /\ part \in Seq(P) /\ part \o r = part
      BY <3>1, <3>2, ConcatEmptySeq
    <3> DEFINE g == Append(got, part \o r)
    <3>4. /\ g \in Seq(Seq(P)) /\ Len(g) = Len(got) + 1
          /\ \A m \in 1 .. Len(got) : g[m] = got[m]
          /\ g[Len(got) + 1] = part
          /\ FlattenSeq(g) = (FlattenSeq(got) \o part) \o r
      <4>1. got \in Seq(Seq(P)) /\ part \in Seq(P) /\ r \in Seq(P)
        BY <3>3
      <4>2. /\ part \o r \in Seq(P) /\ Append(got, part \o r) \in Seq(Seq(P))
            /\ Len(Append(got, part \o r)) = Len(got) + 1
            /\ \A m \in 1 .. Len(got) : Append(got, part \o r)[m] = got[m]
            /\ Append(got, part \o r)[Len(got) + 1] = part \o r
            /\ FlattenSeq(Append(got, part \o r)) = (FlattenSeq(got) \o part) \o r
            /\ (FlattenSeq(got) \o part) \o r = FlattenSeq(got) \o (part \o r)
            /\ FlattenSeq(got) \o (part \o r) \in Seq(P)
        BY <4>1, GotOneMore
      <4>. QED BY <3>3, <4>2
    <3>5. (FlattenSeq(got) \o part) \o r = packets
      BY <1>1, <1>4, <3>1, <3>2, ConcatEmptySeq
    <3> HIDE DEF g
    <3>. QED BY <3>1, <3>4, <3>5
  <2>5. \A m \in 1 .. n : m \in 1 .. Len(got) \/ m = n
    BY <1>3
  <2>6. CASE Between(got, part)
    <3>1. part = <<>> /\ rest = Text(Fields(n)) \o Ends(input, n)
          /\ (overran <=> \E m \in 1 .. Len(got) : Length(m) >= MaxLine)
      BY <1>6, <2>6 DEF Between, Coming
    <3>2. Text(Fields(n)) = <<>>
      <4>1. Text(Fields(n)) \o <<>> = Text(Fields(n))
        BY <2>1, ConcatEmptySeq DEF Line
      <4>. QED BY <1>1, <2>2, <3>1, <4>1
    <3>3. Length(n) = 0 /\ Result[Text(Fields(n))] = <<>>
      <4>1. Len(Text(Fields(n))) = 0
        BY <2>1, <3>2, NonEmpty
      <4>. QED BY <3>2, <4>1, ResultNone DEF Length
    <3>4. \A m \in 1 .. n : Length(m) <= MaxLine => got2[m] = Result[Text(Fields(m))]
      <4> HIDE DEF n
      <4>. QED BY <1>4, <2>4, <2>5, <3>1, <3>3
    <3>5. overran <=> \E m \in 1 .. n : Length(m) >= MaxLine
      <4>1. ~(Length(n) >= MaxLine)
        BY <1>3, <3>3
      <4>2. \A m \in 1 .. Len(got) : m \in 1 .. n
        BY <1>3
      <4> HIDE DEF n
      <4>. QED BY <2>5, <3>1, <4>1, <4>2
    <3> HIDE DEF n
    <3>. QED BY <2>3, <2>4, <3>4, <3>5
  <2>7. CASE Inside(got)
    <3>1. overran /\ Length(n) > MaxLine /\ Length(n) \in Nat
      BY <2>1, <2>7 DEF Inside, Length, Line
    <3>2. \A m \in 1 .. n : Length(m) <= MaxLine => got2[m] = Result[Text(Fields(m))]
      <4>1. ~(Length(n) <= MaxLine)
        BY <1>3, <3>1
      <4> HIDE DEF n
      <4>. QED BY <1>4, <2>4, <2>5, <4>1
    <3>3. n \in 1 .. n /\ Length(n) >= MaxLine
      BY <1>3, <3>1
    <3> HIDE DEF n
    <3>. QED BY <2>3, <2>4, <3>1, <3>2, <3>3
  <2>. QED BY <1>4, <2>6, <2>7
<1>. QED BY <1>5, <1>6

-----------------------------------------------------------------------------
(***************************************************************************)
(* What send_iris.pl has read, from an input that is well-formed: the      *)
(* pieces before, each with its results, got, and the ETB behind them,     *)
(* so that only the newline behind the last of them can be in front of     *)
(* those that are left.                                                    *)
(***************************************************************************)
PerlInv ==
  client = "perl" /\ WellFormed =>
    /\ Divides
    /\ \E got \in Seq(Seq(Packet)) :
         /\ Len(got) <= Len(input) /\ packets = FlattenSeq(got)
         /\ \A m \in 1 .. Len(got) : got[m] = MeantInPerl(input[m].fields)
         /\ IF eof THEN Len(got) = Len(input)
            ELSE \E lead \in {<<>>, <<NL>>} : rest = Glue(lead, Left(input, Len(got)))

LEMMA WellFormedIs ==
  ASSUME Divides, WellFormed, NEW n \in 1 .. Len(input), NEW f, f = input[n].fields
  PROVE  /\ f \in Seq(Field) /\ Text(f) \in Line /\ Avoids(Text(f), {ETB}) /\ Text(f) # <<>>
         /\ Tidy(f) /\ (IsHostCheck(f) \/ Meant(f) # <<>>)
<1>1. f \in Seq(Field) /\ Text(f) \in Line /\ Avoids(Text(f), {ETB})
  BY PieceIs, TextIsLine DEF Divides
<1>2. Tidy(f) /\ (IsHostCheck(f) \/ Meant(f) # <<>>)
  <2>1. n \in DOMAIN input
    BY LenProperties DEF Divides
  <2>. QED BY <2>1 DEF WellFormed
<1>3. PICK l \in Nat : l = Len(f) /\ l >= 3
  BY <1>1, <1>2, HasThree
<1>4. f[1] # <<>> /\ f # <<>>
  <2>1. Neat(f[1])
    BY <1>1, <1>2, <1>3, NeatField
  <2>2. f # <<>>
    BY <1>3
  <2>. QED BY <2>1, <2>2 DEF Neat
<1>5. strtok(Text(f)) # <<>>
  <2>1. Word(f) = f[1]
    BY <1>1, <1>4, OpensWith
  <2>. QED BY <1>1, <1>4, <2>1, StrtokIsWord
<1>6. Text(f) # <<>>
  BY <1>5, RestNone
<1>. QED BY <1>1, <1>2, <1>6

(* Something is left as long as a piece is. *)
LEMMA PieceLeft ==
  ASSUME Divides, WellFormed, NEW n \in 0 .. Len(input), Left(input, n) = <<>>
  PROVE  n = Len(input)
<1>1. PICK l \in Nat : l = Len(input)
  BY LenProperties DEF Divides
<1>2. SUFFICES ASSUME n + 1 \in 1 .. Len(input) PROVE FALSE
  BY <1>1
<1>3. PICK t \in Line, e \in Line : /\ t = Text(input[n + 1].fields) /\ t # <<>>
                                    /\ e = Ends(input, n + 1)
  <2>1. Ends(input, n + 1) \in Line
    BY <1>2, LeftIs DEF Divides
  <2>. QED BY <1>2, <2>1, WellFormedIs
<1>4. Left(input, n) = t \o e
  <2>1. (n + 1) - 1 = n
    BY <1>1
  <2>2. Left(input, (n + 1) - 1) = Text(input[n + 1].fields) \o Ends(input, n + 1)
    BY <1>2, LeftIs DEF Divides
  <2>. QED BY <1>3, <2>1, <2>2
<1>5. t \o e # <<>>
  BY <1>3, TailOfJoin
<1>. QED BY <1>4, <1>5

(* The newline at the end of the input is no result. *)
LEMMA PerlBlank ==
  ASSUME NEW lead \in {<<>>, <<NL>>}
  PROVE  /\ lead \in Line /\ AllIn(lead, Space) /\ Avoids(lead, {ETB})
         /\ PerlResult[lead] = <<>> /\ Before[lead][{ETB}] = lead /\ Behind[lead][{ETB}] = <<>>
<1>1. lead \in Line /\ AllIn(lead, Space) /\ Avoids(lead, {ETB})
  <2>1. CASE lead = <<>>
    BY <2>1, EndBytes DEF AllIn, Avoids
  <2>2. CASE lead = <<NL>>
    <3>1. Len(lead) = 1 /\ lead[1] = NL
      BY <2>2
    <3>. QED BY <2>2, <3>1, EndBytes DEF AllIn, Avoids, Space, NL, ETB
  <2>. QED BY <2>1, <2>2
<1>2. PICK none \in Line, drop \in Bytes, tab \in Bytes, etb \in Bytes :
        none = <<>> /\ drop = Space /\ tab = {Tab} /\ etb = {ETB}
  BY EndBytes, Names
<1>3. none \o lead = lead /\ lead \o none = lead /\ none \o none = none
  BY <1>1, <1>2, ConcatEmptySeq DEF Line
<1>4. AllIn(none, drop) /\ EndsOutside(none, drop) /\ Avoids(none, tab)
  BY <1>2 DEF AllIn, EndsOutside, Avoids
<1>5. StartsIn(none, tab) /\ StartsIn(none, etb)
  BY <1>2 DEF StartsIn
<1>6. Trimmed[lead][drop] = none
  <2>1. Trimmed[none \o lead][drop] = none
    BY <1>1, <1>2, <1>4, TrimmedStops
  <2>. QED BY <1>3, <2>1
<1>7. From[none][drop] = none
  <2>1. From[none \o none][drop] = none
    BY <1>2, <1>4, FromSkips
  <2>. QED BY <1>3, <2>1
<1>8. Before[none][tab] = none
  <2>1. Before[none \o none][tab] = none
    BY <1>4, <1>5, BeforeStops
  <2>. QED BY <1>3, <2>1
<1>9. Trimmed[none][drop] = none
  <2>1. Trimmed[none \o none][drop] = none
    BY <1>4, TrimmedStops
  <2>. QED BY <1>3, <2>1
<1>10. First[none] = none
  BY <1>2, <1>8, <1>9, Zenon DEF First
<1>11. ~Truth(none)
  BY <1>2 DEF Truth
<1>12. From[Trimmed[lead][Space]][Space] = none
  BY <1>2, <1>6, <1>7
<1>13. PerlResult[lead] = <<>>
  BY <1>1, <1>10, <1>11, <1>12, Zenon DEF PerlResult
<1>14. Before[lead \o none][etb] = lead /\ Behind[lead \o none][etb] = <<>>
  <2>1. Avoids(lead, etb)
    BY <1>1, <1>2
  <2>2. /\ Before[lead \o none][etb] = lead
        /\ Behind[lead \o none][etb] = IF none = <<>> THEN <<>> ELSE Tail(none)
    BY <1>1, <1>5, <2>1, BeforeStops
  <2>. QED BY <1>2, <2>2
<1>. QED BY <1>1, <1>2, <1>3, <1>13, <1>14

(* One turn of its loop, with a piece left. *)
LEMMA PerlTurn ==
  ASSUME Divides, WellFormed, NEW n \in 1 .. Len(input), NEW lead \in {<<>>, <<NL>>},
         rest = Glue(lead, Left(input, n - 1))
  PROVE  /\ PerlResult[Before[rest][{ETB}]] = MeantInPerl(input[n].fields)
         /\ IF Behind[rest][{ETB}] = <<>> THEN n = Len(input)
            ELSE \E x \in {<<>>, <<NL>>} : Behind[rest][{ETB}] = Glue(x, Left(input, n))
<1>1. PICK f \in Seq(Field), t \in Line :
        /\ f = input[n].fields /\ t = Text(f) /\ Avoids(t, {ETB}) /\ Tidy(f)
        /\ (IsHostCheck(f) \/ Meant(f) # <<>>)
  BY WellFormedIs
<1>2. lead \in Line /\ AllIn(lead, Space) /\ Avoids(lead, {ETB})
  BY PerlBlank
<1>3. PICK e \in Line : e = Ends(input, n) /\ StartsIn(e, {ETB})
  BY EndsIs DEF Divides
<1>4. PICK line \in Line : line = Glue(lead, t) /\ Avoids(line, {ETB})
  BY <1>1, <1>2, GlueAssociative, GlueAvoids
<1>5. rest = line \o e
  <2>1. Left(input, n - 1) = t \o e
    BY <1>1, <1>3, LeftIs DEF Divides
  <2>2. Glue(lead, Glue(t, e)) = Glue(line, e)
    BY <1>2, <1>4, GlueAssociative
  <2>. QED BY <2>1, <2>2, Zenon DEF Glue
<1>6. Before[rest][{ETB}] = line /\ Behind[rest][{ETB}] = IF e = <<>> THEN <<>> ELSE Tail(e)
  <2>1. PICK etb \in Bytes : etb = {ETB}
    BY Names
  <2>2. /\ Before[line \o e][etb] = line
        /\ Behind[line \o e][etb] = IF e = <<>> THEN <<>> ELSE Tail(e)
    BY <1>3, <1>4, <2>1, BeforeStops
  <2>. QED BY <1>5, <2>1, <2>2
<1>7. PerlResult[line] = MeantInPerl(f)
  BY <1>1, <1>2, <1>4, PerlResultIs
<1>8. PICK l \in Line : l = Left(input, n) /\ (l = <<>> => n = Len(input))
  <2>1. Left(input, n) \in Line /\ n \in 0 .. Len(input)
    BY LeftIs DEF Divides
  <2>. QED BY <2>1, PieceLeft
<1>9. input[n].end \in {<<ETB>>, <<ETB, NL>>, <<>>}
  BY PieceIs DEF Divides
<1>10. CASE input[n].end = <<>>
  <2>1. n = Len(input) /\ e = <<>>
    BY <1>3, <1>10, EndsIs DEF Divides
  <2>. QED BY <1>1, <1>6, <1>7, <2>1
<1>11. CASE input[n].end = <<ETB>>
  <2>1. e # <<>> /\ Tail(e) = l
    <3>1. input[n].end # <<>>
      BY <1>11
    <3>. QED BY <1>3, <1>8, <1>11, <3>1, EndsIs DEF Divides
  <2>2. l = Glue(<<>>, l)
    BY ConcatEmptySeq DEF Glue, Line
  <2>3. Behind[rest][{ETB}] = l
    BY <1>6, <2>1
  <2>. QED BY <1>1, <1>6, <1>7, <1>8, <2>2, <2>3
<1>12. CASE input[n].end = <<ETB, NL>>
  <2>1. e # <<>> /\ Tail(e) = <<NL>> \o l
    <3>1. input[n].end # <<>>
      BY <1>12
    <3>. QED BY <1>3, <1>8, <1>12, <3>1, EndsIs DEF Divides
  <2>2. <<NL>> \o l # <<>>
    BY EndBytes, TailOfJoin
  <2>3. Behind[rest][{ETB}] = Glue(<<NL>>, l) /\ Behind[rest][{ETB}] # <<>>
    BY <1>6, <2>1, <2>2, Zenon DEF Glue
  <2>. QED BY <1>1, <1>6, <1>7, <1>8, <2>3
<1>. QED BY <1>9, <1>10, <1>11, <1>12

LEMMA SameWellFormed ==
  ASSUME input' = input
  PROVE  /\ WellFormed' <=> WellFormed
         /\ \A m : Left(input, m)' = Left(input, m)
         /\ \A m : MeantInPerl(input[m].fields)' = MeantInPerl(input[m].fields)
BY DEF WellFormed, Fields

LEMMA ReadPieceInv == Typed /\ PerlInv /\ ReadPiece => PerlInv'
<1>. SUFFICES ASSUME Typed, PerlInv, ReadPiece, WellFormed'
              PROVE  /\ Divides'
                     /\ \E got \in Seq(Seq(Packet)) :
                          /\ Len(got) <= Len(input)' /\ packets' = FlattenSeq(got)
                          /\ \A m \in 1 .. Len(got) : got[m] = MeantInPerl(input[m].fields)'
                          /\ IF eof' THEN Len(got) = Len(input)'
                             ELSE \E lead \in {<<>>, <<NL>>} :
                                    rest' = Glue(lead, Left(input, Len(got))')
  BY DEF PerlInv
<1>1. /\ client = "perl" /\ ~eof /\ input' = input
      /\ packets' = packets \o PerlResult[Before[rest][{ETB}]]
      /\ rest' = Behind[rest][{ETB}] /\ (eof' <=> Behind[rest][{ETB}] = <<>>)
  BY DEF ReadPiece
<1>2. WellFormed /\ Divides /\ Divides'
  <2>1. WellFormed
    BY <1>1, SameWellFormed
  <2>2. Divides
    BY <1>1, <2>1 DEF PerlInv
  <2>. QED BY <1>1, <2>1, <2>2, SameInput
<1>3. PICK l \in Nat : l = Len(input)
  BY <1>2, LenProperties DEF Divides
<1>4. PICK P, Q : P = Packet /\ Q = Seq(P)
  OBVIOUS
<1>5. PICK got \in Seq(Q), k \in 0 .. l, lead \in {<<>>, <<NL>>} :
        /\ k = Len(got) /\ packets = FlattenSeq(got)
        /\ \A m \in 1 .. k : got[m] = MeantInPerl(input[m].fields)
        /\ rest = Glue(lead, Left(input, k))
  <2>1. PICK got \in Seq(Q) :
          /\ Len(got) <= Len(input) /\ packets = FlattenSeq(got)
          /\ \A m \in 1 .. Len(got) : got[m] = MeantInPerl(input[m].fields)
          /\ \E lead \in {<<>>, <<NL>>} : rest = Glue(lead, Left(input, Len(got)))
    BY <1>1, <1>2, <1>4 DEF PerlInv
  <2>2. Len(got) \in 0 .. l
    BY <1>3, <2>1
  <2>. QED BY <2>1, <2>2
<1>6. PICK r \in Q : r = PerlResult[Before[rest][{ETB}]]
  <2>1. Before[rest][{ETB}] \in Line
    BY Names, BeforeIsLine DEF Typed
  <2>. QED BY <1>4, <2>1, PerlResultIsPackets
<1>7. CASE k = l
  <2>1. rest = lead
    <3>1. Left(input, k) = <<>>
      BY <1>2, <1>3, <1>7, LeftIs DEF Divides
    <3>2. lead \o <<>> = lead
      BY PerlBlank, ConcatEmptySeq DEF Line
    <3>. QED BY <1>5, <3>1, <3>2, Zenon DEF Glue
  <2>2. r = <<>> /\ eof'
    BY <1>1, <1>6, <2>1, PerlBlank
  <2>3. packets' = FlattenSeq(got)
    <3>1. FlattenSeq(got) \in Q
      BY <1>4, FlattenType
    <3>2. FlattenSeq(got) \o <<>> = FlattenSeq(got)
      BY <1>4, <3>1, ConcatEmptySeq
    <3>. QED BY <1>1, <1>5, <1>6, <2>2, <3>2
  <2>4. \A m \in 1 .. Len(got) : got[m] = MeantInPerl(input[m].fields)'
    BY <1>1, <1>5, SameWellFormed
  <2>5. Len(got) <= Len(input)' /\ Len(got) = Len(input)'
    BY <1>1, <1>3, <1>5, <1>7
  <2>. QED BY <1>2, <1>4, <2>2, <2>3, <2>4, <2>5
<1>8. CASE k # l
  <2>1. PICK n \in 1 .. Len(input) : n = k + 1 /\ n - 1 = k
    BY <1>3, <1>5, <1>8
  <2>2. /\ r = MeantInPerl(input[n].fields)
        /\ IF Behind[rest][{ETB}] = <<>> THEN n = Len(input)
           ELSE \E x \in {<<>>, <<NL>>} : Behind[rest][{ETB}] = Glue(x, Left(input, n))
    BY <1>2, <1>5, <1>6, <2>1, PerlTurn
  <2>3. PICK more \in Seq(Q) :
          /\ Len(more) = n /\ more[n] = r /\ \A m \in 1 .. k : more[m] = got[m]
          /\ packets' = FlattenSeq(more)
    <3>1. /\ Append(got, r) \in Seq(Q) /\ Len(Append(got, r)) = Len(got) + 1
          /\ Append(got, r)[Len(got) + 1] = r
          /\ \A m \in 1 .. Len(got) : Append(got, r)[m] = got[m]
      BY AppendProperties
    <3>2. FlattenSeq(Append(got, r)) = FlattenSeq(got) \o r
      BY <1>4, FlattenAppend
    <3>. QED BY <1>1, <1>5, <1>6, <2>1, <3>1, <3>2
  <2>4. \A m \in 1 .. Len(more) : more[m] = MeantInPerl(input[m].fields)'
    <3>1. ASSUME NEW m \in 1 .. Len(more) PROVE more[m] = MeantInPerl(input[m].fields)
      <4>1. m = n \/ m \in 1 .. k
        BY <1>3, <1>5, <2>1, <2>3
      <4>. QED BY <1>5, <2>2, <2>3, <4>1
    <3>. QED BY <1>1, <3>1, SameWellFormed
  <2>5. Len(more) <= Len(input)'
    BY <1>1, <1>3, <2>1, <2>3
  <2>6. IF eof' THEN Len(more) = Len(input)'
        ELSE \E x \in {<<>>, <<NL>>} : rest' = Glue(x, Left(input, Len(more))')
    BY <1>1, <2>2, <2>3, SameWellFormed
  <2>. QED BY <1>1, <1>2, <1>4, <2>3, <2>4, <2>5, <2>6
<1>. QED BY <1>7, <1>8

LEMMA InitPerlInv == ReaderInit => PerlInv
<1>. SUFFICES ASSUME ReaderInit PROVE PerlInv
  OBVIOUS
<1>1. Divides
  BY InputAssumption DEF ReaderInit, Divides
<1>2. PICK got \in Seq(Seq(Packet)) : got = <<>> /\ Len(got) = 0
  <2>1. <<>> \in Seq(Seq(Packet)) /\ Len(<<>>) = 0
    BY EmptySeq
  <2>. QED BY <2>1
<1>3. packets = FlattenSeq(got) /\ ~eof
  BY <1>2, FlattenNone DEF ReaderInit
<1>4. Len(got) <= Len(input) /\ ~(\E m \in 1 .. Len(got) : TRUE)
  <2>1. Len(input) \in Nat
    BY <1>1, LenProperties DEF Divides
  <2>. QED BY <1>2, <2>1
<1>5. rest = Glue(<<>>, Left(input, Len(got)))
  <2>1. rest \in Line /\ rest = Left(input, Len(got))
    BY <1>1, <1>2, LeftIs DEF ReaderInit, Divides
  <2>2. <<>> \o rest = rest
    BY <2>1, ConcatEmptySeq DEF Line
  <2>. QED BY <2>1, <2>2, Zenon DEF Glue
<1>. QED BY <1>1, <1>3, <1>4, <1>5 DEF PerlInv

LEMMA SamePerl == PerlInv /\ UNCHANGED readerVars => PerlInv'
<1>. SUFFICES ASSUME PerlInv, UNCHANGED readerVars PROVE PerlInv'
  OBVIOUS
<1>1. client' = client /\ input' = input /\ rest' = rest /\ eof' = eof /\ packets' = packets
  BY DEF readerVars
<1>2. (WellFormed' <=> WellFormed) /\ (Divides' <=> Divides)
  BY <1>1, SameInput, SameWellFormed
<1>. QED BY <1>1, <1>2 DEF PerlInv, Left, Layout

-----------------------------------------------------------------------------
(***************************************************************************)
(* TypeOK.  Of the parts that are written, whole PDUs alone are taken, and *)
(* nothing is written before the input has been read; after that the       *)
(* results no longer change.                                               *)
(***************************************************************************)
Books ==
  /\ written \in Nat /\ taken \in Nat
  /\ written <= Total /\ Parts * taken <= written

TypeInv ==
  /\ Typed /\ Books
  /\ eof \in BOOLEAN /\ overran \in BOOLEAN
  /\ pc \in {"read", "connect", "write", "sink", "leave", "gone"}
  /\ alarm \in BOOLEAN
  /\ pc = "read" => written = 0 /\ taken = 0 /\ peer = "none"
  /\ peer \in {"none", "serving", "ignoring", "closed", "reset"}
  /\ exit \in {-1, 0, 3, 141, 255}

(* A perl client whose syswrite failed goes on with the next PDU. *)
LEMMA NextPdu ==
  ASSUME NEW p \in Nat \ {0}, NEW w \in Nat, NEW n \in Nat, w < p * n
  PROVE  /\ p * (w \div p + 1) \in Nat
         /\ p * (w \div p + 1) <= p * n /\ w <= p * (w \div p + 1)
<1> DEFINE q == w \div p
           r == w % p
<1>1. q \in Nat /\ r \in 0 .. p - 1 /\ w = p * q + r
  OBVIOUS
<1> HIDE DEF q, r
<1>2. p * q < p * n
  BY <1>1
<1>3. q < n
  BY <1>1, <1>2
<1>4. q + 1 <= n /\ p * (q + 1) = p * q + p
  BY <1>1, <1>3
<1>5. p * (q + 1) <= p * n
  BY <1>1, <1>4
<1>6. p * (q + 1) \in Nat /\ w <= p * (q + 1)
  BY <1>1, <1>4
<1>. QED BY <1>5, <1>6 DEF q

LEMMA InitTypeInv == Init => TypeInv
<1>. SUFFICES ASSUME Init PROVE TypeInv
  OBVIOUS
<1>1. Typed
  BY InitTyped DEF Init
<1>2. Len(packets) \in Nat /\ Parts * 0 = 0 /\ Total = 0
  BY PartsAssumption DEF Init, ReaderInit, Total
<1>3. Books
  BY <1>2, PartsAssumption DEF Init, Books
<1>. QED BY <1>1, <1>3 DEF Init, ReaderInit, TypeInv

LEMMA StepTypeInv == TypeInv /\ [Next]_vars => TypeInv'
<1>. SUFFICES ASSUME TypeInv, [Next]_vars PROVE TypeInv'
  OBVIOUS
<1>0. Len(packets) \in Nat
  BY DEF TypeInv, Typed
<1>a. ASSUME UNCHANGED readerVars
      PROVE  /\ Typed' /\ eof' \in BOOLEAN /\ overran' \in BOOLEAN
             /\ Total' = Total
  BY <1>a DEF readerVars, TypeInv, Typed, Total
<1>b. ASSUME UNCHANGED readerVars, UNCHANGED <<written, taken>> PROVE Books'
  BY <1>a, <1>b DEF TypeInv, Books
<1>c. ASSUME NEW s \in {0, 3, 141, 255}, Exits(s), peer' = peer,
             UNCHANGED readerVars, UNCHANGED <<written, taken>>
      PROVE  TypeInv'
  <2>1. pc' = "gone" /\ alarm' = FALSE /\ exit' \in {-1, 0, 3, 141, 255}
    BY <1>c DEF Exits
  <2>. QED BY <1>a, <1>b, <1>c, <2>1 DEF TypeInv
<1>1. CASE Read
  <2>1. Typed'
    BY <1>1, ReaderTyped DEF Read, TypeInv
  <2>2. eof' \in BOOLEAN /\ overran' \in BOOLEAN
    BY <1>1 DEF Read, ReaderNext, ReadLine, NoMemory, ReadPiece, TypeInv
  <2>3. /\ pc = "read" /\ UNCHANGED sendVars /\ written = 0 /\ taken = 0
    BY <1>1 DEF Read, TypeInv
  <2>4. written' = 0 /\ taken' = 0 /\ Len(packets') \in Nat /\ Parts * 0 = 0
    BY <2>1, <2>3, PartsAssumption DEF sendVars, Typed
  <2>5. Books'
    BY <2>4, PartsAssumption DEF Books, Total
  <2>. QED BY <2>1, <2>2, <2>3, <2>4, <2>5 DEF TypeInv, sendVars
<1>2. CASE StartClock
  BY <1>a, <1>b, <1>2 DEF StartClock, Armed, C, TypeInv
<1>3. CASE Connect \/ ConnectFails
  <2>1. CASE Connect
    BY <1>a, <1>b, <2>1 DEF Connect, TypeInv
  <2>2. CASE ConnectFails
    <3>1. PICK s \in {0, 3, 141, 255} : Exits(s)
      BY <2>2 DEF ConnectFails
    <3>. QED BY <1>c, <2>2, <3>1 DEF ConnectFails
  <2>. QED BY <1>3, <2>1, <2>2
<1>4. CASE Write
  <2>1. Books'
    BY <1>0, <1>a, <1>4, PartsAssumption DEF Write, TypeInv, Books, Total
  <2>2. pc = "write" /\ UNCHANGED <<readerVars, pc, alarm, peer, exit>>
    BY <1>4 DEF Write
  <2>3. Typed' /\ eof' \in BOOLEAN /\ overran' \in BOOLEAN
    BY <1>a, <2>2
  <2>4. pc' = "write" /\ alarm' \in BOOLEAN
    BY <2>2 DEF TypeInv
  <2>5. peer' \in {"none", "serving", "ignoring", "closed", "reset"} /\ exit' \in {-1, 0, 3, 141, 255}
    BY <2>2 DEF TypeInv
  <2>. QED BY <2>1, <2>3, <2>4, <2>5 DEF TypeInv
<1>5. CASE WriteFails
  <2>1. CASE written' = written
    <3>1. CASE Exits(3) \/ Exits(141)
      BY <1>c, <1>5, <2>1, <3>1 DEF WriteFails
    <3>2. CASE UNCHANGED <<pc, exit, alarm>>
      BY <1>a, <1>b, <1>5, <2>1, <3>2 DEF WriteFails, TypeInv
    <3>. QED BY <1>5, <3>1, <3>2 DEF WriteFails
  <2>2. CASE written' = Parts * (written \div Parts + 1) /\ UNCHANGED <<pc, exit, alarm>>
    <3>1. written < Parts * Len(packets) /\ written \in Nat /\ taken \in Nat
      BY <1>5 DEF WriteFails, TypeInv, Books, Total
    <3>2. written' \in Nat /\ written' <= Total /\ written <= written'
      BY <1>0, <2>2, <3>1, PartsAssumption, NextPdu DEF Total
    <3>3. Books'
      BY <1>a, <1>5, <3>1, <3>2, PartsAssumption DEF WriteFails, TypeInv, Books
    <3>4. pc = "write" /\ UNCHANGED <<readerVars, pc, alarm, peer, exit>>
      BY <1>5, <2>2 DEF WriteFails
    <3>. QED BY <1>a, <3>3, <3>4 DEF TypeInv
  <2>. QED BY <1>5, <2>1, <2>2 DEF WriteFails
<1>6. CASE Finish \/ Sink \/ Leave \/ alarm_handler
  <2>1. CASE pc' \in {"sink", "leave"} /\ UNCHANGED <<exit, alarm, peer>>
    <3>1. UNCHANGED readerVars /\ UNCHANGED <<written, taken>>
      BY <1>6 DEF Finish, Sink, Leave, alarm_handler
    <3>. QED BY <1>a, <1>b, <2>1, <3>1 DEF TypeInv
  <2>2. CASE Exits(0) \/ Exits(3)
    BY <1>c, <1>6, <2>2 DEF Finish, Sink, Leave, alarm_handler
  <2>. QED BY <1>6, <2>1, <2>2 DEF Finish, Sink, Leave, alarm_handler
<1>7. CASE Take
  <2>1. Books'
    BY <1>a, <1>7, PartsAssumption DEF Take, Whole, TypeInv, Books
  <2>2. peer = "serving" /\ UNCHANGED <<readerVars, pc, alarm, peer, exit>>
    BY <1>7 DEF Take
  <2>. QED BY <1>a, <2>1, <2>2 DEF TypeInv
<1>8. CASE CloseAtEof \/ Reset
  BY <1>a, <1>b, <1>8 DEF CloseAtEof, Reset, TypeInv
<1>9. CASE UNCHANGED vars
  BY <1>a, <1>b, <1>9 DEF vars, sendVars, TypeInv
<1>. QED BY <1>1, <1>2, <1>3, <1>4, <1>5, <1>6, <1>7, <1>8, <1>9 DEF Next, Program, Broker

LEMMA NoMoreThan ==
  ASSUME NEW p \in Nat \ {0}, NEW t \in Nat, NEW n \in Nat, p * t <= p * n
  PROVE  t <= n
  OBVIOUS

(* TypeOK, for both clients: a result has one of the four return codes,    *)
(* however the line was malformed, and never is more written than was      *)
(* read, or more taken than was sent (iris.c:477-526; send_iris.c:90-129;  *)
(* send_iris.pl:61-112).                                                   *)
THEOREM TypeCorrect == Spec => []TypeOK
<1>1. TypeInv => TypeOK
  <2>. SUFFICES ASSUME TypeInv PROVE TypeOK
    OBVIOUS
  <2>1. packets \in Seq([host : Seq(STRING), service : Seq(STRING), rc : 0 .. 3, output : Seq(STRING)])
    BY DEF TypeInv, Typed, Packet, Line
  <2>2. Len(packets) \in Nat
    BY <2>1
  <2>3. written \in 0 .. Total
    BY <2>2, PartsAssumption DEF TypeInv, Books, Total
  <2>4. taken \in 0 .. Len(packets)
    <3>1. Parts * taken <= Parts * Len(packets)
      BY <2>2, PartsAssumption DEF TypeInv, Books, Total
    <3>. QED BY <2>2, <3>1, PartsAssumption, NoMoreThan DEF TypeInv, Books
  <2>. QED BY <2>1, <2>3, <2>4 DEF TypeInv, TypeOK
<1>. QED BY <1>1, InitTypeInv, StepTypeInv, PTL DEF Spec

-----------------------------------------------------------------------------
(***************************************************************************)
(* The results that send_iris reads.                                       *)
(***************************************************************************)
ReadInv == TypeInv /\ ReaderInv

LEMMA StepReaderInv == ReadInv /\ [Next]_vars => ReaderInv'
<1>. SUFFICES ASSUME ReadInv, [Next]_vars PROVE ReaderInv'
  OBVIOUS
<1>1. CASE Read
  <2>1. CASE ReadLine
    BY <2>1, ReadLineInv DEF ReadInv, TypeInv
  <2>2. CASE NoMemory
    BY <2>2 DEF NoMemory, ReaderInv
  <2>3. CASE ReadPiece
    BY <2>3 DEF ReadPiece, ReaderInv
  <2>. QED BY <1>1, <2>1, <2>2, <2>3 DEF Read, ReaderNext
<1>2. CASE UNCHANGED readerVars
  BY <1>2, SameReader DEF ReadInv
<1>. QED
  BY <1>1, <1>2
  DEF Next, Program, Broker, vars, StartClock, Connect, ConnectFails, Write, WriteFails, Finish,
      Sink, Leave, alarm_handler, Take, CloseAtEof, Reset

LEMMA ReadInvHolds == Spec => []ReadInv
<1>1. Init => ReadInv
  BY InitTypeInv, InitReaderInv DEF Init, ReadInv
<1>2. ReadInv /\ [Next]_vars => ReadInv'
  BY StepTypeInv, StepReaderInv DEF ReadInv
<1>. QED BY <1>1, <1>2, PTL DEF Spec

(* What each piece has given at the end, if it fits the buffer: what it    *)
(* means.                                                                  *)
LEMMA AllMeant ==
  ASSUME ReadInv, client = "c", ReadAll
  PROVE  /\ Len(input) \in Nat /\ DOMAIN input = 1 .. Len(input)
         /\ \A m \in 1 .. Len(input) : Length(m) \in Nat
         /\ \E got \in Seq(Seq(Packet)) :
              /\ Len(got) = Len(input) /\ packets = FlattenSeq(got)
              /\ \A m \in 1 .. Len(input) : Length(m) <= MaxLine => got[m] = Meant(Fields(m))
<1>1. input \in Seq(Piece)
  BY DEF ReadInv, ReaderInv, ReadAll, Divides
<1>2. Len(input) \in Nat /\ DOMAIN input = 1 .. Len(input)
  BY <1>1, LenProperties
<1>3. ASSUME NEW m \in 1 .. Len(input)
      PROVE  Length(m) \in Nat /\ Result[Text(Fields(m))] = Meant(Fields(m))
  <2>1. Fields(m) \in Seq(Field) /\ Text(Fields(m)) \in Line
    BY <1>1, FieldsIs
  <2>2. PICK f \in Seq(Field) : f = Fields(m)
    BY <2>1
  <2>3. Result[Text(f)] = Meant(f)
    BY ResultIsMeant
  <2>. QED BY <2>1, <2>2, <2>3 DEF Length, Line
<1>4. PICK got \in Seq(Seq(Packet)) :
        /\ Len(got) = Len(input) /\ packets = FlattenSeq(got)
        /\ \A m \in 1 .. Len(input) : Length(m) <= MaxLine => got[m] = Result[Text(Fields(m))]
  BY AllRead DEF ReadInv, TypeInv, ReadAll
<1>. QED BY <1>2, <1>3, <1>4

(* RecordsRead: if every piece fits the buffer, send_iris has read, at the *)
(* end of an input of any length, the result that each piece means by its  *)
(* fields, in order, and none else (iris.c:477-526).                       *)
THEOREM RecordsReadCorrect == Spec => []RecordsRead
<1>1. ReadInv => RecordsRead
  <2>. SUFFICES ASSUME ReadInv, client = "c", ReadAll, \A n \in DOMAIN input : Length(n) <= MaxLine
                PROVE  packets = Results(1, Len(input))
    BY DEF RecordsRead
  <2>1. Len(input) \in Nat /\ DOMAIN input = 1 .. Len(input)
    BY AllMeant
  <2>2. PICK P : P = Seq(Packet)
    OBVIOUS
  <2>3. PICK got \in Seq(P) :
          /\ Len(got) = Len(input) /\ packets = FlattenSeq(got)
          /\ \A m \in 1 .. Len(input) : Length(m) <= MaxLine => got[m] = Meant(Fields(m))
    BY <2>2, AllMeant
  <2>4. ASSUME NEW m \in 1 .. Len(got) PROVE got[m] = Meant(Fields(1 + m - 1))
    <3>1. 1 + m - 1 = m /\ Length(m) <= MaxLine
      BY <2>1, <2>3
    <3>. QED BY <2>3, <3>1
  <2>5. Len(got) = Len(input) - 1 + 1
    BY <2>1, <2>3
  <2>6. Results(1, Len(input)) = FlattenSeq(got)
    BY <2>1, <2>4, <2>5, ResultsOf
  <2>. QED BY <2>3, <2>6
<1>. QED BY <1>1, ReadInvHolds, PTL

(* SplitContained: where one piece alone does not fit the buffer, what     *)
(* send_iris reads begins with the results of the pieces before it and     *)
(* ends with those of the pieces behind it: nothing that the split makes   *)
(* of that piece reaches a neighbour (iris.c:494-512).                     *)
THEOREM SplitContainedCorrect == Spec => []SplitContained
<1>1. ReadInv => SplitContained
  <2>. SUFFICES ASSUME ReadInv, client = "c", ReadAll, NEW n \in DOMAIN input,
                       \A m \in DOMAIN input : Length(m) > MaxLine <=> m = n
                PROVE  /\ IsPrefix(Results(1, n - 1), packets)
                       /\ IsSuffix(Results(n + 1, Len(input)), packets)
    BY DEF SplitContained
  <2>1. PICK l \in Nat : l = Len(input) /\ DOMAIN input = 1 .. l /\ n \in 1 .. l
    BY AllMeant
  <2>2. PICK got \in Seq(Seq(Packet)) :
          /\ Len(got) = l /\ packets = FlattenSeq(got)
          /\ \A m \in 1 .. l : Length(m) <= MaxLine => got[m] = Meant(Fields(m))
    BY <2>1, AllMeant
  <2>3. \A m \in 1 .. l : m # n => got[m] = Meant(Fields(m))
    <3>1. MaxLine \in Nat /\ \A m \in 1 .. l : Length(m) \in Nat
      BY <2>1, AllMeant, LengthAssumption
    <3>2. ASSUME NEW m \in 1 .. l, m # n PROVE got[m] = Meant(Fields(m))
      <4>1. ~(Length(m) > MaxLine)
        BY <2>1, <3>2
      <4>2. Length(m) <= MaxLine
        BY <3>1, <4>1
      <4>. QED BY <2>2, <4>2
    <3>. QED BY <3>2
  <2>4. PICK P, Q : P = Packet /\ Q = Seq(P) /\ got \in Seq(Q)
    BY <2>2
  <2> DEFINE g == SubSeq(got, 1, n - 1)
             h == SubSeq(got, n + 1, Len(got))
  <2>5. /\ g \in Seq(Q) /\ Len(g) = n - 1 /\ \A m \in 1 .. n - 1 : g[m] = got[m]
        /\ h \in Seq(Q) /\ Len(h) = Len(got) - n /\ \A m \in 1 .. Len(got) - n : h[m] = got[n + m]
        /\ got = g \o (<<got[n]>> \o h)
    <3>1. got \in Seq(Q) /\ n \in 1 .. Len(got)
      BY <2>1, <2>2, <2>4
    <3>2. /\ g \in Seq(Q) /\ Len(g) = n - 1 /\ \A m \in 1 .. n - 1 : g[m] = got[m]
          /\ h \in Seq(Q) /\ Len(h) = Len(got) - n /\ \A m \in 1 .. Len(got) - n : h[m] = got[n + m]
      <4>1. g \in Seq(Q) /\ Len(g) = n - 1 /\ \A m \in 1 .. n - 1 : g[m] = got[m]
        BY <3>1, FrontOf
      <4>2. h \in Seq(Q) /\ Len(h) = Len(got) - n /\ \A m \in 1 .. Len(got) - n : h[m] = got[n + m]
        BY <3>1, BackOf
      <4>. QED BY <4>1, <4>2
    <3>3. got = g \o (<<got[n]>> \o h)
      BY <3>1, Splits
    <3>. QED BY <3>2, <3>3
  <2> HIDE DEF g, h
  <2>6. Results(1, n - 1) = FlattenSeq(g)
    <3>1. ASSUME NEW m \in 1 .. Len(g) PROVE g[m] = Meant(Fields(1 + m - 1))
      <4>0. Len(g) = n - 1 /\ g[m] = got[m]
        BY <2>5
      <4>1. m \in 1 .. n - 1 /\ m \in 1 .. l /\ m # n /\ 1 + m - 1 = m
        BY <2>1, <4>0
      <4>. QED BY <2>3, <4>0, <4>1
    <3>2. 1 \in Nat /\ n - 1 \in Int /\ Len(g) = (n - 1) - 1 + 1
      BY <2>1, <2>5
    <3>. QED BY <2>5, <3>1, <3>2, ResultsOf
  <2>7. Results(n + 1, l) = FlattenSeq(h)
    <3>1. ASSUME NEW m \in 1 .. Len(h) PROVE h[m] = Meant(Fields((n + 1) + m - 1))
      <4>1. Len(h) = l - n /\ Len(got) = l
        BY <2>2, <2>5
      <4>2. m \in 1 .. Len(got) - n /\ n + m \in 1 .. l /\ n + m # n /\ (n + 1) + m - 1 = n + m
        BY <2>1, <4>1
      <4>. QED BY <2>3, <2>5, <4>2
    <3>2. n + 1 \in Nat /\ l \in Int /\ Len(h) = l - (n + 1) + 1
      BY <2>1, <2>2, <2>5
    <3>. QED BY <2>5, <3>1, <3>2, ResultsOf
  <2>8. PICK o \in Seq(Q) : o = <<got[n]>>
    <3>1. n \in 1 .. Len(got)
      BY <2>1, <2>2
    <3>2. PICK q \in Q : q = got[n]
      BY <2>4, <3>1, ElementOfSeq
    <3>3. <<q>> \in Seq(Q)
      OBVIOUS
    <3>. QED BY <3>2, <3>3
  <2>9. PICK r \in Seq(Q) : r = o \o h
    BY <2>5, ConcatProperties
  <2>10. PICK x \in Q, y \in Q, z \in Q, w \in Q :
           x = FlattenSeq(g) /\ y = FlattenSeq(o) /\ z = FlattenSeq(h) /\ w = FlattenSeq(r)
    BY <2>4, <2>5, FlattenType
  <2>11. w = y \o z /\ packets = x \o w
    <3>1. FlattenSeq(o \o h) = FlattenSeq(o) \o FlattenSeq(h)
      BY <2>4, <2>5, FlattenConcat
    <3>2. FlattenSeq(g \o r) = FlattenSeq(g) \o FlattenSeq(r)
      BY <2>4, <2>5, FlattenConcat
    <3>3. got = g \o r
      BY <2>5, <2>8, <2>9
    <3>. QED BY <2>2, <2>9, <2>10, <3>1, <3>2, <3>3, Zenon
  <2>12. packets = (x \o y) \o z /\ x \o y \in Seq(P)
    <3>1. x \in Seq(P) /\ y \in Seq(P) /\ z \in Seq(P)
      BY <2>4, <2>10
    <3>2. (x \o y) \o z = x \o (y \o z) /\ x \o y \in Seq(P)
      <4>1. (x \o y) \o z = x \o (y \o z)
        BY <3>1, ConcatAssociative, SMTT(30)
      <4>2. x \o y \in Seq(P)
        BY <3>1, ConcatProperties
      <4>. QED BY <4>1, <4>2
    <3>. QED BY <2>11, <3>2, Zenon
  <2>13. IsPrefix(x, packets)
    BY <2>4, <2>10, <2>11, PrefixOfJoin
  <2>14. IsSuffix(z, packets)
    <3>1. PICK v \in Seq(P) : v = x \o y /\ packets = v \o z
      BY <2>12
    <3>. QED BY <2>4, <2>10, <3>1, SuffixOfJoin
  <2>. QED BY <2>1, <2>6, <2>7, <2>10, <2>13, <2>14
<1>. QED BY <1>1, ReadInvHolds, PTL

(* OverrunOnlyIfLong: whatever the input, the NUL is written behind the    *)
(* buffer if and only if a piece of MaxLine bytes or more has been read    *)
(* (iris.c:494-503), however the pieces before it were split.              *)
THEOREM OverrunOnlyIfLongCorrect == Spec => []OverrunOnlyIfLong
<1>1. ReadInv => OverrunOnlyIfLong
  <2>. SUFFICES ASSUME ReadInv, client = "c", ReadAll
                PROVE  overran <=> \E n \in DOMAIN input : Length(n) >= MaxLine
    BY DEF OverrunOnlyIfLong
  <2>1. overran <=> \E n \in 1 .. Len(input) : Length(n) >= MaxLine
    BY AllRead DEF ReadInv, TypeInv, ReadAll
  <2>2. DOMAIN input = 1 .. Len(input)
    BY LenProperties DEF ReadInv, ReaderInv, ReadAll, Divides
  <2>. QED BY <2>1, <2>2
<1>. QED BY <1>1, ReadInvHolds, PTL

LEMMA PerlInvHolds == Spec => [](TypeInv /\ PerlInv)
<1>1. Init => TypeInv /\ PerlInv
  BY InitTypeInv, InitPerlInv DEF Init
<1>2. TypeInv /\ PerlInv /\ [Next]_vars => PerlInv'
  <2>. SUFFICES ASSUME TypeInv, PerlInv, [Next]_vars PROVE PerlInv'
    OBVIOUS
  <2>1. CASE Read
    <3>1. CASE ReadLine
      BY <3>1 DEF ReadLine, PerlInv
    <3>2. CASE NoMemory
      BY <3>2 DEF NoMemory, PerlInv
    <3>3. CASE ReadPiece
      BY <3>3, ReadPieceInv DEF TypeInv
    <3>. QED BY <2>1, <3>1, <3>2, <3>3 DEF Read, ReaderNext
  <2>2. CASE UNCHANGED readerVars
    BY <2>2, SamePerl
  <2>. QED
    BY <2>1, <2>2
    DEF Next, Program, Broker, vars, StartClock, Connect, ConnectFails, Write, WriteFails, Finish,
        Sink, Leave, alarm_handler, Take, CloseAtEof, Reset
<1>. QED BY <1>1, <1>2, StepTypeInv, PTL DEF Spec

(* PerlAgrees: from an input of any length whose pieces are all tidy and   *)
(* well-formed, send_iris.pl has read, at the end, what each piece means   *)
(* to send_iris, but for the host checks and the words "0"                 *)
(* (send_iris.pl:61-90): the newline that it leaves behind an ETB, the     *)
(* space that it strips and its delimiter make no difference.              *)
THEOREM PerlAgreesCorrect == Spec => []PerlAgrees
<1>1. PerlInv => PerlAgrees
  <2>. SUFFICES ASSUME PerlInv, client = "perl", eof, WellFormed
                PROVE  packets = FlattenSeq([n \in DOMAIN input |-> MeantInPerl(input[n].fields)])
    BY DEF PerlAgrees
  <2>1. Len(input) \in Nat /\ DOMAIN input = 1 .. Len(input)
    BY LenProperties DEF PerlInv, Divides
  <2>2. PICK P : P = Seq(Packet)
    OBVIOUS
  <2>3. PICK got \in Seq(P) :
          /\ packets = FlattenSeq(got) /\ Len(got) = Len(input)
          /\ \A m \in 1 .. Len(got) : got[m] = MeantInPerl(input[m].fields)
    BY <2>2 DEF PerlInv
  <2>4. got = [n \in DOMAIN input |-> MeantInPerl(input[n].fields)]
    <3>1. DOMAIN got = 1 .. Len(got) /\ got = [n \in 1 .. Len(got) |-> got[n]]
      BY LenProperties
    <3>. QED BY <2>1, <2>3, <3>1
  <2>. QED BY <2>3, <2>4
<1>. QED BY <1>1, PerlInvHolds, PTL

-----------------------------------------------------------------------------
(***************************************************************************)
(* What send_iris and the broker have between them.  The broker takes a    *)
(* PDU only when all of it has been written; it closes only when the       *)
(* client has shut down, and by then everything is written and no whole    *)
(* PDU is left to take; and the client exits with 0 only after that.       *)
(***************************************************************************)
SendInv ==
  C => /\ Typed
       /\ written \in Nat /\ taken \in Nat /\ Parts * taken <= written
       /\ pc \in {"sink", "leave"} => written = Total
       /\ pc = "leave" => peer \in {"closed", "reset"}
       /\ exit = 0 => pc = "gone" /\ written = Total /\ peer \in {"closed", "reset"}
       /\ peer = "closed" => pc \in {"sink", "leave", "gone"} /\ ~Whole

LEMMA InitSendInv == Init => SendInv
<1>. SUFFICES ASSUME Init PROVE SendInv
  OBVIOUS
<1>1. Typed
  BY InitTyped DEF Init
<1>. QED BY <1>1, PartsAssumption DEF Init, SendInv

LEMMA StepSendInv == SendInv /\ [Next]_vars => SendInv'
<1>. SUFFICES ASSUME SendInv, C, [Next]_vars PROVE SendInv'
  <2>1. [Next]_vars => C' = C
    BY DEF Next, Program, Broker, vars, sendVars, readerVars, C, Read, ReaderNext, ReadLine,
           NoMemory, ReadPiece, StartClock, Connect, ConnectFails, Write, WriteFails, Finish,
           Sink, Leave, alarm_handler, Take, CloseAtEof, Reset
  <2>. QED BY <2>1 DEF SendInv
<1>. USE DEF SendInv
<1>1. CASE Read
  <2>1. Typed'
    <3>1. CASE ReadLine
      BY <3>1, ReadLineTyped
    <3>2. CASE NoMemory
      BY <3>2 DEF NoMemory, Typed
    <3>. QED BY <1>1, <3>1, <3>2 DEF Read, ReaderNext, ReadPiece, C
  <2>. QED BY <1>1, <2>1 DEF Read, sendVars, Whole
<1>2. CASE \/ StartClock \/ Connect \/ ConnectFails \/ Finish \/ Sink \/ Leave
           \/ alarm_handler \/ CloseAtEof \/ Reset \/ UNCHANGED vars
  BY <1>2 DEF StartClock, Connect, ConnectFails, Finish, Sink, EndOfFile, Leave, Exits,
              alarm_handler, CloseAtEof, ShutDown, Reset, vars, sendVars, readerVars, Typed,
              Total, Whole, C
<1>3. CASE Write \/ WriteFails
  BY <1>3, PartsAssumption DEF Write, WriteFails, Exits, readerVars, Typed, Total, Whole, C
<1>4. CASE Take
  BY <1>4, PartsAssumption DEF Take, readerVars, Typed, Total, Whole, C
<1>. QED BY <1>1, <1>2, <1>3, <1>4 DEF Next, Program, Broker

LEMMA NoneLeft ==
  ASSUME NEW p \in Nat \ {0}, NEW t \in Nat, NEW n \in Nat,
         p * t <= p * n, ~(p * (t + 1) <= p * n)
  PROVE  t = n
  OBVIOUS

(* When send_iris reports "Sent %d results" (send_iris.c:119-129) they have *)
(* all been written, and the broker has read them unless it reset the       *)
(* connection: whatever the input, and however the broker's reads, the      *)
(* network and the alarm interleave with the writes.                        *)
THEOREM SentIsTaken == Spec => []SentMeansTaken
<1>1. SendInv => SentMeansTaken
  <2>. SUFFICES ASSUME SendInv, C, exit = 0, peer # "reset" PROVE taken = Len(packets)
    BY DEF SentMeansTaken, SendInv
  <2>1. Len(packets) \in Nat
    BY DEF SendInv, Typed
  <2>2. ~(Parts * (taken + 1) <= Parts * Len(packets)) /\ Parts * taken <= Parts * Len(packets)
    BY DEF SendInv, Whole, Total
  <2>. QED BY <2>1, <2>2, NoneLeft, PartsAssumption DEF SendInv
<1>. QED BY <1>1, InitSendInv, StepSendInv, PTL DEF Spec

-----------------------------------------------------------------------------
(***************************************************************************)
(* What the termination of the clients rests on.                           *)
(***************************************************************************)
LEMMA BehindIsShorter ==
  ASSUME NEW s \in Line, NEW end \in Bytes
  PROVE  Behind[s][end] = <<>> \/ Len(Behind[s][end]) < Len(s)
<1> DEFINE I == {i \in 1 .. Len(s) : s[i] \in end}
           n == IF I # {} THEN Min(I) ELSE 0
<1>1. Len(s) \in Nat
  BY DEF Line
<1>2. n \in 0 .. Len(s)
  BY <1>1, MinIsMember
<1>3. Behind[s][end] = IF n = 0 THEN <<>> ELSE SubSeq(s, n + 1, Len(s))
  BY DEF Behind, SelectInSeq
<1> HIDE DEF n
<1>4. CASE n # 0
  <2>1. Len(SubSeq(s, n + 1, Len(s))) = IF n + 1 <= Len(s) THEN Len(s) - n ELSE 0
    BY <1>1, <1>2, PartOfLine
  <2>. QED BY <1>1, <1>2, <1>3, <1>4, <2>1
<1>. QED BY <1>3, <1>4

(* Each turn of the loops of read_packets (iris.c:477-526) and of          *)
(* send_iris.pl:61-92 comes closer to the end of the input, although a     *)
(* byte may be given back and a full buffer may hold no result; but not    *)
(* when the stream fails.                                                  *)
Advances == Read /\ fault # "stream" => eof' \/ Len(rest') < Len(rest)

THEOREM ReadingAdvances == Spec => [][Advances]_vars
<1>1. TypeInv => Advances
  <2>. SUFFICES ASSUME TypeInv, ReaderNext, fault # "stream", ~eof'
                PROVE  Len(rest') < Len(rest)
    BY DEF Advances, Read
  <2>0. rest \in Line /\ Len(rest) \in Nat
    BY DEF TypeInv, Typed, Line
  <2>1. CASE ReadLine
    <3> DEFINE n == LineLength(rest)
               next == SubSeq(rest, n + 2, Len(rest))
    <3>1. n \in Nat /\ Len(rest) > n + 1 /\ rest' = Ungetc(next)
      <4>1. /\ Before[rest][{ETB}] \in Line
            /\ Len(Before[rest][{ETB}]) <= Len(rest)
        BY <2>0, Names, BeforeIsLine
      <4>2. n \in Nat
        BY <4>1, LengthAssumption DEF LineLength, InBuffer, Line
      <4>3. ~(Len(rest) <= n + 1)
        BY <2>1 DEF ReadLine
      <4>. QED BY <2>0, <2>1, <4>2, <4>3 DEF ReadLine
    <3> HIDE DEF n
    <3>2. next \in Line /\ Len(next) = Len(rest) - n - 1
      BY <2>0, <3>1, PartOfLine
    <3> HIDE DEF next
    <3>3. Len(Ungetc(next)) <= Len(next)
      BY <3>2, HeadTailProperties DEF Ungetc, Line
    <3>4. Len(Ungetc(next)) \in Nat
      BY <3>2, HeadTailProperties DEF Ungetc, Line
    <3>. QED BY <2>0, <3>1, <3>2, <3>3, <3>4
  <2>2. CASE NoMemory
    BY <2>2 DEF NoMemory
  <2>3. CASE ReadPiece
    BY <2>0, <2>3, Names, BehindIsShorter DEF ReadPiece
  <2>. QED BY <2>1, <2>2, <2>3 DEF ReaderNext
<1>. QED BY <1>1, InitTypeInv, StepTypeInv, PTL DEF Spec
=============================================================================
