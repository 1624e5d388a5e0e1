-------------------------- MODULE TunnelServerProofs --------------------------
(***************************************************************************)
(* Theorems of TunnelServer, for all numbers of sessions, all ranges of    *)
(* ports and all packets: the tables name sessions that exist, no null     *)
(* pointer is used, no client hears the answer to its packet, and every    *)
(* packet leaves with checksums its receiver finds right.                  *)
(***************************************************************************)
EXTENDS TunnelServer, WellFoundedInduction, SequenceTheorems, TLAPS

\* A set of numbers that is not empty has a least element.
LEMMA HasLeast ==
  ASSUME NEW S, S \subseteq Nat, S # {}
  PROVE  \E x \in S : \A y \in S : x <= y
<1> DEFINE R == OpToRel(<, Nat)
<1>1. IsWellFoundedOn(R, Nat)
  BY NatLessThanWellFounded
<1>2. \A x, y \in Nat : x < y => <<x, y>> \in R
  BY DEF OpToRel
<1> HIDE DEF R
<1>3. PICK x \in S : \A y \in S : ~(<<y, x>> \in R)
  BY <1>1, WFMin
<1>4. ASSUME NEW y \in S
      PROVE  x <= y
  <2>1. x \in Nat /\ y \in Nat
    OBVIOUS
  <2>2. ~(y < x)
    BY <1>2, <1>3, <2>1, Zenon
  <2> QED
    BY <2>1, <2>2
<1> QED
  BY <1>4

-----------------------------------------------------------------------------
(* The checksums.  Folding a sum to 16 bits keeps its remainder by 0xffff, *)
(* which adding the complement makes 0.                                    *)

Carried(sum) == (sum % 65536) + (sum \div 65536)

\* What the loop over the carries computes.
Remainder(sum) == IF sum <= 65535 THEN sum ELSE ((sum - 1) % 65535) + 1

LEMMA CarryKeeps ==
  ASSUME NEW sum \in Nat, sum > 65535
  PROVE  /\ Carried(sum) \in Nat /\ Carried(sum) < sum
         /\ Remainder(Carried(sum)) = Remainder(sum)
<1> DEFINE q == sum \div 65536
           r == sum % 65536
<1>1. q \in Nat /\ r \in Nat /\ r <= 65535 /\ sum = 65536 * q + r
  BY SMT
<1>2. Carried(sum) = r + q
  BY SMT DEF Carried
<1> HIDE DEF q, r
<1>3. q >= 1 /\ r + q < sum
  BY SMT, <1>1
<1>4. (sum - 1) % 65535 = ((r + q) - 1) % 65535
  BY SMT, <1>1, <1>3
<1>5. Remainder(r + q) = ((sum - 1) % 65535) + 1
  BY SMT, <1>1, <1>3, <1>4 DEF Remainder
<1> QED
  BY SMT, <1>1, <1>2, <1>3, <1>5 DEF Remainder

LEMMA FoldedIsRemainder == \A sum \in Nat : Folded[sum] = Remainder(sum)
<1> DEFINE Folds(g) == g = [sum \in Nat |-> IF sum < 65536 THEN sum
                              ELSE g[(sum % 65536) + (sum \div 65536)]]
           f == [sum \in Nat |-> Remainder(sum)]
<1>1. Folds(f)
  <2>1. ASSUME NEW sum \in Nat
        PROVE  f[sum] = IF sum < 65536 THEN sum
                        ELSE f[(sum % 65536) + (sum \div 65536)]
    BY SMT, CarryKeeps DEF Remainder, Carried
  <2> QED
    BY SMT, <2>1
<1>2. Folded = CHOOSE g : Folds(g)
  BY SMT DEF Folded
<1> HIDE DEF f
<1>3. Folds(Folded)
  <2> HIDE DEF Folds
  <2> QED
    BY <1>1, <1>2, Zenon
<1>4. ASSUME NEW sum \in Nat
      PROVE  /\ sum <= 65535 => Folded[sum] = Remainder(sum)
             /\ sum > 65535 => Folded[sum] = Folded[Carried(sum)]
  BY SMT, <1>3 DEF Remainder, Carried
<1> HIDE DEF Folds
<1> DEFINE Bad == {sum \in Nat : Folded[sum] # Remainder(sum)}
<1>5. Bad = {}
  <2> SUFFICES ASSUME Bad # {} PROVE FALSE
    OBVIOUS
  <2>1. PICK sum \in Bad : \A other \in Bad : sum <= other
    <3>1. Bad \subseteq Nat
      OBVIOUS
    <3> HIDE DEF Bad
    <3> QED
      BY <3>1, HasLeast, Zenon
  <2>2. sum \in Nat /\ Folded[sum] # Remainder(sum)
    BY <2>1
  <2>3. sum > 65535 /\ Folded[sum] = Folded[Carried(sum)]
    BY SMT, <2>2, <1>4
  <2>4. /\ Carried(sum) \in Nat /\ Carried(sum) < sum
        /\ Remainder(Carried(sum)) = Remainder(sum)
    BY SMT, <2>2, <2>3, CarryKeeps
  <2>5. ~(sum <= Carried(sum))
    BY <2>2, <2>4
  <2> QED
    BY <2>1, <2>2, <2>3, <2>4, <2>5
<1> QED
  BY <1>5

\* A sum and its complement fold to 0xffff.
LEMMA ComplementFolds ==
  ASSUME NEW sum \in Nat
  PROVE  /\ Folded[sum] \in Nat /\ Folded[sum] <= 65535
         /\ Folded[sum + (65535 - Folded[sum])] = 65535
<1>1. /\ Remainder(sum) \in Nat /\ Remainder(sum) <= 65535
      /\ Remainder(sum + (65535 - Remainder(sum))) = 65535
  <2>1. CASE sum <= 65535
    <3>1. Remainder(sum) = sum /\ sum + (65535 - sum) = 65535
      BY SMT, <2>1 DEF Remainder
    <3>2. Remainder(65535) = 65535
      BY SMT DEF Remainder
    <3> QED
      BY SMT, <2>1, <3>1, <3>2
  <2>2. CASE sum > 65535
    <3> DEFINE k == (sum - 1) \div 65535
               m == (sum - 1) % 65535
    <3>1. /\ k \in Nat /\ m \in Nat /\ m <= 65534 /\ sum = 65535 * k + m + 1
          /\ Remainder(sum) = m + 1
      BY SMT, <2>2 DEF Remainder
    <3> HIDE DEF k, m
    <3>2. k >= 1 /\ sum + (65535 - (m + 1)) = 65535 * (k + 1)
      BY SMT, <2>2, <3>1
    <3>3. Remainder(65535 * (k + 1)) = 65535
      BY SMT, <3>1, <3>2 DEF Remainder
    <3> QED
      BY SMT, <3>1, <3>2, <3>3
  <2> QED
    BY SMT, <2>1, <2>2
<1>2. Folded[sum] = Remainder(sum)
  BY FoldedIsRemainder
<1>3. sum + (65535 - Remainder(sum)) \in Nat
  BY SMT, <1>1
<1>4. Folded[sum + (65535 - Remainder(sum))] = Remainder(sum + (65535 - Remainder(sum)))
  BY SMT, <1>3, FoldedIsRemainder
<1> QED
  BY SMT, <1>1, <1>2, <1>4

\* The sums of the first words.
Sums(words, f, n) ==
  f = [i \in 0 .. n |-> IF i = 0 THEN 0 ELSE f[i - 1] + words[i]]

LEMMA SumsExist ==
  ASSUME NEW words \in Seq(Nat)
  PROVE  \A n \in 0 .. Len(words) : \E f : Sums(words, f, n)
<1> DEFINE Bad == {n \in 0 .. Len(words) : ~\E f : Sums(words, f, n)}
<1>0. Len(words) \in Nat
  OBVIOUS
<1>1. Bad = {}
  <2> SUFFICES ASSUME Bad # {} PROVE FALSE
    OBVIOUS
  <2>1. PICK n \in Bad : \A other \in Bad : n <= other
    <3>1. Bad \subseteq Nat
      OBVIOUS
    <3> HIDE DEF Bad
    <3> QED
      BY <3>1, HasLeast, Zenon
  <2>2. n # 0
    <3>1. Sums(words, [i \in 0 .. 0 |-> 0], 0)
      BY DEF Sums
    <3> QED
      BY <2>1, <3>1
  <2>3. n - 1 \in 0 .. Len(words) /\ n - 1 \notin Bad
    <3>1. n \in 0 .. Len(words)
      BY <2>1
    <3> HIDE DEF Bad
    <3>2. n - 1 \in 0 .. Len(words) /\ ~(n <= n - 1)
      BY <1>0, <2>2, <3>1
    <3> QED
      BY <2>1, <3>2, Zenon
  <2>4. PICK f : Sums(words, f, n - 1)
    BY <2>3
  <2> DEFINE g == [i \in 0 .. n |-> IF i = n THEN f[n - 1] + words[n] ELSE f[i]]
  <2>5. Sums(words, g, n)
    <3>1. ASSUME NEW i \in 0 .. n
          PROVE  g[i] = IF i = 0 THEN 0 ELSE g[i - 1] + words[i]
      <4>1. CASE i = n
        <5>1. n - 1 \in 0 .. n /\ n - 1 # n
          BY <1>0, <2>1, <2>2
        <5> QED
          BY <2>2, <4>1, <5>1
      <4>2. CASE i # n
        <5>1. i \in 0 .. n - 1
          BY <1>0, <2>1, <4>2
        <5>2. g[i] = f[i] /\ f[i] = IF i = 0 THEN 0 ELSE f[i - 1] + words[i]
          BY <2>4, <4>2, <5>1 DEF Sums
        <5>3. i # 0 => i - 1 \in 0 .. n /\ i - 1 # n
          BY <1>0, <2>1, <5>1
        <5> QED
          BY <5>2, <5>3
      <4> QED
        BY <4>1, <4>2
    <3>2. g = [i \in 0 .. n |-> g[i]]
      OBVIOUS
    <3> HIDE DEF g
    <3> QED
      BY <3>1, <3>2 DEF Sums
  <2> QED
    BY <2>1, <2>5
<1> QED
  BY <1>1

\* Numbers add up to a number.
LEMMA SumType ==
  ASSUME NEW words \in Seq(Nat)
  PROVE  Sum(words) \in Nat
<1> DEFINE upTo == CHOOSE f : Sums(words, f, Len(words))
<1>0. Len(words) \in Nat
  OBVIOUS
<1>1. Sum(words) = upTo[Len(words)]
  BY DEF Sum, Sums
<1>2. Sums(words, upTo, Len(words))
  <2>1. Len(words) \in 0 .. Len(words)
    BY <1>0
  <2>2. \E f : Sums(words, f, Len(words))
    BY <2>1, SumsExist
  <2> QED
    BY <2>2, Zenon
<1> HIDE DEF upTo
<1> DEFINE Bad == {n \in 0 .. Len(words) : upTo[n] \notin Nat}
<1>3. Bad = {}
  <2> SUFFICES ASSUME Bad # {} PROVE FALSE
    OBVIOUS
  <2>1. PICK n \in Bad : \A other \in Bad : n <= other
    <3>1. Bad \subseteq Nat
      OBVIOUS
    <3> HIDE DEF Bad
    <3> QED
      BY <3>1, HasLeast, Zenon
  <2>2. upTo[n] = IF n = 0 THEN 0 ELSE upTo[n - 1] + words[n]
    BY <1>2, <2>1 DEF Sums
  <2>3. n # 0
    BY <2>1, <2>2
  <2>4. n - 1 \in 0 .. Len(words) /\ n - 1 \notin Bad /\ n \in 1 .. Len(words)
    BY <1>0, <2>1, <2>3
  <2>5. upTo[n - 1] \in Nat /\ words[n] \in Nat
    BY <2>4
  <2> QED
    BY <2>1, <2>2, <2>3, <2>5
<1> QED
  BY <1>0, <1>1, <1>3

LEMMA WordsAreNumbers ==
  /\ Word \subseteq Nat /\ Byte \subseteq Nat
  /\ \A n \in Nat : n <= 65535 => n \in Word
<1>1. PICK byte \in Nat, word \in Nat : byte = 255 /\ word = 65535
  BY SMT
<1>2. Byte = 0 .. byte /\ Word = 0 .. word
  BY SMT, <1>1 DEF Byte, Word
<1>3. Byte \subseteq Nat /\ Word \subseteq Nat /\ \A n \in Nat : n <= word => n \in Word
  BY SMT, <1>2
<1>4. \A n \in Nat : n <= 65535 => n <= word
  BY SMT, <1>1
<1> QED
  BY SMT, <1>3, <1>4

\* The complement of any sum of words is a word, and right.
LEMMA ComplementVerifies ==
  ASSUME NEW words \in Seq(Nat)
  PROVE  Complement(words) \in Word /\ Verifies(words, Complement(words))
<1>1. Sum(words) \in Nat
  BY SumType
<1>2. /\ Folded[Sum(words)] \in Nat /\ Folded[Sum(words)] <= 65535
      /\ Folded[Sum(words) + (65535 - Folded[Sum(words)])] = 65535
  BY <1>1, ComplementFolds
<1>3. Verifies(words, Complement(words))
  BY SMT, <1>2 DEF Verifies, Complement
<1>4. 65535 - Folded[Sum(words)] \in Nat /\ 65535 - Folded[Sum(words)] <= 65535
  BY SMT, <1>2
<1> QED
  BY SMT, <1>3, <1>4, WordsAreNumbers DEF Complement

\* What the checksums are made of.
Summed(packet) ==
  /\ packet.source \in Seq(Nat) /\ packet.dest \in Seq(Nat)
  /\ packet.port \in Nat /\ packet.destPort \in Nat
  /\ packet.payload.content \in Seq(Nat) /\ packet.payload.beyond \in Nat

LEMMA PairsType ==
  ASSUME NEW bytes \in Seq(Nat), NEW behind \in Nat
  PROVE  /\ Pairs(bytes, behind) \in Seq(Nat)
         /\ Len(bytes) % 2 = 0 => Pairs(bytes, behind) = Pairs(bytes, 0)
<1> DEFINE n == (Len(bytes) + 1) \div 2
           pair(i, b) == 256 * bytes[2 * i - 1] + (IF 2 * i <= Len(bytes) THEN bytes[2 * i] ELSE b)
<1>1. Len(bytes) \in Nat /\ n \in Nat
  OBVIOUS
<1>2. ASSUME NEW i \in 1 .. n
      PROVE  2 * i - 1 \in 1 .. Len(bytes) /\ (2 * i <= Len(bytes) => 2 * i \in 1 .. Len(bytes))
  OBVIOUS
<1>3. ASSUME NEW i \in 1 .. n, NEW b \in Nat
      PROVE  pair(i, b) \in Nat
  <2>1. bytes[2 * i - 1] \in Nat /\ (2 * i <= Len(bytes) => bytes[2 * i] \in Nat)
    BY <1>2
  <2>2. PICK x, y : x = bytes[2 * i - 1] /\ y = IF 2 * i <= Len(bytes) THEN bytes[2 * i] ELSE b
    OBVIOUS
  <2>3. x \in Nat /\ y \in Nat
    BY <2>1, <2>2, Zenon
  <2>4. pair(i, b) = 256 * x + y
    BY <2>2, Zenon
  <2> QED
    BY <2>3, <2>4
<1>4. Pairs(bytes, behind) = [i \in 1 .. n |-> pair(i, behind)]
  BY DEF Pairs
<1>5. Pairs(bytes, behind) \in Seq(Nat)
  <2> HIDE DEF n, pair
  <2> QED
    BY <1>1, <1>3, <1>4, IsASeq
<1>6. ASSUME Len(bytes) % 2 = 0
      PROVE  Pairs(bytes, behind) = Pairs(bytes, 0)
  <2>1. \A i \in 1 .. n : 2 * i <= Len(bytes)
    BY <1>1, <1>6
  <2> QED
    BY <2>1 DEF Pairs
<1> QED
  BY <1>5, <1>6

LEMMA WordsType ==
  ASSUME NEW packet, Summed(packet), NEW behind \in Nat
  PROVE  /\ Ip4Words(packet) \in Seq(Nat)
         /\ TcpWords(packet, behind) \in Seq(Nat)
<1>1. Size(packet) \in Nat /\ Number(packet.protocol) \in Nat
  BY DEF Summed, Size, Number
<1>2. \A s, t \in Seq(Nat) : s \o t \in Seq(Nat)
  BY ConcatProperties
<1>3. Pairs(packet.payload.content, behind) \in Seq(Nat)
  BY PairsType DEF Summed
<1>4. /\ <<20 + Size(packet), Number(packet.protocol)>> \in Seq(Nat)
      /\ <<Number(packet.protocol), Size(packet), packet.port, packet.destPort>> \in Seq(Nat)
  BY <1>1 DEF Summed
<1>5. packet.source \in Seq(Nat) /\ packet.dest \in Seq(Nat)
  BY DEF Summed
<1> HIDE DEF Size, Number
<1>6. Ip4Words(packet) \in Seq(Nat)
  BY <1>2, <1>4, <1>5, Zenon DEF Ip4Words
<1>7. TcpWords(packet, behind) \in Seq(Nat)
  BY <1>2, <1>3, <1>4, <1>5, Zenon DEF TcpWords
<1> QED
  BY <1>6, <1>7

-----------------------------------------------------------------------------
(* The packet that is written.                                              *)

LEMMA SeqOfSubset ==
  ASSUME NEW S, NEW T, S \subseteq T
  PROVE  Seq(S) \subseteq Seq(T)
<1> SUFFICES ASSUME NEW s \in Seq(S) PROVE s \in Seq(T)
  OBVIOUS
<1>1. Len(s) \in Nat /\ s \in [1 .. Len(s) -> S]
  BY LenProperties
<1>2. s \in [1 .. Len(s) -> T]
  BY <1>1
<1> QED
  BY <1>1, <1>2, SeqDef

LEMMA Constants ==
  /\ MaxPort \in Nat /\ SessionLimit \in Nat
  /\ portFrom \in Nat /\ portFrom > 0 /\ portTo \in Nat /\ portTo <= MaxPort
  /\ ClientPort \subseteq 0 .. MaxPort /\ ClientId \subseteq Nat
  /\ \A p \in ClientPort : p \in Nat
  /\ IfAddress \in Seq(Nat)
  /\ \A sv \in Server : sv.ip \in Seq(Nat) /\ sv.port \in Nat
  /\ \A payload \in Payload : payload.content \in Seq(Nat) /\ payload.beyond \in Nat
  /\ null \notin [client : ClientId, clientPort : ClientPort, server : Server,
                  localPort : 0 .. MaxPort]
<1>1. /\ MaxPort \in Word /\ SessionLimit \in Nat
      /\ portFrom \in 1 .. MaxPort /\ portTo \in 0 .. MaxPort
      /\ ClientPort \subseteq 0 .. MaxPort
      /\ IfAddress \in Seq(Word)
      /\ Server \subseteq [ip : Seq(Word), port : Word]
      /\ Payload \subseteq [content : Seq(Byte), beyond : Byte]
      /\ null \notin [client : ClientId, clientPort : ClientPort, server : Server,
                      localPort : 0 .. MaxPort]
  BY TunnelServerAssumption, Zenon
<1>2. Word \subseteq Nat /\ Byte \subseteq Nat
  BY WordsAreNumbers
<1>3. \A s \in Seq(Word) : s \in Seq(Nat)
  BY <1>2, SeqOfSubset, Zenon
<1>4. \A s \in Seq(Byte) : s \in Seq(Nat)
  BY <1>2, SeqOfSubset, Zenon
<1>5. MaxPort \in Nat
  BY <1>1, <1>2
<1>6. portFrom \in Nat /\ portFrom > 0 /\ portTo \in Nat /\ portTo <= MaxPort
  BY <1>1, <1>5
<1>7. ClientId \subseteq Nat
  BY <1>1 DEF ClientId
<1>8. \A p \in ClientPort : p \in Nat
  BY <1>1, <1>5
<1>9. \A sv \in Server : sv.ip \in Seq(Nat) /\ sv.port \in Nat
  BY <1>1, <1>2, <1>3
<1>10. \A payload \in Payload : payload.content \in Seq(Nat) /\ payload.beyond \in Nat
  BY <1>1, <1>2, <1>4
<1> QED
  BY <1>1, <1>3, <1>5, <1>6, <1>7, <1>8, <1>9, <1>10

\* WireVerifies, of one packet.
Right(packet) ==
  /\ Verifies(Ip4Words(packet), packet.ip4Checksum)
  /\ packet.protocol = "TCP"
       /\ (Len(packet.payload.content) % 2 = 0 \/ packet.payload.beyond = 0) =>
       Verifies(TcpWords(packet, 0), packet.checksum)

\* The packet before its checksums are filled in.
Plain(packet, conn) ==
  [protocol |-> packet.protocol, source |-> IfAddress,
   dest |-> packet.server.ip, port |-> conn.clientPort,
   destPort |-> packet.server.port, payload |-> packet.payload]

LEMMA PlainSummed ==
  ASSUME NEW packet \in ClientPacket, NEW conn, conn.clientPort \in ClientPort
  PROVE  /\ Summed(Plain(packet, conn))
         /\ packet.server \in Server /\ packet.payload \in Payload
         /\ packet.protocol \in Protocol
<1>1. packet \in [protocol : Protocol, source : Seq(Word), port : ClientPort,
                  server : Server, payload : Payload]
  BY TunnelServerAssumption, Zenon
<1>2. packet.server \in Server /\ packet.payload \in Payload /\ packet.protocol \in Protocol
  BY <1>1
<1>3. conn.clientPort \in Nat
  BY Constants, Zenon
<1>4. /\ IfAddress \in Seq(Nat) /\ packet.server.ip \in Seq(Nat)
      /\ packet.server.port \in Nat
      /\ packet.payload.content \in Seq(Nat) /\ packet.payload.beyond \in Nat
  BY <1>2, Constants, Zenon
<1> QED
  BY <1>2, <1>3, <1>4 DEF Summed, Plain

\* What Rewritten makes of a packet.
LEMMA RewrittenRight ==
  ASSUME NEW packet \in ClientPacket, NEW conn, conn.clientPort \in ClientPort
  PROVE  /\ Rewritten(packet, conn) \in Written
         /\ Rewritten(packet, conn).port = conn.clientPort
         /\ Right(Rewritten(packet, conn))
<1> DEFINE new == Plain(packet, conn)
           ip4 == Complement(Ip4Words(new))
           sum == IF packet.protocol = "TCP"
                  THEN Complement(TcpWords(new, new.payload.beyond)) ELSE 0
           w == [protocol |-> new.protocol, source |-> IfAddress, dest |-> new.dest,
                 port |-> new.port, destPort |-> new.destPort, payload |-> new.payload,
                 checksum |-> sum, ip4Checksum |-> ip4]
<1>1. Rewritten(packet, conn) = w
  BY Zenon DEF Rewritten, Plain, SourceIP, SourcePort, TcpChecksum, Ip4Checksum
<1>2. /\ Summed(new) /\ packet.server \in Server /\ packet.payload \in Payload
      /\ packet.protocol \in Protocol
  BY PlainSummed
<1>3. new.payload.beyond \in Nat /\ new.payload.content \in Seq(Nat)
  BY <1>2 DEF Summed
<1>4. ip4 \in Word /\ Verifies(Ip4Words(new), ip4)
  BY <1>2, WordsType, ComplementVerifies
<1>5. /\ sum \in Word
      /\ packet.protocol = "TCP" => Verifies(TcpWords(new, new.payload.beyond), sum)
  <2>1. TcpWords(new, new.payload.beyond) \in Seq(Nat)
    BY <1>2, <1>3, WordsType
  <2>2. 0 \in Word
    BY SMT, WordsAreNumbers
  <2> QED
    BY <2>1, <2>2, ComplementVerifies
<1>6. /\ new.protocol = packet.protocol /\ new.source = IfAddress
      /\ new.dest = packet.server.ip /\ new.port = conn.clientPort
      /\ new.destPort = packet.server.port /\ new.payload = packet.payload
  BY DEF Plain
<1> HIDE DEF ip4, sum
<1>7. w \in Written /\ w.port = conn.clientPort
  <2>1. conn.clientPort \in 0 .. MaxPort
    BY Constants
  <2>2. /\ new.dest \in {sv.ip : sv \in Server} /\ new.destPort \in {sv.port : sv \in Server}
    BY <1>2, <1>6, Zenon
  <2> HIDE DEF new
  <2> QED
    BY <1>2, <1>4, <1>5, <1>6, <2>1, <2>2 DEF Written
<1>8. /\ w.protocol = new.protocol /\ w.source = new.source /\ w.dest = new.dest
      /\ w.port = new.port /\ w.destPort = new.destPort /\ w.payload = new.payload
      /\ w.checksum = sum /\ w.ip4Checksum = ip4
  BY <1>6
<1> HIDE DEF new, w
<1>9. Ip4Words(w) = Ip4Words(new) /\ \A b : TcpWords(w, b) = TcpWords(new, b)
  BY <1>8, Zenon DEF Ip4Words, TcpWords, Size
<1>10. ASSUME Len(w.payload.content) % 2 = 0 \/ w.payload.beyond = 0
       PROVE  TcpWords(new, new.payload.beyond) = TcpWords(new, 0)
  <2>1. Pairs(new.payload.content, new.payload.beyond) = Pairs(new.payload.content, 0)
    BY <1>3, <1>8, <1>10, PairsType
  <2> QED
    BY <2>1, Zenon DEF TcpWords
<1>11. Right(w)
  <2>1. Verifies(Ip4Words(w), w.ip4Checksum)
    BY <1>4, <1>8, <1>9
  <2>2. ASSUME w.protocol = "TCP",
               Len(w.payload.content) % 2 = 0 \/ w.payload.beyond = 0
        PROVE  Verifies(TcpWords(w, 0), w.checksum)
    BY <1>5, <1>6, <1>8, <1>9, <1>10, <2>2, Zenon
  <2> QED
    BY <2>1, <2>2 DEF Right
<1> QED
  BY <1>1, <1>7, <1>11

-----------------------------------------------------------------------------
(* A table, whichever of the two.                                           *)

Table(serverMap, clientMap, last) ==
  INSTANCE Napt WITH Client <- ClientId, Ranges <- {<<portFrom, portTo>>},
                     range <- <<portFrom, portTo>>

Connection == tcpNapt!Connection
ServerKey == Server \X (0 .. MaxPort)
ClientKey == ClientId \X ClientPort
Result == [client : ClientId, clientPort : ClientPort, server : Server,
           conn : Connection \cup {null}]

\* The keys of a _clientMap, all of one client; a _serverMap whose entries stand where
\* they belong (Napt's OneClientKeys and ServerMapConsistent).
KeysOf(clientMap) == {k \in ClientKey : clientMap[k] # null}

Tidy(serverMap, clientMap) ==
  /\ serverMap \in [ServerKey -> Connection \cup {null}]
  /\ clientMap \in [ClientKey -> Connection \cup {null}]
  /\ \A h, k \in KeysOf(clientMap) : h[1] = k[1]
  /\ \A k \in ServerKey :
       serverMap[k] # null =>
         serverMap[k].localPort = k[2] /\ k[2] \in portFrom .. portTo

LEMMA ConnectionType ==
  /\ Connection = [client : ClientId, clientPort : ClientPort, server : Server,
                   localPort : 0 .. MaxPort]
  /\ null \notin Connection
<1>1. Connection = [client : ClientId, clientPort : ClientPort, server : Server,
                   localPort : 0 .. MaxPort]
  BY DEF Connection, tcpNapt!Connection, tcpNapt!Port
<1> QED
  BY <1>1, Constants, Zenon

\* find returns a connection of the map, or null.
LEMMA FindType ==
  ASSUME NEW sm, NEW cm, NEW lt, Tidy(sm, cm), NEW ck \in ClientKey
  PROVE  Table(sm, cm, lt)!FindClient(ck) \in Connection \cup {null}
<1> DEFINE Same == Table(sm, cm, lt)!Same(ck)
           first == CHOOSE k \in Same : \A h \in Same : ~Table(sm, cm, lt)!Less(h, k)
<1>1. Same \subseteq KeysOf(cm)
  BY DEF Table!Same, Table!Keys, Table!ClientKey, KeysOf, ClientKey
<1>2. Table(sm, cm, lt)!FindClient(ck) = IF Same = {} THEN null ELSE cm[first]
  BY DEF Table!FindClient
<1>3. ASSUME Same # {}
      PROVE  first \in ClientKey
  <2>1. \A h \in Same : h[2] \in Nat
    BY <1>1, Constants DEF KeysOf, ClientKey
  <2>2. PICK k \in Same : \A h \in Same : k[2] <= h[2]
    <3> DEFINE S == {h[2] : h \in Same}
    <3>1. S \subseteq Nat /\ S # {}
      BY <1>3, <2>1
    <3> HIDE DEF S
    <3>2. PICK p \in S : \A q \in S : p <= q
      BY <3>1, HasLeast
    <3> QED
      BY <3>2 DEF S
  <2>3. \A h \in Same : ~Table(sm, cm, lt)!Less(h, k)
    <3> TAKE h \in Same
    <3>1. h[1] = k[1]
      BY <1>1 DEF Tidy
    <3>2. k[2] \in Nat /\ h[2] \in Nat /\ k[2] <= h[2]
      BY <2>1, <2>2
    <3> QED
      BY <3>1, <3>2 DEF Table!Less
  <2>4. first \in Same
    <3> HIDE DEF Same
    <3> QED
      BY <2>3, Zenon
  <2> QED
    BY <1>1, <2>4 DEF KeysOf
<1> HIDE DEF first
<1> QED
  BY <1>2, <1>3 DEF Tidy

LEMMA PlacesType ==
  ASSUME NEW sm, NEW cm, NEW lt, Tidy(sm, cm), NEW ck \in ClientKey,
         NEW k \in Table(sm, cm, lt)!Places(ck)
  PROVE  /\ k \in ClientKey
         /\ \A h \in KeysOf(cm) : h[1] = k[1]
<1> DEFINE Same == Table(sm, cm, lt)!Same(ck)
<1>1. Same = {h \in KeysOf(cm) : Table(sm, cm, lt)!Equivalent(h, ck)}
  BY DEF Table!Same, Table!Keys, Table!ClientKey, KeysOf, ClientKey
<1>2. Table(sm, cm, lt)!Places(ck) = IF Same = {} THEN {ck} ELSE Same
  BY DEF Table!Places
<1>3. CASE Same = {}
  <2>1. k = ck
    BY <1>2, <1>3
  <2>2. ASSUME NEW h \in KeysOf(cm), h[1] # ck[1]
        PROVE  Table(sm, cm, lt)!Equivalent(h, ck)
    BY <2>2 DEF Table!Equivalent, Table!Less
  <2> QED
    BY <1>1, <1>3, <2>1, <2>2
<1>4. CASE Same # {}
  <2>1. k \in KeysOf(cm)
    BY <1>1, <1>2, <1>4
  <2> QED
    BY <2>1 DEF KeysOf, Tidy
<1> QED
  BY <1>3, <1>4

\* The scan of a range that is not empty and ends before the last port finds a port.
LEMMA ScanFinds ==
  ASSUME NEW sm, NEW cm, NEW lt, NEW sv \in Server, portFrom <= portTo, portTo < MaxPort
  PROVE  Table(sm, cm, lt)!ScanPort(sv) \in portFrom .. portTo
<1> DEFINE Free == Table(sm, cm, lt)!Free(sv)
<1>1. Free \subseteq portFrom .. portTo
  BY DEF Table!Free, Table!PortFrom, Table!PortTo
<1>2. Table(sm, cm, lt)!ScanPort(sv) =
        IF Free # {} THEN CHOOSE p \in Free : \A q \in Free : p <= q ELSE portTo
  BY DEF Table!ScanPort, Table!PortFrom, Table!PortTo
<1>3. Free \subseteq Nat
  BY <1>1, Constants
<1> HIDE DEF Free
<1>4. Free # {} => (CHOOSE p \in Free : \A q \in Free : p <= q) \in Free
  BY <1>3, HasLeast, Zenon
<1>5. portTo \in portFrom .. portTo
  BY Constants
<1> QED
  BY <1>1, <1>2, <1>4, <1>5

\* A connection that enters both maps leaves them tidy.
LEMMA StoreKeeps ==
  ASSUME NEW sm, NEW cm, NEW lt, Tidy(sm, cm), NEW ck \in ClientKey,
         NEW k \in Table(sm, cm, lt)!Places(ck), NEW conn \in Connection,
         conn.server \in Server, conn.localPort \in portFrom .. portTo
  PROVE  Tidy([sm EXCEPT ![<<conn.server, conn.localPort>>] = conn],
              [cm EXCEPT ![k] = conn])
<1> DEFINE key == <<conn.server, conn.localPort>>
           sm1 == [sm EXCEPT ![key] = conn]
           cm1 == [cm EXCEPT ![k] = conn]
<1>1. k \in ClientKey /\ \A h \in KeysOf(cm) : h[1] = k[1]
  BY PlacesType
<1>2. key \in ServerKey /\ conn # null /\ key[2] = conn.localPort
  BY Constants, ConnectionType DEF ServerKey
<1>3. /\ sm \in [ServerKey -> Connection \cup {null}]
      /\ cm \in [ClientKey -> Connection \cup {null}]
  BY DEF Tidy
<1> HIDE DEF key
<1>4. sm1 \in [ServerKey -> Connection \cup {null}] /\ cm1 \in [ClientKey -> Connection \cup {null}]
  BY <1>1, <1>2, <1>3
<1>5. \A h \in KeysOf(cm1) : h \in KeysOf(cm) \/ h = k
  BY <1>1, <1>3 DEF KeysOf
<1>6. \A h, j \in KeysOf(cm1) : h[1] = j[1]
  BY <1>1, <1>5
<1>7. ASSUME NEW h \in ServerKey, sm1[h] # null
      PROVE  sm1[h].localPort = h[2] /\ h[2] \in portFrom .. portTo
  <2>1. CASE h = key
    BY <1>2, <1>3, <2>1
  <2>2. CASE h # key
    BY <1>3, <1>7, <2>2 DEF Tidy
  <2> QED
    BY <2>1, <2>2
<1> HIDE DEF sm1, cm1
<1>8. Tidy(sm1, cm1)
  BY <1>4, <1>6, <1>7 DEF Tidy
<1> QED
  BY <1>8 DEF sm1, cm1, key

\* What createIfNotExist may do: keep the maps and return a connection of the client's
\* server, or null when the scan finds no port; or enter a new connection.
Kept(sm, sm1, cm, cm1) == sm1 = sm /\ cm1 = cm

Returns(c, cp, sv, conn) == [client |-> c, clientPort |-> cp, server |-> sv, conn |-> conn]

Creates(sm, cm, lt, sm1, cm1, lt1, c, cp, sv) ==
  LET found == Table(sm, cm, lt)!FindClient(<<c, cp>>)
      port == Table(sm, cm, lt)!ScanPort(sv)
      conn == [client |-> c, clientPort |-> cp, server |-> sv, localPort |-> port]
  IN
  \/ found # null /\ Kept(sm, sm1, cm, cm1) /\ lt1 = Returns(c, cp, sv, found)
  \/ /\ port \notin portFrom .. portTo
     /\ Kept(sm, sm1, cm, cm1) /\ lt1 = Returns(c, cp, sv, null)
  \/ /\ port \in portFrom .. portTo
     /\ sm1 = [sm EXCEPT ![<<sv, port>>] = conn]
     /\ \E k \in Table(sm, cm, lt)!Places(<<c, cp>>) : cm1 = [cm EXCEPT ![k] = conn]
     /\ lt1 = Returns(c, cp, sv, conn)

LEMMA CreatesKeeps ==
  ASSUME NEW sm, NEW cm, NEW lt, NEW sm1, NEW cm1, NEW lt1, Tidy(sm, cm),
         NEW c \in ClientId, NEW cp \in ClientPort, NEW sv \in Server,
         Creates(sm, cm, lt, sm1, cm1, lt1, c, cp, sv)
  PROVE  /\ Tidy(sm1, cm1)
         /\ lt1 \in Result
         /\ portFrom <= portTo /\ portTo < MaxPort => lt1.conn # null
         /\ \A k \in ServerKey :
              sm1[k] # null => sm1[k] = sm[k] \/ sm1[k].client = c
<1> DEFINE found == Table(sm, cm, lt)!FindClient(<<c, cp>>)
           port == Table(sm, cm, lt)!ScanPort(sv)
           conn == [client |-> c, clientPort |-> cp, server |-> sv, localPort |-> port]
<1>1. <<c, cp>> \in ClientKey
  BY DEF ClientKey
<1>2. CASE found # null /\ Kept(sm, sm1, cm, cm1) /\ lt1 = Returns(c, cp, sv, found)
  <2>1. found \in Connection
    BY <1>1, <1>2, FindType
  <2> HIDE DEF found
  <2> QED
    BY <1>2, <2>1 DEF Kept, Returns, Result
<1>3. CASE /\ port \notin portFrom .. portTo
           /\ Kept(sm, sm1, cm, cm1) /\ lt1 = Returns(c, cp, sv, null)
  <2>1. ~(portFrom <= portTo /\ portTo < MaxPort)
    BY <1>3, ScanFinds
  <2> QED
    BY <1>3, <2>1 DEF Kept, Returns, Result
<1>4. CASE /\ port \in portFrom .. portTo
           /\ sm1 = [sm EXCEPT ![<<sv, port>>] = conn]
           /\ \E k \in Table(sm, cm, lt)!Places(<<c, cp>>) : cm1 = [cm EXCEPT ![k] = conn]
           /\ lt1 = Returns(c, cp, sv, conn)
  <2>1. PICK k \in Table(sm, cm, lt)!Places(<<c, cp>>) : cm1 = [cm EXCEPT ![k] = conn]
    BY <1>4
  <2>2. port \in portFrom .. portTo /\ port \in 0 .. MaxPort
    BY <1>4, Constants
  <2> HIDE DEF port
  <2>3. conn \in Connection
    BY <2>2, ConnectionType
  <2>4. conn.server = sv /\ conn.localPort = port /\ conn.client = c
    OBVIOUS
  <2>5. conn # null
    BY <2>3, ConnectionType
  <2> HIDE DEF conn
  <2>6. Tidy(sm1, cm1)
    BY <1>1, <1>4, <2>1, <2>2, <2>3, <2>4, StoreKeeps
  <2>7. lt1 \in Result /\ lt1.conn # null
    BY <1>4, <2>3, <2>5 DEF Returns, Result
  <2>8. ASSUME NEW h \in ServerKey
        PROVE  sm1[h] = sm[h] \/ sm1[h].client = c
    BY <1>4, <2>4 DEF Tidy
  <2> QED
    BY <2>6, <2>7, <2>8
<1> QED
  BY <1>2, <1>3, <1>4 DEF Creates

LEMMA TcpCreates ==
  \A c, cp, sv : tcpNapt!CreateIfNotExist(c, cp, sv) =>
    Creates(tcpServerMap, tcpClientMap, tcpLast, tcpServerMap', tcpClientMap', tcpLast', c, cp, sv)
<1> SUFFICES ASSUME NEW c, NEW cp, NEW sv, tcpNapt!CreateIfNotExist(c, cp, sv)
             PROVE  Creates(tcpServerMap, tcpClientMap, tcpLast,
                            tcpServerMap', tcpClientMap', tcpLast', c, cp, sv)
  OBVIOUS
<1>1. /\ tcpNapt!FindClient(<<c, cp>>)
           = Table(tcpServerMap, tcpClientMap, tcpLast)!FindClient(<<c, cp>>)
      /\ tcpNapt!ScanPort(sv) = Table(tcpServerMap, tcpClientMap, tcpLast)!ScanPort(sv)
      /\ tcpNapt!Places(<<c, cp>>)
           = Table(tcpServerMap, tcpClientMap, tcpLast)!Places(<<c, cp>>)
  BY DEF tcpNapt!FindClient, tcpNapt!Same, tcpNapt!Keys, tcpNapt!Equivalent, tcpNapt!Less,
         tcpNapt!ClientKey, tcpNapt!Places, tcpNapt!ScanPort, tcpNapt!Free,
         tcpNapt!FindServer, tcpNapt!PortFrom, tcpNapt!PortTo,
         Table!FindClient, Table!Same, Table!Keys, Table!Equivalent, Table!Less,
         Table!ClientKey, Table!Places, Table!ScanPort, Table!Free,
         Table!FindServer, Table!PortFrom, Table!PortTo
<1>2. CASE tcpNapt!Reuse(c, cp, sv)
  BY <1>1, <1>2 DEF tcpNapt!Reuse, tcpNapt!Found, tcpNapt!Remember, Creates, Kept, Returns
<1>3. CASE tcpNapt!NoPort(c, cp, sv)
  BY <1>1, <1>3 DEF tcpNapt!NoPort, tcpNapt!Remember, tcpNapt!PortFrom, tcpNapt!PortTo,
                    Creates, Kept, Returns
<1>4. CASE tcpNapt!Create(c, cp, sv)
  BY <1>1, <1>4 DEF tcpNapt!Create, tcpNapt!Remember, tcpNapt!PortFrom, tcpNapt!PortTo,
                    Creates, Returns
<1> QED
  BY <1>2, <1>3, <1>4 DEF tcpNapt!CreateIfNotExist

LEMMA UdpCreates ==
  \A c, cp, sv : udpNapt!CreateIfNotExist(c, cp, sv) =>
    Creates(udpServerMap, udpClientMap, udpLast, udpServerMap', udpClientMap', udpLast', c, cp, sv)
<1> SUFFICES ASSUME NEW c, NEW cp, NEW sv, udpNapt!CreateIfNotExist(c, cp, sv)
             PROVE  Creates(udpServerMap, udpClientMap, udpLast,
                            udpServerMap', udpClientMap', udpLast', c, cp, sv)
  OBVIOUS
<1>1. /\ udpNapt!FindClient(<<c, cp>>)
           = Table(udpServerMap, udpClientMap, udpLast)!FindClient(<<c, cp>>)
      /\ udpNapt!ScanPort(sv) = Table(udpServerMap, udpClientMap, udpLast)!ScanPort(sv)
      /\ udpNapt!Places(<<c, cp>>)
           = Table(udpServerMap, udpClientMap, udpLast)!Places(<<c, cp>>)
  BY DEF udpNapt!FindClient, udpNapt!Same, udpNapt!Keys, udpNapt!Equivalent, udpNapt!Less,
         udpNapt!ClientKey, udpNapt!Places, udpNapt!ScanPort, udpNapt!Free,
         udpNapt!FindServer, udpNapt!PortFrom, udpNapt!PortTo,
         Table!FindClient, Table!Same, Table!Keys, Table!Equivalent, Table!Less,
         Table!ClientKey, Table!Places, Table!ScanPort, Table!Free,
         Table!FindServer, Table!PortFrom, Table!PortTo
<1>2. CASE udpNapt!Reuse(c, cp, sv)
  BY <1>1, <1>2 DEF udpNapt!Reuse, udpNapt!Found, udpNapt!Remember, Creates, Kept, Returns
<1>3. CASE udpNapt!NoPort(c, cp, sv)
  BY <1>1, <1>3 DEF udpNapt!NoPort, udpNapt!Remember, udpNapt!PortFrom, udpNapt!PortTo,
                    Creates, Kept, Returns
<1>4. CASE udpNapt!Create(c, cp, sv)
  BY <1>1, <1>4 DEF udpNapt!Create, udpNapt!Remember, udpNapt!PortFrom, udpNapt!PortTo,
                    Creates, Returns
<1> QED
  BY <1>2, <1>3, <1>4 DEF udpNapt!CreateIfNotExist

-----------------------------------------------------------------------------
(* The inductive invariant.                                                 *)

\* The part of TypeOK about sessions, and about the packets last seen.
SessionsType ==
  /\ \E n \in 0 .. SessionLimit : DOMAIN sessions = 0 .. n - 1
  /\ sessions \in [DOMAIN sessions -> Session]

Tables == Tidy(tcpServerMap, tcpClientMap) /\ Tidy(udpServerMap, udpClientMap)

LastTypes == tcpLast \in Result \cup {null} /\ udpLast \in Result \cup {null}

ForwardedType ==
  forwarded \in [packet : WirePacket, to : Endpoint, port : ClientPort] \cup {null}

\* A connected session has its client's endpoint (TunnelServer.cc:119).
Addressed == \A id \in DOMAIN sessions : Connected(id) => sessions[id].endpoint \in Endpoint

\* Packets leave with a client's port, and come back to one of the range.
Sent == wire # null => wire.port \in ClientPort
Heard == forwarded # null => forwarded.packet.port \in portFrom .. portTo

ServerInv ==
  /\ SessionsType /\ Addressed
  /\ Tables /\ LastTypes /\ ConnectionsNameSessions
  /\ receiving \in BOOLEAN
  /\ crashed \in BOOLEAN /\ NeverCrashes
  /\ wire \in Written \cup {null} /\ Sent /\ WireVerifies
  /\ ForwardedType /\ Heard

\* With the tables tidy the two halves of Napt's types hold.
LEMMA NaptTypes ==
  /\ tcpNapt!TypeOK <=>
       /\ tcpServerMap \in [ServerKey -> Connection \cup {null}]
       /\ tcpClientMap \in [ClientKey -> Connection \cup {null}]
       /\ tcpLast \in Result \cup {null}
  /\ udpNapt!TypeOK <=>
       /\ udpServerMap \in [ServerKey -> Connection \cup {null}]
       /\ udpClientMap \in [ClientKey -> Connection \cup {null}]
       /\ udpLast \in Result \cup {null}
<1>1. /\ tcpNapt!Connection = Connection /\ udpNapt!Connection = Connection
      /\ tcpNapt!ServerKey = ServerKey /\ udpNapt!ServerKey = ServerKey
      /\ tcpNapt!ClientKey = ClientKey /\ udpNapt!ClientKey = ClientKey
  BY DEF Connection, tcpNapt!Connection, udpNapt!Connection, tcpNapt!Port, udpNapt!Port,
         ServerKey, tcpNapt!ServerKey, udpNapt!ServerKey,
         ClientKey, tcpNapt!ClientKey, udpNapt!ClientKey
<1>2. tcpNapt!Result = Result /\ udpNapt!Result = Result
  BY <1>1 DEF Result, tcpNapt!Result, udpNapt!Result
<1> QED
  BY <1>1, <1>2 DEF tcpNapt!TypeOK, udpNapt!TypeOK

LEMMA InvIsTyped == ServerInv => TypeOK
  BY NaptTypes, Zenon DEF ServerInv, TypeOK, SessionsType, Tables, Tidy, LastTypes, ForwardedType

LEMMA WireRight ==
  /\ WireVerifies <=> (wire # null => Right(wire))
  /\ WireVerifies' <=> (wire' # null => Right(wire'))
  BY Zenon DEF WireVerifies, Right

\* ConnectionsNameSessions, of one table.
Names(serverMap, ids) ==
  \A k \in ServerKey : serverMap[k] # null => serverMap[k].client \in ids

LEMMA NamesSessions ==
  /\ ConnectionsNameSessions <=>
       Names(tcpServerMap, DOMAIN sessions) /\ Names(udpServerMap, DOMAIN sessions)
  /\ ConnectionsNameSessions' <=>
       Names(tcpServerMap', DOMAIN sessions') /\ Names(udpServerMap', DOMAIN sessions')
<1>1. tcpNapt!ServerKey = ServerKey /\ udpNapt!ServerKey = ServerKey
  BY DEF ServerKey, tcpNapt!ServerKey, udpNapt!ServerKey, tcpNapt!Port, udpNapt!Port
<1> QED
  BY <1>1, Zenon DEF ConnectionsNameSessions, Names

LEMMA InitServer == Init => ServerInv
<1> SUFFICES ASSUME Init PROVE ServerInv
  OBVIOUS
<1>1. SessionsType /\ Addressed
  <2>1. MaxSessions \in 0 .. SessionLimit
    <3>1. MaxSessions \in Byte /\ MaxSessions <= SessionLimit /\ SessionLimit \in Nat
      BY TunnelServerAssumption, Zenon DEF Byte
    <3>2. MaxSessions \in Nat
      BY <3>1, WordsAreNumbers
    <3> QED
      BY <3>1, <3>2
  <2>2. DOMAIN sessions = 0 .. MaxSessions - 1
    BY DEF Init
  <2>3. \A id \in DOMAIN sessions : sessions[id] = [status |-> "IDLE", endpoint |-> null]
    BY DEF Init
  <2>4. sessions \in [DOMAIN sessions -> Session]
    BY <2>3 DEF Init, Session
  <2> QED
    BY <2>1, <2>2, <2>3, <2>4 DEF SessionsType, Addressed, Connected
<1>2. Tables /\ LastTypes
  BY DEF Init, tcpNapt!Init, udpNapt!Init, Tables, LastTypes, Tidy, KeysOf, ServerKey, ClientKey,
         tcpNapt!ServerKey, udpNapt!ServerKey, tcpNapt!ClientKey, udpNapt!ClientKey,
         tcpNapt!Port, udpNapt!Port
<1>3. ConnectionsNameSessions
  BY DEF Init, tcpNapt!Init, udpNapt!Init, ConnectionsNameSessions
<1>4. /\ receiving \in BOOLEAN /\ crashed \in BOOLEAN /\ NeverCrashes
      /\ wire = null /\ forwarded = null
  BY DEF Init, NeverCrashes
<1> QED
  BY <1>1, <1>2, <1>3, <1>4 DEF ServerInv, Sent, WireVerifies, ForwardedType, Heard

-----------------------------------------------------------------------------
(* The handlers.                                                            *)

\* A client is given the greatest idle session, or else the next one.
LEMMA SessionForType ==
  ASSUME SessionsType, SessionFor < SessionLimit
  PROVE  \E n \in 0 .. SessionLimit : DOMAIN sessions \cup {SessionFor} = 0 .. n - 1
<1>0. SessionLimit \in Nat
  BY Constants
<1>1. PICK n \in 0 .. SessionLimit : DOMAIN sessions = 0 .. n - 1
  BY DEF SessionsType
<1>2. CASE Idle = {}
  <2>1. \A m \in 0 .. SessionLimit : DOMAIN sessions = 0 .. m - 1 => m = n
    BY <1>0, <1>1
  <2>2. Count = n
    BY <1>1, <2>1, Zenon DEF Count
  <2>3. SessionFor = n
    BY <1>2, <2>2 DEF SessionFor
  <2>4. n + 1 \in 0 .. SessionLimit /\ 0 .. (n + 1) - 1 = (0 .. n - 1) \cup {n}
    BY <1>0, <2>3
  <2> QED
    BY <1>1, <2>3, <2>4
<1>3. CASE Idle # {}
  <2> DEFINE Behind == {n - id : id \in Idle}
  <2>1. Behind \subseteq Nat /\ Behind # {}
    BY <1>0, <1>1, <1>3 DEF Idle
  <2>2. \E x \in Behind : \A y \in Behind : x <= y
    <3> HIDE DEF Behind
    <3> QED
      BY <2>1, HasLeast
  <2>3. PICK id \in Idle : \A other \in Idle : n - id <= n - other
    BY <2>2
  <2>4. \A other \in Idle : other <= id
    BY <1>0, <1>1, <2>3 DEF Idle
  <2>5. SessionFor \in Idle
    BY <1>3, <2>4, Zenon DEF SessionFor
  <2>6. DOMAIN sessions \cup {SessionFor} = DOMAIN sessions
    BY <2>5 DEF Idle
  <2> QED
    BY <1>1, <2>6
<1> QED
  BY <1>2, <1>3

\* A step of the sessions alone, which forgets none.
LEMMA SessionStep ==
  ASSUME ServerInv, SessionsType', Addressed', DOMAIN sessions \subseteq DOMAIN sessions',
         UNCHANGED <<receiving, tcp, udp, crashed, wire>>, forwarded' = null
  PROVE  ServerInv'
<1>1. /\ tcpServerMap' = tcpServerMap /\ tcpClientMap' = tcpClientMap /\ tcpLast' = tcpLast
      /\ udpServerMap' = udpServerMap /\ udpClientMap' = udpClientMap /\ udpLast' = udpLast
      /\ receiving' = receiving /\ crashed' = crashed /\ wire' = wire
  BY DEF tcp, udp
<1>2. ConnectionsNameSessions'
  <2>1. Names(tcpServerMap, DOMAIN sessions) /\ Names(udpServerMap, DOMAIN sessions)
    BY NamesSessions DEF ServerInv
  <2>2. Names(tcpServerMap', DOMAIN sessions') /\ Names(udpServerMap', DOMAIN sessions')
    BY <1>1, <2>1 DEF Names
  <2>3. ConnectionsNameSessions' <=>
          Names(tcpServerMap', DOMAIN sessions') /\ Names(udpServerMap', DOMAIN sessions')
    BY NamesSessions
  <2> QED
    BY <2>2, <2>3
<1>3. Tables' /\ LastTypes'
  BY <1>1 DEF ServerInv, Tables, LastTypes
<1>4. /\ receiving' \in BOOLEAN /\ crashed' \in BOOLEAN /\ NeverCrashes'
      /\ wire' \in Written \cup {null} /\ Sent' /\ WireVerifies'
  <2>1. crashed' \in BOOLEAN /\ NeverCrashes' /\ receiving' \in BOOLEAN
    <3>1. crashed \in BOOLEAN /\ receiving \in BOOLEAN /\ NeverCrashes
      BY DEF ServerInv
    <3>2. crashed' \in BOOLEAN /\ receiving' \in BOOLEAN
      BY <1>1, <3>1, Zenon
    <3> QED
      BY <1>1, <3>1, <3>2 DEF NeverCrashes
  <2>2. wire' \in Written \cup {null} /\ Sent'
    BY <1>1 DEF ServerInv, Sent
  <2>3. WireVerifies'
    BY <1>1 DEF ServerInv, WireVerifies
  <2> QED
    BY <2>1, <2>2, <2>3
<1>5. ForwardedType' /\ Heard'
  BY DEF ForwardedType, Heard
<1> QED
  BY <1>2, <1>3, <1>4, <1>5 DEF ServerInv

LEMMA ConnectKeeps ==
  ASSUME ServerInv, NEW from \in Endpoint, RpcConnectHandler(from)
  PROVE  ServerInv'
<1> DEFINE given == SessionFor
           session == [status |-> "CONNECTED", endpoint |-> from]
<1>1. sessions' = [id \in DOMAIN sessions \cup {given} |->
                     IF id = given THEN session ELSE sessions[id]]
  BY DEF RpcConnectHandler
<1>2. \E n \in 0 .. SessionLimit : DOMAIN sessions \cup {given} = 0 .. n - 1
  BY SessionForType DEF ServerInv, RpcConnectHandler
<1>3. session \in Session /\ session.endpoint \in Endpoint
  BY DEF Session
<1> HIDE DEF given, session
<1>4. DOMAIN sessions' = DOMAIN sessions \cup {given}
  BY <1>1
<1>5. ASSUME NEW id \in DOMAIN sessions'
      PROVE  /\ sessions'[id] \in Session
             /\ sessions'[id].status = "CONNECTED" => sessions'[id].endpoint \in Endpoint
  BY <1>1, <1>3, <1>4 DEF ServerInv, SessionsType, Addressed, Connected
<1>6. SessionsType' /\ Addressed'
  BY <1>1, <1>2, <1>4, <1>5 DEF SessionsType, Addressed, Connected
<1> QED
  BY <1>4, <1>6, SessionStep DEF RpcConnectHandler

LEMMA DisconnectKeeps ==
  ASSUME ServerInv, NEW from \in Endpoint, RpcDisconnectHandler(from)
  PROVE  ServerInv'
<1>1. PICK id \in Of(from) : sessions' = [sessions EXCEPT ![id].status = "IDLE"]
  BY DEF RpcDisconnectHandler
<1>2. SessionsType /\ Addressed /\ id \in DOMAIN sessions
  BY <1>1 DEF ServerInv, Of
<1>3. DOMAIN sessions' = DOMAIN sessions
  BY <1>1
<1>4. ASSUME NEW i \in DOMAIN sessions
      PROVE  /\ sessions'[i] \in Session
             /\ sessions'[i].status = "CONNECTED" => sessions'[i].endpoint \in Endpoint
  <2>1. CASE i = id
    <3>1. sessions'[i] = [sessions[i] EXCEPT !.status = "IDLE"]
      BY <1>1, <1>2, <2>1 DEF SessionsType
    <3>2. sessions[i] \in Session
      BY <1>2 DEF SessionsType
    <3> QED
      BY <3>1, <3>2 DEF Session
  <2>2. CASE i # id
    <3>1. sessions'[i] = sessions[i]
      BY <1>1, <2>2
    <3> QED
      BY <1>2, <3>1 DEF SessionsType, Addressed, Connected
  <2> QED
    BY <2>1, <2>2
<1>5. SessionsType' /\ Addressed'
  <2>1. sessions' = [i \in DOMAIN sessions |-> sessions'[i]]
    BY <1>1
  <2> QED
    BY <1>2, <1>3, <1>4, <2>1 DEF SessionsType, Addressed, Connected
<1> QED
  BY <1>3, <1>5, SessionStep DEF RpcDisconnectHandler

\* A step of the receiving flag or of the packet forwarded.
LEMMA OtherStep ==
  ASSUME ServerInv, UNCHANGED <<sessions, tcp, udp, crashed, wire>>,
         receiving' \in BOOLEAN, ForwardedType', Heard'
  PROVE  ServerInv'
<1>1. /\ tcpServerMap' = tcpServerMap /\ tcpClientMap' = tcpClientMap /\ tcpLast' = tcpLast
      /\ udpServerMap' = udpServerMap /\ udpClientMap' = udpClientMap /\ udpLast' = udpLast
      /\ sessions' = sessions /\ crashed' = crashed /\ wire' = wire
  BY DEF tcp, udp
<1>2. SessionsType' /\ Addressed'
  BY <1>1 DEF ServerInv, SessionsType, Addressed, Connected
<1>3. ConnectionsNameSessions'
  BY <1>1, NamesSessions DEF ServerInv
<1>4. Tables' /\ LastTypes'
  BY <1>1 DEF ServerInv, Tables, LastTypes
<1>5. crashed' \in BOOLEAN /\ NeverCrashes'
  <2>1. crashed \in BOOLEAN /\ NeverCrashes
    BY DEF ServerInv
  <2>2. crashed' \in BOOLEAN
    BY <1>1, <2>1, Zenon
  <2> QED
    BY <1>1, <2>1, <2>2 DEF NeverCrashes
<1>6. wire' \in Written \cup {null} /\ Sent' /\ WireVerifies'
  <2>1. wire' \in Written \cup {null} /\ Sent'
    BY <1>1 DEF ServerInv, Sent
  <2>2. WireVerifies'
    BY <1>1 DEF ServerInv, WireVerifies
  <2> QED
    BY <2>1, <2>2
<1> QED
  BY <1>2, <1>3, <1>4, <1>5, <1>6 DEF ServerInv

LEMMA FailsKeeps == ASSUME ServerInv, ReceiveFails PROVE ServerInv'
<1>1. receiving' \in BOOLEAN /\ forwarded' = null
  BY DEF ReceiveFails
<1>2. ForwardedType' /\ Heard'
  BY <1>1 DEF ForwardedType, Heard
<1> QED
  BY <1>1, <1>2, OtherStep DEF ReceiveFails

\* A connection that find returns names a session, and was entered under its port.
LEMMA ForwardKeeps ==
  ASSUME ServerInv, NEW packet \in WirePacket, NEW conn \in Connection \cup {null},
         conn # null => conn.client \in DOMAIN sessions /\ packet.port \in portFrom .. portTo,
         Forward(packet, conn)
  PROVE  ServerInv'
<1>1. /\ conn # null /\ conn \in Connection /\ Connected(conn.client)
      /\ forwarded' = [packet |-> packet, to |-> sessions[conn.client].endpoint,
                       port |-> conn.clientPort]
      /\ UNCHANGED <<sessions, receiving, tcp, udp, crashed, wire>>
  BY DEF Forward
<1>2. sessions[conn.client].endpoint \in Endpoint
  BY <1>1 DEF ServerInv, Addressed
<1>3. conn.clientPort \in ClientPort
  BY <1>1, ConnectionType
<1>4. ForwardedType' /\ Heard'
  BY <1>1, <1>2, <1>3 DEF ForwardedType, Heard
<1>5. receiving' \in BOOLEAN
  <2>1. receiving \in BOOLEAN
    BY DEF ServerInv
  <2> QED
    BY <1>1, <2>1, Zenon
<1> QED
  BY <1>1, <1>4, <1>5, OtherStep

LEMMA RawKeeps ==
  ASSUME ServerInv, NEW packet \in WirePacket, RawSocketPacketHandler(packet)
  PROVE  ServerInv'
<1>1. <<packet.server, packet.port>> \in ServerKey
  BY DEF WirePacket, ServerKey
<1>2. ASSUME NEW sm, NEW cm, Tidy(sm, cm), Names(sm, DOMAIN sessions),
             Forward(packet, sm[<<packet.server, packet.port>>])
      PROVE  ServerInv'
  <2> DEFINE conn == sm[<<packet.server, packet.port>>]
  <2>1. conn \in Connection \cup {null}
    BY <1>1, <1>2 DEF Tidy
  <2>2. conn # null => conn.client \in DOMAIN sessions /\ packet.port \in portFrom .. portTo
    BY <1>1, <1>2 DEF Tidy, Names
  <2>3. Forward(packet, conn)
    BY <1>2
  <2> HIDE DEF conn
  <2> QED
    BY <2>1, <2>2, <2>3, ForwardKeeps
<1>3. Names(tcpServerMap, DOMAIN sessions) /\ Names(udpServerMap, DOMAIN sessions)
  BY NamesSessions DEF ServerInv
<1>4. \/ Forward(packet, tcpServerMap[<<packet.server, packet.port>>])
      \/ Forward(packet, udpServerMap[<<packet.server, packet.port>>])
  BY DEF RawSocketPacketHandler, tcpNapt!FindServer, udpNapt!FindServer
<1> QED
  BY <1>2, <1>3, <1>4 DEF ServerInv, Tables

\* What _processTransmit writes, for a connection that createIfNotExist has returned.
LEMMA WriteKeeps ==
  ASSUME ServerInv, NEW packet \in ClientPacket, NEW conn \in Connection \cup {null},
         portFrom <= portTo /\ portTo < MaxPort => conn # null,
         Write(packet, conn)
  PROVE  /\ crashed' \in BOOLEAN /\ NeverCrashes'
         /\ wire' \in Written \cup {null} /\ Sent' /\ WireVerifies'
<1>0. /\ crashed \in BOOLEAN /\ NeverCrashes
      /\ wire \in Written \cup {null} /\ Sent /\ WireVerifies
  BY DEF ServerInv
<1>1. CASE conn = null
  <2>1. crashed' = TRUE /\ wire' = wire
    BY <1>1 DEF Write
  <2>2. crashed' \in BOOLEAN /\ NeverCrashes'
    BY <1>1, <2>1 DEF NeverCrashes
  <2>3. wire' \in Written \cup {null} /\ Sent'
    BY <1>0, <2>1 DEF Sent
  <2>4. WireVerifies'
    BY <1>0, <2>1 DEF WireVerifies
  <2> QED
    BY <2>2, <2>3, <2>4
<1>2. CASE conn # null
  <2>1. wire' = Rewritten(packet, conn) /\ crashed' = crashed
    BY <1>2 DEF Write
  <2>2. conn.clientPort \in ClientPort
    BY <1>2, ConnectionType
  <2>3. crashed' \in BOOLEAN /\ NeverCrashes'
    <3>1. crashed' \in BOOLEAN
      BY <1>0, <2>1, Zenon
    <3> QED
      BY <1>0, <2>1, <3>1 DEF NeverCrashes
  <2>4. /\ Rewritten(packet, conn) \in Written
        /\ Rewritten(packet, conn).port = conn.clientPort
        /\ Right(Rewritten(packet, conn))
    BY <2>2, RewrittenRight
  <2>5. wire' \in Written \cup {null} /\ Sent' /\ WireVerifies'
    <3>1. wire' \in Written /\ wire'.port \in ClientPort /\ Right(wire')
      BY <2>1, <2>2, <2>4
    <3> QED
      BY <3>1, WireRight DEF Sent
  <2> QED
    BY <2>3, <2>5
<1> QED
  BY <1>1, <1>2

LEMMA AcceptedType ==
  ASSUME ServerInv, NEW from, NEW id, Accepted(from, id)
  PROVE  id \in DOMAIN sessions /\ id \in ClientId
<1>1. PICK n \in 0 .. SessionLimit : DOMAIN sessions = 0 .. n - 1
  BY DEF ServerInv, SessionsType
<1>2. id \in DOMAIN sessions
  BY DEF Accepted
<1> QED
  BY <1>1, <1>2, Constants DEF ClientId

\* The entries of a table after createIfNotExist name sessions.
LEMMA CreatesNames ==
  ASSUME NEW sm, NEW sm1, NEW ids, NEW c \in ids, Names(sm, ids),
         \A k \in ServerKey : sm1[k] # null => sm1[k] = sm[k] \/ sm1[k].client = c
  PROVE  Names(sm1, ids)
  BY DEF Names

LEMMA ClientPacketType ==
  ASSUME NEW packet \in ClientPacket
  PROVE  packet.port \in ClientPort /\ packet.server \in Server
<1>1. packet \in [protocol : Protocol, source : Seq(Word), port : ClientPort,
                  server : Server, payload : Payload]
  BY TunnelServerAssumption, Zenon
<1> QED
  BY <1>1

LEMMA TransmitTcpKeeps ==
  ASSUME ServerInv, NEW from \in Endpoint, NEW id \in ClientId, NEW packet \in ClientPacket,
         TransmitTcp(from, id, packet)
  PROVE  ServerInv'
<1>1. /\ Accepted(from, id) /\ Write(packet, tcpLast'.conn)
      /\ tcpNapt!CreateIfNotExist(id, packet.port, packet.server)
      /\ forwarded' = null /\ sessions' = sessions /\ receiving' = receiving
      /\ udpServerMap' = udpServerMap /\ udpClientMap' = udpClientMap /\ udpLast' = udpLast
  BY DEF TransmitTcp, udp
<1>2. id \in DOMAIN sessions
  BY <1>1, AcceptedType
<1>3. /\ Tidy(tcpServerMap', tcpClientMap') /\ tcpLast' \in Result
      /\ portFrom <= portTo /\ portTo < MaxPort => tcpLast'.conn # null
      /\ \A k \in ServerKey : tcpServerMap'[k] # null =>
           tcpServerMap'[k] = tcpServerMap[k] \/ tcpServerMap'[k].client = id
  <2>1. Creates(tcpServerMap, tcpClientMap, tcpLast, tcpServerMap', tcpClientMap', tcpLast',
                id, packet.port, packet.server)
    BY <1>1, TcpCreates
  <2>2. Tidy(tcpServerMap, tcpClientMap)
    BY DEF ServerInv, Tables
  <2> QED
    BY <2>1, <2>2, ClientPacketType, CreatesKeeps
<1>4. Tables' /\ LastTypes'
  BY <1>1, <1>3 DEF ServerInv, Tables, LastTypes
<1>5. ConnectionsNameSessions'
  <2>1. Names(tcpServerMap, DOMAIN sessions) /\ Names(udpServerMap, DOMAIN sessions)
    BY NamesSessions DEF ServerInv
  <2>2. Names(tcpServerMap', DOMAIN sessions)
    BY <1>2, <1>3, <2>1, CreatesNames
  <2> QED
    BY <1>1, <2>1, <2>2, NamesSessions
<1>6. /\ crashed' \in BOOLEAN /\ NeverCrashes'
      /\ wire' \in Written \cup {null} /\ Sent' /\ WireVerifies'
  <2>1. tcpLast'.conn \in Connection \cup {null}
    BY <1>3 DEF Result
  <2> QED
    BY <1>1, <1>3, <2>1, WriteKeeps
<1>7. SessionsType' /\ Addressed'
  BY <1>1 DEF ServerInv, SessionsType, Addressed, Connected
<1>8. receiving' \in BOOLEAN /\ ForwardedType' /\ Heard'
  <2>1. receiving \in BOOLEAN
    BY DEF ServerInv
  <2>2. receiving' \in BOOLEAN
    BY <1>1, <2>1, Zenon
  <2> QED
    BY <1>1, <2>2 DEF ForwardedType, Heard
<1> QED
  BY <1>4, <1>5, <1>6, <1>7, <1>8 DEF ServerInv

LEMMA TransmitUdpKeeps ==
  ASSUME ServerInv, NEW from \in Endpoint, NEW id \in ClientId, NEW packet \in ClientPacket,
         TransmitUdp(from, id, packet)
  PROVE  ServerInv'
<1>1. /\ Accepted(from, id) /\ Write(packet, udpLast'.conn)
      /\ udpNapt!CreateIfNotExist(id, packet.port, packet.server)
      /\ forwarded' = null /\ sessions' = sessions /\ receiving' = receiving
      /\ tcpServerMap' = tcpServerMap /\ tcpClientMap' = tcpClientMap /\ tcpLast' = tcpLast
  BY DEF TransmitUdp, tcp
<1>2. id \in DOMAIN sessions
  BY <1>1, AcceptedType
<1>3. /\ Tidy(udpServerMap', udpClientMap') /\ udpLast' \in Result
      /\ portFrom <= portTo /\ portTo < MaxPort => udpLast'.conn # null
      /\ \A k \in ServerKey : udpServerMap'[k] # null =>
           udpServerMap'[k] = udpServerMap[k] \/ udpServerMap'[k].client = id
  <2>1. Creates(udpServerMap, udpClientMap, udpLast, udpServerMap', udpClientMap', udpLast',
                id, packet.port, packet.server)
    BY <1>1, UdpCreates
  <2>2. Tidy(udpServerMap, udpClientMap)
    BY DEF ServerInv, Tables
  <2> QED
    BY <2>1, <2>2, ClientPacketType, CreatesKeeps
<1>4. Tables' /\ LastTypes'
  BY <1>1, <1>3 DEF ServerInv, Tables, LastTypes
<1>5. ConnectionsNameSessions'
  <2>1. Names(udpServerMap, DOMAIN sessions) /\ Names(tcpServerMap, DOMAIN sessions)
    BY NamesSessions DEF ServerInv
  <2>2. Names(udpServerMap', DOMAIN sessions)
    BY <1>2, <1>3, <2>1, CreatesNames
  <2> QED
    BY <1>1, <2>1, <2>2, NamesSessions
<1>6. /\ crashed' \in BOOLEAN /\ NeverCrashes'
      /\ wire' \in Written \cup {null} /\ Sent' /\ WireVerifies'
  <2>1. udpLast'.conn \in Connection \cup {null}
    BY <1>3 DEF Result
  <2> QED
    BY <1>1, <1>3, <2>1, WriteKeeps
<1>7. SessionsType' /\ Addressed'
  BY <1>1 DEF ServerInv, SessionsType, Addressed, Connected
<1>8. receiving' \in BOOLEAN /\ ForwardedType' /\ Heard'
  <2>1. receiving \in BOOLEAN
    BY DEF ServerInv
  <2>2. receiving' \in BOOLEAN
    BY <1>1, <2>1, Zenon
  <2> QED
    BY <1>1, <2>2 DEF ForwardedType, Heard
<1> QED
  BY <1>4, <1>5, <1>6, <1>7, <1>8 DEF ServerInv

LEMMA NextKeepsServer == ServerInv /\ [Next]_vars => ServerInv'
<1>1. ASSUME ServerInv, UNCHANGED vars
      PROVE  ServerInv'
  <2>1. UNCHANGED <<sessions, tcp, udp, crashed, wire>> /\ receiving' = receiving /\ forwarded' = forwarded
    BY <1>1 DEF vars
  <2>2. receiving' \in BOOLEAN
    <3>1. receiving \in BOOLEAN
      BY <1>1 DEF ServerInv
    <3> QED
      BY <2>1, <3>1, Zenon
  <2>3. ForwardedType' /\ Heard'
    BY <1>1, <2>1 DEF ServerInv, ForwardedType, Heard
  <2> QED
    BY <1>1, <2>1, <2>2, <2>3, OtherStep
<1>2. ASSUME ServerInv, Next
      PROVE  ServerInv'
  <2>1. CASE \E from \in Endpoint : RpcHandler(from)
    BY <1>2, <2>1, ConnectKeeps, DisconnectKeeps DEF RpcHandler
  <2>2. CASE \E from \in Endpoint, id \in ClientId, packet \in ClientPacket :
               Transmit(from, id, packet)
    BY <1>2, <2>2, TransmitTcpKeeps, TransmitUdpKeeps DEF Transmit
  <2>3. CASE \E packet \in WirePacket : RawSocketPacketHandler(packet)
    BY <1>2, <2>3, RawKeeps
  <2>4. CASE ReceiveFails
    BY <1>2, <2>4, FailsKeeps
  <2> QED
    BY <1>2, <2>1, <2>2, <2>3, <2>4 DEF Next
<1> QED
  BY <1>1, <1>2

LEMMA ServerInvariant == Spec => []ServerInv
  BY InitServer, NextKeepsServer, PTL DEF Spec

-----------------------------------------------------------------------------
(* The theorems.                                                            *)

\* The sessions are numbered without a gap, both tables hold whole connections, and
\* what is written to the wire or forwarded is a whole packet (TunnelServer.cc:57-179).
THEOREM ServerTypeCorrect == Spec => []TypeOK
<1> QED
  BY InvIsTyped, ServerInvariant, PTL

\* The client of every connection is the index of a session, whoever connects and
\* disconnects in between (TunnelServer.cc:94-100, 113-117, 151, 159).
THEOREM SessionsNamed == Spec => []ConnectionsNameSessions
<1>1. ServerInv => ConnectionsNameSessions
  BY DEF ServerInv
<1> QED
  BY <1>1, ServerInvariant, PTL

\* createIfNotExist never returns null for a range that is not empty and ends before
\* the last port, so _processTransmit uses no null pointer (TunnelServer.cc:75-76, 82-83;
\* napt.h:120-129).
THEOREM CrashFree == Spec => []NeverCrashes
<1>1. ServerInv => NeverCrashes
  BY DEF ServerInv
<1> QED
  BY <1>1, ServerInvariant, PTL

\* No client is sent the answer to the packet last written.
AnswersNotForwarded ==
  forwarded # null /\ wire # null =>
    forwarded.packet # [protocol |-> wire.protocol, port |-> wire.port,
                        server |-> [ip |-> wire.dest, port |-> wire.destPort]]

\* What a defect comes to, and not what is wanted: _processTransmit gives a packet its
\* client's port, _rawSocketPacketHandler looks an answer up by the local port that was
\* kept for it (TunnelServer.cc:76, 83, 150, 158), so unless clients use ports of the
\* server's range no answer ever gets back.
THEOREM AnswersLost ==
  ASSUME ClientPort \cap (portFrom .. portTo) = {}
  PROVE  Spec => []AnswersNotForwarded
<1>1. ServerInv => AnswersNotForwarded
  <2> SUFFICES ASSUME Sent, Heard,
                      forwarded # null, wire # null,
                      forwarded.packet = [protocol |-> wire.protocol, port |-> wire.port,
                        server |-> [ip |-> wire.dest, port |-> wire.destPort]]
               PROVE  FALSE
    BY DEF ServerInv, AnswersNotForwarded
  <2>1. forwarded.packet.port = wire.port
    OBVIOUS
  <2> QED
    BY <2>1 DEF Sent, Heard
<1> QED
  BY <1>1, ServerInvariant, PTL

\* Every packet leaves with checksums its receiver finds right, whatever it holds, but
\* for an odd TCP segment with a byte behind it (TunnelServer.cc:74-85; ip4.h:114-129;
\* tcp.h:83-104).
THEOREM ChecksumsCorrect == Spec => []WireVerifies
<1>1. ServerInv => WireVerifies
  BY DEF ServerInv
<1> QED
  BY <1>1, ServerInvariant, PTL

=============================================================================
