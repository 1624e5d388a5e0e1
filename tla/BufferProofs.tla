---------------------------- MODULE BufferProofs ----------------------------
(***************************************************************************)
(* For every capacity, byte set and payload: the window of a Buffer stays  *)
(* inside its array, no operation reads or writes a byte outside it, and   *)
(* frames come out of it as they went in.                                  *)
(***************************************************************************)
EXTENDS Buffer, SequenceTheorems, WellFoundedInduction, TLAPS

\* The inductive invariant: the types, the window inside the array, and the header
\* inside the window.  None can be shown alone: a write keeps the array's domain because
\* it stays inside, the length of a frame is a number because it is read inside, and
\* a header grows with the window.
WindowInv == TypeOK /\ WindowInside /\ header <= size

\* A byte is a number of 0 .. 255.
LEMMA ByteRange == ASSUME NEW b \in Byte PROVE b \in Int /\ 0 <= b /\ b <= 255
  BY BufferAssumption

LEMMA WindowInit == Init => WindowInv
  BY BufferAssumption DEF Init, WindowInv, TypeOK, WindowInside, Place

LEMMA SetSizeWindow ==
  ASSUME WindowInv, NEW len \in 0 .. Capacity + 1, SetSize(len)
  PROVE  WindowInv'
<1>1. size' \in 0 .. Capacity /\ prefix' = prefix /\ prefix + size' <= Capacity
  BY BufferAssumption DEF WindowInv, TypeOK, WindowInside, SetSize, SizeFits
<1>2. /\ frames' \in Seq(Payload) \cup {unknown}
      /\ header' \in 0 .. Capacity /\ header' <= size'
  BY BufferAssumption DEF WindowInv, TypeOK, SetSize
<1> QED
  BY <1>1, <1>2 DEF WindowInv, TypeOK, WindowInside, SetSize

LEMMA ShiftWindow ==
  ASSUME WindowInv, NEW distance \in Distance, Shift(distance)
  PROVE  WindowInv'
<1>1. prefix' \in 0 .. Capacity /\ size' = size /\ prefix' + size <= Capacity
  BY BufferAssumption
  DEF WindowInv, TypeOK, WindowInside, Shift, ShiftFits, suffixSpace, Distance
<1>2. /\ frames' \in Seq(Payload) \cup {unknown}
      /\ header' \in 0 .. Capacity /\ header' <= size'
  BY BufferAssumption DEF WindowInv, TypeOK, Shift
<1> QED
  BY <1>1, <1>2 DEF WindowInv, TypeOK, WindowInside, Shift

LEMMA MoveBackWindow ==
  ASSUME WindowInv, NEW distance \in Distance, MoveBackBoundary(distance)
  PROVE  WindowInv'
<1>1. prefix' = prefix /\ size' \in 0 .. Capacity /\ prefix + size' <= Capacity
  BY BufferAssumption
  DEF WindowInv, TypeOK, WindowInside, MoveBackBoundary, BackFits, suffixSpace, Distance
<1>2. /\ frames' \in Seq(Payload) \cup {unknown}
      /\ header' \in 0 .. Capacity /\ header' <= size'
  BY <1>1, BufferAssumption DEF WindowInv, TypeOK, MoveBackBoundary
<1> QED
  BY <1>1, <1>2 DEF WindowInv, TypeOK, WindowInside, MoveBackBoundary

LEMMA MoveFrontWindow ==
  ASSUME WindowInv, NEW distance \in Distance, MoveFrontBoundary(distance)
  PROVE  WindowInv'
<1>1. CASE FrontFits(distance)
  <2>1. /\ prefix' = prefix + distance /\ size' = size - distance
        /\ prefix' \in 0 .. Capacity /\ size' \in 0 .. Capacity
        /\ prefix' + size' <= Capacity
    BY <1>1, BufferAssumption
    DEF WindowInv, TypeOK, WindowInside, MoveFrontBoundary, FrontFits, Distance
  <2>2. /\ frames' \in Seq(Payload) \cup {unknown}
        /\ header' \in 0 .. Capacity /\ header' <= size'
    BY <1>1, <2>1, BufferAssumption
    DEF WindowInv, TypeOK, WindowInside, MoveFrontBoundary, FrontFits, Distance
  <2> QED
    BY <2>1, <2>2 DEF WindowInv, TypeOK, WindowInside, MoveFrontBoundary
<1>2. CASE ~FrontFits(distance)
  BY <1>2 DEF WindowInv, TypeOK, WindowInside, MoveFrontBoundary
<1> QED
  BY <1>1, <1>2

\* A frame that is written fits between the end of the window and the end of the array.
LEMMA WriteToBackWindow ==
  ASSUME WindowInv, NEW f \in Payload, WriteToBack(f)
  PROVE  WindowInv'
<1>1. CASE RoomFor(f, size)
  <2>1. f \in Seq(Byte) /\ Len(f) \in Nat
    BY BufferAssumption
  <2> DEFINE e == Encode(f)
  <2>2. e \in Seq(Byte) /\ Len(e) = Len(f) + 2
    BY <2>1, BufferAssumption DEF Encode
  <2>3. /\ size' = size + Len(f) + 2 /\ prefix' = prefix /\ result' = result
        /\ header' = header /\ data' = Put(size, e)
        /\ frames' = IF frames = unknown THEN unknown ELSE Append(frames, f)
    BY <1>1 DEF WriteToBack
  <2>4. size' \in 0 .. Capacity /\ prefix + size' <= Capacity
    BY <1>1, <2>1, <2>3, BufferAssumption
    DEF WindowInv, TypeOK, WindowInside, RoomFor, suffixSpace
  <2> HIDE DEF e
  <2>5. Place \cup (prefix + size + 1 .. prefix + size + Len(e)) = Place
    BY <2>1, <2>2, <2>3, <2>4, BufferAssumption DEF WindowInv, TypeOK, Place
  <2>6. data' \in [Place -> Byte]
    <3>1. ASSUME NEW p \in Place
          PROVE  (IF p \in prefix + size + 1 .. prefix + size + Len(e)
                  THEN e[p - prefix - size] ELSE data[p]) \in Byte
      <4>1. CASE p \in prefix + size + 1 .. prefix + size + Len(e)
        <5>1. p - prefix - size \in 1 .. Len(e)
          BY <2>1, <2>2, <4>1, BufferAssumption DEF WindowInv, TypeOK, Place
        <5> QED
          BY <2>2, <4>1, <5>1
      <4>2. CASE ~(p \in prefix + size + 1 .. prefix + size + Len(e))
        BY <4>2 DEF WindowInv, TypeOK
      <4> QED
        BY <4>1, <4>2
    <3> QED
      BY <2>3, <2>5, <3>1 DEF Put
  <2>7. frames' \in Seq(Payload) \cup {unknown}
    BY <2>3 DEF WindowInv, TypeOK
  <2>8. header' \in 0 .. Capacity /\ header' <= size'
    BY <2>1, <2>3, <2>4 DEF WindowInv, TypeOK
  <2> QED
    BY <2>3, <2>4, <2>6, <2>7, <2>8 DEF WindowInv, TypeOK, WindowInside
<1>2. CASE ~RoomFor(f, size)
  BY <1>2 DEF WindowInv, TypeOK, WindowInside, WriteToBack
<1> QED
  BY <1>1, <1>2

\* What readBuffer returns from the front is a sequence of bytes of the window.
LEMMA ReadInside ==
  ASSUME WindowInv
  PROVE  /\ Read(0) \in Seq(Byte)
         /\ Len(Read(0)) \in Nat
         /\ Len(Read(0)) > 0 => Len(Read(0)) + 2 <= size
<1>1. CASE size < 2
  BY <1>1 DEF Read, WindowInv, TypeOK
<1>2. CASE size >= 2
  <2>1. data[prefix + 1] \in Byte /\ data[prefix + 2] \in Byte
    BY <1>2, BufferAssumption DEF WindowInv, TypeOK, WindowInside, Place
  <2>2. LengthAt(0) \in Nat
    <3>1. prefix + 0 + 1 = prefix + 1 /\ prefix + 0 + 2 = prefix + 2
      BY DEF WindowInv, TypeOK
    <3> QED
      BY <2>1, <3>1, ByteRange DEF LengthAt
  <2> DEFINE n == LengthAt(0)
  <2> HIDE DEF n
  <2>3. CASE size < 2 + n
    BY <1>2, <2>2, <2>3 DEF n, Read, WindowInv, TypeOK
  <2>4. CASE size >= 2 + n
    <3>1. Read(0) = Bytes(2, n)
      BY <1>2, <2>2, <2>4 DEF n, Read, WindowInv, TypeOK
    <3>2. ASSUME NEW i \in 1 .. n PROVE data[prefix + 2 + i] \in Byte
      <4>1. prefix + 2 + i \in Place
        BY <2>2, <2>4, BufferAssumption DEF n, WindowInv, TypeOK, WindowInside, Place
      <4> QED
        BY <4>1 DEF WindowInv, TypeOK
    <3>3. Bytes(2, n) \in [1 .. n -> Byte]
      BY <3>2 DEF Bytes
    <3>4. n \in Nat
      BY <2>2 DEF n
    <3>5. Bytes(2, n) \in Seq(Byte) /\ Len(Bytes(2, n)) = n
      BY <3>3, <3>4 DEF Bytes
    <3> QED
      BY <2>4, <3>1, <3>4, <3>5
  <2> QED
    BY <2>2, <2>3, <2>4 DEF n, WindowInv, TypeOK
<1> QED
  BY <1>1, <1>2 DEF WindowInv, TypeOK

LEMMA ReadFromFrontWindow ==
  ASSUME WindowInv, ReadFromFront
  PROVE  WindowInv'
<1> DEFINE r == Read(0)
<1>1. r \in Seq(Byte) /\ Len(r) \in Nat /\ (Len(r) > 0 => Len(r) + 2 <= size)
  BY ReadInside
<1>2. /\ result' = r /\ data' = data
      /\ prefix' = prefix + Consumed(r) /\ size' = size - Consumed(r)
  BY DEF ReadFromFront
<1>3. \/ Consumed(r) = 0 /\ frames' = frames /\ header' = header
      \/ /\ Consumed(r) > 0 /\ header' = 0
         /\ \/ frames' = unknown
            \/ frames # unknown /\ frames # <<>> /\ frames' = Tail(frames)
  BY DEF ReadFromFront
<1> HIDE DEF r
<1>4. Consumed(r) \in Nat /\ Consumed(r) <= size
  BY <1>1 DEF Consumed, WindowInv, TypeOK
<1>5. /\ prefix' \in 0 .. Capacity /\ size' \in 0 .. Capacity
      /\ prefix' + size' <= Capacity
  BY <1>2, <1>4, BufferAssumption DEF WindowInv, TypeOK, WindowInside
<1>6. frames' \in Seq(Payload) \cup {unknown}
  <2>1. frames \in Seq(Payload) \cup {unknown}
    BY DEF WindowInv, TypeOK
  <2>2. ASSUME frames # unknown, frames # <<>>
        PROVE  Tail(frames) \in Seq(Payload)
    BY <2>1, <2>2
  <2> QED
    BY <1>3, <2>1, <2>2
<1>7. header' \in 0 .. Capacity /\ header' <= size'
  <2>1. CASE Consumed(r) = 0 /\ header' = header
    BY <1>2, <2>1 DEF WindowInv, TypeOK
  <2>2. CASE header' = 0
    BY <1>5, <2>2, BufferAssumption
  <2> QED
    BY <1>3, <2>1, <2>2
<1> QED
  BY <1>1, <1>2, <1>5, <1>6, <1>7 DEF WindowInv, TypeOK, WindowInside

LEMMA WindowNext == WindowInv /\ [Next]_vars => WindowInv'
<1> SUFFICES ASSUME WindowInv, [Next]_vars PROVE WindowInv'
  OBVIOUS
<1>1. CASE UNCHANGED vars
  BY <1>1 DEF vars, WindowInv, TypeOK, WindowInside
<1>2. CASE \E len \in 0 .. Capacity + 1 : SetSize(len)
  BY <1>2, SetSizeWindow
<1>3. CASE \E distance \in Distance : Shift(distance)
  BY <1>3, ShiftWindow
<1>4. CASE \E distance \in Distance : MoveFrontBoundary(distance)
  BY <1>4, MoveFrontWindow
<1>5. CASE \E distance \in Distance : MoveBackBoundary(distance)
  BY <1>5, MoveBackWindow
<1>6. CASE \E f \in Payload : WriteToBack(f)
  BY <1>6, WriteToBackWindow
<1>7. CASE ReadFromFront
  BY <1>7, ReadFromFrontWindow
<1> QED
  BY <1>1, <1>2, <1>3, <1>4, <1>5, <1>6, <1>7 DEF Next

\* The window of a buffer never leaves its array (BufferPool.h:43-70, 84-112), whatever
\* the capacity, the frames and the order of calls.
THEOREM WindowCorrect == Spec => []WindowInside
<1>1. WindowInv => WindowInside
  BY DEF WindowInv
<1> QED
  BY WindowInit, WindowNext, <1>1, PTL DEF Spec

\* The variables of a buffer keep their types: no write leaves the array, no read takes
\* a byte from outside it (BufferPool.h:73-83, 102-112).
THEOREM BufferTypeCorrect == Spec => []TypeOK
<1>1. WindowInv => TypeOK
  BY DEF WindowInv
<1> QED
  BY WindowInit, WindowNext, <1>1, PTL DEF Spec

-----------------------------------------------------------------------------
(* The bytes of frames one after the other.                                *)

\* A set of numbers that is not empty has a least element.
LEMMA HasLeast ==
  ASSUME NEW S, S \subseteq Nat, S # {}
  PROVE  \E x \in S : \A y \in S : x <= y
<1> DEFINE R == OpToRel(<, Nat)
<1>1. IsWellFoundedOn(R, Nat)
  BY NatLessThanWellFounded
<1>2. \A x, y \in Nat : x < y => <<x, y>> \in R
  BY DEF OpToRel
<1> HIDE DEF R
<1>3. PICK x \in S : \A y \in S : ~(<<y, x>> \in R)
  BY <1>1, WFMin
<1>4. ASSUME NEW y \in S
      PROVE  x <= y
  <2>1. x \in Nat /\ y \in Nat
    OBVIOUS
  <2>2. ~(y < x)
    BY <1>2, <1>3, <2>1, Zenon
  <2> QED
    BY <2>1, <2>2
<1> QED
  BY <1>3, <1>4

\* A frame is bytes, two more than it holds, and begins with its length.
LEMMA EncodeType ==
  ASSUME NEW f \in Payload
  PROVE  /\ f \in Seq(Byte) /\ Len(f) \in Nat
         /\ Encode(f) \in Seq(Byte)
         /\ Len(Encode(f)) = Len(f) + 2
         /\ 256 * Encode(f)[1] + Encode(f)[2] = Len(f)
         /\ \A i \in 1 .. Len(f) : Encode(f)[i + 2] = f[i]
<1>1. f \in Seq(Byte) /\ Len(f) \in Nat
  BY BufferAssumption
<1> DEFINE high == Len(f) \div 256
           low == Len(f) % 256
<1>2. high \in Byte /\ low \in Byte
  BY BufferAssumption
<1>3. 256 * high + low = Len(f)
  BY <1>1
<1>4. Encode(f) = <<high, low>> \o f
  BY DEF Encode
<1> HIDE DEF high, low
<1>5. <<high, low>> \in Seq(Byte) /\ Len(<<high, low>>) = 2
  BY <1>2
<1> DEFINE e == <<high, low>> \o f
<1>6. /\ e \in Seq(Byte) /\ Len(e) = 2 + Len(f)
      /\ \A i \in 1 .. 2 + Len(f) : e[i] = IF i <= 2 THEN <<high, low>>[i] ELSE f[i - 2]
  BY <1>1, <1>5, ConcatProperties
<1> HIDE DEF e
<1>7. e[1] = high /\ e[2] = low
  BY <1>1, <1>6
<1>8. \A i \in 1 .. Len(f) : e[i + 2] = f[i]
  <2> SUFFICES ASSUME NEW i \in 1 .. Len(f) PROVE e[i + 2] = f[i]
    OBVIOUS
  <2>1. i + 2 \in 1 .. 2 + Len(f) /\ ~(i + 2 <= 2) /\ i + 2 - 2 = i
    BY <1>1
  <2> QED
    BY <1>6, <2>1
<1> QED
  BY <1>1, <1>3, <1>4, <1>6, <1>7, <1>8 DEF e

\* The bytes of the first frames, as EncodeAll adds them up.
Encodes(fs, g, n) ==
  g = [i \in 0 .. n |-> IF i = 0 THEN <<>> ELSE g[i - 1] \o Encode(fs[i])]

LEMMA EncodingExists ==
  ASSUME NEW fs \in Seq(Payload)
  PROVE  \A n \in 0 .. Len(fs) : \E g : Encodes(fs, g, n)
<1> DEFINE Bad == {n \in 0 .. Len(fs) : ~\E g : Encodes(fs, g, n)}
<1>0. Len(fs) \in Nat
  OBVIOUS
<1>1. Bad = {}
  <2> SUFFICES ASSUME Bad # {} PROVE FALSE
    OBVIOUS
  <2>1. PICK n \in Bad : \A other \in Bad : n <= other
    <3>1. Bad \subseteq Nat
      OBVIOUS
    <3> HIDE DEF Bad
    <3> QED
      BY <3>1, HasLeast, Zenon
  <2>2. n # 0
    <3>1. Encodes(fs, [i \in 0 .. 0 |-> <<>>], 0)
      BY DEF Encodes
    <3> QED
      BY <2>1, <3>1
  <2>3. n - 1 \in 0 .. Len(fs) /\ n - 1 \notin Bad
    BY <1>0, <2>1, <2>2
  <2>4. PICK g : Encodes(fs, g, n - 1)
    BY <2>3
  <2> DEFINE h == [i \in 0 .. n |-> IF i = n THEN g[n - 1] \o Encode(fs[n]) ELSE g[i]]
  <2>5. Encodes(fs, h, n)
    <3>1. ASSUME NEW i \in 0 .. n
          PROVE  h[i] = IF i = 0 THEN <<>> ELSE h[i - 1] \o Encode(fs[i])
      <4>1. CASE i = n
        <5>1. n - 1 \in 0 .. n /\ n - 1 # n
          BY <1>0, <2>1, <2>2
        <5> QED
          BY <2>2, <4>1, <5>1
      <4>2. CASE i # n
        <5>1. i \in 0 .. n - 1
          BY <1>0, <2>1, <4>2
        <5>2. h[i] = g[i] /\ g[i] = IF i = 0 THEN <<>> ELSE g[i - 1] \o Encode(fs[i])
          BY <2>4, <4>2, <5>1 DEF Encodes
        <5>3. i # 0 => i - 1 \in 0 .. n /\ i - 1 # n
          BY <1>0, <2>1, <5>1
        <5> QED
          BY <5>2, <5>3
      <4> QED
        BY <4>1, <4>2
    <3>2. h = [i \in 0 .. n |-> h[i]]
      OBVIOUS
    <3> HIDE DEF h
    <3> QED
      BY <3>1, <3>2 DEF Encodes
  <2> QED
    BY <2>1, <2>5
<1> QED
  BY <1>1

Encoding(fs) == CHOOSE g : Encodes(fs, g, Len(fs))

LEMMA EncodingSteps ==
  ASSUME NEW fs \in Seq(Payload)
  PROVE  /\ Len(fs) \in Nat
         /\ EncodeAll(fs) = Encoding(fs)[Len(fs)]
         /\ Encoding(fs)[0] = <<>>
         /\ \A i \in 1 .. Len(fs) :
              Encoding(fs)[i] = Encoding(fs)[i - 1] \o Encode(fs[i])
<1>1. Len(fs) \in Nat
  OBVIOUS
<1>2. EncodeAll(fs) = Encoding(fs)[Len(fs)]
  BY DEF EncodeAll, Encoding, Encodes
<1> DEFINE g == Encoding(fs)
<1>3. Encodes(fs, g, Len(fs))
  <2>1. Len(fs) \in 0 .. Len(fs)
    BY <1>1
  <2>2. \E h : Encodes(fs, h, Len(fs))
    BY <2>1, EncodingExists
  <2> QED
    BY <2>2, Zenon DEF Encoding
<1> HIDE DEF g
<1>4. \A i \in 0 .. Len(fs) : g[i] = IF i = 0 THEN <<>> ELSE g[i - 1] \o Encode(fs[i])
  BY <1>3 DEF Encodes
<1>5. g[0] = <<>>
  <2>1. 0 \in 0 .. Len(fs)
    BY <1>1
  <2> QED
    BY <1>4, <2>1, Zenon
<1>6. ASSUME NEW i \in 1 .. Len(fs)
      PROVE  g[i] = g[i - 1] \o Encode(fs[i])
  <2>1. i \in 0 .. Len(fs) /\ i # 0
    BY <1>1
  <2> QED
    BY <1>4, <2>1, Zenon
<1> QED
  BY <1>1, <1>2, <1>5, <1>6 DEF g

LEMMA EncodingType ==
  ASSUME NEW fs \in Seq(Payload), NEW k \in 0 .. Len(fs)
  PROVE  Encoding(fs)[k] \in Seq(Byte)
<1> DEFINE g == Encoding(fs)
<1>1. /\ Len(fs) \in Nat /\ g[0] = <<>>
      /\ \A i \in 1 .. Len(fs) : g[i] = g[i - 1] \o Encode(fs[i])
  BY EncodingSteps
<1> HIDE DEF g
<1> DEFINE Bad == {n \in 0 .. Len(fs) : g[n] \notin Seq(Byte)}
<1>2. Bad = {}
  <2> SUFFICES ASSUME Bad # {} PROVE FALSE
    OBVIOUS
  <2>1. PICK n \in Bad : \A other \in Bad : n <= other
    <3>1. Bad \subseteq Nat
      OBVIOUS
    <3> HIDE DEF Bad
    <3> QED
      BY <3>1, HasLeast, Zenon
  <2>2. n # 0
    <3>1. <<>> \in Seq(Byte)
      OBVIOUS
    <3> QED
      BY <1>1, <2>1, <3>1
  <2>3. n - 1 \in 0 .. Len(fs) /\ n - 1 \notin Bad /\ n \in 1 .. Len(fs)
    BY <1>1, <2>1, <2>2
  <2>4. g[n - 1] \in Seq(Byte) /\ Encode(fs[n]) \in Seq(Byte)
    <3>1. g[n - 1] \in Seq(Byte)
      BY <2>3
    <3>2. fs[n] \in Payload
      BY <2>3
    <3> QED
      BY <3>1, <3>2, EncodeType
  <2>5. g[n - 1] \o Encode(fs[n]) \in Seq(Byte)
    BY <2>4, ConcatProperties
  <2> QED
    BY <1>1, <2>1, <2>3, <2>5
<1> QED
  BY <1>2 DEF g

\* What the first frames are encoded to depends on them alone.
LEMMA EncodingOfPrefix ==
  ASSUME NEW fs \in Seq(Payload), NEW gs \in Seq(Payload), Len(fs) <= Len(gs),
         \A i \in 1 .. Len(fs) : fs[i] = gs[i]
  PROVE  \A k \in 0 .. Len(fs) : Encoding(fs)[k] = Encoding(gs)[k]
<1> DEFINE g == Encoding(fs)
           h == Encoding(gs)
<1>1. /\ Len(fs) \in Nat /\ g[0] = <<>>
      /\ \A i \in 1 .. Len(fs) : g[i] = g[i - 1] \o Encode(fs[i])
  BY EncodingSteps
<1>2. /\ Len(gs) \in Nat /\ h[0] = <<>>
      /\ \A i \in 1 .. Len(gs) : h[i] = h[i - 1] \o Encode(gs[i])
  BY EncodingSteps
<1> HIDE DEF g, h
<1> DEFINE Bad == {n \in 0 .. Len(fs) : g[n] # h[n]}
<1>3. Bad = {}
  <2> SUFFICES ASSUME Bad # {} PROVE FALSE
    OBVIOUS
  <2>1. PICK n \in Bad : \A other \in Bad : n <= other
    <3>1. Bad \subseteq Nat
      OBVIOUS
    <3> HIDE DEF Bad
    <3> QED
      BY <3>1, HasLeast, Zenon
  <2>2. n # 0
    BY <1>1, <1>2, <2>1
  <2>3. n - 1 \in 0 .. Len(fs) /\ n - 1 \notin Bad /\ n \in 1 .. Len(fs) /\ n \in 1 .. Len(gs)
    BY <1>1, <1>2, <2>1, <2>2
  <2>4. g[n - 1] = h[n - 1] /\ fs[n] = gs[n]
    BY <2>3
  <2>5. g[n] = g[n - 1] \o Encode(fs[n]) /\ h[n] = h[n - 1] \o Encode(gs[n])
    BY <1>1, <1>2, <2>3
  <2> QED
    BY <2>1, <2>4, <2>5
<1> QED
  BY <1>3 DEF g, h

LEMMA EncodeNone == EncodeAll(<<>>) = <<>>
<1>1. <<>> \in Seq(Payload) /\ Len(<<>>) = 0
  OBVIOUS
<1> QED
  BY <1>1, EncodingSteps

\* A frame written last comes last.
LEMMA EncodeAppend ==
  ASSUME NEW fs \in Seq(Payload), NEW f \in Payload
  PROVE  /\ EncodeAll(fs) \in Seq(Byte)
         /\ EncodeAll(Append(fs, f)) = EncodeAll(fs) \o Encode(f)
<1> DEFINE gs == Append(fs, f)
           n == Len(fs)
<1>1. /\ gs \in Seq(Payload) /\ Len(gs) = n + 1 /\ n \in Nat /\ gs[n + 1] = f
      /\ \A i \in 1 .. n : fs[i] = gs[i]
  OBVIOUS
<1>2. EncodeAll(fs) = Encoding(fs)[n]
  BY EncodingSteps
<1>3. n \in 0 .. n
  BY <1>1
<1>4. Encoding(fs)[n] \in Seq(Byte)
  BY <1>3, EncodingType
<1> HIDE DEF gs
<1>5. /\ EncodeAll(gs) = Encoding(gs)[n + 1]
      /\ \A i \in 1 .. Len(gs) : Encoding(gs)[i] = Encoding(gs)[i - 1] \o Encode(gs[i])
  BY <1>1, EncodingSteps
<1>6. Encoding(gs)[n + 1] = Encoding(gs)[n] \o Encode(f)
  <2>1. n + 1 \in 1 .. Len(gs) /\ n + 1 - 1 = n
    BY <1>1
  <2>2. PICK m \in Int : m = n + 1
    BY <1>1
  <2>3. m \in 1 .. Len(gs) /\ m - 1 = n
    BY <1>1, <2>2
  <2>4. Encoding(gs)[m] = Encoding(gs)[m - 1] \o Encode(gs[m])
    BY <1>5, <2>3
  <2> QED
    BY <1>1, <2>2, <2>3, <2>4
<1>7. Encoding(fs)[n] = Encoding(gs)[n]
  <2>1. n <= Len(gs)
    BY <1>1
  <2> QED
    BY <1>1, <1>3, <2>1, EncodingOfPrefix
<1> QED
  BY <1>2, <1>4, <1>5, <1>6, <1>7 DEF gs

LEMMA ByteConcat ==
  \A a, b, c \in Seq(Byte) : (a \o b) \o c = a \o (b \o c)
  BY ConcatAssociative

\* The oldest frame comes first.
LEMMA EncodeHeadTail ==
  ASSUME NEW fs \in Seq(Payload), fs # <<>>
  PROVE  /\ Head(fs) \in Payload /\ Tail(fs) \in Seq(Payload)
         /\ EncodeAll(Tail(fs)) \in Seq(Byte)
         /\ EncodeAll(fs) = Encode(Head(fs)) \o EncodeAll(Tail(fs))
<1> DEFINE f == Head(fs)
           ts == Tail(fs)
           n == Len(ts)
<1>1. /\ f \in Payload /\ ts \in Seq(Payload) /\ Len(fs) = n + 1 /\ n \in Nat
      /\ fs[1] = f /\ \A i \in 1 .. n : ts[i] = fs[i + 1]
  <2>1. /\ f \in Payload /\ ts \in Seq(Payload) /\ n = Len(fs) - 1
        /\ \A i \in 1 .. n : ts[i] = fs[i + 1]
    BY HeadTailProperties
  <2> QED
    BY <2>1
<1>0. n = Len(ts)
  OBVIOUS
<1> HIDE DEF f, ts, n
<1> DEFINE g == Encoding(fs)
           h == Encoding(ts)
<1>2. /\ g[0] = <<>> /\ EncodeAll(fs) = g[n + 1]
      /\ \A i \in 1 .. n + 1 : g[i] = g[i - 1] \o Encode(fs[i])
  BY <1>1, EncodingSteps
<1>3. /\ h[0] = <<>> /\ EncodeAll(ts) = h[n]
      /\ \A i \in 1 .. n : h[i] = h[i - 1] \o Encode(ts[i])
  BY <1>0, <1>1, EncodingSteps
<1>4. \A i \in 0 .. n : h[i] \in Seq(Byte)
  BY <1>0, <1>1, EncodingType
<1>5. Encode(f) \in Seq(Byte)
  BY <1>1, EncodeType
<1> HIDE DEF g, h
<1> DEFINE Bad == {k \in 0 .. n : g[k + 1] # Encode(f) \o h[k]}
<1>6. Bad = {}
  <2> SUFFICES ASSUME Bad # {} PROVE FALSE
    OBVIOUS
  <2>1. PICK k \in Bad : \A other \in Bad : k <= other
    <3>1. Bad \subseteq Nat
      BY <1>1
    <3> HIDE DEF Bad
    <3> QED
      BY <3>1, HasLeast, Zenon
  <2>2. k # 0
    <3>1. g[0 + 1] = g[0] \o Encode(fs[1])
      <4>1. 1 \in 1 .. n + 1 /\ 1 - 1 = 0 /\ 0 + 1 = 1
        BY <1>1
      <4> QED
        BY <1>2, <4>1
    <3>2. g[0 + 1] = Encode(f)
      BY <1>1, <1>2, <1>5, <3>1, ConcatEmptySeq
    <3>3. Encode(f) \o h[0] = Encode(f)
      BY <1>3, <1>5, ConcatEmptySeq
    <3>4. 0 \notin Bad
      BY <3>2, <3>3
    <3> QED
      BY <2>1, <3>4
  <2>3. /\ k - 1 \in 0 .. n /\ k \in 1 .. n /\ k + 1 \in 1 .. n + 1
        /\ k - 1 + 1 = k /\ k + 1 - 1 = k /\ ~(k <= k - 1)
    BY <1>1, <2>1, <2>2
  <2>4. g[k] = Encode(f) \o h[k - 1]
    <3>1. k - 1 \notin Bad
      BY <2>1, <2>3
    <3>2. g[k - 1 + 1] = Encode(f) \o h[k - 1]
      BY <2>3, <3>1
    <3> QED
      BY <2>3, <3>2
  <2>5. g[k + 1] = g[k] \o Encode(fs[k + 1]) /\ h[k] = h[k - 1] \o Encode(ts[k])
    <3>1. PICK m \in Int : m = k + 1
      BY <2>3
    <3>2. m \in 1 .. n + 1 /\ m - 1 = k
      BY <2>3, <3>1
    <3>3. g[m] = g[m - 1] \o Encode(fs[m])
      BY <1>2, <3>2
    <3>4. h[k] = h[k - 1] \o Encode(ts[k])
      BY <1>3, <2>3, Zenon
    <3> QED
      BY <3>1, <3>2, <3>3, <3>4
  <2>6. ts[k] = fs[k + 1] /\ Encode(ts[k]) \in Seq(Byte)
    <3>1. ts[k] = fs[k + 1]
      BY <1>1, <2>3
    <3>2. fs[k + 1] \in Payload
      BY <1>1, <2>3
    <3> QED
      BY <3>1, <3>2, EncodeType, Zenon
  <2>7. (Encode(f) \o h[k - 1]) \o Encode(ts[k]) = Encode(f) \o (h[k - 1] \o Encode(ts[k]))
    <3>1. h[k - 1] \in Seq(Byte)
      BY <1>4, <2>3
    <3> QED
      BY <1>5, <2>6, <3>1, ByteConcat, Zenon
  <2> QED
    BY <2>1, <2>4, <2>5, <2>6, <2>7
<1>7. n \in 0 .. n
  BY <1>1
<1> QED
  BY <1>1, <1>2, <1>3, <1>4, <1>6, <1>7 DEF f, ts, n

-----------------------------------------------------------------------------
(* Frames in the window.                                                   *)

\* The n bytes of the array d behind the place p.
Window(d, p, n) == [i \in 1 .. n |-> d[p + i]]

\* FramesIntact of any state.
Intact(d, p, s, h, fs) ==
  fs # unknown => h <= s /\ Window(d, p + h, s - h) = EncodeAll(fs)

LEMMA IntactIs ==
  /\ FramesIntact <=> Intact(data, prefix, size, header, frames)
  /\ FramesIntact' <=> Intact(data', prefix', size', header', frames')
  BY DEF FramesIntact, Intact, Bytes, Window

LEMMA NoBytes == ASSUME NEW d, NEW p PROVE Window(d, p, 0) = <<>>
  BY DEF Window

LEMMA WindowType ==
  ASSUME WindowInv, NEW from \in 0 .. size
  PROVE  /\ Window(data, prefix + from, size - from) \in Seq(Byte)
         /\ Len(Window(data, prefix + from, size - from)) = size - from
         /\ \A i \in 1 .. size - from :
              Window(data, prefix + from, size - from)[i] = data[prefix + from + i]
<1> DEFINE w == Window(data, prefix + from, size - from)
<1>1. size - from \in Nat
  BY DEF WindowInv, TypeOK
<1>2. ASSUME NEW i \in 1 .. size - from PROVE data[prefix + from + i] \in Byte
  <2>1. prefix + from + i \in Place
    BY BufferAssumption DEF WindowInv, TypeOK, WindowInside, Place
  <2> QED
    BY <2>1 DEF WindowInv, TypeOK
<1>3. w \in [1 .. size - from -> Byte]
  BY <1>2 DEF Window
<1>4. w \in Seq(Byte) /\ Len(w) = size - from
  BY <1>1, <1>3
<1>5. \A i \in 1 .. size - from : w[i] = data[prefix + from + i]
  BY DEF Window
<1> QED
  BY <1>4, <1>5

\* A step that leaves what is behind the header where it is, or gives up on it.
LEMMA IntactKept ==
  ASSUME FramesIntact,
         \/ frames' = unknown
         \/ /\ frames' = frames /\ data' = data
            /\ prefix' + header' = prefix + header /\ size' - header' = size - header
            /\ header' <= size'
  PROVE  FramesIntact'
  BY IntactIs DEF Intact

\* A window that is empty, in front of no frames.
LEMMA IntactEmpty ==
  ASSUME frames' \in {<<>>, unknown}, size' = 0, header' = 0
  PROVE  FramesIntact'
<1>1. Window(data', prefix' + 0, 0) = <<>>
  BY NoBytes
<1>2. 0 - 0 = 0
  OBVIOUS
<1> QED
  BY <1>1, <1>2, IntactIs, EncodeNone DEF Intact

LEMMA SetSizeIntact ==
  ASSUME WindowInv, FramesIntact, NEW len \in 0 .. Capacity + 1, SetSize(len)
  PROVE  FramesIntact'
<1>1. CASE size' = 0
  BY <1>1, IntactEmpty DEF SetSize
<1>2. CASE size' # 0 /\ frames' # unknown
  <2>1. /\ size' = size /\ frames' = frames /\ header' = header
        /\ prefix' = prefix /\ data' = data
    BY <1>2 DEF SetSize
  <2>2. header <= size
    BY DEF WindowInv
  <2> QED
    BY <2>1, <2>2, IntactKept
<1>3. CASE frames' = unknown
  BY <1>3, IntactKept
<1> QED
  BY <1>1, <1>2, <1>3

LEMMA ShiftIntact ==
  ASSUME WindowInv, FramesIntact, NEW distance \in Distance, Shift(distance)
  PROVE  FramesIntact'
<1>1. CASE frames' = unknown
  BY <1>1, IntactKept
<1>2. CASE frames' # unknown /\ prefix' = prefix
  <2>1. size' = size /\ frames' = frames /\ header' = header /\ data' = data
    BY <1>2 DEF Shift
  <2>2. header <= size
    BY DEF WindowInv
  <2> QED
    BY <1>2, <2>1, <2>2, IntactKept
<1>3. CASE frames' # unknown /\ prefix' # prefix
  <2>1. size = 0 /\ size' = size /\ frames' = frames /\ header' = header
    BY <1>3 DEF Shift
  <2>2. header = 0
    BY <2>1 DEF WindowInv, TypeOK
  <2>3. Window(data, prefix + 0, 0) = EncodeAll(frames)
    <3>1. 0 - 0 = 0
      OBVIOUS
    <3> QED
      BY <1>3, <2>1, <2>2, <3>1, IntactIs DEF Intact
  <2>4. Window(data', prefix' + 0, 0) = EncodeAll(frames')
    BY <2>1, <2>3, NoBytes
  <2>5. 0 - 0 = 0 /\ 0 <= 0
    OBVIOUS
  <2> QED
    BY <2>1, <2>2, <2>4, <2>5, IntactIs DEF Intact
<1> QED
  BY <1>1, <1>2, <1>3

LEMMA MoveFrontIntact ==
  ASSUME WindowInv, FramesIntact, NEW distance \in Distance, MoveFrontBoundary(distance)
  PROVE  FramesIntact'
<1>1. distance \in Int /\ header <= size /\ header \in Nat /\ size \in Nat /\ prefix \in Nat
  BY BufferAssumption DEF WindowInv, TypeOK, Distance
<1>2. CASE frames' = unknown
  BY <1>2, IntactKept
<1>3. CASE frames' # unknown
  <2>1. /\ frames' = frames /\ data' = data
        /\ \/ /\ prefix' = prefix + distance /\ size' = size - distance
              /\ header' = header - distance
           \/ prefix' = prefix /\ size' = size /\ header' = header
    BY <1>3 DEF MoveFrontBoundary
  <2>2. /\ prefix' + header' = prefix + header /\ size' - header' = size - header
        /\ header' <= size'
    BY <1>1, <2>1
  <2> QED
    BY <2>1, <2>2, IntactKept
<1> QED
  BY <1>2, <1>3

LEMMA MoveBackIntact ==
  ASSUME WindowInv, FramesIntact, NEW distance \in Distance, MoveBackBoundary(distance)
  PROVE  FramesIntact'
<1>1. CASE frames' = unknown
  BY <1>1, IntactKept
<1>2. CASE frames' # unknown
  <2>1. /\ size' = size /\ frames' = frames /\ header' = header
        /\ prefix' = prefix /\ data' = data
    BY <1>2 DEF MoveBackBoundary
  <2>2. header <= size
    BY DEF WindowInv
  <2> QED
    BY <2>1, <2>2, IntactKept
<1> QED
  BY <1>1, <1>2

\* A frame written behind the window is the last behind the header.
LEMMA WriteToBackIntact ==
  ASSUME WindowInv, FramesIntact, NEW f \in Payload, WriteToBack(f)
  PROVE  FramesIntact'
<1>1. CASE ~RoomFor(f, size)
  <2>1. /\ size' = size /\ frames' = frames /\ header' = header
        /\ prefix' = prefix /\ data' = data
    BY <1>1 DEF WriteToBack
  <2>2. header <= size
    BY DEF WindowInv
  <2> QED
    BY <2>1, <2>2, IntactKept
<1>2. CASE RoomFor(f, size) /\ frames = unknown
  <2>1. frames' = unknown
    BY <1>2 DEF WriteToBack
  <2> QED
    BY <2>1, IntactKept
<1>3. CASE RoomFor(f, size) /\ frames # unknown
  <2> DEFINE e == Encode(f)
             n == size - header
             old == Window(data, prefix + header, n)
             new == Window(data', prefix + header, n + Len(e))
  <2>1. /\ f \in Seq(Byte) /\ Len(f) \in Nat /\ e \in Seq(Byte) /\ Len(e) = Len(f) + 2
    BY EncodeType
  <2>2. /\ size' = size + Len(e) /\ prefix' = prefix /\ header' = header
        /\ data' = Put(size, e) /\ frames' = Append(frames, f)
        /\ size' = size + Len(f) + 2
    BY <1>3, <2>1 DEF WriteToBack, WindowInv, TypeOK
  <2>3. /\ prefix \in Nat /\ size \in Nat /\ header \in Nat /\ Capacity \in Nat
        /\ prefix + size <= Capacity /\ header <= size /\ n \in Nat
        /\ size' <= Capacity - prefix
    BY <1>3, <2>1, <2>2, BufferAssumption
    DEF WindowInv, TypeOK, WindowInside, RoomFor, suffixSpace
  <2>4. frames \in Seq(Payload)
    BY <1>3 DEF WindowInv, TypeOK
  <2>5. /\ old \in Seq(Byte) /\ Len(old) = n
        /\ \A i \in 1 .. n : old[i] = data[prefix + header + i]
    BY <2>3, WindowType
  <2>6. old = EncodeAll(frames)
    BY <1>3, IntactIs DEF Intact
  <2>7. WindowInv'
    BY WriteToBackWindow
  <2>8. /\ new \in Seq(Byte) /\ Len(new) = n + Len(e)
        /\ \A i \in 1 .. n + Len(e) : new[i] = data'[prefix + header + i]
    <3>1. ASSUME NEW i \in 1 .. n + Len(e) PROVE data'[prefix + header + i] \in Byte
      <4>1. prefix + header + i \in Place
        BY <2>1, <2>2, <2>3 DEF Place
      <4> QED
        BY <2>7, <4>1 DEF WindowInv, TypeOK
    <3>2. new \in [1 .. n + Len(e) -> Byte]
      BY <3>1 DEF Window
    <3>3. n + Len(e) \in Nat
      BY <2>1, <2>3
    <3>4. \A i \in 1 .. n + Len(e) : new[i] = data'[prefix + header + i]
      BY DEF Window
    <3> HIDE DEF new, n, e
    <3> QED
      BY <3>2, <3>3, <3>4
  <2> DEFINE joined == old \o e
  <2>9. /\ joined \in Seq(Byte) /\ Len(joined) = n + Len(e)
        /\ \A i \in 1 .. n + Len(e) : joined[i] = IF i <= n THEN old[i] ELSE e[i - n]
    <3> HIDE DEF old, e, n
    <3> QED
      BY <2>1, <2>5, ConcatProperties
  <2>10. ASSUME NEW i \in 1 .. n + Len(e) PROVE new[i] = joined[i]
    <3>1. PICK q : q = prefix + header + i
      OBVIOUS
    <3>2. q \in Place \cup (prefix + size + 1 .. prefix + size + Len(e))
      BY <2>1, <2>2, <2>3, <3>1 DEF Place
    <3>3. data'[q] = IF q \in prefix + size + 1 .. prefix + size + Len(e)
                     THEN e[q - prefix - size] ELSE data[q]
      <4> HIDE DEF e, n
      <4> QED
        BY <2>2, <3>2 DEF Put
    <3>4. new[i] = data'[q]
      <4> HIDE DEF e, n, new
      <4> QED
        BY <2>8, <3>1
    <3>5. CASE i <= n
      <4>1. q \notin prefix + size + 1 .. prefix + size + Len(e)
        BY <2>1, <2>3, <3>1, <3>5
      <4>2. i \in 1 .. n
        BY <2>1, <2>3, <3>5
      <4> HIDE DEF e, n, old, new, joined
      <4> QED
        BY <2>5, <2>9, <3>1, <3>3, <3>4, <3>5, <4>1, <4>2
    <3>6. CASE ~(i <= n)
      <4>1. q \in prefix + size + 1 .. prefix + size + Len(e) /\ q - prefix - size = i - n
        BY <2>1, <2>3, <3>1, <3>6
      <4> HIDE DEF e, n, old, new, joined
      <4> QED
        BY <2>9, <3>3, <3>4, <3>6, <4>1
    <3> QED
      BY <3>5, <3>6
  <2>11. new = joined
    <3> HIDE DEF new, joined, e, n
    <3> QED
      BY <2>8, <2>9, <2>10, SeqEqual
  <2>12. EncodeAll(frames') = joined
    BY <2>2, <2>4, <2>6, EncodeAppend
  <2>13. size' - header' = n + Len(e) /\ header' <= size' /\ prefix' + header' = prefix + header
    BY <2>1, <2>2, <2>3
  <2> HIDE DEF e, n, old, joined
  <2> QED
    BY <2>11, <2>12, <2>13, IntactIs DEF Intact
<1> QED
  BY <1>1, <1>2, <1>3

\* Without a header, the first frame is what a read returns, and what it passes over.
LEMMA ReadsFirst ==
  ASSUME WindowInv, FramesIntact, header = 0, frames \notin {unknown, <<>>}
  PROVE  /\ Read(0) = Head(frames)
         /\ Head(frames) \in Payload /\ Tail(frames) \in Seq(Payload)
         /\ Len(Head(frames)) + 2 <= size
         /\ Window(data, prefix, size) = Encode(Head(frames)) \o EncodeAll(Tail(frames))
<1> DEFINE f == Head(frames)
           e == Encode(f)
           rest == EncodeAll(Tail(frames))
           w == Window(data, prefix, size)
<1>1. frames \in Seq(Payload) /\ frames # <<>>
  BY DEF WindowInv, TypeOK
<1>2. /\ f \in Payload /\ Tail(frames) \in Seq(Payload) /\ rest \in Seq(Byte)
      /\ EncodeAll(frames) = e \o rest
  BY <1>1, EncodeHeadTail
<1>3. /\ f \in Seq(Byte) /\ Len(f) \in Nat /\ e \in Seq(Byte) /\ Len(e) = Len(f) + 2
      /\ 256 * e[1] + e[2] = Len(f)
      /\ \A i \in 1 .. Len(f) : e[i + 2] = f[i]
  BY <1>2, EncodeType
<1>4. prefix \in Nat /\ size \in Nat /\ prefix + 0 = prefix /\ size - 0 = size /\ 0 \in 0 .. size
  BY DEF WindowInv, TypeOK
<1>5. /\ w \in Seq(Byte) /\ Len(w) = size
      /\ \A i \in 1 .. size : w[i] = data[prefix + i]
  BY <1>4, WindowType
<1>6. w = e \o rest
  BY <1>2, <1>4, IntactIs DEF Intact
<1> HIDE DEF f, e, rest, w
<1>7. /\ Len(w) = Len(e) + Len(rest) /\ Len(rest) \in Nat
      /\ \A i \in 1 .. Len(e) + Len(rest) :
           w[i] = IF i <= Len(e) THEN e[i] ELSE rest[i - Len(e)]
  BY <1>2, <1>3, <1>6, ConcatProperties
<1>8. size >= Len(f) + 2
  BY <1>3, <1>4, <1>5, <1>7
<1>9. ASSUME NEW i \in 1 .. Len(e) PROVE data[prefix + i] = e[i]
  <2>1. i \in 1 .. size /\ i \in 1 .. Len(e) + Len(rest) /\ i <= Len(e)
    BY <1>3, <1>4, <1>7, <1>8
  <2>2. w[i] = e[i]
    BY <1>7, <2>1
  <2>3. w[i] = data[prefix + i]
    BY <1>5, <2>1
  <2> QED
    BY <2>2, <2>3
<1>10. LengthAt(0) = Len(f)
  <2>1. data[prefix + 1] = e[1] /\ data[prefix + 2] = e[2]
    BY <1>3, <1>9
  <2>2. prefix + 0 + 1 = prefix + 1 /\ prefix + 0 + 2 = prefix + 2
    BY <1>4
  <2> QED
    BY <1>3, <2>1, <2>2 DEF LengthAt
<1>11. Read(0) = Bytes(0 + 2, LengthAt(0))
  BY <1>3, <1>4, <1>8, <1>10 DEF Read
<1>12. Bytes(0 + 2, LengthAt(0)) = f
  <2>1. ASSUME NEW i \in 1 .. Len(f) PROVE data[prefix + 2 + i] = f[i]
    <3>1. PICK m : m = i + 2
      OBVIOUS
    <3>2. m \in 1 .. Len(e) /\ prefix + m = prefix + 2 + i
      BY <1>3, <1>4, <3>1
    <3> QED
      BY <1>3, <1>9, <3>1, <3>2
  <2>2. f = [i \in 1 .. Len(f) |-> f[i]]
    BY <1>3
  <2>3. Bytes(2, Len(f)) = [i \in 1 .. Len(f) |-> f[i]]
    BY <2>1 DEF Bytes
  <2>4. 0 + 2 = 2
    OBVIOUS
  <2> QED
    BY <1>10, <2>2, <2>3, <2>4
<1> QED
  BY <1>2, <1>6, <1>8, <1>11, <1>12 DEF f, e, rest, w

\* What is left behind the first frame is the rest.
LEMMA RestOfWindow ==
  ASSUME WindowInv, NEW e \in Seq(Byte), NEW rest \in Seq(Byte), Len(e) <= size,
         Window(data, prefix, size) = e \o rest
  PROVE  Window(data, prefix + Len(e), size - Len(e)) = rest
<1>1. prefix \in Nat /\ size \in Nat /\ prefix + 0 = prefix /\ size - 0 = size /\ 0 \in 0 .. size
  BY DEF WindowInv, TypeOK
<1> DEFINE w == Window(data, prefix, size)
           v == Window(data, prefix + Len(e), size - Len(e))
<1>2. Len(e) \in Nat /\ Len(e) \in 0 .. size
  BY <1>1
<1>3. /\ Len(w) = size
      /\ \A i \in 1 .. size : w[i] = data[prefix + i]
  BY <1>1, WindowType
<1>4. /\ v \in Seq(Byte) /\ Len(v) = size - Len(e)
      /\ \A i \in 1 .. size - Len(e) : v[i] = data[prefix + Len(e) + i]
  BY <1>2, WindowType
<1>5. w = e \o rest
  OBVIOUS
<1> HIDE DEF w, v
<1>6. /\ Len(w) = Len(e) + Len(rest) /\ Len(rest) \in Nat
      /\ \A i \in 1 .. Len(e) + Len(rest) :
           w[i] = IF i <= Len(e) THEN e[i] ELSE rest[i - Len(e)]
  BY <1>5, ConcatProperties
<1>7. Len(rest) = size - Len(e)
  BY <1>1, <1>2, <1>3, <1>6
<1>8. ASSUME NEW i \in 1 .. size - Len(e) PROVE v[i] = rest[i]
  <2>1. PICK m : m = Len(e) + i
    OBVIOUS
  <2>2. /\ m \in 1 .. size /\ ~(m <= Len(e)) /\ m - Len(e) = i
        /\ prefix + m = prefix + Len(e) + i
    BY <1>1, <1>2, <2>1
  <2>3. w[m] = rest[i]
    BY <1>3, <1>6, <2>2
  <2>4. w[m] = data[prefix + Len(e) + i]
    BY <1>3, <2>2
  <2> QED
    BY <1>4, <2>3, <2>4
<1>9. v = rest
  BY <1>4, <1>7, <1>8, SeqEqual
<1> QED
  BY <1>9 DEF v

LEMMA ReadFromFrontIntact ==
  ASSUME WindowInv, FramesIntact, ReadFromFront
  PROVE  FramesIntact'
<1> DEFINE r == Read(0)
<1>1. /\ data' = data
      /\ prefix' = prefix + Consumed(r) /\ size' = size - Consumed(r)
      /\ \/ Consumed(r) = 0 /\ frames' = frames /\ header' = header
         \/ /\ Consumed(r) > 0 /\ header' = 0
            /\ frames' = IF header > 0 \/ frames \in {unknown, <<>>} THEN unknown
                         ELSE Tail(frames)
  BY DEF ReadFromFront
<1>2. Len(r) \in Nat
  BY ReadInside
<1>3. prefix \in Nat /\ size \in Nat /\ header \in Nat /\ header <= size
  BY DEF WindowInv, TypeOK
<1>4. CASE frames' = unknown
  BY <1>4, IntactKept
<1>5. CASE Consumed(r) = 0 /\ frames' = frames /\ header' = header
  <2>1. prefix' = prefix /\ size' = size
    BY <1>1, <1>3, <1>5
  <2> QED
    BY <1>1, <1>3, <1>5, <2>1, IntactKept
<1>6. CASE Consumed(r) > 0 /\ frames' # unknown
  <2>1. /\ header' = 0 /\ frames' = Tail(frames)
        /\ header = 0 /\ frames \notin {unknown, <<>>}
    BY <1>1, <1>3, <1>6
  <2> DEFINE f == Head(frames)
             e == Encode(f)
             rest == EncodeAll(Tail(frames))
  <2>2. /\ r = f /\ f \in Payload /\ Len(f) + 2 <= size /\ Tail(frames) \in Seq(Payload)
        /\ Window(data, prefix, size) = e \o rest
    BY <2>1, ReadsFirst
  <2>3. e \in Seq(Byte) /\ Len(e) = Len(f) + 2
    BY <2>2, EncodeType
  <2>4. frames \in Seq(Payload) /\ frames # <<>>
    BY <2>1 DEF WindowInv, TypeOK
  <2>5. rest \in Seq(Byte)
    BY <2>4, EncodeHeadTail
  <2>6. Consumed(r) = Len(e)
    BY <1>2, <1>6, <2>2, <2>3 DEF Consumed
  <2> HIDE DEF r, e, f, rest
  <2>7. Window(data, prefix + Len(e), size - Len(e)) = rest
    BY <2>2, <2>3, <2>5, RestOfWindow
  <2>8. /\ prefix' + 0 = prefix + Len(e) /\ size' - 0 = size - Len(e) /\ 0 <= size'
    BY <1>1, <1>3, <2>2, <2>3, <2>6
  <2> QED
    BY <1>1, <2>1, <2>7, <2>8, IntactIs DEF Intact, rest
<1> QED
  BY <1>1, <1>2, <1>4, <1>5, <1>6 DEF Consumed

LEMMA IntactNext == WindowInv /\ FramesIntact /\ [Next]_vars => FramesIntact'
<1> SUFFICES ASSUME WindowInv, FramesIntact, [Next]_vars PROVE FramesIntact'
  OBVIOUS
<1>1. CASE UNCHANGED vars
  <2>1. header <= size
    BY DEF WindowInv
  <2> QED
    BY <1>1, <2>1, IntactKept DEF vars
<1>2. CASE \E len \in 0 .. Capacity + 1 : SetSize(len)
  BY <1>2, SetSizeIntact
<1>3. CASE \E distance \in Distance : Shift(distance)
  BY <1>3, ShiftIntact
<1>4. CASE \E distance \in Distance : MoveFrontBoundary(distance)
  BY <1>4, MoveFrontIntact
<1>5. CASE \E distance \in Distance : MoveBackBoundary(distance)
  BY <1>5, MoveBackIntact
<1>6. CASE \E f \in Payload : WriteToBack(f)
  BY <1>6, WriteToBackIntact
<1>7. CASE ReadFromFront
  BY <1>7, ReadFromFrontIntact
<1> QED
  BY <1>1, <1>2, <1>3, <1>4, <1>5, <1>6, <1>7 DEF Next

LEMMA IntactInit == Init => FramesIntact
  BY DEF Init, FramesIntact

LEMMA FramesAlways == Spec => [](WindowInv /\ FramesIntact)
  BY WindowInit, IntactInit, WindowNext, IntactNext, PTL DEF Spec

\* Frames survive what does not cut into them: behind the header, the window holds the
\* frames written and not yet read, byte for byte (BufferPool.h:57-63, 84-90, 102-115),
\* for frames of any length and number.
THEOREM FramesCorrect == Spec => []FramesIntact
  BY FramesAlways, PTL

LEMMA ReadsStep ==
  ASSUME WindowInv, FramesIntact, [Next]_vars
  PROVE  result' # result /\ frames \notin {unknown, <<>>} /\ header = 0
           => result' = Head(frames)
<1>1. CASE ReadFromFront
  BY <1>1, ReadsFirst DEF ReadFromFront
<1>2. CASE ~ReadFromFront
  BY <1>2 DEF Next, vars, SetSize, Shift, MoveFrontBoundary, MoveBackBoundary, WriteToBack
<1> QED
  BY <1>1, <1>2

\* A read without a header in front returns the oldest frame (BufferPool.h:73-90,
\* 102-115).
THEOREM ReadsCorrect == Spec => ReadsOldest
<1>1. WindowInv /\ FramesIntact /\ [Next]_vars =>
        [result' # result /\ frames \notin {unknown, <<>>} /\ header = 0
          => result' = Head(frames)]_vars
  BY ReadsStep
<1> QED
  BY <1>1, FramesAlways, PTL DEF Spec, ReadsOldest

=============================================================================
