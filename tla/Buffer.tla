-------------------------------- MODULE Buffer --------------------------------
(***************************************************************************)
(* Buffer (BufferPool.h:17-129): a window over an array of bytes, moved    *)
(* and resized by its users, which the length-prefixed frames of the RPC   *)
(* payloads are written to and read from.  A header is put in front of     *)
(* the frames by moving the front boundary down and stripped by moving it  *)
(* up again.                                                               *)
(*                                                                         *)
(* The window is prefix (the bytes in front of _data) and size; pointers   *)
(* into the array are places 1 .. Capacity.  All calls are on one object   *)
(* at a time: two copies share the array, never the window.                *)
(***************************************************************************)
EXTENDS Integers, Sequences

CONSTANTS
  Capacity,   \* _internalSize
  Byte,       \* the bytes in use
  Payload,    \* the frames in use, sequences of bytes
  MaxFrames,  \* bound: number of frames in the window at a time
  unknown     \* no sequence of frames

\* The arrays of the program have at most 2000 bytes, so no sum leaves uint32_t and
\* a frame's length stands in its second length byte unless it exceeds 255.
ASSUME BufferAssumption ==
  /\ Capacity \in Nat \ {0}
  /\ Byte \subseteq 0 .. 255
  /\ 0 \in Byte
  /\ Payload \subseteq Seq(Byte)
  /\ \A f \in Payload : Len(f) \div 256 \in Byte /\ Len(f) % 256 \in Byte
  /\ MaxFrames \in Nat
  /\ unknown \notin Seq(Payload)

VARIABLES
  prefix,   \* prefixSpace()
  size,     \* _size
  data,     \* _internal: place -> byte
  result,   \* what the last read returned
  frames,   \* history: the frames between the header and the end, or unknown
  header    \* history: the bytes of header in front of the frames

vars == <<prefix, size, data, result, frames, header>>

Place == 1 .. Capacity

TypeOK ==
  /\ prefix \in 0 .. Capacity
  /\ size \in 0 .. Capacity
  /\ data \in [Place -> Byte]
  /\ result \in Seq(Byte)
  /\ frames \in Seq(Payload) \cup {unknown}
  /\ header \in 0 .. Capacity

\* A buffer as alloc hands it out: the array holds what its last owner left in it, or
\* what new did.
Init ==
  /\ prefix = 0
  /\ size = Capacity
  /\ data \in [Place -> Byte]
  /\ result = <<>>
  /\ frames = unknown
  /\ header = 0

suffixSpace == Capacity - prefix - size

-----------------------------------------------------------------------------
(* The window.                                                             *)

\* Mutant of SizeFits: the space in front of the window is not counted.
SizeFitsAnywhere(len) == len <= Capacity

\* The guard of size(len).
SizeFits(len) == len <= Capacity - prefix

\* The guard of shift(distance).
ShiftFits(distance) == distance <= suffixSpace /\ -distance <= prefix

\* Mutant of FrontFits: the front boundary may pass the end of the window.
FrontFitsAny(distance) == -distance <= prefix

\* The guard of moveFrontBoundary(distance).
FrontFits(distance) == -distance <= prefix /\ distance <= size

\* The guard of moveBackBoundary(distance).
BackFits(distance) == distance <= suffixSpace /\ -distance <= size

\* size(len): emptying the window begins a new sequence of frames.
SetSize(len) ==
  /\ size' = IF SizeFits(len) THEN len ELSE size
  /\ frames' = IF size' = 0 THEN <<>> ELSE IF size' = size THEN frames ELSE unknown
  /\ header' = IF size' = 0 \/ frames' = unknown THEN 0 ELSE header
  /\ UNCHANGED <<prefix, data, result>>

\* shift(distance): the window moves over other bytes.
Shift(distance) ==
  /\ prefix' = IF ShiftFits(distance) THEN prefix + distance ELSE prefix
  /\ frames' = IF prefix' = prefix \/ size = 0 THEN frames ELSE unknown
  /\ header' = IF frames' = unknown THEN 0 ELSE header
  /\ UNCHANGED <<size, data, result>>

\* moveFrontBoundary(distance): down for a header, up to strip what was put there.
MoveFrontBoundary(distance) ==
  /\ \/ /\ FrontFits(distance)
        /\ prefix' = prefix + distance
        /\ size' = size - distance
        /\ IF frames # unknown /\ distance <= header
           THEN frames' = frames /\ header' = header - distance
           ELSE frames' = unknown /\ header' = 0
     \/ /\ ~FrontFits(distance)
        /\ UNCHANGED <<prefix, size, frames, header>>
  /\ UNCHANGED <<data, result>>

\* moveBackBoundary(distance).
MoveBackBoundary(distance) ==
  /\ size' = IF BackFits(distance) THEN size + distance ELSE size
  /\ frames' = IF size' = size THEN frames ELSE unknown
  /\ header' = IF frames' = unknown THEN 0 ELSE header
  /\ UNCHANGED <<prefix, data, result>>

-----------------------------------------------------------------------------
(* Frames.                                                                 *)

\* The bytes of a frame: its length, big endian, and its content.
Encode(f) == <<Len(f) \div 256, Len(f) % 256>> \o f

\* The bytes at n places behind the front of the window.
Bytes(from, n) == [i \in 1 .. n |-> data[prefix + from + i]]

\* The array with the bytes s written from the place prefix + from on.
Put(from, s) ==
  [p \in Place \cup (prefix + from + 1 .. prefix + from + Len(s)) |->
     IF p \in prefix + from + 1 .. prefix + from + Len(s)
     THEN s[p - prefix - from] ELSE data[p]]

\* The guard of writeBuffer: a frame that would fill the array to its last byte is
\* refused.
RoomFor(f, from) == ~(from + Len(f) + 2 >= size + suffixSpace)

\* Mutant of WriteToBack: the frame is written over the one in front.
WriteToFront(f) ==
  /\ \/ /\ RoomFor(f, size)
        /\ size' = size + Len(f) + 2
        /\ data' = Put(0, Encode(f))
        /\ frames' = IF frames = unknown THEN unknown ELSE Append(frames, f)
     \/ /\ ~RoomFor(f, size)
        /\ UNCHANGED <<size, data, frames>>
  /\ UNCHANGED <<prefix, result, header>>

\* writeBufferToBack: writeBuffer behind the end of the window, which grows.
WriteToBack(f) ==
  /\ \/ /\ RoomFor(f, size)
        /\ frames # unknown => Len(frames) < MaxFrames
        /\ size' = size + Len(f) + 2
        /\ data' = Put(size, Encode(f))
        /\ frames' = IF frames = unknown THEN unknown ELSE Append(frames, f)
     \/ /\ ~RoomFor(f, size)
        /\ UNCHANGED <<size, data, frames>>
  /\ UNCHANGED <<prefix, result, header>>

\* The length a frame at from claims.
LengthAt(from) == 256 * data[prefix + from + 1] + data[prefix + from + 2]

\* readBuffer: the content of the frame at from, empty when the window ends before it
\* does.
Read(from) ==
  IF size < from + 2 THEN <<>>
  ELSE IF size < from + 2 + LengthAt(from) THEN <<>>
  ELSE Bytes(from + 2, LengthAt(from))

\* Mutant of Consumed: only the content of the frame is passed over.
ConsumedContent(f) == Len(f)

\* The bytes readBufferFromFront passes over; none for an empty result.
Consumed(f) == IF Len(f) > 0 THEN 2 + Len(f) ELSE 0

\* readBufferFromFront.
ReadFromFront ==
  /\ result' = Read(0)
  /\ prefix' = prefix + Consumed(Read(0))
  /\ size' = size - Consumed(Read(0))
  /\ \/ /\ Consumed(Read(0)) = 0
        /\ UNCHANGED <<frames, header>>
     \/ /\ Consumed(Read(0)) > 0
        /\ header' = 0
        /\ frames' = IF header > 0 \/ frames \in {unknown, <<>>} THEN unknown
                     ELSE Tail(frames)
  /\ UNCHANGED data

Distance == -Capacity - 1 .. Capacity + 1

Next ==
  \/ \E len \in 0 .. Capacity + 1 : SetSize(len)
  \/ \E distance \in Distance :
       Shift(distance) \/ MoveFrontBoundary(distance) \/ MoveBackBoundary(distance)
  \/ \E f \in Payload : WriteToBack(f)
  \/ ReadFromFront

Spec == Init /\ [][Next]_vars

-----------------------------------------------------------------------------
(* What is wanted of it.                                                   *)

\* Whatever is called in whatever order, the window stays inside the array
\* (BufferPool.h:43-70, 84-90, 102-112): prefixSpace and suffixSpace, which are
\* unsigned, never wrap.
WindowInside == prefix + size <= Capacity

\* The bytes of a sequence of frames.
EncodeAll(fs) ==
  LET upTo[i \in 0 .. Len(fs)] == IF i = 0 THEN <<>> ELSE upTo[i - 1] \o Encode(fs[i])
  IN upTo[Len(fs)]

\* Frames survive everything that does not cut into them: behind the header, the
\* window holds exactly the frames written and not yet read, whatever headers were put
\* in front and stripped (BufferPool.h:57-63, 84-90, 102-115).
FramesIntact ==
  frames # unknown =>
    /\ header <= size
    /\ Bytes(header, size - header) = EncodeAll(frames)

\* A read returns the oldest frame (BufferPool.h:73-90, 102-115), and the empty string
\* only if the oldest frame is empty or there is none.
ReadsOldest ==
  [][result' # result /\ frames \notin {unknown, <<>>} /\ header = 0
       => result' = Head(frames)]_vars

=============================================================================
