------------------------------ MODULE BufferPool ------------------------------
(***************************************************************************)
(* BufferPool (BufferPool.h:132-184): a stack of available buffers, filled *)
(* by whole chunks and never given back to the system.  alloc and free     *)
(* hold the pool's mutex, so each is one step of whoever calls it; the     *)
(* pool has no notion of who holds a buffer, and frees what it is told to. *)
(* A buffer is the number of its place in the chunks.                      *)
(***************************************************************************)
EXTENDS Integers, Sequences

CONSTANT
  BuffersPerChunk   \* _buffersPerChunk

ASSUME BufferPoolAssumption == BuffersPerChunk \in Nat \ {0}

\* A pool: the stack, its top the last element, and the number of chunks.
EmptyPool == [available |-> <<>>, chunks |-> 0]

\* allCount(), and the buffers it counts.
AllBuffers(p) == 1 .. p.chunks * BuffersPerChunk

\* The buffers that stand on the stack.
AvailableBuffers(p) == {p.available[i] : i \in DOMAIN p.available}

\* A pool alloc can take a buffer of: _allocChunk, when none is available.
Filled(p) ==
  IF p.available # <<>> THEN p
  ELSE [available |-> [i \in 1 .. BuffersPerChunk |-> p.chunks * BuffersPerChunk + i],
        chunks |-> p.chunks + 1]

\* The buffer alloc returns.
Allocated(p) == Filled(p).available[Len(Filled(p).available)]

\* Mutant of AfterAlloc: the buffer stays on the stack.
AfterAllocUnpopped(p) == Filled(p)

\* The pool after alloc.
AfterAlloc(p) ==
  [Filled(p) EXCEPT !.available = SubSeq(@, 1, Len(@) - 1)]

\* The pool after free(b).
AfterFree(p, b) == [p EXCEPT !.available = Append(@, b)]

=============================================================================
