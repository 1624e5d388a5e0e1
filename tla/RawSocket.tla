------------------------------ MODULE RawSocket ------------------------------
(***************************************************************************)
(* The raw socket of the server (RawSocket.h, RawSocket_darwin.h): a       *)
(* reader thread fills one buffer with batches of packets, the io thread   *)
(* hands them to onPacket from tasks the reader posts, and stop, on the io *)
(* thread or another, closes the device and deletes the buffer without     *)
(* taking the mutex.                                                       *)
(*                                                                         *)
(* A step ends where another thread can tell the difference: at a mutex,   *)
(* at a shared variable read without one, and between two packets of a     *)
(* batch that is read or consumed.  A packet is known by its batch and its *)
(* place in it; BPF and ethernet headers are left out.  A place of the     *)
(* deleted buffer holds no packet: whatever is written there, nothing is   *)
(* known of what is read.                                                  *)
(***************************************************************************)
EXTENDS Integers, Sequences

CONSTANTS
  BatchSize,    \* the most packets a read returns
  MaxBatches,   \* bound: number of batches that arrive
  gone          \* what a place of the deleted buffer holds: anything

ASSUME RawSocketAssumption ==
  BatchSize \in Nat \ {0} /\ MaxBatches \in Nat /\ gone \notin Nat

VARIABLES
  reading,      \* _reading
  opened,       \* _fd is open
  buf,          \* _buf: place -> the batch whose packet stands there
  readableLen,  \* _readableLen, counted in packets
  mutex,        \* the thread that holds _mutex
  reader,       \* where the reader thread stands
  place,        \* the place of _buf the reader fills next
  io,           \* what the io thread does
  at,           \* the place of _buf that consume looks at
  tasks,        \* posted tasks that the io thread has not taken
  stop,         \* the last statement of stop that has run
  stopper,      \* the thread that runs stop
  batches,      \* history: number of batches read
  delivered,    \* history: the packets handed to onPacket, <<batch, place>>
  touched       \* history: the threads that have used the deleted buffer

readerVars == <<buf, readableLen, place, batches>>
ioVars == <<at, delivered>>
stopVars == <<reading, opened, stop, stopper>>
vars == <<reading, opened, buf, readableLen, mutex, reader, place, io, at, tasks,
          stop, stopper, batches, delivered, touched>>

Place == 1 .. BatchSize

\* What a place of _buf holds: a packet of a batch, 0 being none read yet.
Content == (0 .. MaxBatches) \cup {gone}

TypeOK ==
  /\ reading \in BOOLEAN
  /\ opened \in BOOLEAN
  /\ buf \in [Place -> Content]
  /\ readableLen \in -1 .. BatchSize
  /\ mutex \in {"none", "reader", "io"}
  /\ reader \in {"test", "lock", "read", "filling", "check", "post", "parked",
                 "woken", "done", "terminated"}
  /\ place \in 1 .. BatchSize + 1
  /\ io \in {"idle", "locking", "consuming", "stopping", "stopped"}
  /\ at \in 1 .. BatchSize + 1
  /\ tasks \in Nat
  /\ stop \in {"no", "flagged", "closed", "freed", "done"}
  /\ stopper \in {"none", "io", "other"}
  /\ batches \in 0 .. MaxBatches
  /\ delivered \in Seq(Content \X Place)
  /\ touched \subseteq {"reader", "io"}

\* start, up to the reader thread's first step.
Init ==
  /\ reading = TRUE
  /\ opened = TRUE
  /\ buf = [p \in Place |-> 0]
  /\ readableLen = 0
  /\ mutex = "none"
  /\ reader = "test"
  /\ place = 1
  /\ io = "idle"
  /\ at = 1
  /\ tasks = 0
  /\ stop = "no"
  /\ stopper = "none"
  /\ batches = 0
  /\ delivered = <<>>
  /\ touched = {}

\* _buf has been deleted.
Deleted == stop \in {"freed", "done"}

Consumable == readableLen > 0

Touch(thread) == touched' = IF Deleted THEN touched \cup {thread} ELSE touched

-----------------------------------------------------------------------------
(* The reader thread, _startRead.                                          *)

\* while (_reading)
ReaderTests ==
  /\ reader = "test"
  /\ reader' = IF reading THEN "lock" ELSE "done"
  /\ UNCHANGED <<mutex, io, tasks, readerVars, ioVars, stopVars, touched>>

ReaderLocks ==
  /\ reader = "lock"
  /\ mutex = "none"
  /\ mutex' = "reader"
  /\ reader' = "read"
  /\ UNCHANGED <<io, tasks, readerVars, ioVars, stopVars, touched>>

\* read: the exception for a closed device leaves the thread and ends the program.
ReadBegins ==
  /\ reader = "read"
  /\ reader' = IF opened THEN "filling" ELSE "terminated"
  /\ place' = 1
  /\ UNCHANGED <<mutex, io, tasks, buf, readableLen, batches, ioVars, stopVars, touched>>

\* Mutant of ReadFills: the read goes on behind the end of the buffer.
ReadFillsBeyond ==
  /\ reader = "filling"
  /\ batches < MaxBatches
  /\ place' = place + 1
  /\ Touch("reader")
  /\ UNCHANGED <<buf, mutex, reader, io, tasks, readableLen, batches, ioVars, stopVars>>

\* ::read, which blocks until packets arrive, copies the next one.
ReadFills ==
  /\ reader = "filling"
  /\ batches < MaxBatches
  /\ place <= BatchSize
  /\ buf' = IF Deleted THEN buf ELSE [buf EXCEPT ![place] = batches + 1]
  /\ place' = place + 1
  /\ Touch("reader")
  /\ UNCHANGED <<mutex, reader, io, tasks, readableLen, batches, ioVars, stopVars>>

\* ::read returns the packets it has copied.
ReadEnds ==
  /\ reader = "filling"
  /\ place > 1
  /\ readableLen' = place - 1
  /\ batches' = batches + 1
  /\ reader' = "check"
  /\ UNCHANGED <<mutex, io, tasks, buf, place, ioVars, stopVars, touched>>

\* ::read returns an error, or nothing.
ReadFails ==
  /\ reader = "filling"
  /\ place = 1
  /\ readableLen' \in {-1, 0}
  /\ reader' = "check"
  /\ UNCHANGED <<mutex, io, tasks, buf, place, batches, ioVars, stopVars, touched>>

\* if (!_reading) return, which unlocks.
ReaderChecks ==
  /\ reader = "check"
  /\ reader' = IF reading THEN "post" ELSE "done"
  /\ mutex' = IF reading THEN mutex ELSE "none"
  /\ UNCHANGED <<io, tasks, readerVars, ioVars, stopVars, touched>>

\* The predicate of the wait on _cv.
WaitOver == Consumable

\* Mutant of ReaderPosts: the reader waits without a task posted.
ReaderPostsNothing ==
  /\ reader = "post"
  /\ mutex' = "none"
  /\ reader' = IF WaitOver THEN "test" ELSE "parked"
  /\ UNCHANGED <<tasks, io, readerVars, ioVars, stopVars, touched>>

\* post, then wait: with its predicate true the wait returns at once.  Either way
\* the mutex is given up.
ReaderPosts ==
  /\ reader = "post"
  /\ tasks' = tasks + 1
  /\ mutex' = "none"
  /\ reader' = IF WaitOver THEN "test" ELSE "parked"
  /\ UNCHANGED <<io, readerVars, ioVars, stopVars, touched>>

\* A waiting thread may wake up without being notified.
ReaderWakesSpuriously ==
  /\ reader = "parked"
  /\ reader' = "woken"
  /\ UNCHANGED <<mutex, io, tasks, readerVars, ioVars, stopVars, touched>>

\* wait takes the mutex again and evaluates its predicate.
ReaderWaits ==
  /\ reader = "woken"
  /\ mutex = "none"
  /\ reader' = IF WaitOver THEN "test" ELSE "parked"
  /\ UNCHANGED <<mutex, io, tasks, readerVars, ioVars, stopVars, touched>>

-----------------------------------------------------------------------------
(* The io thread.                                                          *)

\* The io thread takes a task off the context's queue.
TaskTaken ==
  /\ io = "idle"
  /\ tasks > 0
  /\ tasks' = tasks - 1
  /\ io' = "locking"
  /\ UNCHANGED <<mutex, reader, readerVars, ioVars, stopVars, touched>>

\* Mutant of TaskLocks: the task does not lock.
TaskLocksNot ==
  /\ io = "locking"
  /\ io' = "consuming"
  /\ at' = 1
  /\ UNCHANGED <<mutex, reader, tasks, readerVars, delivered, stopVars, touched>>

\* The task, which may have waited for the reader, locks and calls consume.
TaskLocks ==
  /\ io = "locking"
  /\ mutex = "none"
  /\ mutex' = "io"
  /\ io' = "consuming"
  /\ at' = 1
  /\ UNCHANGED <<reader, tasks, readerVars, delivered, stopVars, touched>>

\* consume hands the next packet to onPacket, or what stands in its place when the
\* buffer has been deleted.
Consumes ==
  /\ io = "consuming"
  /\ at <= readableLen
  /\ delivered' = Append(delivered, <<buf[at], at>>)
  /\ at' = at + 1
  /\ Touch("io")
  /\ UNCHANGED <<mutex, reader, io, tasks, readerVars, stopVars>>

\* Mutant of TaskEnds: the batch stays readable.
TaskEndsReadable ==
  /\ io = "consuming"
  /\ at > readableLen
  /\ reader' = IF reader = "parked" THEN "woken" ELSE reader
  /\ mutex' = "none"
  /\ io' = IF stop = "done" THEN "stopped" ELSE "idle"
  /\ UNCHANGED <<tasks, readerVars, ioVars, stopVars, touched>>

\* The end of consume, notify_one and the unlock; a stopped context runs no
\* further task.
TaskEnds ==
  /\ io = "consuming"
  /\ at > readableLen
  /\ readableLen' = IF Consumable THEN 0 ELSE readableLen
  /\ reader' = IF reader = "parked" THEN "woken" ELSE reader
  /\ mutex' = "none"
  /\ io' = IF stop = "done" THEN "stopped" ELSE "idle"
  /\ UNCHANGED <<tasks, buf, place, batches, ioVars, stopVars, touched>>

-----------------------------------------------------------------------------
(* TunnelServer::stop, which calls RawSocket::stop, on either thread.      *)

\* _reading = false.  A handler of the io thread can call stop between two tasks
\* or while it waits for no mutex; so can any other thread at any time.
StopReading ==
  /\ stop = "no"
  /\ \/ /\ io = "idle"
        /\ stopper' = "io"
        /\ io' = "stopping"
     \/ /\ stopper' = "other"
        /\ io' = io
  /\ reading' = FALSE
  /\ stop' = "flagged"
  /\ UNCHANGED <<opened, mutex, reader, tasks, readerVars, ioVars, touched>>

\* ::close(_fd); _fd = -1.
StopClose ==
  /\ stop = "flagged"
  /\ opened' = FALSE
  /\ stop' = "closed"
  /\ UNCHANGED <<reading, stopper, mutex, reader, io, tasks, readerVars, ioVars, touched>>

\* delete[] _buf, whoever is using it.
StopFree ==
  /\ stop = "closed"
  /\ stop' = "freed"
  /\ buf' = [p \in Place |-> gone]
  /\ UNCHANGED <<reading, opened, stopper, mutex, reader, io, tasks, readableLen, place,
                 batches, ioVars, touched>>

\* Mutant of StopContext: the io thread goes on with its tasks.
StopContextNot ==
  /\ stop = "freed"
  /\ stop' = "done"
  /\ io' = IF io = "stopping" THEN "idle" ELSE io
  /\ UNCHANGED <<reading, opened, stopper, mutex, reader, tasks, readerVars, ioVars,
                 touched>>

\* _context.stop(): a task that was taken still runs to its end, also one that waits
\* for the mutex.
StopContext ==
  /\ stop = "freed"
  /\ stop' = "done"
  /\ io' = IF io \in {"locking", "consuming"} THEN io ELSE "stopped"
  /\ UNCHANGED <<reading, opened, stopper, mutex, reader, tasks, readerVars, ioVars,
                 touched>>

ReaderStep ==
  \/ ReaderTests \/ ReaderLocks
  \/ ReadBegins \/ ReadFills \/ ReadEnds \/ ReadFails
  \/ ReaderChecks \/ ReaderPosts \/ ReaderWakesSpuriously \/ ReaderWaits
IoStep == TaskTaken \/ TaskLocks \/ Consumes \/ TaskEnds
StopStep == StopReading \/ StopClose \/ StopFree \/ StopContext

Next == reader # "terminated" /\ (ReaderStep \/ IoStep \/ StopStep)

Spec == Init /\ [][Next]_vars

-----------------------------------------------------------------------------
(* What is wanted of it.                                                   *)

\* Packet e may be delivered right after packet d.
Follows(d, e) ==
  \/ e[1] = d[1] /\ e[2] = d[2] + 1
  \/ e[1] > d[1] /\ e[2] = 1

\* As long as the deleted buffer was not used, onPacket hears of every packet at most
\* once, in the order of arrival, and never of a batch mixed with the next one
\* (RawSocket.h:57, 62-63, RawSocket_darwin.h:112-147), whatever the number of tasks
\* posted for a batch.
DeliveredInOrder ==
  touched = {} =>
    \A i \in 1 .. Len(delivered) - 1 : Follows(delivered[i], delivered[i + 1])

\* A batch is never left in the buffer with no task to deliver it, unless stop has
\* been called (RawSocket.h:58-64): the reader does not wait for a task, so a task may
\* find a later batch than its own, or none.
NothingStranded ==
  Consumable /\ reading =>
    tasks > 0 \/ io \in {"locking", "consuming"} \/ reader \in {"check", "post"}

\* What a task delivers is the newest batch, all of it, as long as stop has not deleted
\* the buffer (RawSocket.h:57, 62-63, RawSocket_darwin.h:95, 110-112): a batch that nobody
\* consumed in time is lost as a whole.
NewestDelivered ==
  io = "consuming" /\ ~Deleted => \A p \in 1 .. readableLen : buf[p] = batches

\* stop called from a handler of the io thread leaves no task that consumes the
\* deleted buffer (RawSocket.h:38-41, TunnelServer.cc:25-28), although it takes no
\* mutex and tasks are still posted.
HandlerMayStop == stopper = "io" => "io" \notin touched

=============================================================================
