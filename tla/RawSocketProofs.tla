--------------------------- MODULE RawSocketProofs ---------------------------
(* Theorems of RawSocket, for every batch size and number of batches: what  *)
(* the mutex orders, and what stop, which does not take it, may disturb.    *)
EXTENDS RawSocket, TLAPS, SequenceTheorems

-----------------------------------------------------------------------------
(* The inductive invariant.                                                 *)

\* Who holds the mutex is inside its critical section (RawSocket.h:57-68).  The
\* exception that ends the program keeps it.
Locks ==
  /\ mutex = "reader" <=> reader \in {"read", "filling", "check", "post", "terminated"}
  /\ mutex = "io" <=> io = "consuming"

\* The readable part of the buffer is the last batch, and the part a read has filled is
\* the next one, until the buffer is deleted.
Batch ==
  /\ reader # "filling" /\ ~Deleted => \A p \in 1 .. readableLen : buf[p] = batches
  /\ reader = "filling" =>
       /\ ~Deleted => \A p \in 1 .. place - 1 : buf[p] = batches + 1
       /\ place > 1 => batches < MaxBatches

\* Packets are delivered, and nothing else, as long as nobody used the deleted buffer.
Known == touched = {} => delivered \in Seq((0 .. MaxBatches) \X Place)

Last == delivered[Len(delivered)]

\* What was delivered last: the packet consume has just passed, or one of a batch
\* before the one that is readable.
Order ==
  touched = {} /\ delivered # <<>> =>
    IF io = "consuming" /\ at > 1
    THEN Last = <<batches, at - 1>>
    ELSE /\ Last[1] <= batches
         /\ readableLen > 0 /\ reader # "filling" => Last[1] < batches

\* consume passes over readable packets only.
Passed == io = "consuming" => at <= 1 \/ at - 1 <= readableLen

\* A reader that waits waits for a batch that only it could read.
Parked == reader \in {"parked", "woken"} => ~Consumable

\* stop begins once; a handler that has begun it leaves no task running; the buffer
\* is used after its deletion only when it was deleted.
Stopping ==
  /\ stop = "no" => stopper = "none"
  /\ stopper = "io" => io \in {"stopping", "stopped"}
  /\ ~Deleted => touched = {}
  /\ HandlerMayStop

IInv ==
  /\ TypeOK
  /\ Locks
  /\ Batch
  /\ Passed
  /\ Known
  /\ Order
  /\ DeliveredInOrder
  /\ NothingStranded
  /\ Parked
  /\ Stopping

LEMMA TypeInit == Init => TypeOK
  BY RawSocketAssumption DEF Init, TypeOK, Place, Content

LEMMA OtherInit == Init => IInv
<1> SUFFICES ASSUME Init PROVE IInv
  OBVIOUS
<1>1. Locks /\ Batch /\ Passed /\ Known /\ Order /\ Parked
  BY DEF Init, Locks, Batch, Passed, Known, Order, Parked, Consumable
<1>2. DeliveredInOrder /\ NothingStranded
  BY DEF Init, DeliveredInOrder, NothingStranded, Consumable
<1>3. Stopping
  BY DEF Init, Stopping, HandlerMayStop, Deleted
<1> QED
  BY <1>1, <1>2, <1>3, TypeInit DEF IInv

-----------------------------------------------------------------------------
(* Types.                                                                   *)

LEMMA TypeStep == IInv /\ [Next]_vars => TypeOK'
<1>0. TypeOK /\ UNCHANGED vars => TypeOK'
  BY DEF vars, TypeOK
<1> SUFFICES ASSUME TypeOK, Batch, Next PROVE TypeOK'
  BY <1>0 DEF IInv
<1> USE RawSocketAssumption DEF readerVars, ioVars, stopVars
<1>1. CASE ReaderTests \/ ReaderLocks \/ ReaderChecks
  <2>1. CASE ReaderTests
    BY <2>1 DEF ReaderTests, TypeOK
  <2>2. CASE ReaderLocks
    BY <2>2 DEF ReaderLocks, TypeOK
  <2>3. CASE ReaderChecks
    BY <2>3 DEF ReaderChecks, TypeOK
  <2> QED
    BY <1>1, <2>1, <2>2, <2>3
<1>2. CASE ReadBegins
  BY <1>2 DEF ReadBegins, TypeOK
<1>3. CASE ReadFills
  <2>1. /\ place \in Place /\ place + 1 \in 1 .. BatchSize + 1
        /\ batches + 1 \in Content /\ touched' \subseteq {"reader", "io"}
    BY <1>3 DEF ReadFills, TypeOK, Touch, Place, Content
  <2>2. buf' \in [Place -> Content]
    BY <1>3, <2>1 DEF ReadFills, TypeOK
  <2> QED
    BY <1>3, <2>1, <2>2 DEF ReadFills, TypeOK
<1>4. CASE ReadEnds
  BY <1>4 DEF ReadEnds, TypeOK, Batch
<1>5. CASE ReadFails
  BY <1>5 DEF ReadFails, TypeOK
<1>6. CASE ReaderPosts \/ ReaderWakesSpuriously \/ ReaderWaits
  <2>1. /\ UNCHANGED <<readerVars, ioVars, stopVars, io, touched>>
        /\ mutex' \in {mutex, "none"} /\ reader' \in {"test", "parked", "woken"}
        /\ tasks' \in {tasks, tasks + 1}
    BY <1>6, Zenon DEF ReaderPosts, ReaderWakesSpuriously, ReaderWaits
  <2> QED
    BY <2>1 DEF TypeOK
<1>7. CASE TaskTaken \/ TaskLocks
  <2>1. CASE TaskTaken
    BY <2>1 DEF TaskTaken, TypeOK
  <2>2. CASE TaskLocks
    BY <2>2 DEF TaskLocks, TypeOK
  <2> QED
    BY <1>7, <2>1, <2>2
<1>8. CASE Consumes
  <2>1. at \in 1 .. BatchSize + 1 /\ at <= readableLen /\ readableLen \in -1 .. BatchSize
    BY <1>8 DEF Consumes, TypeOK
  <2>2. at \in Place /\ at + 1 \in 1 .. BatchSize + 1
    BY <2>1 DEF Place
  <2>3. <<buf[at], at>> \in Content \X Place
    BY <2>2 DEF TypeOK
  <2> DEFINE S == Content \X Place
             e == <<buf[at], at>>
  <2>4. delivered' \in Seq(S)
    <3>1. delivered' = Append(delivered, e)
      BY <1>8 DEF Consumes
    <3>2. delivered \in Seq(S) /\ e \in S
      BY <2>3 DEF TypeOK
    <3> HIDE DEF S, e
    <3> QED
      BY <3>1, <3>2, AppendProperties
  <2>5. touched' \subseteq {"reader", "io"}
    BY <1>8 DEF Consumes, Touch, TypeOK
  <2> QED
    BY <1>8, <2>2, <2>4, <2>5 DEF Consumes, TypeOK
<1>9. CASE TaskEnds
  BY <1>9 DEF TaskEnds, TypeOK
<1>10. CASE StopStep
  <2>1. /\ UNCHANGED <<readableLen, place, batches, ioVars, mutex, reader, tasks, touched>>
        /\ buf' \in {buf, [p \in Place |-> gone]}
        /\ reading' \in {reading, FALSE} /\ opened' \in {opened, FALSE}
        /\ stopper' \in {stopper, "io", "other"}
        /\ io' \in {io, "stopping", "stopped"}
        /\ stop' \in {"flagged", "closed", "freed", "done"}
    <3>1. CASE StopReading
      BY <3>1 DEF StopReading
    <3>2. CASE StopClose
      BY <3>2 DEF StopClose
    <3>3. CASE StopFree
      BY <3>3 DEF StopFree
    <3>4. CASE StopContext
      BY <3>4 DEF StopContext
    <3> QED
      BY <1>10, <3>1, <3>2, <3>3, <3>4 DEF StopStep
  <2>2. reading' \in BOOLEAN /\ opened' \in BOOLEAN
    BY <2>1, Zenon DEF TypeOK
  <2>3. buf' \in [Place -> Content]
    BY <2>1 DEF TypeOK, Content
  <2> QED
    BY <2>1, <2>2, <2>3 DEF TypeOK
<1> QED
  BY <1>1, <1>2, <1>3, <1>4, <1>5, <1>6, <1>7, <1>8, <1>9, <1>10
     DEF Next, ReaderStep, IoStep

-----------------------------------------------------------------------------
(* The mutex, the buffer and the tasks.                                     *)

\* A step that neither reads nor consumes leaves alone what Passed and Order compare.
Elsewhere ==
  /\ delivered' = delivered /\ at' = at /\ batches' = batches
  /\ readableLen' = readableLen
  /\ io' = "consuming" <=> io = "consuming"
  /\ reader' # "filling" => reader # "filling"
  /\ touched' = {} => touched = {}

LEMMA OtherSteps ==
  ASSUME \/ ReaderTests \/ ReaderLocks \/ ReadBegins \/ ReadFills \/ ReaderChecks
         \/ ReaderPosts \/ ReaderWakesSpuriously \/ ReaderWaits \/ TaskTaken \/ StopStep
  PROVE  Elsewhere
<1> USE DEF readerVars, ioVars, stopVars, Elsewhere
<1>1. CASE ReaderTests
  BY <1>1 DEF ReaderTests
<1>2. CASE ReaderLocks
  BY <1>2 DEF ReaderLocks
<1>3. CASE ReadBegins
  BY <1>3 DEF ReadBegins
<1>4. CASE ReadFills
  BY <1>4 DEF ReadFills, Touch
<1>5. CASE ReaderChecks
  BY <1>5 DEF ReaderChecks
<1>6. CASE ReaderPosts
  BY <1>6 DEF ReaderPosts
<1>7. CASE ReaderWakesSpuriously
  BY <1>7 DEF ReaderWakesSpuriously
<1>8. CASE ReaderWaits
  BY <1>8 DEF ReaderWaits
<1>9. CASE StopReading
  BY <1>9 DEF StopReading
<1>10. CASE StopClose
  BY <1>10 DEF StopClose
<1>11. CASE StopFree
  BY <1>11 DEF StopFree
<1>12. CASE StopContext
  BY <1>12 DEF StopContext
<1>13. CASE TaskTaken
  BY <1>13 DEF TaskTaken
<1> QED
  BY <1>1, <1>2, <1>3, <1>4, <1>5, <1>6, <1>7, <1>8, <1>9, <1>10, <1>11, <1>12, <1>13
     DEF StopStep

LEMMA LocksStep == IInv /\ [Next]_vars => Locks'
<1>0. IInv /\ UNCHANGED vars => Locks'
  BY DEF IInv, vars, Locks
<1> SUFFICES ASSUME TypeOK, Locks, Next PROVE Locks'
  BY <1>0 DEF IInv
<1> USE RawSocketAssumption DEF readerVars, ioVars, stopVars
<1>1. CASE ReaderTests
  BY <1>1 DEF ReaderTests, Locks
<1>2. CASE ReaderLocks
  BY <1>2 DEF ReaderLocks, Locks
<1>3. CASE ReadBegins
  BY <1>3 DEF ReadBegins, Locks
<1>4. CASE ReadFills
  BY <1>4 DEF ReadFills, Locks
<1>5. CASE ReadEnds
  BY <1>5 DEF ReadEnds, Locks
<1>6. CASE ReadFails
  BY <1>6 DEF ReadFails, Locks
<1>7. CASE ReaderChecks
  BY <1>7 DEF ReaderChecks, Locks
<1>8. CASE ReaderPosts
  BY <1>8 DEF ReaderPosts, Locks
<1>9. CASE ReaderWakesSpuriously
  BY <1>9 DEF ReaderWakesSpuriously, Locks
<1>10. CASE ReaderWaits
  BY <1>10 DEF ReaderWaits, Locks
<1>11. CASE TaskLocks
  BY <1>11 DEF TaskLocks, Locks
<1>12. CASE Consumes
  BY <1>12 DEF Consumes, Locks
<1>13. CASE TaskEnds
  BY <1>13 DEF TaskEnds, Locks
<1>14. CASE StopReading
  BY <1>14 DEF StopReading, Locks
<1>15. CASE StopClose
  BY <1>15 DEF StopClose, Locks
<1>16. CASE StopFree
  BY <1>16 DEF StopFree, Locks
<1>17. CASE StopContext
  BY <1>17 DEF StopContext, Locks
<1>18. CASE TaskTaken
  BY <1>18 DEF TaskTaken, Locks
<1> QED
  BY <1>1, <1>2, <1>3, <1>4, <1>5, <1>6, <1>7, <1>8, <1>9,
     <1>10, <1>11, <1>12, <1>13, <1>14, <1>15, <1>16, <1>17, <1>18
     DEF Next, ReaderStep, IoStep, StopStep

LEMMA BatchStep == IInv /\ [Next]_vars => Batch'
<1>0. IInv /\ UNCHANGED vars => Batch'
  BY DEF IInv, vars, Batch, Locks, Deleted
<1> SUFFICES ASSUME TypeOK, Locks, Batch, Next PROVE Batch'
  BY <1>0 DEF IInv
<1> USE RawSocketAssumption DEF readerVars, ioVars, stopVars
<1>1. CASE ReaderTests
  BY <1>1 DEF ReaderTests, Batch, Deleted
<1>2. CASE ReaderLocks
  BY <1>2 DEF ReaderLocks, Batch, Deleted
<1>3. CASE ReadBegins
  BY <1>3 DEF ReadBegins, Batch, Deleted, Locks
<1>4. CASE ReadFills
  <2>0. stop' = stop /\ (Deleted' <=> Deleted)
    BY <1>4 DEF ReadFills, Deleted
  <2>1. /\ buf \in [Place -> Content] /\ place \in 1 .. BatchSize + 1
        /\ place <= BatchSize /\ place' = place + 1 /\ batches < MaxBatches
        /\ reader = "filling" /\ reader' = reader /\ batches' = batches
        /\ ~Deleted => buf' = [buf EXCEPT ![place] = batches + 1]
    BY <1>4 DEF ReadFills, TypeOK
  <2>2. ASSUME ~Deleted, NEW p \in 1 .. place' - 1
        PROVE  buf'[p] = batches + 1
    <3>1. p \in Place /\ (p = place \/ p \in 1 .. place - 1)
      BY <2>1 DEF Place
    <3> QED
      BY <2>1, <2>2, <3>1 DEF Batch
  <2> QED
    BY <2>0, <2>1, <2>2 DEF Batch
<1>5. CASE ReadEnds
  BY <1>5 DEF ReadEnds, Batch, Deleted, Locks
<1>6. CASE ReadFails
  BY <1>6 DEF ReadFails, Batch, Deleted, Locks
<1>7. CASE ReaderChecks
  BY <1>7 DEF ReaderChecks, Batch, Deleted
<1>8. CASE ReaderPosts
  BY <1>8 DEF ReaderPosts, Batch, Deleted
<1>9. CASE ReaderWakesSpuriously
  BY <1>9 DEF ReaderWakesSpuriously, Batch, Deleted
<1>10. CASE ReaderWaits
  BY <1>10 DEF ReaderWaits, Batch, Deleted
<1>11. CASE TaskLocks
  BY <1>11 DEF TaskLocks, Batch, Deleted
<1>12. CASE Consumes
  BY <1>12 DEF Consumes, Batch, Deleted
<1>13. CASE TaskEnds
  BY <1>13 DEF TaskEnds, Batch, Deleted, Locks
<1>14. CASE StopReading
  BY <1>14 DEF StopReading, Batch, Deleted
<1>15. CASE StopClose
  BY <1>15 DEF StopClose, Batch, Deleted
<1>16. CASE StopFree
  BY <1>16 DEF StopFree, Batch, Deleted
<1>17. CASE StopContext
  BY <1>17 DEF StopContext, Batch, Deleted
<1>18. CASE TaskTaken
  BY <1>18 DEF TaskTaken, Batch, Deleted
<1> QED
  BY <1>1, <1>2, <1>3, <1>4, <1>5, <1>6, <1>7, <1>8, <1>9,
     <1>10, <1>11, <1>12, <1>13, <1>14, <1>15, <1>16, <1>17, <1>18
     DEF Next, ReaderStep, IoStep, StopStep

LEMMA PassedStep == IInv /\ [Next]_vars => Passed'
<1>0. IInv /\ UNCHANGED vars => Passed'
  BY DEF IInv, vars, Passed
<1> SUFFICES ASSUME TypeOK, Locks, Passed, Next PROVE Passed'
  BY <1>0 DEF IInv
<1>1. CASE ReadEnds
  BY <1>1 DEF ReadEnds, Passed, Locks
<1>2. CASE ReadFails
  BY <1>2 DEF ReadFails, Passed, Locks
<1>3. CASE TaskLocks
  BY <1>3 DEF TaskLocks, Passed
<1>4. CASE Consumes
  BY <1>4, RawSocketAssumption DEF Consumes, Passed, readerVars, TypeOK
<1>5. CASE TaskEnds
  BY <1>5 DEF TaskEnds, Passed
<1>6. CASE Elsewhere
  BY <1>6 DEF Elsewhere, Passed
<1> QED
  BY <1>1, <1>2, <1>3, <1>4, <1>5, <1>6, OtherSteps DEF Next, ReaderStep, IoStep

LEMMA ParkedStep == IInv /\ [Next]_vars => Parked'
<1>0. IInv /\ UNCHANGED vars => Parked'
  BY DEF IInv, vars, Parked, Consumable
<1> SUFFICES ASSUME TypeOK, Parked, Next PROVE Parked'
  BY <1>0 DEF IInv
<1> USE RawSocketAssumption DEF readerVars, ioVars, stopVars
<1>1. CASE ReaderTests
  BY <1>1 DEF ReaderTests, Parked, Consumable
<1>2. CASE ReaderLocks
  BY <1>2 DEF ReaderLocks, Parked, Consumable
<1>3. CASE ReadBegins
  BY <1>3 DEF ReadBegins, Parked, Consumable
<1>4. CASE ReadFills
  BY <1>4 DEF ReadFills, Parked, Consumable
<1>5. CASE ReadEnds
  BY <1>5 DEF ReadEnds, Parked, Consumable
<1>6. CASE ReadFails
  BY <1>6 DEF ReadFails, Parked, Consumable
<1>7. CASE ReaderChecks
  BY <1>7 DEF ReaderChecks, Parked, Consumable
<1>8. CASE ReaderPosts
  BY <1>8 DEF ReaderPosts, WaitOver, Parked, Consumable
<1>9. CASE ReaderWakesSpuriously
  BY <1>9 DEF ReaderWakesSpuriously, Parked, Consumable
<1>10. CASE ReaderWaits
  BY <1>10 DEF ReaderWaits, Parked, Consumable
<1>11. CASE TaskLocks
  BY <1>11 DEF TaskLocks, Parked, Consumable
<1>12. CASE Consumes
  BY <1>12 DEF Consumes, Parked, Consumable
<1>13. CASE TaskEnds
  BY <1>13 DEF TaskEnds, Parked, Consumable
<1>14. CASE StopReading
  BY <1>14 DEF StopReading, Parked, Consumable
<1>15. CASE StopClose
  BY <1>15 DEF StopClose, Parked, Consumable
<1>16. CASE StopFree
  BY <1>16 DEF StopFree, Parked, Consumable
<1>17. CASE StopContext
  BY <1>17 DEF StopContext, Parked, Consumable
<1>18. CASE TaskTaken
  BY <1>18 DEF TaskTaken, Parked, Consumable
<1> QED
  BY <1>1, <1>2, <1>3, <1>4, <1>5, <1>6, <1>7, <1>8, <1>9,
     <1>10, <1>11, <1>12, <1>13, <1>14, <1>15, <1>16, <1>17, <1>18
     DEF Next, ReaderStep, IoStep, StopStep

LEMMA StrandedStep == IInv /\ [Next]_vars => NothingStranded'
<1>0. IInv /\ UNCHANGED vars => NothingStranded'
  BY DEF IInv, vars, NothingStranded, Consumable
<1> SUFFICES ASSUME TypeOK, Locks, NothingStranded, Next PROVE NothingStranded'
  BY <1>0 DEF IInv
<1> USE RawSocketAssumption DEF readerVars, ioVars, stopVars
<1>1. CASE ReaderTests
  BY <1>1 DEF ReaderTests, NothingStranded, Consumable
<1>2. CASE ReaderLocks
  BY <1>2 DEF ReaderLocks, NothingStranded, Consumable
<1>3. CASE ReadBegins
  BY <1>3 DEF ReadBegins, NothingStranded, Consumable, Locks
<1>4. CASE ReadFills
  BY <1>4 DEF ReadFills, NothingStranded, Consumable
<1>5. CASE ReadEnds
  BY <1>5 DEF ReadEnds, NothingStranded, Consumable
<1>6. CASE ReadFails
  BY <1>6 DEF ReadFails, NothingStranded, Consumable
<1>7. CASE ReaderChecks
  BY <1>7 DEF ReaderChecks, NothingStranded, Consumable
<1>8. CASE ReaderPosts
  BY <1>8 DEF ReaderPosts, NothingStranded, Consumable, TypeOK
<1>9. CASE ReaderWakesSpuriously
  BY <1>9 DEF ReaderWakesSpuriously, NothingStranded, Consumable
<1>10. CASE ReaderWaits
  BY <1>10 DEF ReaderWaits, NothingStranded, Consumable
<1>11. CASE TaskLocks
  BY <1>11 DEF TaskLocks, NothingStranded, Consumable, TypeOK
<1>12. CASE Consumes
  BY <1>12 DEF Consumes, NothingStranded, Consumable
<1>13. CASE TaskEnds
  BY <1>13 DEF TaskEnds, NothingStranded, Consumable
<1>14. CASE StopReading
  BY <1>14 DEF StopReading, NothingStranded, Consumable
<1>15. CASE StopClose
  BY <1>15 DEF StopClose, NothingStranded, Consumable
<1>16. CASE StopFree
  BY <1>16 DEF StopFree, NothingStranded, Consumable
<1>17. CASE StopContext
  BY <1>17 DEF StopContext, NothingStranded, Consumable
<1>18. CASE TaskTaken
  BY <1>18 DEF TaskTaken, NothingStranded, Consumable, TypeOK
<1> QED
  BY <1>1, <1>2, <1>3, <1>4, <1>5, <1>6, <1>7, <1>8, <1>9,
     <1>10, <1>11, <1>12, <1>13, <1>14, <1>15, <1>16, <1>17, <1>18
     DEF Next, ReaderStep, IoStep, StopStep

LEMMA StoppingStep == IInv /\ [Next]_vars => Stopping'
<1>0. IInv /\ UNCHANGED vars => Stopping'
  BY DEF IInv, vars, Stopping, HandlerMayStop, Deleted
<1> SUFFICES ASSUME TypeOK, Stopping, Next PROVE Stopping'
  BY <1>0 DEF IInv
<1> USE RawSocketAssumption DEF readerVars, ioVars, stopVars
<1>1. CASE ReaderTests
  BY <1>1 DEF ReaderTests, Stopping, HandlerMayStop, Deleted
<1>2. CASE ReaderLocks
  BY <1>2 DEF ReaderLocks, Stopping, HandlerMayStop, Deleted
<1>3. CASE ReadBegins
  BY <1>3 DEF ReadBegins, Stopping, HandlerMayStop, Deleted
<1>4. CASE ReadFills
  BY <1>4 DEF ReadFills, Stopping, HandlerMayStop, Deleted, Touch
<1>5. CASE ReadEnds
  BY <1>5 DEF ReadEnds, Stopping, HandlerMayStop, Deleted
<1>6. CASE ReadFails
  BY <1>6 DEF ReadFails, Stopping, HandlerMayStop, Deleted
<1>7. CASE ReaderChecks
  BY <1>7 DEF ReaderChecks, Stopping, HandlerMayStop, Deleted
<1>8. CASE ReaderPosts
  BY <1>8 DEF ReaderPosts, Stopping, HandlerMayStop, Deleted
<1>9. CASE ReaderWakesSpuriously
  BY <1>9 DEF ReaderWakesSpuriously, Stopping, HandlerMayStop, Deleted
<1>10. CASE ReaderWaits
  BY <1>10 DEF ReaderWaits, Stopping, HandlerMayStop, Deleted
<1>11. CASE TaskLocks
  BY <1>11 DEF TaskLocks, Stopping, HandlerMayStop, Deleted
<1>12. CASE Consumes
  BY <1>12 DEF Consumes, Stopping, HandlerMayStop, Deleted, Touch
<1>13. CASE TaskEnds
  BY <1>13 DEF TaskEnds, Stopping, HandlerMayStop, Deleted
<1>14. CASE StopReading
  BY <1>14 DEF StopReading, Stopping, HandlerMayStop, Deleted
<1>15. CASE StopClose
  BY <1>15 DEF StopClose, Stopping, HandlerMayStop, Deleted
<1>16. CASE StopFree
  BY <1>16 DEF StopFree, Stopping, HandlerMayStop, Deleted
<1>17. CASE StopContext
  BY <1>17 DEF StopContext, Stopping, HandlerMayStop, Deleted
<1>18. CASE TaskTaken
  BY <1>18 DEF TaskTaken, Stopping, HandlerMayStop, Deleted
<1> QED
  BY <1>1, <1>2, <1>3, <1>4, <1>5, <1>6, <1>7, <1>8, <1>9,
     <1>10, <1>11, <1>12, <1>13, <1>14, <1>15, <1>16, <1>17, <1>18
     DEF Next, ReaderStep, IoStep, StopStep

-----------------------------------------------------------------------------
(* What is delivered, and in which order.                                   *)

\* What consume hands over is a packet of the newest batch.
LEMMA ConsumesNewest ==
  ASSUME IInv, Consumes, touched' = {}
  PROVE  /\ touched = {}
         /\ delivered' = Append(delivered, <<batches, at>>)
         /\ at \in Place /\ at <= readableLen
         /\ reader # "filling"
<1>1. reader # "filling" /\ io = "consuming"
  BY DEF IInv, Locks, Consumes
<1>2. at \in 1 .. readableLen /\ at \in Place
  <2>1. at \in 1 .. BatchSize + 1 /\ at <= readableLen /\ readableLen \in -1 .. BatchSize
    BY DEF IInv, Consumes, TypeOK
  <2> QED
    BY <2>1, RawSocketAssumption DEF Place
<1>3. touched = {} /\ ~Deleted
  BY DEF Consumes, Touch
<1>4. buf[at] = batches
  BY <1>1, <1>2, <1>3 DEF IInv, Batch
<1> QED
  BY <1>1, <1>2, <1>3, <1>4 DEF Consumes

LEMMA DeliveredType == IInv /\ touched = {} => delivered \in Seq((0 .. MaxBatches) \X Place)
  BY DEF IInv, Known

LEMMA KnownStep == IInv /\ [Next]_vars => Known'
<1>0. IInv /\ UNCHANGED vars => Known'
  BY DEF IInv, vars, Known
<1> SUFFICES ASSUME IInv, Next, touched' = {}
             PROVE  delivered' \in Seq((0 .. MaxBatches) \X Place)
  BY <1>0 DEF Known
<1> DEFINE S == (0 .. MaxBatches) \X Place
<1>1. CASE Consumes
  <2> DEFINE e == <<batches, at>>
  <2>1. touched = {} /\ delivered' = Append(delivered, e) /\ at \in Place
    BY <1>1, ConsumesNewest
  <2>2. delivered \in Seq(S) /\ e \in S
    BY <2>1, DeliveredType DEF IInv, TypeOK
  <2> HIDE DEF S, e
  <2>3. delivered' \in Seq(S)
    BY <2>1, <2>2, AppendProperties
  <2> QED
    BY <2>3 DEF S
<1>2. CASE ~Consumes
  <2>1. delivered' = delivered /\ touched = {}
    <3>1. CASE ReadEnds \/ ReadFails \/ TaskLocks \/ TaskEnds
      BY <3>1 DEF ReadEnds, ReadFails, TaskLocks, TaskEnds, ioVars
    <3> QED
      BY <1>2, <3>1, OtherSteps DEF Elsewhere, Next, ReaderStep, IoStep
  <2> QED
    BY <2>1, DeliveredType
<1> QED
  BY <1>1, <1>2

\* The last packet's batch is a number.
LEMMA LastType ==
  ASSUME IInv, touched = {}, delivered # <<>>
  PROVE  /\ Len(delivered) \in Nat \ {0}
         /\ Last \in (0 .. MaxBatches) \X Place
<1> DEFINE S == (0 .. MaxBatches) \X Place
<1>1. delivered \in Seq(S)
  BY DeliveredType
<1> HIDE DEF S
<1>2. Len(delivered) \in Nat \ {0} /\ delivered[Len(delivered)] \in S
  BY <1>1, ElementOfSeq, EmptySeq, LenProperties
<1> QED
  BY <1>2 DEF S, Last

LEMMA ElsewhereOrder == Order /\ Elsewhere => Order'
  BY Zenon DEF Order, Elsewhere, Last

LEMMA OrderStep == IInv /\ [Next]_vars => Order'
<1>0. IInv /\ UNCHANGED vars => Order'
  BY DEF IInv, vars, Order, Last
<1> SUFFICES ASSUME IInv, Next PROVE Order'
  BY <1>0
<1>a. TypeOK /\ Locks /\ Order /\ Batch /\ Passed
  BY DEF IInv
<1>b. batches \in Nat /\ readableLen \in Int /\ at \in Nat /\ place \in Nat
  BY <1>a, RawSocketAssumption DEF TypeOK
<1>c. touched = {} /\ delivered # <<>> => Last[1] \in Nat /\ Last[2] \in Nat
  BY LastType, RawSocketAssumption DEF Place
<1>1. CASE ReadEnds
  <2>1. /\ delivered' = delivered /\ touched' = touched /\ batches' = batches + 1
        /\ io' = io /\ io # "consuming" /\ Last' = Last
    BY <1>1, <1>a DEF ReadEnds, Locks, ioVars, Last
  <2>2. touched = {} /\ delivered # <<>> => Last[1] <= batches
    BY <1>a, <2>1 DEF Order
  <2> QED
    BY <2>1, <2>2, <1>b, <1>c DEF Order
<1>2. CASE ReadFails
  <2>1. /\ delivered' = delivered /\ touched' = touched /\ batches' = batches
        /\ io' = io /\ io # "consuming" /\ Last' = Last /\ ~(readableLen' > 0)
    BY <1>2, <1>a DEF ReadFails, Locks, ioVars, Last
  <2> QED
    BY <2>1, <1>a DEF Order
<1>3. CASE TaskLocks
  <2>1. /\ delivered' = delivered /\ touched' = touched /\ batches' = batches
        /\ io # "consuming" /\ at' = 1 /\ Last' = Last /\ readableLen' = readableLen
        /\ reader' = reader
    BY <1>3 DEF TaskLocks, readerVars, Last
  <2> QED
    BY <2>1, <1>a DEF Order
<1>4. CASE Consumes
  <2> SUFFICES ASSUME touched' = {} PROVE Last' = <<batches', at' - 1>>
    <3>1. io' = "consuming" /\ at' > 1
      BY <1>4, <1>b, <1>a DEF Consumes, TypeOK
    <3> QED
      BY <3>1 DEF Order
  <2>1. delivered' = Append(delivered, <<batches, at>>)
    BY <1>4, ConsumesNewest
  <2>2. delivered \in Seq((0 .. MaxBatches) \X Place)
    BY <1>4, ConsumesNewest, DeliveredType
  <2>3. <<batches, at>> \in (0 .. MaxBatches) \X Place
    BY <1>4, <1>a, ConsumesNewest DEF TypeOK
  <2>4. Last' = <<batches, at>>
    <3> DEFINE S == (0 .. MaxBatches) \X Place
               e == <<batches, at>>
    <3>1. delivered \in Seq(S) /\ e \in S /\ delivered' = Append(delivered, e)
      BY <2>1, <2>2, <2>3
    <3> HIDE DEF S, e
    <3>2. delivered'[Len(delivered')] = e
      BY <3>1, AppendProperties
    <3> QED
      BY <3>2 DEF Last, e
  <2>5. batches' = batches /\ at' = at + 1
    BY <1>4 DEF Consumes, readerVars
  <2> QED
    BY <2>4, <2>5, <1>b
<1>5. CASE TaskEnds
  <2>1. /\ delivered' = delivered /\ touched' = touched /\ batches' = batches
        /\ io = "consuming" /\ io' # "consuming" /\ Last' = Last
    BY <1>5 DEF TaskEnds, ioVars, Last
  <2>2. ~(readableLen' > 0)
    BY <1>5, <1>b DEF TaskEnds, Consumable
  <2>3. touched = {} /\ delivered # <<>> => Last[1] <= batches
    BY <1>a, <1>b, <2>1 DEF Order
  <2> QED
    BY <2>1, <2>2, <2>3 DEF Order
<1> QED
  BY <1>a, <1>1, <1>2, <1>3, <1>4, <1>5, ElsewhereOrder, OtherSteps
     DEF Next, ReaderStep, IoStep

LEMMA DeliveredStep == IInv /\ [Next]_vars => DeliveredInOrder'
<1>0. IInv /\ UNCHANGED vars => DeliveredInOrder'
  BY DEF IInv, vars, DeliveredInOrder, Follows
<1> SUFFICES ASSUME IInv, Next PROVE DeliveredInOrder'
  BY <1>0
<1>1. CASE Consumes
  <2> SUFFICES ASSUME touched' = {},
                      NEW i \in 1 .. Len(delivered') - 1
               PROVE  Follows(delivered'[i], delivered'[i + 1])
    BY DEF DeliveredInOrder, Follows
  <2> DEFINE S == (0 .. MaxBatches) \X Place
             e == <<batches, at>>
  <2>1. /\ touched = {}
        /\ delivered' = Append(delivered, e)
        /\ at \in Place /\ at <= readableLen
        /\ reader # "filling"
    BY <1>1, ConsumesNewest
  <2>2. delivered \in Seq(S) /\ e \in S
    BY <2>1, DeliveredType DEF IInv, TypeOK
  <2>3. /\ Len(delivered) \in Nat
        /\ i \in 1 .. Len(delivered)
        /\ delivered'[i] = delivered[i]
        /\ i = Len(delivered) => delivered'[i + 1] = e
        /\ i # Len(delivered) => delivered'[i + 1] = delivered[i + 1]
    <3> HIDE DEF S, e
    <3>1. Len(delivered) \in Nat /\ Len(delivered') = Len(delivered) + 1
      BY <2>1, <2>2, AppendProperties, LenProperties
    <3>2. i \in 1 .. Len(delivered) /\ i + 1 \in 1 .. Len(delivered) + 1
      BY <3>1
    <3>3. \A j \in 1 .. Len(delivered) : delivered'[j] = delivered[j]
      BY <2>1, <2>2, AppendProperties
    <3>4. delivered'[Len(delivered) + 1] = e
      BY <2>1, <2>2, AppendProperties
    <3>5. i # Len(delivered) => i + 1 \in 1 .. Len(delivered)
      BY <3>1, <3>2
    <3> QED
      BY <3>1, <3>2, <3>3, <3>4, <3>5
  <2>4. CASE i # Len(delivered)
    <3>1. i \in 1 .. Len(delivered) - 1
      BY <2>3, <2>4
    <3>2. Follows(delivered[i], delivered[i + 1])
      BY <2>1, <3>1 DEF IInv, DeliveredInOrder
    <3> QED
      BY <2>3, <2>4, <3>2
  <2>5. CASE i = Len(delivered)
    <3>1. delivered # <<>> /\ delivered[i] = Last
      <4>1. Len(delivered) # 0
        BY <2>3, <2>5
      <4> QED
        BY <4>1, <2>5, EmptySeq DEF Last
    <3>2. Order /\ io = "consuming"
      BY <1>1 DEF IInv, Consumes
    <3>3. CASE at > 1
      <4>1. Last = <<batches, at - 1>>
        BY <2>1, <3>1, <3>2, <3>3 DEF Order
      <4> QED
        BY <2>1, <2>3, <2>5, <3>1, <4>1 DEF Follows, Place
    <3>4. CASE ~(at > 1)
      <4>1. at = 1 /\ readableLen > 0
        BY <2>1, <3>4, RawSocketAssumption DEF IInv, TypeOK, Place
      <4>2. Last[1] < batches
        BY <2>1, <3>1, <3>2, <3>4, <4>1 DEF Order
      <4> QED
        BY <2>3, <2>5, <3>1, <4>1, <4>2, LastType, RawSocketAssumption
           DEF Follows, IInv, TypeOK
    <3> QED
      BY <3>3, <3>4
  <2> QED
    BY <2>4, <2>5
<1>2. CASE ~Consumes
  <2>1. delivered' = delivered /\ (touched' = {} => touched = {})
    <3>1. CASE ReadEnds \/ ReadFails \/ TaskLocks \/ TaskEnds
      BY <3>1 DEF ReadEnds, ReadFails, TaskLocks, TaskEnds, ioVars
    <3> QED
      BY <1>2, <3>1, OtherSteps DEF Elsewhere, Next, ReaderStep, IoStep
  <2> QED
    BY <2>1 DEF IInv, DeliveredInOrder, Follows
<1> QED
  BY <1>1, <1>2

-----------------------------------------------------------------------------
(* The theorems.                                                            *)

LEMMA Inductive == Spec => []IInv
<1>1. IInv /\ [Next]_vars => IInv'
  BY TypeStep, LocksStep, BatchStep, PassedStep, KnownStep, OrderStep, DeliveredStep,
     StrandedStep, ParkedStep, StoppingStep DEF IInv
<1> QED
  BY OtherInit, <1>1, PTL DEF Spec

\* Every variable of the raw socket keeps its type (RawSocket.h:18-24): the reader
\* never fills, and consume never passes, more than the buffer's places.
THEOREM RawTypeCorrect == Spec => []TypeOK
<1>1. IInv => TypeOK
  BY DEF IInv
<1> QED
  BY Inductive, <1>1, PTL

\* onPacket hears of every packet at most once and in the order of arrival, as long as
\* nobody used the deleted buffer (RawSocket.h:57-63, RawSocket_darwin.h:112-147),
\* however many batches and tasks there are.
THEOREM OrderCorrect == Spec => []DeliveredInOrder
<1>1. IInv => DeliveredInOrder
  BY DEF IInv
<1> QED
  BY Inductive, <1>1, PTL

\* A readable batch has a task, a consumer or a reader about to post one, until stop
\* (RawSocket.h:58-68).
THEOREM StrandedCorrect == Spec => []NothingStranded
<1>1. IInv => NothingStranded
  BY DEF IInv
<1> QED
  BY Inductive, <1>1, PTL

\* A task that consumes finds the newest batch and nothing else (RawSocket.h:62-63,
\* RawSocket_darwin.h:110-112), up to the moment stop deletes the buffer: of what it reads
\* from then on, which it may, nothing is said.
THEOREM NewestCorrect == Spec => []NewestDelivered
<1>1. IInv => NewestDelivered
  BY DEF IInv, Locks, Batch, NewestDelivered
<1> QED
  BY Inductive, <1>1, PTL

\* A handler that calls stop leaves no consumer of the deleted buffer behind
\* (RawSocket.h:38-41, TunnelServer.cc:25-28).
THEOREM HandlerCorrect == Spec => []HandlerMayStop
<1>1. IInv => HandlerMayStop
  BY DEF IInv, Stopping
<1> QED
  BY Inductive, <1>1, PTL

\* What the inverted predicate of the wait comes to (RawSocket.h:67): a reader that does
\* wait, after a read that failed, never reads again, although a task notifies it.
THEOREM ParkedCorrect ==
  Spec => [][(reader \in {"parked", "woken"}) => reader' \in {"parked", "woken"}]_vars
<1>1. ASSUME IInv, Next, reader \in {"parked", "woken"}
      PROVE  reader' \in {"parked", "woken"}
  <2>1. ~Consumable
    BY <1>1 DEF IInv, Parked
  <2>2. CASE ReaderStep
    BY <1>1, <2>1, <2>2
       DEF ReaderStep, ReaderTests, ReaderLocks, ReadBegins, ReadFills, ReadEnds,
           ReadFails, ReaderChecks, ReaderPosts, ReaderWakesSpuriously, ReaderWaits,
           WaitOver
  <2>3. CASE IoStep
    BY <1>1, <2>3 DEF IoStep, TaskTaken, TaskLocks, Consumes, TaskEnds
  <2>4. CASE StopStep
    BY <1>1, <2>4 DEF StopStep, StopReading, StopClose, StopFree, StopContext
  <2> QED
    BY <1>1, <2>2, <2>3, <2>4 DEF Next
<1>2. IInv /\ [Next]_vars =>
        [(reader \in {"parked", "woken"}) => reader' \in {"parked", "woken"}]_vars
  BY <1>1
<1> QED
  BY Inductive, <1>2, PTL DEF Spec

=============================================================================
