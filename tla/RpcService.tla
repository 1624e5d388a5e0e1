----------------------------- MODULE RpcService -----------------------------
(***************************************************************************)
(* What transmission/Rpc.h promises a caller that stays up and has not     *)
(* used an id twice, without ids, timers, datagrams or control blocks:     *)
(*   - the request handler runs only for calls that were made;             *)
(*   - a call is handed its own answer only, and only after its handler    *)
(*     ran; it may be handed that answer again;                            *)
(*   - a timeout is final and excludes an answer;                          *)
(*   - another error is final too, but may come after an answer.           *)
(***************************************************************************)
EXTENDS Naturals

CONSTANT Call    \* the calls

VARIABLES
  issued,        \* the calls made
  executed,      \* the calls whose request handler has run
  answers,       \* the answers handed to the callback of each call
  timedOut,      \* the calls that were told of a timeout
  broken         \* the calls that were told of another error

vars == <<issued, executed, answers, timedOut, broken>>

Ended(k) == k \in timedOut \cup broken

Init ==
  /\ issued = {}
  /\ executed = {}
  /\ answers = [k \in Call |-> {}]
  /\ timedOut = {}
  /\ broken = {}

\* A call is made.  It may end at once: when its budget allows no transmission,
\* or when its content leaves no room for a header.
Issue(k) ==
  /\ k \notin issued
  /\ issued' = issued \cup {k}
  /\ timedOut' \in {timedOut, timedOut \cup {k}}
  /\ broken' \in {broken, broken \cup {k}}
  /\ UNCHANGED <<executed, answers>>

Execute(k) ==
  /\ k \in issued
  /\ executed' = executed \cup {k}
  /\ UNCHANGED <<issued, answers, timedOut, broken>>

Answer(k) ==
  /\ k \in executed
  /\ ~Ended(k)
  /\ answers' = [answers EXCEPT ![k] = {k}]
  /\ UNCHANGED <<issued, executed, timedOut, broken>>

TimeOut(k) ==
  /\ k \in issued
  /\ ~Ended(k)
  /\ answers[k] = {}
  /\ timedOut' = timedOut \cup {k}
  /\ UNCHANGED <<issued, executed, answers, broken>>

Break(k) ==
  /\ k \in issued
  /\ ~Ended(k)
  /\ broken' = broken \cup {k}
  /\ UNCHANGED <<issued, executed, answers, timedOut>>

Next ==
  \E k \in Call :
    Issue(k) \/ Execute(k) \/ Answer(k) \/ TimeOut(k) \/ Break(k)

Spec == Init /\ [][Next]_vars

=============================================================================
