------------------------------ MODULE RpcTimed ------------------------------
(***************************************************************************)
(* Rpc (transmission/Rpc.h) with a clock: the timers of requests and       *)
(* replies run for a period of one second, a datagram that arrives takes   *)
(* some time, but no longer than delay, and a handler whose timer has      *)
(* expired runs no later than lag after it.  Sends complete at once, which *)
(* a UDP socket's do.                                                      *)
(*                                                                         *)
(* What the callee remembers of a request is its reply block; what it      *)
(* promises about repeated requests and replies holds while that block is  *)
(* there, so it is a question of time.                                     *)
(***************************************************************************)
EXTENDS Rpc

CONSTANTS
  Period,    \* one second, in ticks of the clock
  Delays,    \* the bounds on the delay of datagrams considered
  Lags       \* the bounds on the lateness of handlers considered

ASSUME RpcTimedAssumption ==
  /\ Period \in Nat \ {0}
  /\ Delays \subseteq Nat \ {0}
  /\ Lags \subseteq Nat
  /\ Budget > 0

VARIABLES
  delay,      \* the bound on delays in this behaviour
  lag,        \* the bound on lateness in this behaviour
  now,        \* the clock
  due,        \* when the timer of every request expires
  replyDue,   \* when the timer of every reply expires, per node
  flight,     \* the copies of datagrams that may still arrive
  started,    \* when every call was made
  runs,       \* history: runs of every call's request handler, 2 meaning "two or more"
  cut,        \* history: the calls whose reply ended before its budget was spent
  repeated    \* history: some copy has arrived twice

clockVars == <<delay, lag, now>>
timedVars == <<vars, clockVars, due, replyDue, flight, started, runs, cut, repeated>>

TimedInit ==
  /\ Init
  /\ delay \in Delays
  /\ lag \in Lags
  /\ now = 0
  /\ due = [k \in Call |-> 0]
  /\ replyDue = [n \in Node |-> [s \in Node \X Id |-> 0]]
  /\ flight = {}
  /\ started = [k \in Call |-> 0]
  /\ runs = [k \in Call |-> 0]
  /\ cut = {}
  /\ repeated = FALSE

-----------------------------------------------------------------------------
(* The caller's side.                                                      *)

TimedSend(n, to) ==
  /\ Send(n, to)
  /\ started' = [started EXCEPT ![made'] = now]
  /\ UNCHANGED <<clockVars, due, replyDue, flight, runs, cut, repeated>>

Copy(m) == [message |-> m, at |-> now, arrived |-> FALSE]

TimedRequestSent(k) ==
  /\ RequestSent(k)
  /\ flight' = flight \cup {Copy(RequestMessage(k))}
  /\ due' = [due EXCEPT ![k] = now + Period]
  /\ UNCHANGED <<clockVars, replyDue, started, runs, cut, repeated>>

\* Mutant of Expired: a timer may expire a tick early.
ExpiredEarly(time) == now >= time - 1

Expired(time) == now >= time

\* A send fails, or the timer has expired.
TimedRequestEvent(k) ==
  /\ \/ RequestSendFailed(k)
     \/ RequestTimer(k) /\ Expired(due[k])
  /\ UNCHANGED <<clockVars, due, replyDue, flight, started, runs, cut, repeated>>

\* A copy arrives.  It stays in flight: the network may deliver it again.
Arrives(f) ==
  /\ now > f.at
  /\ flight' = (flight \ {f}) \cup {[f EXCEPT !.arrived = TRUE]}
  /\ repeated' = (repeated \/ f.arrived)

TimedFeedReply(f) ==
  /\ FeedReply(f.message)
  /\ Arrives(f)
  /\ UNCHANGED <<clockVars, due, replyDue, started, runs, cut>>

-----------------------------------------------------------------------------
(* The callee's side.                                                      *)

\* A request runs the handler; a handler that declines leaves no reply block.
TimedFeedRequest(f) ==
  /\ FeedRequest(f.message)
  /\ Arrives(f)
  /\ runs' = [runs EXCEPT ![f.message.call] = Again(@)]
  /\ cut' = IF replying' = replying THEN cut \cup {f.message.call} ELSE cut
  /\ UNCHANGED <<clockVars, due, replyDue, started>>

TimedReplySent(n, s) ==
  /\ ReplySent(n, s)
  /\ flight' = flight \cup {Copy(ReplyMessage(n, s))}
  /\ replyDue' = [replyDue EXCEPT ![n][s] = now + Period]
  /\ UNCHANGED <<clockVars, due, started, runs, cut, repeated>>

TimedReplySendFailed(n, s) ==
  /\ ReplySendFailed(n, s)
  /\ cut' = cut \cup {replying[n][s].call}
  /\ UNCHANGED <<clockVars, due, replyDue, flight, started, runs, repeated>>

TimedReplyTimer(n, s) ==
  /\ ReplyTimer(n, s)
  /\ Expired(replyDue[n][s])
  /\ UNCHANGED <<clockVars, due, replyDue, flight, started, runs, cut, repeated>>

TimedRestart(n) ==
  /\ Restart(n)
  /\ cut' = cut \cup {replying[n][s].call : s \in {t \in Node \X Id : ~Unanswered(n, t)}}
  /\ UNCHANGED <<clockVars, due, replyDue, flight, started, runs, repeated>>

-----------------------------------------------------------------------------
(* The clock.                                                              *)

Replying == {x \in Node \X (Node \X Id) : ~Unanswered(x[1], x[2])}

\* Time may pass a block: its datagram has left, and its timer can still wait.
MayPass(phase, time) == phase # "sending" /\ now < time + lag

\* The clock moves while something is under way.
Tick ==
  /\ flight # {} \/ Replying # {} \/ \E k \in Call : Live(k)
  /\ \A k \in Call : Live(k) => MayPass(req[k].phase, due[k])
  /\ \A x \in Replying :
       MayPass(replying[x[1]][x[2]].phase, replyDue[x[1]][x[2]])
  /\ now' = now + 1
  /\ flight' = {f \in flight : now < f.at + delay}
  /\ UNCHANGED <<vars, delay, lag, due, replyDue, started, runs, cut, repeated>>

TimedNext ==
  \/ \E n, to \in Node : TimedSend(n, to)
  \/ \E k \in Call : TimedRequestSent(k) \/ TimedRequestEvent(k)
  \/ \E f \in flight : TimedFeedRequest(f) \/ TimedFeedReply(f)
  \/ \E n \in Node, s \in Node \X Id :
       TimedReplySent(n, s) \/ TimedReplySendFailed(n, s) \/ TimedReplyTimer(n, s)
  \/ \E n \in Node : TimedRestart(n)
  \/ Tick

TimedSpec == TimedInit /\ [][TimedNext]_timedVars

-----------------------------------------------------------------------------
(* What time makes true.                                                   *)

\* The last datagram of a request arrives before the first one's reply block, which
\* lives Budget periods, can have gone.
InTime == (Budget - 1) * lag + delay < Period

\* The request handler of a call runs once, however often the request is sent and
\* repeated, unless its reply was given up early (Rpc.h:64, 88, 173-176, 213-214):
\* true only of a network faster than the timers.
AtMostOnce == InTime => \A k \in Call \ cut : runs[k] <= 1

\* A caller that was told of a timeout never sees its request executed afterwards
\* (Rpc.h:64, 195-203), under the same condition.
NoRunAfterTimeout ==
  [][InTime => \A k \in Call :
       runs'[k] # runs[k] => "timed_out" \notin errors[k]]_timedVars

\* The test's expectation of one callback per call (test/transmission/Rpc.cc:124), of an
\* answer or of an error, is true when a request and its reply take less than a period
\* together, handlers are never late and the network does not repeat: then the caller's
\* timer always removes the request before the callee's next reply (Rpc.h:94-98, 187-188,
\* 195-203, 213-214).  Left out are the calls whose reply was given up early, by a handler
\* that declines, a send of the reply that fails or a restart of the callee (cut), since
\* another copy of the request may be answered anew, and callers that may restart or use
\* an id twice, who may hear the reply to an earlier call.
HeardOnce ==
  NoWrap /\ lag = 0 /\ 2 * delay < Period /\ ~repeated =>
    \A k \in Call \ cut : req[k].from \notin Volatile => completions[k] <= 1

\* A call has ended, and its block is freed, Budget periods after it was made, give or
\* take the lateness of each timer (Rpc.h:195-203, 213-214).
EndsInTime ==
  \A k \in Call : Live(k) => now <= started[k] + Budget * (Period + lag)

=============================================================================
