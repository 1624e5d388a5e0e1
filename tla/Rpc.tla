-------------------------------- MODULE Rpc --------------------------------
(***************************************************************************)
(* The request/reply layer of libtun (transmission/Rpc.h): every node owns *)
(* one Rpc object on one UDP socket.  A caller retransmits a request once  *)
(* per timer period until a reply arrives or its retry budget is spent;    *)
(* the callee runs the request handler once, then retransmits the reply on *)
(* a timer of its own and ignores the same request while it does so.       *)
(*                                                                         *)
(* All handlers of an Rpc run on one io_context thread, so a handler is    *)
(* one step.  A datagram leaves when the asynchronous send completes.      *)
(* Datagrams are never removed from net: delivering one late, twice, out   *)
(* of order or never are all behaviours of the model.                      *)
(*                                                                         *)
(* A call number stands for the content of a request: the k-th send() of   *)
(* the system sends content k, and the handler's answer to content k is k. *)
(* Encryption is left out: all nodes share the key, and decryption gives   *)
(* the packet header and content back.                                     *)
(***************************************************************************)
EXTENDS Integers

CONSTANTS
  Node,         \* the endpoints, one Rpc object each
  Volatile,     \* the nodes whose process may crash and start again
  Retry,        \* the constructor's retry argument (_retry)
  MaxId,        \* the last request id, 0xffff in the code
  MaxCalls,     \* bound: number of send() calls in a behaviour
  MaxRestarts   \* bound: number of restarts in a behaviour

\* _retry is a uint16_t; ids are 1 .. 0xffff.
ASSUME RpcAssumption ==
  /\ Node # {}
  /\ Volatile \subseteq Node
  /\ Retry \in 0 .. 2^16 - 1
  /\ MaxId \in 1 .. 2^16 - 1
  /\ MaxCalls \in Nat
  /\ MaxRestarts \in Nat

VARIABLES
  nextId,       \* _id of every node
  made,         \* number of send() calls so far
  req,          \* the request control block of every call
  requesting,   \* _requesting: request id -> call, per node
  replying,     \* _replying: <<endpoint, id>> -> reply control block, per node
  net,          \* every datagram that ever left a socket
  answers,      \* history: the answers handed to the callback of each call
  errors,       \* history: the errors handed to the callback of each call
  completions,  \* history: invocations of each callback, 2 meaning "two or more"
  executed,     \* history: the calls whose request handler has run
  restarts      \* number of restarts so far

vars == <<nextId, made, req, requesting, replying, net,
          answers, errors, completions, executed, restarts>>

history == <<answers, errors, completions>>

Id == 1 .. MaxId
Call == 1 .. MaxCalls
None == 0
Byte == -128 .. 127

\* Conversion to int8_t, the type of ControlBlock::remain.
Int8(x) == ((x + 128) % 256) - 128

\* A request control block; sent counts the datagrams it put on the wire.
RequestBlock ==
  [phase : {"unused", "sending", "waiting", "freed"},
   from : Node, to : Node, id : Id, remain : Byte, sent : Nat]

\* A reply control block; call is the content of the request it answers.
ReplyBlock ==
  [phase : {"sending", "waiting"}, call : Call, remain : Byte, sent : Nat]

\* No entry in _replying.
Absent == [phase |-> "absent", call |-> None, remain |-> 0, sent |-> 0]

Message ==
  [type : {"REQUEST", "REPLY"}, from : Node, to : Node, id : Id, call : Call]

Live(k) == req[k].phase \in {"sending", "waiting"}

TypeOK ==
  /\ nextId \in [Node -> Id]
  /\ made \in 0 .. MaxCalls
  /\ req \in [Call -> RequestBlock]
  /\ requesting \in [Node -> [Id -> Call \cup {None}]]
  /\ replying \in [Node -> [Node \X Id -> ReplyBlock \cup {Absent}]]
  /\ net \in SUBSET Message
  /\ answers \in [Call -> SUBSET Call]
  /\ errors \in [Call -> SUBSET {"timed_out", "io_error", "no_buffer_space"}]
  /\ completions \in [Call -> 0 .. 2]
  /\ executed \in SUBSET Call
  /\ restarts \in 0 .. MaxRestarts

Unused == [phase |-> "unused", from |-> CHOOSE n \in Node : TRUE,
           to |-> CHOOSE n \in Node : TRUE, id |-> 1, remain |-> 0, sent |-> 0]

Init ==
  /\ nextId = [n \in Node |-> 1]
  /\ made = 0
  /\ req = [k \in Call |-> Unused]
  /\ requesting = [n \in Node |-> [i \in Id |-> None]]
  /\ replying = [n \in Node |-> [s \in Node \X Id |-> Absent]]
  /\ net = {}
  /\ answers = [k \in Call |-> {}]
  /\ errors = [k \in Call |-> {}]
  /\ completions = [k \in Call |-> 0]
  /\ executed = {}
  /\ restarts = 0

-----------------------------------------------------------------------------
(* The caller's side.                                                      *)

\* Mutant of NextId: the counter is not advanced.
NextIdSame(i) == i

\* _nextId: the counter restarts at 1 after its last value.
NextId(i) == IF i = MaxId THEN 1 ELSE i + 1

\* Mutant of Spent: the budget test lets remain reach zero.
SpentLate(remain) == remain < 0

\* The budget test of both timers, after the decrement.
Spent(remain) == remain <= 0

\* Mutant of Unmap: the entry of a finished request stays in the map.
UnmapNothing(map, c) == map

\* _requesting.erase(control->id): whatever block the id names now.
Unmap(map, c) == [map EXCEPT ![c.from][c.id] = None]

\* One more callback invocation.
Again(times) == IF times = 0 THEN 1 ELSE 2

\* Mutant of RequestEnds: the block is not freed.
RequestEndsUnfreed(k, c, left, map, failed) ==
  /\ req' = [req EXCEPT ![k] = [c EXCEPT !.phase = "waiting"]]
  /\ requesting' = map
  /\ answers' = answers
  /\ errors' = [errors EXCEPT ![k] = @ \cup {"timed_out"}]
  /\ completions' = [completions EXCEPT ![k] = Again(@)]

\* Mutant of RequestEnds: a failed send is reported as a timeout.
RequestEndsAsTimeout(k, c, left, map, failed) ==
  /\ req' = [req EXCEPT ![k] = [c EXCEPT !.phase = "freed", !.remain = left]]
  /\ requesting' = Unmap(map, c)
  /\ UNCHANGED answers
  /\ \/ /\ left = 0 \/ failed
        /\ errors' = [errors EXCEPT ![k] = @ \cup {"timed_out"}]
        /\ completions' = [completions EXCEPT ![k] = Again(@)]
     \/ /\ left # 0 /\ ~failed
        /\ UNCHANGED <<errors, completions>>

\* The end of a request: the callback hears of a timeout when remain is exactly
\* zero, of the send error otherwise, and of nothing when a reply came before.
RequestEnds(k, c, left, map, failed) ==
  /\ req' = [req EXCEPT ![k] = [c EXCEPT !.phase = "freed", !.remain = left]]
  /\ requesting' = Unmap(map, c)
  /\ UNCHANGED answers
  /\ \/ /\ left = 0
        /\ errors' = [errors EXCEPT ![k] = @ \cup {"timed_out"}]
        /\ completions' = [completions EXCEPT ![k] = Again(@)]
     \/ /\ left # 0 /\ failed
        /\ errors' = [errors EXCEPT ![k] = @ \cup {"io_error"}]
        /\ completions' = [completions EXCEPT ![k] = Again(@)]
     \/ /\ left # 0 /\ ~failed
        /\ UNCHANGED <<errors, completions>>

\* _onRequestTimer on block c of call k, with the request map as it is when it
\* is called: decrement, then give up or start another transmission.
OnRequestTimer(k, c, map, failed) ==
  LET left == Int8(c.remain - 1) IN
  \/ /\ Spent(left) \/ failed
     /\ RequestEnds(k, c, left, map, failed)
  \/ /\ ~Spent(left) /\ ~failed
     /\ req' = [req EXCEPT ![k] = [c EXCEPT !.phase = "sending", !.remain = left]]
     /\ requesting' = map
     /\ UNCHANGED history

\* send: take the next id, fill a block, enter it in the map (over whatever the
\* map held for that id) and run the timer handler once by hand.
Send(n, to) ==
  LET k == made + 1
      c == [phase |-> "waiting", from |-> n, to |-> to, id |-> nextId[n],
            remain |-> Int8(Retry), sent |-> 0]
  IN
  /\ made < MaxCalls
  /\ n # to
  /\ made' = k
  /\ nextId' = [nextId EXCEPT ![n] = NextId(@)]
  /\ OnRequestTimer(k, c, [requesting EXCEPT ![n][c.id] = k], FALSE)
  /\ UNCHANGED <<replying, net, executed, restarts>>

\* send, no room for the header in front of the content: the callback hears of
\* it at once, no id is taken.
SendRefused ==
  /\ made < MaxCalls
  /\ made' = made + 1
  /\ errors' = [errors EXCEPT ![made'] = @ \cup {"no_buffer_space"}]
  /\ completions' = [completions EXCEPT ![made'] = Again(@)]
  /\ UNCHANGED <<nextId, req, requesting, replying, net, answers, executed, restarts>>

RequestMessage(k) ==
  [type |-> "REQUEST", from |-> req[k].from, to |-> req[k].to,
   id |-> req[k].id, call |-> k]

\* A block whose datagram has left: its timer is armed.
Transmitted(c) == [c EXCEPT !.phase = "waiting", !.sent = c.sent + 1]

\* Mutant of RequestSent: the timer is not armed.
RequestSentOnce(k) ==
  /\ req[k].phase = "sending"
  /\ net' = net \cup {RequestMessage(k)}
  /\ req' = [req EXCEPT ![k].phase = "unarmed"]
  /\ UNCHANGED <<nextId, made, requesting, replying, history, executed, restarts>>

\* The send handler of _onRequestTimer, no error: the datagram has left, the
\* timer is armed.
RequestSent(k) ==
  /\ req[k].phase = "sending"
  /\ net' = net \cup {RequestMessage(k)}
  /\ req' = [req EXCEPT ![k] = Transmitted(@)]
  /\ UNCHANGED <<nextId, made, requesting, replying, history, executed, restarts>>

\* The send handler of _onRequestTimer, send error: nothing left the socket.
RequestSendFailed(k) ==
  /\ req[k].phase = "sending"
  /\ OnRequestTimer(k, req[k], requesting, TRUE)
  /\ UNCHANGED <<nextId, made, replying, net, executed, restarts>>

\* The timer of a request expires.
RequestTimer(k) ==
  /\ req[k].phase = "waiting"
  /\ OnRequestTimer(k, req[k], requesting, FALSE)
  /\ UNCHANGED <<nextId, made, replying, net, executed, restarts>>

\* Mutant of Settled: the reply does not stop the retransmission.
SettledNot(c) == c

\* it->second->remain = 0: the next timer will free the block.
Settled(c) == [c EXCEPT !.remain = 0]

\* Mutant of Addressee: a reply completes the latest request, whatever its id.
AddresseeLatest(n, id) == made

\* The call a reply with this id completes: what _requesting holds for it.
Addressee(n, id) == requesting[n][id]

\* feed, REPLY: hand the content to the callback of the request with that id.
\* The sender of the datagram is not compared with the request's endpoint, and
\* the block stays in the map until its timer fires.
FeedReply(m) ==
  LET k == Addressee(m.to, m.id) IN
  /\ m.type = "REPLY"
  /\ k # None
  /\ answers' = [answers EXCEPT ![k] = @ \cup {m.call}]
  /\ completions' = [completions EXCEPT ![k] = Again(@)]
  /\ req' = [req EXCEPT ![k] = Settled(@)]
  /\ UNCHANGED <<nextId, made, requesting, replying, net, errors, executed, restarts>>

-----------------------------------------------------------------------------
(* The callee's side.                                                      *)

\* _onReplyTimer on block c of the reply to s = <<endpoint, id>>.  On giving up
\* the callback (which returns the reply's buffer to the pool) runs once.
OnReplyTimer(n, s, c, failed) ==
  LET left == Int8(c.remain - 1) IN
  \/ /\ Spent(left) \/ failed
     /\ replying' = [replying EXCEPT ![n][s] = Absent]
  \/ /\ ~Spent(left) /\ ~failed
     /\ replying' = [replying EXCEPT ![n][s] =
                       [c EXCEPT !.phase = "sending", !.remain = left]]

\* Mutant of Unanswered: a request is never recognised as a repetition.
UnansweredAlways(n, s) == s \in Node \X Id

\* _replying has no entry for the request s = <<endpoint, id>>.
Unanswered(n, s) == replying[n][s].phase = "absent"

\* feed, REQUEST: a request that is being replied to is ignored; any other runs
\* the handler, whose answer becomes the reply.  When the handler returns false,
\* or its answer has no room for the header, the block is freed at once.
FeedRequest(m) ==
  LET s == <<m.from, m.id>> IN
  /\ m.type = "REQUEST"
  /\ Unanswered(m.to, s)
  /\ executed' = executed \cup {m.call}
  /\ \/ OnReplyTimer(m.to, s, [phase |-> "waiting", call |-> m.call,
                               remain |-> Int8(Retry), sent |-> 0], FALSE)
     \/ UNCHANGED replying
  /\ UNCHANGED <<nextId, made, req, requesting, net, history, restarts>>

ReplyMessage(n, s) ==
  [type |-> "REPLY", from |-> n, to |-> s[1], id |-> s[2], call |-> replying[n][s].call]

\* Mutant of ReplySent: the timer is not armed.
ReplySentOnce(n, s) ==
  /\ replying[n][s].phase = "sending"
  /\ net' = net \cup {ReplyMessage(n, s)}
  /\ replying' = [replying EXCEPT ![n][s].phase = "unarmed"]
  /\ UNCHANGED <<nextId, made, req, requesting, history, executed, restarts>>

\* The send handler of _onReplyTimer, no error.
ReplySent(n, s) ==
  /\ replying[n][s].phase = "sending"
  /\ net' = net \cup {ReplyMessage(n, s)}
  /\ replying' = [replying EXCEPT ![n][s] = Transmitted(@)]
  /\ UNCHANGED <<nextId, made, req, requesting, history, executed, restarts>>

\* The send handler of _onReplyTimer, send error.
ReplySendFailed(n, s) ==
  /\ replying[n][s].phase = "sending"
  /\ OnReplyTimer(n, s, replying[n][s], TRUE)
  /\ UNCHANGED <<nextId, made, req, requesting, net, history, executed, restarts>>

\* The timer of a reply expires.
ReplyTimer(n, s) ==
  /\ replying[n][s].phase = "waiting"
  /\ OnReplyTimer(n, s, replying[n][s], FALSE)
  /\ UNCHANGED <<nextId, made, req, requesting, net, history, executed, restarts>>

-----------------------------------------------------------------------------
\* The process of node n dies and starts again: a new Rpc object, whose id
\* counter starts at 1.  No callback runs; nothing is persistent.
Restart(n) ==
  /\ n \in Volatile
  /\ restarts < MaxRestarts
  /\ restarts' = restarts + 1
  /\ nextId' = [nextId EXCEPT ![n] = 1]
  /\ req' = [k \in Call |-> IF Live(k) /\ req[k].from = n
                            THEN [req[k] EXCEPT !.phase = "freed"] ELSE req[k]]
  /\ requesting' = [requesting EXCEPT ![n] = [i \in Id |-> None]]
  /\ replying' = [replying EXCEPT ![n] = [s \in Node \X Id |-> Absent]]
  /\ UNCHANGED <<made, net, history, executed>>

RequestStep(k) == RequestSent(k) \/ RequestSendFailed(k) \/ RequestTimer(k)
ReplyStep(n, s) == ReplySent(n, s) \/ ReplySendFailed(n, s) \/ ReplyTimer(n, s)

Next ==
  \/ \E n, to \in Node : Send(n, to)
  \/ SendRefused
  \/ \E k \in Call : RequestStep(k)
  \/ \E n \in Node, s \in Node \X Id : ReplyStep(n, s)
  \/ \E m \in net : FeedRequest(m) \/ FeedReply(m)
  \/ \E n \in Node : Restart(n)

Spec == Init /\ [][Next]_vars

\* io_context runs every handler whose operation has finished; a send finishes
\* and a one-second timer expires.  Nothing is assumed of the network.
Fairness ==
  /\ \A k \in Call : WF_vars(RequestStep(k))
  /\ \A n \in Node, s \in Node \X Id : WF_vars(ReplyStep(n, s))

FairSpec == Spec /\ Fairness

-----------------------------------------------------------------------------
(* Safety.                                                                 *)

\* What the first decrement leaves of the budget: the most datagrams a request,
\* or a reply, may put on the wire.
Budget == Int8(Int8(Retry) - 1)

\* No id is used twice by a process that does not restart.
NoWrap == MaxCalls <= MaxId

\* The map holds no freed block, and every entry stands under the id of its block
\* (Rpc.h:96-98, 130, 201-202): feed dereferences whatever it finds there.  Holds
\* also after the ids have wrapped onto requests still outstanding.
NoDanglingControl ==
  \A n \in Node, i \in Id :
    LET k == requesting[n][i] IN
    k # None => Live(k) /\ req[k].from = n /\ req[k].id = i

\* A call can only be handed the answer to a call of the same caller with the same
\* id (Rpc.h:93-97), although feed looks at nothing but the id, and whatever the
\* network delays or repeats; so the ids decide whether answers are mixed up.
AnswerFromSameId ==
  \A k \in Call : \A j \in answers[k] :
    req[j].from = req[k].from /\ req[j].id = req[k].id

\* A caller that neither restarts nor runs out of ids is handed the answer to the
\* request it made, never a late answer to another (Rpc.h:93-97, 164-170).
AnswerMatchesCall ==
  \A k \in Call :
    NoWrap /\ req[k].from \notin Volatile => answers[k] \subseteq {k}

\* A callback that was told of a timeout hears of no answer, before or after
\* (Rpc.h:98, 195-203): the two handlers that may free the request's buffer agree
\* on how the call ended.
TimeoutExcludesAnswer ==
  \A k \in Call : "timed_out" \in errors[k] => answers[k] = {}

\* Retry is not the number of transmissions but one more, and the wrap to int8_t
\* of Rpc.h:39 counts: no request and no reply is put on the wire more than Budget
\* times (Rpc.h:66, 121, 173, 195), whatever the order of sends, timers and replies.
TransmissionBound ==
  /\ \A k \in Call : req[k].sent > 0 => req[k].sent <= Budget
  /\ \A n \in Node, s \in Node \X Id :
       replying[n][s].sent > 0 => replying[n][s].sent <= Budget

\* A timeout is reported only when the whole budget went out, save a last datagram
\* whose send failed (Rpc.h:195-197): a reply or an error never eats the budget.
TimeoutMeansBudgetSpent ==
  \A k \in Call :
    "timed_out" \in errors[k] => req[k].sent \in {Budget - 1, Budget}

\* As long as no id is used twice, an outstanding request can be found by the reply
\* to it: no other call's end removes its entry (Rpc.h:130, 201).
MappedUntilFreed ==
  NoWrap => \A k \in Call : Live(k) => requesting[req[k].from][req[k].id] = k

-----------------------------------------------------------------------------
(* Liveness.                                                               *)

\* Every call of a process that stays up is told of an end, an answer or an error,
\* whatever the network loses (Rpc.h:194-218), when Retry leaves a budget.
EventuallyCompletes ==
  \A k \in Call :
    Budget >= 0 /\ k <= made /\ req[k].from \notin Volatile ~> completions[k] > 0

\* Every request block is freed in the end, answered or not (Rpc.h:201-202): the
\* retransmission stops and its memory is given back.
EventuallyFreed == \A k \in Call : Live(k) ~> ~Live(k)

\* Every reply block is freed in the end (Rpc.h:174-176), and the node answers a
\* new request with that endpoint and id again.
ReplyWindowCloses ==
  \A n \in Node, s \in Node \X Id : ~Unanswered(n, s) ~> Unanswered(n, s)

\* What the test of Rpc expects of a caller that receives the reply datagram twice
\* (test/transmission/Rpc.cc:117, 124, 127): one callback, so one free of the
\* request's buffer.
CompletesAtMostOnce == \A k \in Call : completions[k] <= 1

=============================================================================
