----------------------------- MODULE RpcProofs -----------------------------
(* Theorems of Rpc, for every value of its constants.                       *)
EXTENDS Rpc, TLAPS

\* What the proofs need of the constants.
LEMMA Parameters ==
  /\ Node # {} /\ Retry \in Int
  /\ MaxId \in Nat /\ 1 <= MaxId /\ MaxCalls \in Nat /\ MaxRestarts \in Nat
  BY RpcAssumption

-----------------------------------------------------------------------------
(* The conversion to int8_t.                                               *)

\* A conversion to int8_t yields one, and leaves an int8_t alone.
LEMMA Int8Range ==
  ASSUME NEW x \in Int
  PROVE  /\ Int8(x) \in Byte
         /\ x \in Byte => Int8(x) = x
  BY DEF Int8, Byte

LEMMA RetryByte == Int8(Retry) \in Byte
  BY Parameters, Int8Range

-----------------------------------------------------------------------------
(* The timer handlers, by cases.                                           *)

\* What the timer handler of a request does to block c of call k when it leaves
\* left of the budget: it reports a timeout, ends the request without one, or
\* starts another transmission.
Freed(c, left) == [c EXCEPT !.phase = "freed", !.remain = left]
Resent(c, left) == [c EXCEPT !.phase = "sending", !.remain = left]

TimesOut(k, c, left, map) ==
  /\ left = 0
  /\ req' = [req EXCEPT ![k] = Freed(c, left)]
  /\ requesting' = Unmap(map, c)
  /\ answers' = answers
  /\ errors' = [errors EXCEPT ![k] = @ \cup {"timed_out"}]
  /\ completions' = [completions EXCEPT ![k] = Again(@)]

EndsOtherwise(k, c, left, map) ==
  /\ left # 0
  /\ req' = [req EXCEPT ![k] = Freed(c, left)]
  /\ requesting' = Unmap(map, c)
  /\ answers' = answers
  /\ \/ /\ errors' = [errors EXCEPT ![k] = @ \cup {"io_error"}]
        /\ completions' = [completions EXCEPT ![k] = Again(@)]
     \/ errors' = errors /\ completions' = completions

Resends(k, c, left, map) ==
  /\ left > 0
  /\ req' = [req EXCEPT ![k] = Resent(c, left)]
  /\ requesting' = map
  /\ answers' = answers /\ errors' = errors /\ completions' = completions

LEMMA OnRequestTimerCases ==
  ASSUME NEW k \in Call, NEW c \in RequestBlock, NEW map, NEW failed,
         NEW left, left = Int8(c.remain - 1), OnRequestTimer(k, c, map, failed)
  PROVE  /\ left \in Byte
         /\ \/ TimesOut(k, c, left, map)
            \/ EndsOtherwise(k, c, left, map)
            \/ Resends(k, c, left, map)
<1>1. left \in Byte
  BY Int8Range DEF RequestBlock, Byte
<1>2. \/ RequestEnds(k, c, left, map, failed)
      \/ ~Spent(left) /\ req' = [req EXCEPT ![k] = Resent(c, left)]
           /\ requesting' = map /\ UNCHANGED history
  BY Zenon DEF OnRequestTimer, Resent
<1>3. RequestEnds(k, c, left, map, failed) =>
        TimesOut(k, c, left, map) \/ EndsOtherwise(k, c, left, map)
  BY Zenon DEF RequestEnds, TimesOut, EndsOtherwise, Freed
<1>4. ~Spent(left) <=> left > 0
  BY <1>1 DEF Spent, Byte
<1>5. UNCHANGED history <=> answers' = answers /\ errors' = errors /\ completions' = completions
  BY DEF history
<1>6. \/ TimesOut(k, c, left, map)
      \/ EndsOtherwise(k, c, left, map)
      \/ Resends(k, c, left, map)
  BY <1>2, <1>3, <1>4, <1>5, Zenon DEF Resends
<1> QED
  BY <1>1, <1>6

\* The same of a reply: its block is freed, or another transmission starts.
LEMMA OnReplyTimerCases ==
  ASSUME NEW n \in Node, NEW s \in Node \X Id, NEW c \in ReplyBlock, NEW failed,
         NEW left, left = Int8(c.remain - 1), OnReplyTimer(n, s, c, failed)
  PROVE  /\ left \in Byte
         /\ \/ replying' = [replying EXCEPT ![n][s] = Absent]
            \/ /\ left > 0
               /\ replying' = [replying EXCEPT ![n][s] = Resent(c, left)]
<1>1. left \in Byte
  BY Int8Range DEF ReplyBlock, Byte
<1>2. \/ replying' = [replying EXCEPT ![n][s] = Absent]
      \/ ~Spent(left) /\ replying' = [replying EXCEPT ![n][s] = Resent(c, left)]
  BY Zenon DEF OnReplyTimer, Resent
<1>3. ~Spent(left) <=> left > 0
  BY <1>1 DEF Spent, Byte
<1>4. \/ replying' = [replying EXCEPT ![n][s] = Absent]
      \/ left > 0 /\ replying' = [replying EXCEPT ![n][s] = Resent(c, left)]
  BY <1>2, <1>3, Zenon
<1> QED
  BY <1>1, <1>4

-----------------------------------------------------------------------------
(* Types.                                                                  *)

LEMMA UnusedType == Unused \in RequestBlock
  BY Parameters DEF Unused, RequestBlock, Id, Byte

LEMMA NextIdType == \A i \in Id : NextId(i) \in Id
  BY Parameters DEF NextId, Id

\* The timer handler of a request keeps the types.
LEMMA OnRequestTimerType ==
  ASSUME TypeOK, NEW k \in Call, NEW c \in RequestBlock,
         NEW map \in [Node -> [Id -> Call \cup {None}]], NEW failed,
         OnRequestTimer(k, c, map, failed)
  PROVE  /\ req' \in [Call -> RequestBlock]
         /\ requesting' \in [Node -> [Id -> Call \cup {None}]]
         /\ answers' = answers
         /\ errors' \in [Call -> SUBSET {"timed_out", "io_error", "no_buffer_space"}]
         /\ completions' \in [Call -> 0 .. 2]
<1> DEFINE left == Int8(c.remain - 1)
<1>1. /\ left \in Byte
      /\ \/ TimesOut(k, c, left, map)
         \/ EndsOtherwise(k, c, left, map)
         \/ Resends(k, c, left, map)
  BY OnRequestTimerCases
<1> HIDE DEF left
<1>2. Freed(c, left) \in RequestBlock /\ Resent(c, left) \in RequestBlock
  BY <1>1 DEF RequestBlock, Freed, Resent
<1>3. Unmap(map, c) \in [Node -> [Id -> Call \cup {None}]]
  BY DEF Unmap, RequestBlock
<1>4. Again(completions[k]) \in 0 .. 2
  BY DEF Again
<1>5. CASE TimesOut(k, c, left, map)
  BY <1>2, <1>3, <1>4, <1>5 DEF TimesOut, TypeOK
<1>6. CASE EndsOtherwise(k, c, left, map)
  <2>1. errors' \in [Call -> SUBSET {"timed_out", "io_error", "no_buffer_space"}]
    BY <1>6 DEF EndsOtherwise, TypeOK
  <2>2. completions' \in [Call -> 0 .. 2]
    BY <1>4, <1>6 DEF EndsOtherwise, TypeOK
  <2> QED
    BY <1>2, <1>3, <1>6, <2>1, <2>2 DEF EndsOtherwise, TypeOK
<1>7. CASE Resends(k, c, left, map)
  BY <1>2, <1>7 DEF Resends, TypeOK
<1> QED
  BY <1>1, <1>5, <1>6, <1>7

\* The timer handler of a reply keeps the types.
LEMMA OnReplyTimerType ==
  ASSUME TypeOK, NEW n \in Node, NEW s \in Node \X Id, NEW c \in ReplyBlock,
         NEW failed, OnReplyTimer(n, s, c, failed)
  PROVE  replying' \in [Node -> [Node \X Id -> ReplyBlock \cup {Absent}]]
<1> DEFINE left == Int8(c.remain - 1)
<1>1. /\ left \in Byte
      /\ \/ replying' = [replying EXCEPT ![n][s] = Absent]
         \/ left > 0 /\ replying' = [replying EXCEPT ![n][s] = Resent(c, left)]
  BY OnReplyTimerCases
<1> HIDE DEF left
<1>2. Resent(c, left) \in ReplyBlock
  BY <1>1 DEF ReplyBlock, Resent
<1>3. ASSUME NEW b \in ReplyBlock \cup {Absent}
      PROVE  [replying EXCEPT ![n][s] = b]
               \in [Node -> [Node \X Id -> ReplyBlock \cup {Absent}]]
  BY DEF TypeOK
<1>4. CASE replying' = [replying EXCEPT ![n][s] = Absent]
  <2>1. Absent \in ReplyBlock \cup {Absent}
    OBVIOUS
  <2> QED
    BY <1>3, <1>4, <2>1, Zenon
<1>5. CASE replying' = [replying EXCEPT ![n][s] = Resent(c, left)]
  <2>1. Resent(c, left) \in ReplyBlock \cup {Absent}
    BY <1>2
  <2> QED
    BY <1>3, <1>5, <2>1, Zenon
<1> QED
  BY <1>1, <1>4, <1>5, Zenon

LEMMA TypeInit == Init => TypeOK
<1> SUFFICES ASSUME Init PROVE TypeOK
  OBVIOUS
<1>1. /\ nextId \in [Node -> Id]
      /\ made \in 0 .. MaxCalls
      /\ restarts \in 0 .. MaxRestarts
  <2>1. 1 \in Id /\ 0 \in 0 .. MaxCalls /\ 0 \in 0 .. MaxRestarts
    BY Parameters DEF Id
  <2> QED
    BY <2>1 DEF Init
<1>2. req \in [Call -> RequestBlock]
  BY UnusedType DEF Init
<1>3. requesting \in [Node -> [Id -> Call \cup {None}]]
  BY DEF Init
<1>4. replying \in [Node -> [Node \X Id -> ReplyBlock \cup {Absent}]]
  BY DEF Init
<1>5. /\ net \in SUBSET Message
      /\ answers \in [Call -> SUBSET Call]
      /\ errors \in [Call -> SUBSET {"timed_out", "io_error", "no_buffer_space"}]
      /\ completions \in [Call -> 0 .. 2]
      /\ executed \in SUBSET Call
  BY DEF Init
<1> QED
  BY <1>1, <1>2, <1>3, <1>4, <1>5 DEF TypeOK

\* The block that send fills, and the map with its entry.
LEMMA SendBlockType ==
  ASSUME TypeOK, made < MaxCalls, NEW n \in Node, NEW to \in Node
  PROVE  /\ made + 1 \in Call
         /\ [phase |-> "waiting", from |-> n, to |-> to, id |-> nextId[n],
             remain |-> Int8(Retry), sent |-> 0] \in RequestBlock
         /\ [requesting EXCEPT ![n][nextId[n]] = made + 1]
              \in [Node -> [Id -> Call \cup {None}]]
<1>1. made + 1 \in Call
  <2>1. made \in 0 .. MaxCalls
    BY DEF TypeOK
  <2> QED
    BY <2>1, Parameters DEF Call
<1>2. Int8(Retry) \in Byte
  BY RetryByte
<1> QED
  BY <1>1, <1>2 DEF TypeOK, RequestBlock

\* What they change.
LEMMA BlockFields ==
  /\ \A c \in RequestBlock :
       /\ Transmitted(c).phase = "waiting" /\ Transmitted(c).from = c.from
       /\ Transmitted(c).id = c.id /\ Transmitted(c).remain = c.remain
       /\ Transmitted(c).sent = c.sent + 1
       /\ Settled(c).phase = c.phase /\ Settled(c).from = c.from
       /\ Settled(c).id = c.id /\ Settled(c).remain = 0 /\ Settled(c).sent = c.sent
  /\ \A c \in ReplyBlock :
       /\ Transmitted(c).phase = "waiting" /\ Transmitted(c).call = c.call
       /\ Transmitted(c).remain = c.remain /\ Transmitted(c).sent = c.sent + 1
<1>1. ASSUME NEW c \in RequestBlock
      PROVE  /\ Transmitted(c).phase = "waiting" /\ Transmitted(c).from = c.from
             /\ Transmitted(c).id = c.id /\ Transmitted(c).remain = c.remain
             /\ Transmitted(c).sent = c.sent + 1
  <2> DEFINE x == c.sent + 1
  <2>1. Transmitted(c) = [c EXCEPT !.phase = "waiting", !.sent = x]
    BY DEF Transmitted
  <2>2. x = c.sent + 1
    OBVIOUS
  <2> HIDE DEF x
  <2> QED
    BY <2>1, <2>2 DEF RequestBlock
<1>2. ASSUME NEW c \in RequestBlock
      PROVE  /\ Settled(c).phase = c.phase /\ Settled(c).from = c.from
             /\ Settled(c).id = c.id /\ Settled(c).remain = 0 /\ Settled(c).sent = c.sent
  BY DEF Settled, RequestBlock
<1>3. ASSUME NEW c \in ReplyBlock
      PROVE  /\ Transmitted(c).phase = "waiting" /\ Transmitted(c).call = c.call
             /\ Transmitted(c).remain = c.remain /\ Transmitted(c).sent = c.sent + 1
  <2> DEFINE x == c.sent + 1
  <2>1. Transmitted(c) = [c EXCEPT !.phase = "waiting", !.sent = x]
    BY DEF Transmitted
  <2>2. x = c.sent + 1
    OBVIOUS
  <2> HIDE DEF x
  <2> QED
    BY <2>1, <2>2 DEF ReplyBlock
<1> QED
  BY <1>1, <1>2, <1>3

LEMMA PresentType ==
  ASSUME TypeOK, NEW n \in Node, NEW s \in Node \X Id, replying[n][s].phase # "absent"
  PROVE  replying[n][s] \in ReplyBlock
  BY DEF TypeOK, Absent

\* Marking a block as sent, or as answered, keeps its type.
LEMMA BlockType ==
  /\ \A c \in RequestBlock : Transmitted(c) \in RequestBlock /\ Settled(c) \in RequestBlock
  /\ \A c \in ReplyBlock : Transmitted(c) \in ReplyBlock
<1>1. ASSUME NEW c \in RequestBlock, NEW x \in Nat, NEW y \in Byte
      PROVE  /\ [c EXCEPT !.phase = "waiting", !.sent = x] \in RequestBlock
             /\ [c EXCEPT !.remain = y] \in RequestBlock
  BY DEF RequestBlock
<1>2. ASSUME NEW c \in ReplyBlock, NEW x \in Nat
      PROVE  [c EXCEPT !.phase = "waiting", !.sent = x] \in ReplyBlock
  BY DEF ReplyBlock
<1>3. /\ \A c \in RequestBlock : c.sent + 1 \in Nat
      /\ \A c \in ReplyBlock : c.sent + 1 \in Nat
      /\ 0 \in Byte
  BY DEF RequestBlock, ReplyBlock, Byte
<1> QED
  BY <1>1, <1>2, <1>3, Zenon DEF Transmitted, Settled

LEMMA MessageType ==
  ASSUME TypeOK
  PROVE  /\ \A k \in Call : RequestMessage(k) \in Message
         /\ \A n \in Node, s \in Node \X Id :
              replying[n][s].phase # "absent" => ReplyMessage(n, s) \in Message
<1>1. ASSUME NEW k \in Call
      PROVE  RequestMessage(k) \in Message
  BY DEF TypeOK, RequestMessage, RequestBlock, Message
<1>2. ASSUME NEW n \in Node, NEW s \in Node \X Id, replying[n][s].phase # "absent"
      PROVE  ReplyMessage(n, s) \in Message
  BY <1>2, PresentType DEF ReplyMessage, ReplyBlock, Message
<1> QED
  BY <1>1, <1>2

LEMMA TypeStep == TypeOK /\ [Next]_vars => TypeOK'
<1> SUFFICES ASSUME TypeOK, [Next]_vars PROVE TypeOK'
  OBVIOUS
<1>1. ASSUME NEW n \in Node, NEW to \in Node, Send(n, to)
      PROVE  TypeOK'
  <2> DEFINE c == [phase |-> "waiting", from |-> n, to |-> to, id |-> nextId[n],
                   remain |-> Int8(Retry), sent |-> 0]
             map == [requesting EXCEPT ![n][c.id] = made + 1]
  <2>1. /\ made + 1 \in Call
        /\ c \in RequestBlock
        /\ map \in [Node -> [Id -> Call \cup {None}]]
    BY <1>1, SendBlockType DEF Send
  <2>2. OnRequestTimer(made + 1, c, map, FALSE)
    BY <1>1 DEF Send
  <2>3. /\ made' = made + 1
        /\ nextId' = [nextId EXCEPT ![n] = NextId(@)]
        /\ UNCHANGED <<replying, net, executed, restarts>>
    BY <1>1 DEF Send
  <2> HIDE DEF c, map
  <2>4. nextId' \in [Node -> Id]
    BY <2>3, NextIdType DEF TypeOK
  <2>5. made' \in 0 .. MaxCalls
    BY <2>1, <2>3 DEF Call
  <2> QED
    BY <2>1, <2>2, <2>3, <2>4, <2>5, OnRequestTimerType DEF TypeOK
<1>2. ASSUME SendRefused
      PROVE  TypeOK'
  <2>1. made + 1 \in Call
    <3>1. made \in 0 .. MaxCalls /\ made < MaxCalls
      BY <1>2 DEF TypeOK, SendRefused
    <3> QED
      BY <3>1, Parameters DEF Call
  <2>2. made' = made + 1 /\ made' \in 0 .. MaxCalls
    BY <1>2, <2>1 DEF SendRefused, Call
  <2>3. errors' \in [Call -> SUBSET {"timed_out", "io_error", "no_buffer_space"}]
    BY <1>2, <2>1, <2>2 DEF SendRefused, TypeOK
  <2>4. completions' \in [Call -> 0 .. 2]
    BY <1>2, <2>1, <2>2 DEF SendRefused, TypeOK, Again
  <2> QED
    BY <1>2, <2>2, <2>3, <2>4 DEF SendRefused, TypeOK
<1>3. ASSUME NEW k \in Call, RequestSent(k)
      PROVE  TypeOK'
  <2>1. net' \in SUBSET Message
    BY <1>3, MessageType DEF RequestSent, TypeOK
  <2>2. Transmitted(req[k]) \in RequestBlock
    BY BlockType DEF TypeOK
  <2>3. req' \in [Call -> RequestBlock]
    BY <1>3, <2>2 DEF RequestSent, TypeOK
  <2> QED
    BY <1>3, <2>1, <2>3 DEF RequestSent, TypeOK, history
<1>4. ASSUME NEW k \in Call, RequestSendFailed(k) \/ RequestTimer(k)
      PROVE  TypeOK'
  <2>1. /\ OnRequestTimer(k, req[k], requesting, TRUE)
           \/ OnRequestTimer(k, req[k], requesting, FALSE)
        /\ UNCHANGED <<nextId, made, replying, net, executed, restarts>>
    BY <1>4 DEF RequestSendFailed, RequestTimer
  <2>2. req[k] \in RequestBlock /\ requesting \in [Node -> [Id -> Call \cup {None}]]
    BY DEF TypeOK
  <2> QED
    BY <2>1, <2>2, OnRequestTimerType DEF TypeOK
<1>5. ASSUME NEW m \in net, FeedRequest(m)
      PROVE  TypeOK'
  <2> DEFINE s == <<m.from, m.id>>
             c == [phase |-> "waiting", call |-> m.call,
                   remain |-> Int8(Retry), sent |-> 0]
  <2>1. m.to \in Node /\ s \in Node \X Id /\ m.call \in Call
    BY DEF TypeOK, Message
  <2>2. Int8(Retry) \in Byte
    BY RetryByte
  <2>3. c \in ReplyBlock
    BY <2>1, <2>2 DEF ReplyBlock
  <2>4. OnReplyTimer(m.to, s, c, FALSE) \/ UNCHANGED replying
    BY <1>5 DEF FeedRequest
  <2> HIDE DEF s, c
  <2>5. replying' \in [Node -> [Node \X Id -> ReplyBlock \cup {Absent}]]
    BY <2>1, <2>3, <2>4, OnReplyTimerType DEF TypeOK
  <2>6. executed' \in SUBSET Call
    BY <1>5, <2>1 DEF FeedRequest, TypeOK
  <2> QED
    BY <1>5, <2>5, <2>6 DEF FeedRequest, TypeOK, history
<1>6. ASSUME NEW m \in net, FeedReply(m)
      PROVE  TypeOK'
  <2>1. /\ m.to \in Node /\ m.id \in Id /\ m.call \in Call
        /\ requesting[m.to][m.id] \in Call
    BY <1>6 DEF TypeOK, Message, FeedReply, Addressee
  <2> DEFINE k == requesting[m.to][m.id]
  <2>2. /\ answers' = [answers EXCEPT ![k] = @ \cup {m.call}]
        /\ completions' = [completions EXCEPT ![k] = Again(@)]
        /\ req' = [req EXCEPT ![k] = Settled(@)]
        /\ UNCHANGED <<nextId, made, requesting, replying, net, errors, executed, restarts>>
    BY <1>6 DEF FeedReply, Addressee
  <2> HIDE DEF k
  <2>3. answers' \in [Call -> SUBSET Call]
    BY <2>1, <2>2 DEF TypeOK
  <2>4. completions' \in [Call -> 0 .. 2]
    <3>1. Again(completions[k]) \in 0 .. 2
      BY DEF Again
    <3> QED
      BY <2>2, <3>1 DEF TypeOK
  <2>5. req' \in [Call -> RequestBlock]
    <3>1. Settled(req[k]) \in RequestBlock
      BY <2>1, BlockType DEF TypeOK, k
    <3> QED
      BY <2>2, <3>1 DEF TypeOK
  <2> QED
    BY <2>2, <2>3, <2>4, <2>5 DEF TypeOK
<1>7. ASSUME NEW n \in Node, NEW s \in Node \X Id, ReplySent(n, s)
      PROVE  TypeOK'
  <2>1. replying[n][s] \in ReplyBlock
    BY <1>7, PresentType DEF ReplySent
  <2>2. net' \in SUBSET Message
    BY <1>7, MessageType DEF ReplySent, TypeOK
  <2>3. Transmitted(replying[n][s]) \in ReplyBlock
    BY <2>1, BlockType
  <2>4. replying' = [replying EXCEPT ![n][s] = Transmitted(@)]
    BY <1>7 DEF ReplySent
  <2>5. replying' \in [Node -> [Node \X Id -> ReplyBlock \cup {Absent}]]
    BY <2>3, <2>4 DEF TypeOK
  <2> QED
    BY <1>7, <2>2, <2>5 DEF ReplySent, TypeOK, history
<1>8. ASSUME NEW n \in Node, NEW s \in Node \X Id, ReplySendFailed(n, s) \/ ReplyTimer(n, s)
      PROVE  TypeOK'
  <2>1. /\ OnReplyTimer(n, s, replying[n][s], TRUE)
           \/ OnReplyTimer(n, s, replying[n][s], FALSE)
        /\ UNCHANGED <<nextId, made, req, requesting, net, history, executed, restarts>>
    BY <1>8 DEF ReplySendFailed, ReplyTimer
  <2>2. replying[n][s] \in ReplyBlock
    BY <1>8, PresentType DEF ReplySendFailed, ReplyTimer
  <2>3. replying' \in [Node -> [Node \X Id -> ReplyBlock \cup {Absent}]]
    BY <2>1, <2>2, OnReplyTimerType
  <2> QED
    BY <2>1, <2>3 DEF TypeOK, history
<1>9. ASSUME NEW n \in Node, Restart(n)
      PROVE  TypeOK'
  <2>1. nextId' \in [Node -> Id]
    <3>1. 1 \in Id
      BY Parameters DEF Id
    <3> QED
      BY <1>9, <3>1 DEF Restart, TypeOK
  <2>2. req' \in [Call -> RequestBlock]
    <3>1. ASSUME NEW c \in RequestBlock
          PROVE  [c EXCEPT !.phase = "freed"] \in RequestBlock
      BY DEF RequestBlock
    <3>2. \A k \in Call : req[k] \in RequestBlock
      BY DEF TypeOK
    <3>3. req' = [k \in Call |-> IF Live(k) /\ req[k].from = n
                                THEN [req[k] EXCEPT !.phase = "freed"] ELSE req[k]]
      BY <1>9 DEF Restart
    <3> QED
      BY <3>1, <3>2, <3>3, Zenon
  <2>3. requesting' \in [Node -> [Id -> Call \cup {None}]]
    BY <1>9 DEF Restart, TypeOK
  <2>4. replying' \in [Node -> [Node \X Id -> ReplyBlock \cup {Absent}]]
    BY <1>9 DEF Restart, TypeOK
  <2>5. restarts' \in 0 .. MaxRestarts
    <3>1. /\ restarts \in 0 .. MaxRestarts /\ restarts < MaxRestarts
          /\ restarts' = restarts + 1
      BY <1>9 DEF Restart, TypeOK
    <3> QED
      BY <3>1, Parameters
  <2> QED
    BY <1>9, <2>1, <2>2, <2>3, <2>4, <2>5 DEF Restart, TypeOK, history
<1>10. CASE UNCHANGED vars
  BY <1>10 DEF vars, TypeOK
<1> QED
  BY <1>1, <1>2, <1>3, <1>4, <1>5, <1>6, <1>7, <1>8, <1>9, <1>10
     DEF Next, RequestStep, ReplyStep

\* Every reachable state has the types of Rpc's members (Rpc.h:38-45, 154-162).
THEOREM TypeCorrect == Spec => []TypeOK
  BY TypeInit, TypeStep, PTL DEF Spec

-----------------------------------------------------------------------------
(* Ids: every datagram, reply block and answer belongs to the call whose    *)
(* caller and id it carries.                                                *)

Issued(k) == req[k].phase # "unused"

\* Call j was made by node n under id i.
MadeUnder(j, n, i) ==
  /\ j \in 1 .. made
  /\ Issued(j)
  /\ req[j].from = n
  /\ req[j].id = i

NoneAhead == \A k \in Call : Issued(k) => k <= made

NetIds ==
  \A m \in net : MadeUnder(m.call, IF m.type = "REQUEST" THEN m.from ELSE m.to, m.id)

ReplyIds ==
  \A n \in Node, s \in Node \X Id :
    replying[n][s].phase # "absent" => MadeUnder(replying[n][s].call, s[1], s[2])

AnswerIds ==
  \A k \in Call : \A j \in answers[k] :
    Issued(k) /\ MadeUnder(j, req[k].from, req[k].id)

IdInv ==
  /\ NoneAhead
  /\ NoDanglingControl
  /\ NetIds
  /\ ReplyIds
  /\ AnswerIds

\* What the timer handler does to the block and the map, whatever it reports.
RequestShape(k, c, map) ==
  /\ answers' = answers
  /\ \E b \in RequestBlock :
       /\ req' = [req EXCEPT ![k] = b]
       /\ b.from = c.from /\ b.to = c.to /\ b.id = c.id /\ b.sent = c.sent
       /\ \/ b.phase = "sending" /\ requesting' = map
          \/ b.phase = "freed" /\ requesting' = [map EXCEPT ![c.from][c.id] = None]

LEMMA OnRequestTimerShape ==
  ASSUME NEW k \in Call, NEW c \in RequestBlock, NEW map, NEW failed,
         OnRequestTimer(k, c, map, failed)
  PROVE  RequestShape(k, c, map)
<1> DEFINE left == Int8(c.remain - 1)
<1>1. /\ left \in Byte
      /\ \/ TimesOut(k, c, left, map)
         \/ EndsOtherwise(k, c, left, map)
         \/ Resends(k, c, left, map)
  BY OnRequestTimerCases
<1> HIDE DEF left
<1>2. /\ Freed(c, left) \in RequestBlock /\ Resent(c, left) \in RequestBlock
      /\ Freed(c, left).phase = "freed" /\ Resent(c, left).phase = "sending"
      /\ \A b \in {Freed(c, left), Resent(c, left)} :
            b.from = c.from /\ b.to = c.to /\ b.id = c.id /\ b.sent = c.sent
  BY <1>1 DEF RequestBlock, Freed, Resent
<1>3. CASE TimesOut(k, c, left, map) \/ EndsOtherwise(k, c, left, map)
  <2>1. /\ req' = [req EXCEPT ![k] = Freed(c, left)]
        /\ requesting' = [map EXCEPT ![c.from][c.id] = None]
        /\ answers' = answers
    BY <1>3 DEF TimesOut, EndsOtherwise, Unmap
  <2> QED
    BY <1>2, <2>1 DEF RequestShape
<1>4. CASE Resends(k, c, left, map)
  BY <1>2, <1>4 DEF Resends, RequestShape
<1> QED
  BY <1>1, <1>3, <1>4

\* The reply timer frees the block or marks it as being sent, for the same call.
ReplyShape(n, s, c) ==
  \E b : /\ replying' = [replying EXCEPT ![n][s] = b]
         /\ b.phase # "absent" => b.call = c.call

LEMMA OnReplyTimerShape ==
  ASSUME NEW n \in Node, NEW s \in Node \X Id, NEW c \in ReplyBlock, NEW failed,
         OnReplyTimer(n, s, c, failed)
  PROVE  ReplyShape(n, s, c)
<1> DEFINE left == Int8(c.remain - 1)
<1>1. \/ replying' = [replying EXCEPT ![n][s] = Absent]
      \/ replying' = [replying EXCEPT ![n][s] = Resent(c, left)]
  BY OnReplyTimerCases
<1> HIDE DEF left
<1>2. Absent.phase = "absent" /\ Resent(c, left).call = c.call
  BY DEF Absent, Resent, ReplyBlock
<1> QED
  BY <1>1, <1>2 DEF ReplyShape

\* No step takes back a call or changes its caller or id.
SameIds ==
  /\ made' >= made
  /\ \A k \in Call : Issued(k) =>
       Issued(k)' /\ req'[k].from = req[k].from /\ req'[k].id = req[k].id

\* Under a step that keeps the ids, what does not change keeps its invariant.
LEMMA IdsKept ==
  ASSUME TypeOK, made' \in 0 .. MaxCalls, SameIds
  PROVE  /\ \A j, n, i : MadeUnder(j, n, i) => MadeUnder(j, n, i)'
         /\ NetIds /\ net' = net => NetIds'
         /\ ReplyIds /\ replying' = replying => ReplyIds'
         /\ AnswerIds /\ answers' = answers => AnswerIds'
<1>1. made \in 0 .. MaxCalls /\ made' >= made
  BY DEF TypeOK, SameIds
<1>2. ASSUME NEW j, NEW n, NEW i, MadeUnder(j, n, i)
      PROVE  MadeUnder(j, n, i)'
  <2>1. j \in Call /\ j \in 1 .. made'
    <3>1. j \in 1 .. made
      BY <1>2 DEF MadeUnder
    <3>2. MaxCalls \in Nat /\ made' \in 0 .. MaxCalls
      BY Parameters
    <3> QED
      BY ONLY <1>1, <3>1, <3>2 DEF Call
  <2> QED
    BY <1>2, <2>1 DEF MadeUnder, SameIds
<1>3. NetIds /\ net' = net => NetIds'
  BY <1>2 DEF NetIds
<1>4. ReplyIds /\ replying' = replying => ReplyIds'
  BY <1>2 DEF ReplyIds
<1>5. ASSUME AnswerIds, answers' = answers
      PROVE  AnswerIds'
  <2>1. ASSUME NEW k \in Call, NEW j \in answers'[k]
        PROVE  Issued(k)' /\ MadeUnder(j, req[k].from, req[k].id)'
                 /\ req'[k].from = req[k].from /\ req'[k].id = req[k].id
    BY <1>2, <1>5, <2>1 DEF AnswerIds, SameIds
  <2> QED
    BY <2>1 DEF AnswerIds, MadeUnder
<1> QED
  BY <1>2, <1>3, <1>4, <1>5

\* A step that puts block b, under the old caller and id, for call k.
LEMMA BlockReplaced ==
  ASSUME TypeOK, NoneAhead, NEW k \in Call, NEW b \in RequestBlock,
         Issued(k), b.phase # "unused", b.from = req[k].from, b.id = req[k].id,
         req' = [req EXCEPT ![k] = b], made' = made
  PROVE  SameIds /\ NoneAhead'
<1>1. made \in Int
  BY DEF TypeOK
<1>2. /\ req'[k] = b
      /\ \A j \in Call \ {k} : req'[j] = req[j]
  BY DEF TypeOK
<1> QED
  BY <1>1, <1>2 DEF SameIds, NoneAhead, Issued

\* NoDanglingControl, by entry.
Mapped(k, n, i) == Live(k) /\ req[k].from = n /\ req[k].id = i

LEMMA MappedIsNoDangling ==
  /\ NoDanglingControl <=>
       \A n \in Node, i \in Id :
         requesting[n][i] # None => Mapped(requesting[n][i], n, i)
  /\ NoDanglingControl' <=>
       \A n \in Node, i \in Id :
         requesting'[n][i] # None => Mapped(requesting[n][i], n, i)'
  BY Zenon DEF NoDanglingControl, Mapped

LEMMA IdInit == Init => IdInv
<1> SUFFICES ASSUME Init PROVE IdInv
  OBVIOUS
<1>1. NoneAhead
  BY DEF Init, NoneAhead, Issued, Unused
<1>2. NoDanglingControl
  BY DEF Init, NoDanglingControl
<1>3. NetIds /\ AnswerIds
  BY DEF Init, NetIds, AnswerIds
<1>4. ReplyIds
  BY DEF Init, ReplyIds, Absent
<1> QED
  BY <1>1, <1>2, <1>3, <1>4 DEF IdInv

LEMMA IdStep == TypeOK /\ TypeOK' /\ IdInv /\ [Next]_vars => IdInv'
<1> SUFFICES ASSUME TypeOK, TypeOK', IdInv, [Next]_vars PROVE IdInv'
  OBVIOUS
<1>0. made' \in 0 .. MaxCalls
  BY DEF TypeOK
<1>1. ASSUME NEW n \in Node, NEW to \in Node, Send(n, to)
      PROVE  IdInv'
  <2> DEFINE k == made + 1
             c == [phase |-> "waiting", from |-> n, to |-> to, id |-> nextId[n],
                   remain |-> Int8(Retry), sent |-> 0]
             map == [requesting EXCEPT ![n][c.id] = k]
  <2>0. k = made + 1
    OBVIOUS
  <2>1. /\ k \in Call /\ c \in RequestBlock
        /\ map \in [Node -> [Id -> Call \cup {None}]]
        /\ made \in 0 .. MaxCalls
    BY <1>1, SendBlockType DEF Send, TypeOK
  <2>2. OnRequestTimer(k, c, map, FALSE)
    BY <1>1 DEF Send
  <2>3. made' = k /\ net' = net /\ replying' = replying
    BY <1>1 DEF Send
  <2>4. c.from = n /\ c.id = nextId[n] /\ nextId[n] \in Id
    BY DEF TypeOK
  <2>5. k # None /\ ~Issued(k) /\ k > made
    BY <2>1 DEF IdInv, NoneAhead, None
  <2>6. map = [requesting EXCEPT ![n][nextId[n]] = k]
    OBVIOUS
  <2> HIDE DEF c, map, k
  <2>7. RequestShape(k, c, map)
    BY <2>1, <2>2, OnRequestTimerShape
  <2>8. PICK b \in RequestBlock :
           /\ req' = [req EXCEPT ![k] = b]
           /\ b.from = n /\ b.id = nextId[n]
           /\ \/ b.phase = "sending" /\ requesting' = map
              \/ b.phase = "freed" /\ requesting' = [map EXCEPT ![n][nextId[n]] = None]
    BY <2>4, <2>7 DEF RequestShape
  <2>9. req'[k] = b /\ \A j \in Call \ {k} : req'[j] = req[j]
    BY <2>1, <2>8 DEF TypeOK
  <2>10. SameIds
    BY <2>0, <2>1, <2>3, <2>5, <2>9 DEF SameIds, Issued
  <2>11. NoneAhead'
    BY <2>0, <2>1, <2>3, <2>9 DEF IdInv, NoneAhead, Issued, Call
  <2>12. ASSUME NEW p \in Node, NEW i \in Id, requesting'[p][i] # None
         PROVE  Mapped(requesting[p][i], p, i)'
    <3>1. CASE p = n /\ i = nextId[n]
      <4>1. requesting'[p][i] = k /\ b.phase = "sending"
        BY <2>1, <2>6, <2>8, <2>12, <3>1 DEF TypeOK
      <4> QED
        BY <2>8, <2>9, <3>1, <4>1 DEF Live, Mapped
    <3>2. CASE ~(p = n /\ i = nextId[n])
      <4>1. requesting'[p][i] = requesting[p][i]
        BY <2>4, <2>6, <2>8, <3>2 DEF TypeOK
      <4>2. requesting[p][i] \in Call /\ Mapped(requesting[p][i], p, i)
        BY <2>12, <4>1, MappedIsNoDangling DEF TypeOK, IdInv
      <4>3. requesting[p][i] # k
        BY <2>5, <4>2 DEF Live, Issued, Mapped
      <4> QED
        BY <2>9, <4>1, <4>2, <4>3 DEF Mapped, Live
    <3> QED
      BY <3>1, <3>2
  <2>13. answers' = answers
    BY <2>7 DEF RequestShape
  <2>14. NoDanglingControl'
    BY <2>12, MappedIsNoDangling
  <2> QED
    BY <1>0, <2>3, <2>10, <2>11, <2>13, <2>14, IdsKept DEF IdInv
<1>2. ASSUME SendRefused
      PROVE  IdInv'
  <2>1. /\ made' = made + 1 /\ made \in Int
        /\ UNCHANGED <<req, requesting, replying, net, answers>>
    BY <1>2 DEF SendRefused, TypeOK
  <2>2. SameIds /\ NoneAhead'
    BY <2>1 DEF SameIds, NoneAhead, Issued, IdInv, Call
  <2>3. NoDanglingControl'
    BY <2>1 DEF NoDanglingControl, Live, IdInv
  <2> QED
    BY <1>0, <2>1, <2>2, <2>3, IdsKept DEF IdInv
<1>3. ASSUME NEW k \in Call, RequestSent(k)
      PROVE  IdInv'
  <2> DEFINE b == Transmitted(req[k])
  <2>1. /\ req' = [req EXCEPT ![k] = b]
        /\ Issued(k) /\ req[k].phase = "sending"
        /\ net' = net \cup {RequestMessage(k)}
        /\ UNCHANGED <<made, requesting, replying, answers>>
    BY <1>3 DEF RequestSent, Issued, history
  <2>2. /\ b \in RequestBlock /\ b.phase = "waiting"
        /\ b.from = req[k].from /\ b.id = req[k].id
    BY BlockType, BlockFields DEF TypeOK
  <2> HIDE DEF b
  <2>3. SameIds /\ NoneAhead'
    BY <2>1, <2>2, BlockReplaced DEF IdInv
  <2>4. NetIds'
    <3>1. MadeUnder(k, req[k].from, req[k].id)
      BY <2>1 DEF MadeUnder, IdInv, NoneAhead, Call, TypeOK
    <3>2. ASSUME NEW m \in net'
          PROVE  MadeUnder(m.call, IF m.type = "REQUEST" THEN m.from ELSE m.to, m.id)
      BY <2>1, <3>1 DEF RequestMessage, IdInv, NetIds
    <3> QED
      BY <1>0, <2>3, <3>2, IdsKept DEF NetIds
  <2>5. NoDanglingControl'
    BY <2>1, <2>2 DEF NoDanglingControl, IdInv, Live, TypeOK
  <2> QED
    BY <1>0, <2>1, <2>3, <2>4, <2>5, IdsKept DEF IdInv
<1>4. ASSUME NEW k \in Call, RequestSendFailed(k) \/ RequestTimer(k)
      PROVE  IdInv'
  <2>1. /\ OnRequestTimer(k, req[k], requesting, TRUE)
           \/ OnRequestTimer(k, req[k], requesting, FALSE)
        /\ UNCHANGED <<made, replying, net>>
        /\ Issued(k)
    BY <1>4 DEF RequestSendFailed, RequestTimer, Issued
  <2>2. req[k] \in RequestBlock
    BY DEF TypeOK
  <2> DEFINE c == req[k]
  <2>8. RequestShape(k, c, requesting)
    BY <2>1, <2>2, OnRequestTimerShape
  <2> HIDE DEF c
  <2>3. answers' = answers
    BY <2>8 DEF RequestShape
  <2>4. PICK b \in RequestBlock :
           /\ req' = [req EXCEPT ![k] = b]
           /\ b.from = req[k].from /\ b.id = req[k].id
           /\ \/ b.phase = "sending" /\ requesting' = requesting
              \/ /\ b.phase = "freed"
                 /\ requesting' = [requesting EXCEPT ![req[k].from][req[k].id] = None]
    BY <2>8 DEF RequestShape, c
  <2>5. SameIds /\ NoneAhead'
    BY <2>1, <2>4, BlockReplaced DEF IdInv
  <2>6. ASSUME NEW p \in Node, NEW i \in Id, requesting'[p][i] # None
        PROVE  Mapped(requesting[p][i], p, i)'
    <3>1. req[k].from \in Node /\ req[k].id \in Id
      BY <2>2 DEF RequestBlock
    <3>2. /\ requesting'[p][i] = requesting[p][i]
          /\ b.phase = "freed" => ~(p = req[k].from /\ i = req[k].id)
      BY <2>4, <2>6, <3>1 DEF TypeOK
    <3>3. requesting[p][i] \in Call /\ Mapped(requesting[p][i], p, i)
      BY <2>6, <3>2, MappedIsNoDangling DEF TypeOK, IdInv
    <3>4. req'[k] = b /\ \A j \in Call \ {k} : req'[j] = req[j]
      BY <2>4 DEF TypeOK
    <3>5. CASE requesting[p][i] = k
      BY <2>4, <3>2, <3>3, <3>4, <3>5 DEF Mapped, Live
    <3>6. CASE requesting[p][i] # k
      BY <3>2, <3>3, <3>4, <3>6 DEF Mapped, Live
    <3> QED
      BY <3>5, <3>6
  <2>7. NoDanglingControl'
    BY <2>6, MappedIsNoDangling
  <2> QED
    BY <1>0, <2>1, <2>3, <2>5, <2>7, IdsKept DEF IdInv
<1>5. ASSUME NEW m \in net, FeedRequest(m)
      PROVE  IdInv'
  <2>1. UNCHANGED <<made, req, requesting, net, answers>>
    BY <1>5 DEF FeedRequest, history
  <2>2. SameIds /\ NoneAhead' /\ NoDanglingControl'
    BY <2>1 DEF SameIds, NoneAhead, NoDanglingControl, IdInv, Issued, Live, TypeOK
  <2>3. ReplyIds'
    <3> DEFINE s == <<m.from, m.id>>
               c == [phase |-> "waiting", call |-> m.call,
                     remain |-> Int8(Retry), sent |-> 0]
    <3>1. m.to \in Node /\ s \in Node \X Id /\ m.call \in Call
      BY DEF TypeOK, Message
    <3>2. c \in ReplyBlock
      <4>1. Int8(Retry) \in Byte
        BY RetryByte
      <4> HIDE DEF s
      <4> QED
        BY <3>1, <4>1 DEF ReplyBlock
    <3>3. MadeUnder(m.call, s[1], s[2])
      BY <1>5 DEF FeedRequest, IdInv, NetIds
    <3>4. OnReplyTimer(m.to, s, c, FALSE) \/ replying' = replying
      BY <1>5 DEF FeedRequest
    <3>5. c.call = m.call
      OBVIOUS
    <3> HIDE DEF s, c
    <3>6. ASSUME NEW n \in Node, NEW t \in Node \X Id, replying'[n][t].phase # "absent"
          PROVE  MadeUnder(replying'[n][t].call, t[1], t[2])
      <4>1. CASE replying' = replying
        BY <3>6, <4>1 DEF IdInv, ReplyIds
      <4>2. CASE ReplyShape(m.to, s, c)
        <5>1. PICK b : /\ replying' = [replying EXCEPT ![m.to][s] = b]
                       /\ b.phase # "absent" => b.call = m.call
          BY <3>5, <4>2 DEF ReplyShape
        <5>2. CASE n = m.to /\ t = s
          BY <3>1, <3>3, <3>6, <5>1, <5>2 DEF TypeOK
        <5>3. CASE ~(n = m.to /\ t = s)
          <6>1. replying'[n][t] = replying[n][t]
            BY <3>1, <5>1, <5>3 DEF TypeOK
          <6> QED
            BY <3>6, <6>1 DEF IdInv, ReplyIds
        <5> QED
          BY <5>2, <5>3
      <4> QED
        BY <3>1, <3>2, <3>4, <4>1, <4>2, OnReplyTimerShape
    <3> QED
      BY <1>0, <2>2, <3>6, IdsKept DEF ReplyIds
  <2> QED
    BY <1>0, <2>1, <2>2, <2>3, IdsKept DEF IdInv
<1>6. ASSUME NEW m \in net, FeedReply(m)
      PROVE  IdInv'
  <2> DEFINE k == requesting[m.to][m.id]
  <2>1. /\ m.to \in Node /\ m.id \in Id /\ k \in Call /\ k # None /\ m.type = "REPLY"
        /\ answers' = [answers EXCEPT ![k] = @ \cup {m.call}]
        /\ req' = [req EXCEPT ![k] = Settled(@)]
        /\ UNCHANGED <<made, requesting, replying, net>>
    BY <1>6 DEF TypeOK, Message, FeedReply, Addressee
  <2>2. Live(k) /\ req[k].from = m.to /\ req[k].id = m.id
    BY <2>1 DEF IdInv, NoDanglingControl
  <2> HIDE DEF k
  <2> DEFINE b == Settled(req[k])
  <2>3. /\ b \in RequestBlock /\ b.phase = req[k].phase
        /\ b.from = req[k].from /\ b.id = req[k].id
    BY <2>1, BlockType DEF TypeOK, Settled, RequestBlock
  <2> HIDE DEF b
  <2>4. Issued(k)
    BY <2>2 DEF Live, Issued
  <2>5. req' = [req EXCEPT ![k] = b]
    BY <2>1 DEF b
  <2>6. SameIds /\ NoneAhead'
    BY <2>1, <2>3, <2>4, <2>5, BlockReplaced DEF IdInv, Issued
  <2>7. NoDanglingControl'
    BY <2>1, <2>3, <2>5 DEF IdInv, NoDanglingControl, Live, TypeOK
  <2>8. AnswerIds'
    <3>1. MadeUnder(m.call, req[k].from, req[k].id)
      BY <2>1, <2>2 DEF IdInv, NetIds
    <3>2. ASSUME NEW h \in Call, NEW j \in answers'[h]
          PROVE  Issued(h) /\ MadeUnder(j, req[h].from, req[h].id)
      BY <2>1, <2>4, <3>1 DEF IdInv, AnswerIds, TypeOK
    <3>3. ASSUME NEW h \in Call, NEW j \in answers'[h]
          PROVE  Issued(h)' /\ MadeUnder(j, req[h].from, req[h].id)'
      <4>1. /\ Issued(h)'
            /\ req'[h].from = req[h].from /\ req'[h].id = req[h].id
        BY <2>6, <3>2, <3>3 DEF SameIds
      <4>2. \A f, i : MadeUnder(j, f, i) => MadeUnder(j, f, i)'
        BY <1>0, <2>6, IdsKept
      <4> QED
        BY <3>2, <3>3, <4>1, <4>2 DEF MadeUnder
    <3> QED
      BY <3>3 DEF AnswerIds
  <2> QED
    BY <1>0, <2>1, <2>6, <2>7, <2>8, IdsKept DEF IdInv
<1>7. ASSUME NEW n \in Node, NEW s \in Node \X Id, ReplySent(n, s)
      PROVE  IdInv'
  <2>1. /\ replying[n][s].phase = "sending"
        /\ net' = net \cup {ReplyMessage(n, s)}
        /\ replying' = [replying EXCEPT ![n][s] = Transmitted(@)]
        /\ UNCHANGED <<made, req, requesting, answers>>
    BY <1>7 DEF ReplySent, history
  <2>2. SameIds /\ NoneAhead' /\ NoDanglingControl'
    BY <2>1 DEF SameIds, NoneAhead, NoDanglingControl, IdInv, Issued, Live, TypeOK
  <2>3. MadeUnder(replying[n][s].call, s[1], s[2])
    BY <2>1 DEF IdInv, ReplyIds
  <2>4. NetIds'
    <3>1. ASSUME NEW m \in net'
          PROVE  MadeUnder(m.call, IF m.type = "REQUEST" THEN m.from ELSE m.to, m.id)
      BY <2>1, <2>3 DEF ReplyMessage, IdInv, NetIds
    <3> QED
      BY <1>0, <2>2, <3>1, IdsKept DEF NetIds
  <2>5. ReplyIds'
    <3>1. Transmitted(replying[n][s]).call = replying[n][s].call
      BY <2>1, PresentType DEF Transmitted, ReplyBlock
    <3>2. ASSUME NEW p \in Node, NEW t \in Node \X Id, replying'[p][t].phase # "absent"
          PROVE  MadeUnder(replying'[p][t].call, t[1], t[2])
      BY <2>1, <2>3, <3>1, <3>2 DEF IdInv, ReplyIds, TypeOK
    <3> QED
      BY <1>0, <2>2, <3>2, IdsKept DEF ReplyIds
  <2> QED
    BY <1>0, <2>1, <2>2, <2>4, <2>5, IdsKept DEF IdInv
<1>8. ASSUME NEW n \in Node, NEW s \in Node \X Id, ReplySendFailed(n, s) \/ ReplyTimer(n, s)
      PROVE  IdInv'
  <2>1. /\ OnReplyTimer(n, s, replying[n][s], TRUE)
           \/ OnReplyTimer(n, s, replying[n][s], FALSE)
        /\ replying[n][s].phase # "absent"
        /\ UNCHANGED <<made, req, requesting, net, answers>>
    BY <1>8 DEF ReplySendFailed, ReplyTimer, history
  <2>2. SameIds /\ NoneAhead' /\ NoDanglingControl'
    BY <2>1 DEF SameIds, NoneAhead, NoDanglingControl, IdInv, Issued, Live, TypeOK
  <2> DEFINE c == replying[n][s]
  <2>3. c \in ReplyBlock
    BY <2>1, PresentType
  <2>4. ReplyShape(n, s, c)
    BY <2>1, <2>3, OnReplyTimerShape
  <2>5. PICK b : /\ replying' = [replying EXCEPT ![n][s] = b]
                 /\ b.phase # "absent" => b.call = c.call
    BY <2>4 DEF ReplyShape
  <2>6. MadeUnder(c.call, s[1], s[2])
    BY <2>1 DEF IdInv, ReplyIds
  <2>7. ASSUME NEW p \in Node, NEW t \in Node \X Id, replying'[p][t].phase # "absent"
        PROVE  MadeUnder(replying'[p][t].call, t[1], t[2])
    <3>1. CASE p = n /\ t = s
      BY <2>5, <2>6, <2>7, <3>1 DEF TypeOK
    <3>2. CASE ~(p = n /\ t = s)
      <4>1. replying'[p][t] = replying[p][t]
        BY <2>5, <3>2 DEF TypeOK
      <4> QED
        BY <2>7, <4>1 DEF IdInv, ReplyIds
    <3> QED
      BY <3>1, <3>2
  <2>8. ReplyIds'
    BY <1>0, <2>2, <2>7, IdsKept DEF ReplyIds
  <2> QED
    BY <1>0, <2>1, <2>2, <2>8, IdsKept DEF IdInv
<1>9. ASSUME NEW n \in Node, Restart(n)
      PROVE  IdInv'
  <2>1. UNCHANGED <<made, net, answers>>
    BY <1>9 DEF Restart, history
  <2>2. ASSUME NEW k \in Call
        PROVE  /\ req'[k].from = req[k].from /\ req'[k].id = req[k].id
               /\ Issued(k)' <=> Issued(k)
               /\ Live(k) /\ req[k].from # n => req'[k] = req[k]
    <3>1. req[k] \in RequestBlock
      BY DEF TypeOK
    <3>2. CASE Live(k) /\ req[k].from = n
      <4> DEFINE d == [req[k] EXCEPT !.phase = "freed"]
      <4>1. d.phase = "freed" /\ d.from = req[k].from /\ d.id = req[k].id
        BY <3>1 DEF RequestBlock
      <4>2. req'[k] = d
        BY <1>9, <3>2 DEF Restart
      <4> HIDE DEF d
      <4> QED
        BY <3>2, <4>1, <4>2 DEF Issued, Live
    <3>3. CASE ~(Live(k) /\ req[k].from = n)
      <4>1. req'[k] = req[k]
        BY <1>9, <3>3 DEF Restart
      <4> QED
        BY <4>1 DEF Issued
    <3> QED
      BY <3>2, <3>3
  <2>3. SameIds /\ NoneAhead'
    <3>1. made \in Int
      BY DEF TypeOK
    <3> QED
      BY <2>1, <2>2, <3>1 DEF SameIds, NoneAhead, IdInv
  <2>4. NoDanglingControl'
    <3>1. ASSUME NEW p \in Node, NEW i \in Id, requesting'[p][i] # None
          PROVE  p # n /\ requesting'[p][i] = requesting[p][i] /\ requesting[p][i] \in Call
      BY <1>9, <3>1 DEF Restart, TypeOK
    <3>2. ASSUME NEW p \in Node, NEW i \in Id, requesting'[p][i] # None
          PROVE  Mapped(requesting[p][i], p, i)'
      <4>1. Mapped(requesting[p][i], p, i)
        BY <3>1, <3>2, MappedIsNoDangling DEF IdInv
      <4> QED
        BY <2>2, <3>1, <3>2, <4>1 DEF Mapped, Live
    <3> QED
      BY <3>2, MappedIsNoDangling
  <2>5. ReplyIds'
    <3>1. ASSUME NEW p \in Node, NEW t \in Node \X Id, replying'[p][t].phase # "absent"
          PROVE  replying'[p][t] = replying[p][t]
      BY <1>9, <3>1 DEF Restart, TypeOK, Absent
    <3> QED
      BY <1>0, <2>3, <3>1, IdsKept DEF ReplyIds, IdInv
  <2> QED
    BY <1>0, <2>1, <2>3, <2>4, <2>5, IdsKept DEF IdInv
<1>10. CASE UNCHANGED vars
  BY <1>10 DEF vars, IdInv, NoneAhead, NoDanglingControl, NetIds, ReplyIds, AnswerIds,
               MadeUnder, Issued, Live
<1> QED
  BY <1>1, <1>2, <1>3, <1>4, <1>5, <1>6, <1>7, <1>8, <1>9, <1>10
     DEF Next, RequestStep, ReplyStep

LEMMA IdAlways == Spec => []IdInv
  BY TypeInit, TypeStep, TypeCorrect, IdInit, IdStep, PTL DEF Spec

\* What feed finds in _requesting is never a freed block, and always one whose id
\* and caller are those it was looked up by (Rpc.h:93-98, 201-202); whatever Retry,
\* the number of ids and the network.
THEOREM NoDanglingCorrect == Spec => []NoDanglingControl
<1>1. IdInv => NoDanglingControl
  BY DEF IdInv
<1> QED
  BY <1>1, IdAlways, PTL

\* A callback is only ever handed the answer to a request of its own caller with
\* its own id (Rpc.h:93-97); if answers are mixed up, an id was used twice.
THEOREM AnswerIdCorrect == Spec => []AnswerFromSameId
<1>1. IdInv => AnswerFromSameId
  BY DEF IdInv, AnswerIds, MadeUnder, AnswerFromSameId
<1> QED
  BY <1>1, IdAlways, PTL

=============================================================================
