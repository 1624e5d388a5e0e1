-------------------------- MODULE RpcServiceProofs --------------------------
(* Theorems of Rpc and RpcRefinement about what callers are promised: the   *)
(* transmission budget, the ids, and the service Rpc implements.            *)
EXTENDS RpcProofs, RpcRefinement

-----------------------------------------------------------------------------
(* The budget: what is left of it and what has been sent add up to it.      *)

\* A block on its way: the datagram being sent is one of those that remain, the
\* one a timer was armed for is not.
Going(c) ==
  /\ c.remain >= 1
  /\ \/ c.phase = "sending" /\ c.remain + c.sent = Budget
     \/ c.phase = "waiting" /\ c.remain + c.sent = Budget + 1

\* A block whose call was answered.
Answered(c) ==
  /\ c.remain = 0
  /\ \/ c.phase = "sending" /\ c.sent + 1 <= Budget
     \/ c.phase = "waiting" /\ c.sent <= Budget

CallBudget(k) ==
  /\ Live(k) => IF answers[k] = {} THEN Going(req[k]) ELSE Answered(req[k])
  /\ Live(k) \/ k > made => errors[k] = {}
  /\ req[k].sent > 0 => req[k].sent <= Budget
  /\ "timed_out" \in errors[k] => answers[k] = {} /\ req[k].sent \in {Budget - 1, Budget}

ReplyBudget(n, s) == replying[n][s].phase # "absent" => Going(replying[n][s])

BudgetInv ==
  /\ \A k \in Call : CallBudget(k)
  /\ \A n \in Node, s \in Node \X Id : ReplyBudget(n, s)

LEMMA BudgetType == Budget \in Byte /\ Budget = Int8(Int8(Retry) - 1)
<1>1. Int8(Retry) - 1 \in Int
  BY RetryByte DEF Byte
<1> QED
  BY <1>1, Int8Range DEF Budget

LEMMA CallBudgetKept ==
  ASSUME TypeOK, TypeOK', made' >= made, NEW k \in Call, CallBudget(k),
         req'[k] = req[k], answers'[k] = answers[k], errors'[k] = errors[k]
  PROVE  CallBudget(k)'
<1>1. k \in Int /\ made \in Int /\ made' \in Int
  BY DEF TypeOK, Call
<1>2. k > made' => k > made
  BY <1>1
<1> QED
  BY <1>2, Zenon DEF CallBudget, Live, Going, Answered

LEMMA ReplyBudgetKept ==
  ASSUME NEW n \in Node, NEW s \in Node \X Id, ReplyBudget(n, s),
         replying'[n][s] = replying[n][s]
  PROVE  ReplyBudget(n, s)'
  BY Zenon DEF ReplyBudget, Going

\* With a failed send the timer handler always gives up.
LEMMA FailedTimerEnds ==
  ASSUME NEW k \in Call, NEW c \in RequestBlock, NEW map,
         NEW left, left = Int8(c.remain - 1), OnRequestTimer(k, c, map, TRUE)
  PROVE  TimesOut(k, c, left, map) \/ EndsOtherwise(k, c, left, map)
  BY Zenon DEF OnRequestTimer, RequestEnds, TimesOut, EndsOtherwise, Freed

\* The two outcomes of the timer handler of a reply.
ReplyEnds(n, s) == replying' = [replying EXCEPT ![n][s] = Absent]
ReplyResends(n, s, c, left) ==
  left > 0 /\ replying' = [replying EXCEPT ![n][s] = Resent(c, left)]

LEMMA ReplyTimerOutcomes ==
  ASSUME NEW n \in Node, NEW s \in Node \X Id, NEW c \in ReplyBlock, NEW failed,
         NEW left, left = Int8(c.remain - 1), OnReplyTimer(n, s, c, failed)
  PROVE  left \in Byte /\ (ReplyEnds(n, s) \/ ReplyResends(n, s, c, left))
  BY OnReplyTimerCases DEF ReplyEnds, ReplyResends

\* The blocks the timer handlers leave.
LEMMA LeftBlocks ==
  ASSUME NEW c, c \in RequestBlock \/ c \in ReplyBlock, NEW left \in Byte
  PROVE  /\ Freed(c, left).phase = "freed" /\ Freed(c, left).sent = c.sent
         /\ Resent(c, left).phase = "sending" /\ Resent(c, left).sent = c.sent
         /\ Resent(c, left).remain = left
  BY DEF Freed, Resent, RequestBlock, ReplyBlock

\* A timer of a block on its way, a block that has been sent.
LEMMA GoingOn ==
  ASSUME NEW c, c \in RequestBlock \/ c \in ReplyBlock, Going(c),
         NEW left, left = Int8(c.remain - 1)
  PROVE  /\ left \in Byte /\ left = c.remain - 1
         /\ c.sent <= Budget
         /\ left = 0 => c.sent \in {Budget - 1, Budget}
         /\ c.phase = "waiting" => left + c.sent = Budget
         /\ c.phase = "sending" => Going(Transmitted(c))
<1>1. c.remain \in Byte /\ c.sent \in Nat /\ c.remain >= 1 /\ Budget \in Byte
  BY BudgetType DEF RequestBlock, ReplyBlock, Going
<1>2. left \in Byte /\ left = c.remain - 1
  BY <1>1, Int8Range DEF Byte
<1>3. /\ c.phase = "sending" => c.remain + c.sent = Budget
      /\ c.phase = "waiting" => c.remain + c.sent = Budget + 1
      /\ c.phase = "sending" \/ c.phase = "waiting"
  BY DEF Going
<1>4. c.phase = "sending" => Going(Transmitted(c))
  <2>1. /\ Transmitted(c).phase = "waiting" /\ Transmitted(c).remain = c.remain
        /\ Transmitted(c).sent = c.sent + 1
    BY BlockFields
  <2> HIDE DEF Transmitted
  <2> QED
    BY <1>1, <1>3, <2>1 DEF Going, Byte
<1>5. /\ c.sent <= Budget
      /\ left = 0 => c.sent \in {Budget - 1, Budget}
      /\ c.phase = "waiting" => left + c.sent = Budget
  BY <1>1, <1>2, <1>3 DEF Byte
<1> QED
  BY <1>2, <1>4, <1>5

\* What the timer handler leaves of call k keeps the budget.
LEMMA TimerBudget ==
  ASSUME TypeOK, TypeOK', NEW k \in Call, NEW c \in RequestBlock, NEW map,
         NEW left \in Byte, k <= made', errors[k] = {},
         c.sent > 0 => c.sent <= Budget,
         left = 0 => answers[k] = {} /\ c.sent \in {Budget - 1, Budget},
         \/ TimesOut(k, c, left, map)
         \/ EndsOtherwise(k, c, left, map)
         \/ Resends(k, c, left, map) /\ answers[k] = {} /\ left + c.sent = Budget
  PROVE  CallBudget(k)'
<1>1. k \in Int /\ made' \in Int
  BY DEF TypeOK, Call
<1>2. ~ k > made'
  BY <1>1
<1>3. CASE TimesOut(k, c, left, map)
  <2>1. /\ req'[k] = Freed(c, left) /\ answers'[k] = {}
        /\ left = 0
    BY <1>3 DEF TimesOut, TypeOK
  <2>2. req'[k].phase = "freed" /\ req'[k].sent = c.sent
    BY <2>1, LeftBlocks
  <2> QED
    BY <1>2, <2>1, <2>2 DEF CallBudget, Live
<1>4. CASE EndsOtherwise(k, c, left, map)
  <2>1. req'[k] = Freed(c, left) /\ "timed_out" \notin errors'[k]
    BY <1>4 DEF EndsOtherwise, TypeOK
  <2>2. req'[k].phase = "freed" /\ req'[k].sent = c.sent
    BY <2>1, LeftBlocks
  <2> QED
    BY <1>2, <2>1, <2>2 DEF CallBudget, Live
<1>5. CASE Resends(k, c, left, map) /\ answers[k] = {} /\ left + c.sent = Budget
  <2>1. req'[k] = Resent(c, left) /\ answers'[k] = {} /\ errors'[k] = {} /\ left > 0
    BY <1>5 DEF Resends, TypeOK
  <2>2. req'[k].phase = "sending" /\ req'[k].sent = c.sent /\ req'[k].remain = left
    BY <2>1, LeftBlocks
  <2>3. Going(req'[k])
    BY <1>5, <2>1, <2>2 DEF Going, Byte
  <2>4. (req[k].sent > 0 => req[k].sent <= Budget)'
    BY <2>2
  <2>5. Going(req[k])'
    BY <2>3 DEF Going
  <2> QED
    BY <1>2, <2>1, <2>4, <2>5 DEF CallBudget
<1> QED
  BY <1>3, <1>4, <1>5

LEMMA BudgetInit == Init => BudgetInv
<1> SUFFICES ASSUME Init PROVE BudgetInv
  OBVIOUS
<1>1. ASSUME NEW k \in Call
      PROVE  CallBudget(k)
  <2>1. req[k] = Unused /\ answers[k] = {} /\ errors[k] = {}
    BY DEF Init
  <2>2. Unused.phase = "unused" /\ Unused.sent = 0
    BY DEF Unused
  <2> QED
    BY <2>1, <2>2 DEF CallBudget, Live
<1>2. ASSUME NEW n \in Node, NEW s \in Node \X Id
      PROVE  ReplyBudget(n, s)
  BY DEF Init, ReplyBudget, Absent
<1> QED
  BY <1>1, <1>2 DEF BudgetInv

\* A request that sends, fails to send or times out keeps the budget of its call.
LEMMA RequestBudget ==
  ASSUME TypeOK, TypeOK', NoneAhead, NEW k \in Call, CallBudget(k), made' = made,
         RequestSendFailed(k) \/ RequestTimer(k)
  PROVE  CallBudget(k)' /\ \A j \in Call \ {k} :
           req'[j] = req[j] /\ answers'[j] = answers[j] /\ errors'[j] = errors[j]
<1> DEFINE c == req[k]
           left == Int8(c.remain - 1)
<1>1. c \in RequestBlock /\ Live(k) /\ k <= made'
  BY DEF TypeOK, RequestSendFailed, RequestTimer, Live, NoneAhead, Issued
<1>2. /\ left \in Byte
      /\ \/ TimesOut(k, c, left, requesting)
         \/ EndsOtherwise(k, c, left, requesting)
         \/ Resends(k, c, left, requesting) /\ c.phase = "waiting"
  <2>1. CASE RequestSendFailed(k)
    <3>1. OnRequestTimer(k, c, requesting, TRUE)
      BY <2>1 DEF RequestSendFailed
    <3> HIDE DEF c
    <3> QED
      BY <1>1, <3>1, FailedTimerEnds, OnRequestTimerCases
  <2>2. CASE RequestTimer(k)
    <3>1. OnRequestTimer(k, c, requesting, FALSE) /\ c.phase = "waiting"
      BY <2>2 DEF RequestTimer
    <3> HIDE DEF c
    <3> QED
      BY <1>1, <3>1, OnRequestTimerCases
  <2> QED
    BY <2>1, <2>2
<1>3. errors[k] = {} /\ (c.sent > 0 => c.sent <= Budget)
  BY <1>1 DEF CallBudget
<1>4. /\ left = 0 => answers[k] = {} /\ c.sent \in {Budget - 1, Budget}
      /\ left > 0 /\ c.phase = "waiting" => answers[k] = {} /\ left + c.sent = Budget
  <2>1. CASE answers[k] = {}
    <3>1. Going(c)
      BY <1>1, <2>1 DEF CallBudget
    <3> QED
      BY <1>1, <2>1, <3>1, GoingOn
  <2>2. CASE answers[k] # {}
    <3>1. c.remain = 0
      BY <1>1, <2>2 DEF CallBudget, Answered
    <3>2. left = -1
      BY <3>1, Int8Range DEF Byte
    <3> QED
      BY <3>2
  <2> QED
    BY <2>1, <2>2
<1> HIDE DEF left
<1>5. Resends(k, c, left, requesting) => left > 0
  BY DEF Resends
<1>6. CallBudget(k)'
  <2> HIDE DEF c
  <2> QED
    BY <1>1, <1>2, <1>3, <1>4, <1>5, TimerBudget
<1>7. ASSUME NEW j \in Call \ {k}
      PROVE  req'[j] = req[j] /\ answers'[j] = answers[j] /\ errors'[j] = errors[j]
  BY <1>2 DEF TimesOut, EndsOtherwise, Resends, TypeOK
<1> QED
  BY <1>6, <1>7

\* A reply block that is gone or on its way, in the place of another.
LEMMA ReplyReplaced ==
  ASSUME TypeOK, BudgetInv, NEW n \in Node, NEW s \in Node \X Id, NEW b,
         b.phase # "absent" => Going(b), replying' = [replying EXCEPT ![n][s] = b]
  PROVE  \A p \in Node, t \in Node \X Id : ReplyBudget(p, t)'
<1> SUFFICES ASSUME NEW p \in Node, NEW t \in Node \X Id
             PROVE  ReplyBudget(p, t)'
  OBVIOUS
<1>1. CASE p = n /\ t = s
  <2>1. replying'[p][t] = b
    BY <1>1 DEF TypeOK
  <2> QED
    BY <2>1, Zenon DEF ReplyBudget, Going
<1>2. CASE ~(p = n /\ t = s)
  <2>1. replying'[p][t] = replying[p][t]
    BY <1>2 DEF TypeOK
  <2> QED
    BY <2>1, ReplyBudgetKept DEF BudgetInv
<1> QED
  BY <1>1, <1>2

\* A step that leaves all calls, or all replies, alone.
LEMMA CallsKept ==
  ASSUME TypeOK, TypeOK', BudgetInv, UNCHANGED <<made, req, answers, errors>>
  PROVE  \A k \in Call : CallBudget(k)'
<1>1. made' >= made
  BY DEF TypeOK
<1> QED
  BY <1>1, CallBudgetKept DEF BudgetInv

LEMMA RepliesKept ==
  ASSUME BudgetInv, replying' = replying
  PROVE  \A n \in Node, s \in Node \X Id : ReplyBudget(n, s)'
  BY ReplyBudgetKept DEF BudgetInv

LEMMA BudgetStep == TypeOK /\ TypeOK' /\ IdInv /\ BudgetInv /\ [Next]_vars => BudgetInv'
<1> SUFFICES ASSUME TypeOK, TypeOK', IdInv, BudgetInv, [Next]_vars PROVE BudgetInv'
  OBVIOUS
<1>0. NoneAhead /\ NoDanglingControl /\ AnswerIds /\ made \in Int /\ made' \in Int
  BY DEF IdInv, TypeOK
<1>1. ASSUME NEW n \in Node, NEW to \in Node, Send(n, to)
      PROVE  BudgetInv'
  <2>0. PICK k : k = made + 1
    OBVIOUS
  <2> DEFINE c == [phase |-> "waiting", from |-> n, to |-> to, id |-> nextId[n],
                   remain |-> Int8(Retry), sent |-> 0]
             map == [requesting EXCEPT ![n][c.id] = k]
             left == Int8(c.remain - 1)
  <2>1. k \in Call /\ c \in RequestBlock
    BY <1>1, <2>0, SendBlockType DEF Send
  <2>2. OnRequestTimer(k, c, map, FALSE) /\ made' = k /\ replying' = replying
    BY <1>1, <2>0 DEF Send
  <2>3. left = Budget /\ c.sent = 0
    BY BudgetType
  <2>4. answers[k] = {} /\ errors[k] = {}
    <3>1. k > made
      BY <1>0, <2>0
    <3>2. answers[k] = {}
      <4>1. ~ k <= made
        BY <1>0, <2>1, <3>1 DEF Call
      <4>2. answers[k] \in SUBSET Call
        BY <2>1 DEF TypeOK
      <4> QED
        BY <1>0, <2>1, <4>1, <4>2 DEF AnswerIds, NoneAhead
    <3>3. errors[k] = {}
      BY <2>1, <3>1 DEF BudgetInv, CallBudget
    <3> QED
      BY <3>2, <3>3
  <2>5. k <= made' /\ made' >= made
    BY <1>0, <2>0, <2>2
  <2> HIDE DEF c, map
  <2>6. /\ left \in Byte
        /\ TimesOut(k, c, left, map) \/ EndsOtherwise(k, c, left, map) \/ Resends(k, c, left, map)
    BY <2>1, <2>2, OnRequestTimerCases
  <2> HIDE DEF left
  <2>7. left = 0 => c.sent \in {Budget - 1, Budget}
    BY <2>3, <2>6
  <2>8. left + c.sent = Budget
    BY <2>3, <2>6 DEF Byte
  <2>9. ~ c.sent > 0
    BY <2>3
  <2>10. CallBudget(k)'
    BY <2>1, <2>4, <2>5, <2>6, <2>7, <2>8, <2>9, TimerBudget
  <2>11. ASSUME NEW j \in Call \ {k}
         PROVE  CallBudget(j)'
    <3>1. req'[j] = req[j] /\ answers'[j] = answers[j] /\ errors'[j] = errors[j]
      BY <2>6 DEF TimesOut, EndsOtherwise, Resends, TypeOK
    <3> QED
      BY <2>5, <3>1, CallBudgetKept DEF BudgetInv
  <2> QED
    BY <2>2, <2>10, <2>11, RepliesKept DEF BudgetInv
<1>2. ASSUME SendRefused
      PROVE  BudgetInv'
  <2>1. /\ made' = made + 1 /\ made < MaxCalls
        /\ errors' = [errors EXCEPT ![made'] = @ \cup {"no_buffer_space"}]
        /\ UNCHANGED <<req, replying, answers>>
    BY <1>2 DEF SendRefused
  <2>2. ASSUME NEW k \in Call
        PROVE  CallBudget(k)'
    <3>1. CASE k = made'
      <4>1. k > made /\ ~ k > made' /\ made' >= made
        BY <1>0, <2>1, <3>1
      <4>2. ~Live(k) /\ ~Live(k)'
        <5>1. ~ k <= made
          BY <1>0, <4>1 DEF Call
        <5> QED
          BY <1>0, <2>1, <5>1 DEF NoneAhead, Issued, Live
      <4>3. errors[k] = {} /\ req'[k] = req[k]
        BY <2>1, <4>1 DEF BudgetInv, CallBudget
      <4>4. "timed_out" \notin errors'[k]
        BY <2>1, <3>1, <4>3 DEF TypeOK
      <4>5. req'[k].sent > 0 => req'[k].sent <= Budget
        BY <4>3 DEF BudgetInv, CallBudget
      <4> QED
        BY <4>1, <4>2, <4>4, <4>5 DEF CallBudget
    <3>2. CASE k # made'
      <4>1. errors'[k] = errors[k] /\ made' >= made
        BY <1>0, <2>1, <3>2 DEF TypeOK
      <4> QED
        BY <2>1, <4>1, CallBudgetKept DEF BudgetInv
    <3> QED
      BY <3>1, <3>2
  <2> QED
    BY <2>1, <2>2, RepliesKept DEF BudgetInv
<1>3. ASSUME NEW k \in Call, RequestSent(k)
      PROVE  BudgetInv'
  <2>1. /\ req[k].phase = "sending" /\ req[k] \in RequestBlock
        /\ req' = [req EXCEPT ![k] = Transmitted(@)]
        /\ UNCHANGED <<made, replying, answers, errors>>
    BY <1>3 DEF RequestSent, history, TypeOK
  <2>2. /\ req'[k] = Transmitted(req[k])
        /\ \A j \in Call \ {k} : req'[j] = req[j]
    BY <2>1 DEF TypeOK
  <2>3. /\ req'[k].phase = "waiting" /\ req'[k].remain = req[k].remain
        /\ req'[k].sent = req[k].sent + 1 /\ req[k].sent \in Nat
    BY <2>1, <2>2, BlockFields DEF RequestBlock
  <2>4. Live(k) /\ Live(k)' /\ errors[k] = {} /\ errors'[k] = {}
    BY <2>1, <2>3 DEF Live, BudgetInv, CallBudget
  <2>5. IF answers'[k] = {} THEN Going(req[k])' ELSE Answered(req[k])'
    <3>1. CASE answers[k] = {}
      <4>1. Going(req[k])
        BY <2>4, <3>1 DEF BudgetInv, CallBudget
      <4>2. Going(Transmitted(req[k]))
        BY <2>1, <4>1, GoingOn
      <4> QED
        BY <2>1, <2>2, <3>1, <4>2, Zenon DEF Going
    <3>2. CASE answers[k] # {}
      <4>1. Answered(req[k])
        BY <2>4, <3>2 DEF BudgetInv, CallBudget
      <4> QED
        BY <2>1, <2>3, <3>2, <4>1 DEF Answered
    <3> QED
      BY <3>1, <3>2
  <2>6. req'[k].sent <= Budget
    <3>1. Going(req[k])' \/ Answered(req[k])'
      BY <2>5
    <3>2. Budget \in Int /\ req'[k].sent \in Nat /\ req'[k].remain \in Int
      <4>1. req'[k] \in RequestBlock
        BY DEF TypeOK
      <4> QED
        BY <4>1, BudgetType DEF RequestBlock, Byte
    <3> QED
      BY <2>3, <3>1, <3>2 DEF Going, Answered
  <2>7. CallBudget(k)'
    BY <2>4, <2>5, <2>6 DEF CallBudget
  <2>8. made' >= made
    BY <1>0, <2>1
  <2> QED
    BY <2>1, <2>2, <2>7, <2>8, CallBudgetKept, RepliesKept DEF BudgetInv
<1>4. ASSUME NEW k \in Call, RequestSendFailed(k) \/ RequestTimer(k)
      PROVE  BudgetInv'
  <2>0. made' = made /\ replying' = replying
    BY <1>4, Zenon DEF RequestSendFailed, RequestTimer
  <2>1. made' = made /\ replying' = replying /\ made' >= made
    BY <1>0, <2>0
  <2>2. CallBudget(k)' /\ \A j \in Call \ {k} :
          req'[j] = req[j] /\ answers'[j] = answers[j] /\ errors'[j] = errors[j]
    BY <1>0, <1>4, <2>1, RequestBudget DEF BudgetInv
  <2> QED
    BY <2>1, <2>2, CallBudgetKept, RepliesKept DEF BudgetInv
<1>5. ASSUME NEW m \in net, FeedRequest(m)
      PROVE  BudgetInv'
  <2> DEFINE s == <<m.from, m.id>>
             c == [phase |-> "waiting", call |-> m.call,
                   remain |-> Int8(Retry), sent |-> 0]
             left == Int8(c.remain - 1)
  <2>1. /\ UNCHANGED <<made, req, answers, errors>>
        /\ OnReplyTimer(m.to, s, c, FALSE) \/ replying' = replying
    BY <1>5 DEF FeedRequest, history
  <2>2. m.to \in Node /\ s \in Node \X Id
    BY DEF TypeOK, Message
  <2>3. c \in ReplyBlock
    <3>1. m.call \in Call /\ Int8(Retry) \in Byte
      BY RetryByte DEF TypeOK, Message
    <3> QED
      BY <3>1 DEF ReplyBlock
  <2>4. left = Budget /\ c.sent = 0
    BY BudgetType
  <2> HIDE DEF s, c
  <2>5. CASE OnReplyTimer(m.to, s, c, FALSE)
    <3>1. left \in Byte /\ (ReplyEnds(m.to, s) \/ ReplyResends(m.to, s, c, left))
      BY <2>2, <2>3, <2>5, ReplyTimerOutcomes
    <3> HIDE DEF left
    <3>2. Absent.phase = "absent"
      BY DEF Absent
    <3>3. left > 0 => Going(Resent(c, left))
      <4>1. /\ Resent(c, left).phase = "sending" /\ Resent(c, left).sent = 0
            /\ Resent(c, left).remain = left
        BY <2>3, <2>4, <3>1, LeftBlocks
      <4> QED
        BY <2>4, <3>1, <4>1 DEF Going, Byte
    <3> QED
      BY <2>1, <2>2, <3>1, <3>2, <3>3, CallsKept, ReplyReplaced
         DEF BudgetInv, ReplyEnds, ReplyResends
  <2>6. CASE replying' = replying
    BY <2>1, <2>6, CallsKept, RepliesKept DEF BudgetInv
  <2> QED
    BY <2>1, <2>5, <2>6
<1>6. ASSUME NEW m \in net, FeedReply(m)
      PROVE  BudgetInv'
  <2>0. PICK k : k = requesting[m.to][m.id]
    OBVIOUS
  <2>1. /\ m.to \in Node /\ m.id \in Id /\ k \in Call /\ k # None
        /\ answers' = [answers EXCEPT ![k] = @ \cup {m.call}]
        /\ req' = [req EXCEPT ![k] = Settled(@)]
        /\ UNCHANGED <<made, replying, errors>>
    BY <1>6, <2>0 DEF TypeOK, Message, FeedReply, Addressee
  <2>2. Live(k)
    BY <1>0, <2>0, <2>1 DEF NoDanglingControl
  <2>3. req'[k] = Settled(req[k]) /\ answers'[k] # {} /\ errors'[k] = {}
    <3>1. req'[k] = Settled(req[k]) /\ m.call \in answers'[k]
      BY <2>1 DEF TypeOK
    <3>2. errors[k] = {}
      BY <2>1, <2>2, Zenon DEF BudgetInv, CallBudget
    <3> QED
      BY <2>1, <3>1, <3>2
  <2>4. /\ req'[k].phase = req[k].phase /\ req'[k].remain = 0
        /\ req'[k].sent = req[k].sent /\ req[k] \in RequestBlock
    BY <2>1, <2>3, BlockFields DEF TypeOK
  <2>5. Answered(req[k])'
    <3>1. Going(req[k]) \/ Answered(req[k])
      BY <2>1, <2>2 DEF BudgetInv, CallBudget
    <3>2. req[k].remain \in Int /\ req[k].sent \in Nat /\ Budget \in Int
      BY <2>4, BudgetType DEF RequestBlock, Byte
    <3> QED
      BY <2>4, <3>1, <3>2 DEF Going, Answered
  <2>6. CallBudget(k)'
    <3>1. (req[k].sent > 0 => req[k].sent <= Budget)'
      BY <2>1, <2>4 DEF BudgetInv, CallBudget
    <3> QED
      BY <2>3, <2>5, <3>1 DEF CallBudget
  <2>7. ASSUME NEW j \in Call \ {k}
        PROVE  CallBudget(j)'
    <3>1. req'[j] = req[j] /\ answers'[j] = answers[j] /\ made' >= made
      BY <1>0, <2>1 DEF TypeOK
    <3> QED
      BY <2>1, <3>1, CallBudgetKept DEF BudgetInv
  <2> QED
    BY <2>1, <2>6, <2>7, RepliesKept DEF BudgetInv
<1>7. ASSUME NEW n \in Node, NEW s \in Node \X Id, ReplySent(n, s)
      PROVE  BudgetInv'
  <2>1. /\ replying[n][s].phase = "sending"
        /\ replying' = [replying EXCEPT ![n][s] = Transmitted(replying[n][s])]
        /\ UNCHANGED <<made, req, answers, errors>>
    BY <1>7 DEF ReplySent, history
  <2>2. replying[n][s] \in ReplyBlock /\ Going(replying[n][s])
    BY <2>1, PresentType DEF BudgetInv, ReplyBudget
  <2>3. Going(Transmitted(replying[n][s]))
    BY <2>1, <2>2, GoingOn
  <2> QED
    BY <2>1, <2>3, CallsKept, ReplyReplaced DEF BudgetInv
<1>8. ASSUME NEW n \in Node, NEW s \in Node \X Id, ReplySendFailed(n, s) \/ ReplyTimer(n, s)
      PROVE  BudgetInv'
  <2> DEFINE c == replying[n][s]
             left == Int8(c.remain - 1)
  <2>1. UNCHANGED <<made, req, answers, errors>> /\ c.phase # "absent"
    BY <1>8 DEF ReplySendFailed, ReplyTimer, history
  <2>2. c \in ReplyBlock /\ Going(c)
    BY <2>1, PresentType DEF BudgetInv, ReplyBudget
  <2>3. /\ left \in Byte
        /\ \/ ReplyEnds(n, s)
           \/ ReplyResends(n, s, c, left) /\ c.phase = "waiting"
    <3>1. CASE ReplySendFailed(n, s)
      <4>1. ReplyEnds(n, s)
        BY <3>1, Zenon DEF ReplySendFailed, OnReplyTimer, ReplyEnds
      <4> QED
        BY <2>2, <4>1, GoingOn
    <3>2. CASE ReplyTimer(n, s)
      <4>1. OnReplyTimer(n, s, c, FALSE) /\ c.phase = "waiting"
        BY <3>2 DEF ReplyTimer
      <4> HIDE DEF c
      <4> QED
        BY <2>2, <4>1, ReplyTimerOutcomes
    <3> QED
      BY <1>8, <3>1, <3>2
  <2>4. c.phase = "waiting" => left + c.sent = Budget
    BY <2>2, GoingOn
  <2> HIDE DEF c, left
  <2>5. Absent.phase = "absent"
    BY DEF Absent
  <2>6. left > 0 /\ c.phase = "waiting" => Going(Resent(c, left))
    <3>1. /\ Resent(c, left).phase = "sending" /\ Resent(c, left).sent = c.sent
          /\ Resent(c, left).remain = left
      BY <2>2, <2>3, LeftBlocks
    <3> QED
      BY <2>3, <2>4, <3>1 DEF Going, Byte
  <2> QED
    BY <2>1, <2>3, <2>5, <2>6, CallsKept, ReplyReplaced
       DEF BudgetInv, ReplyEnds, ReplyResends
<1>9. ASSUME NEW n \in Node, Restart(n)
      PROVE  BudgetInv'
  <2>1. UNCHANGED <<made, answers, errors>> /\ made' >= made
    BY <1>0, <1>9 DEF Restart, history
  <2>2. ASSUME NEW k \in Call
        PROVE  CallBudget(k)'
    <3>1. CASE Live(k) /\ req[k].from = n
      <4>1. req'[k] = [req[k] EXCEPT !.phase = "freed"] /\ req[k] \in RequestBlock
        BY <1>9, <3>1 DEF Restart, TypeOK
      <4>2. req'[k].phase = "freed" /\ req'[k].sent = req[k].sent
        BY <4>1 DEF RequestBlock
      <4>3. ~Live(k)' /\ errors'[k] = {}
        BY <2>1, <3>1, <4>2 DEF Live, BudgetInv, CallBudget
      <4>4. (req[k].sent > 0 => req[k].sent <= Budget)'
        BY <4>2 DEF BudgetInv, CallBudget
      <4> QED
        BY <4>3, <4>4 DEF CallBudget
    <3>2. CASE ~(Live(k) /\ req[k].from = n)
      <4>1. req'[k] = req[k]
        BY <1>9, <3>2 DEF Restart
      <4> QED
        BY <2>1, <4>1, CallBudgetKept DEF BudgetInv
    <3> QED
      BY <3>1, <3>2
  <2>3. ASSUME NEW p \in Node, NEW t \in Node \X Id
        PROVE  ReplyBudget(p, t)'
    <3>1. replying'[p][t] = replying[p][t] \/ replying'[p][t] = Absent
      BY <1>9 DEF Restart, TypeOK
    <3>2. CASE replying'[p][t] = Absent
      BY <3>2 DEF ReplyBudget, Absent
    <3> QED
      BY <3>1, <3>2, ReplyBudgetKept DEF BudgetInv
  <2> QED
    BY <2>2, <2>3 DEF BudgetInv
<1>10. CASE UNCHANGED vars
  <2>1. UNCHANGED <<made, req, replying, answers, errors>>
    BY <1>10 DEF vars
  <2> QED
    BY <2>1, CallsKept, RepliesKept DEF BudgetInv
<1> QED
  BY <1>1, <1>2, <1>3, <1>4, <1>5, <1>6, <1>7, <1>8, <1>9, <1>10
     DEF Next, RequestStep, ReplyStep

LEMMA BudgetAlways == Spec => [](TypeOK /\ IdInv /\ BudgetInv)
  BY TypeCorrect, IdAlways, BudgetInit, BudgetStep, PTL DEF Spec

\* No request and no reply is put on the wire more often than the first decrement of the
\* retry argument leaves (Rpc.h:39, 66, 121, 173, 195), for every value of that argument,
\* those that wrap to a negative int8_t included.
THEOREM TransmissionCorrect == Spec => []TransmissionBound
<1>1. ASSUME TypeOK, BudgetInv
      PROVE  TransmissionBound
  <2>1. ASSUME NEW n \in Node, NEW s \in Node \X Id, replying[n][s].sent > 0
        PROVE  replying[n][s].sent <= Budget
    <3>1. replying[n][s].phase # "absent"
      BY <1>1, <2>1 DEF TypeOK, ReplyBlock, Absent
    <3>2. replying[n][s] \in ReplyBlock /\ Going(replying[n][s])
      BY <1>1, <3>1, PresentType DEF BudgetInv, ReplyBudget
    <3> QED
      BY <3>2, GoingOn
  <2> QED
    BY <1>1, <2>1 DEF BudgetInv, CallBudget, TransmissionBound
<1> QED
  BY <1>1, BudgetAlways, PTL

\* A callback that hears of a timeout never hears of an answer (Rpc.h:98, 195-203).
THEOREM TimeoutCorrect == Spec => []TimeoutExcludesAnswer
<1>1. BudgetInv => TimeoutExcludesAnswer
  BY DEF BudgetInv, CallBudget, TimeoutExcludesAnswer
<1> QED
  BY <1>1, BudgetAlways, PTL

\* A timeout means that the whole budget was sent, but for a last datagram whose send
\* failed (Rpc.h:195-197).
THEOREM BudgetSpentCorrect == Spec => []TimeoutMeansBudgetSpent
<1>1. BudgetInv => TimeoutMeansBudgetSpent
  BY DEF BudgetInv, CallBudget, TimeoutMeansBudgetSpent
<1> QED
  BY <1>1, BudgetAlways, PTL

-----------------------------------------------------------------------------
(* Every call is told of its end.                                           *)

\* How the timer handler of a request leaves the callback: told of an error, told of
\* nothing at the end, or still to be told.
EndsWithError(k, c, left) ==
  /\ req' = [req EXCEPT ![k] = Freed(c, left)]
  /\ \E e \in {"timed_out", "io_error"} : errors' = [errors EXCEPT ![k] = @ \cup {e}]
  /\ completions' = [completions EXCEPT ![k] = Again(@)]

EndsSilently(k, c, left) ==
  /\ left # 0 /\ Spent(left)
  /\ req' = [req EXCEPT ![k] = Freed(c, left)]
  /\ errors' = errors /\ completions' = completions

GoesOn(k, c, left) ==
  /\ req' = [req EXCEPT ![k] = Resent(c, left)]
  /\ errors' = errors /\ completions' = completions

LEMMA TimerTells ==
  ASSUME NEW k \in Call, NEW c, NEW map, NEW failed,
         NEW left, left = Int8(c.remain - 1), OnRequestTimer(k, c, map, failed)
  PROVE  \/ EndsWithError(k, c, left)
         \/ EndsSilently(k, c, left)
         \/ GoesOn(k, c, left) /\ ~Spent(left)
<1>1. \/ (Spent(left) \/ failed) /\ RequestEnds(k, c, left, map, failed)
      \/ ~Spent(left) /\ GoesOn(k, c, left)
  BY Zenon DEF OnRequestTimer, Resent, GoesOn, history
<1>2. ASSUME Spent(left) \/ failed, RequestEnds(k, c, left, map, failed)
      PROVE  EndsWithError(k, c, left) \/ EndsSilently(k, c, left)
  <2>1. req' = [req EXCEPT ![k] = Freed(c, left)]
    BY <1>2, Zenon DEF RequestEnds, Freed
  <2>2. \/ /\ errors' = [errors EXCEPT ![k] = @ \cup {"timed_out"}]
           /\ completions' = [completions EXCEPT ![k] = Again(@)]
        \/ /\ errors' = [errors EXCEPT ![k] = @ \cup {"io_error"}]
           /\ completions' = [completions EXCEPT ![k] = Again(@)]
        \/ /\ left # 0 /\ Spent(left)
           /\ errors' = errors /\ completions' = completions
    BY <1>2, Zenon DEF RequestEnds
  <2> QED
    BY <2>1, <2>2, Zenon DEF EndsWithError, EndsSilently
<1> QED
  BY <1>1, <1>2

\* A step of a request ends it with an error, leaves it live, or ends it after an answer.
LEMMA RequestStepTells ==
  ASSUME TypeOK, BudgetInv, NEW k \in Call, RequestStep(k)
  PROVE  /\ Live(k)
         /\ req'[k].from = req[k].from
         /\ \A j \in Call \ {k} : /\ req'[j] = req[j] /\ completions'[j] = completions[j]
                                  /\ errors'[j] = errors[j]
         /\ \/ /\ errors' # errors /\ errors'[k] # {} /\ ~Live(k)'
               /\ completions'[k] = Again(completions[k])
            \/ errors' = errors /\ Live(k)' /\ completions' = completions
            \/ /\ errors' = errors /\ ~Live(k)' /\ completions' = completions
               /\ answers[k] # {}
<1>0. req[k] \in RequestBlock
  BY DEF TypeOK
<1>1. Live(k)
  BY DEF RequestStep, RequestSent, RequestSendFailed, RequestTimer, Live
<1>2. CASE RequestSent(k)
  <2>1. /\ req' = [req EXCEPT ![k] = Transmitted(@)]
        /\ errors' = errors /\ completions' = completions
    BY <1>2 DEF RequestSent, history
  <2>2. req'[k] = Transmitted(req[k]) /\ \A j \in Call \ {k} : req'[j] = req[j]
    BY <2>1 DEF TypeOK
  <2>3. req'[k].phase = "waiting" /\ req'[k].from = req[k].from
    BY <1>0, <2>2, BlockFields
  <2> QED
    BY <1>1, <2>1, <2>2, <2>3 DEF Live
<1>3. ASSUME NEW failed, OnRequestTimer(k, req[k], requesting, failed)
      PROVE  /\ req'[k].from = req[k].from
             /\ \A j \in Call \ {k} : /\ req'[j] = req[j] /\ completions'[j] = completions[j]
                                      /\ errors'[j] = errors[j]
             /\ \/ /\ errors' # errors /\ errors'[k] # {} /\ ~Live(k)'
                   /\ completions'[k] = Again(completions[k])
                \/ errors' = errors /\ Live(k)' /\ completions' = completions
                \/ /\ errors' = errors /\ ~Live(k)' /\ completions' = completions
                   /\ answers[k] # {}
  <2> DEFINE c == req[k]
             left == Int8(c.remain - 1)
  <2>1. \/ EndsWithError(k, c, left)
        \/ EndsSilently(k, c, left)
        \/ GoesOn(k, c, left) /\ ~Spent(left)
    BY <1>3, TimerTells, Zenon
  <2>2. errors[k] = {} /\ (answers[k] = {} => Going(c))
    BY <1>1 DEF BudgetInv, CallBudget
  <2>3. left \in Byte
    <3>1. c.remain - 1 \in Int
      BY <1>0 DEF RequestBlock, Byte
    <3> QED
      BY <3>1, Int8Range
  <2>4. answers[k] = {} => left >= 0
    <3>1. ASSUME Going(c) PROVE left >= 0
      <4> HIDE DEF c
      <4>1. c \in RequestBlock
        BY <1>0 DEF c
      <4>2. c.remain >= 1 /\ c.remain \in Byte /\ left = c.remain - 1
        BY <3>1, <4>1, GoingOn DEF Going, RequestBlock
      <4> QED
        BY <4>2 DEF Byte
    <3> QED
      BY <2>2, <3>1
  <2>5. /\ Freed(c, left).phase = "freed" /\ Freed(c, left).from = c.from
        /\ Resent(c, left).phase = "sending" /\ Resent(c, left).from = c.from
    <3> HIDE DEF left, c
    <3>1. c \in RequestBlock
      BY <1>0 DEF c
    <3> QED
      BY <3>1 DEF Freed, Resent, RequestBlock
  <2> HIDE DEF left
  <2>6. CASE EndsWithError(k, c, left)
    <3>1. /\ req'[k] = Freed(c, left)
          /\ \A j \in Call \ {k} : /\ req'[j] = req[j] /\ completions'[j] = completions[j]
                                   /\ errors'[j] = errors[j]
          /\ completions'[k] = Again(completions[k])
      BY <2>6 DEF EndsWithError, TypeOK
    <3>2. errors'[k] # {}
      BY <2>6 DEF EndsWithError, TypeOK
    <3> QED
      BY <2>2, <2>5, <3>1, <3>2 DEF Live
  <2>7. CASE EndsSilently(k, c, left)
    <3>1. /\ req'[k] = Freed(c, left) /\ \A j \in Call \ {k} : req'[j] = req[j]
          /\ errors' = errors /\ completions' = completions
      BY <2>7 DEF EndsSilently, TypeOK
    <3>2. left # 0 /\ left <= 0
      BY <2>7 DEF EndsSilently, Spent
    <3>3. answers[k] # {}
      BY <2>3, <2>4, <3>2 DEF Byte
    <3> QED
      BY <2>5, <3>1, <3>3 DEF Live
  <2>8. CASE GoesOn(k, c, left)
    <3>1. /\ req'[k] = Resent(c, left) /\ \A j \in Call \ {k} : req'[j] = req[j]
          /\ errors' = errors /\ completions' = completions
      BY <2>8 DEF GoesOn, TypeOK
    <3> QED
      BY <2>5, <3>1 DEF Live
  <2> QED
    BY <2>1, <2>6, <2>7, <2>8
<1>4. CASE RequestSendFailed(k)
  <2>1. OnRequestTimer(k, req[k], requesting, TRUE)
    BY <1>4 DEF RequestSendFailed
  <2> QED
    BY <1>1, <1>3, <2>1
<1>5. CASE RequestTimer(k)
  <2>1. OnRequestTimer(k, req[k], requesting, FALSE)
    BY <1>5 DEF RequestTimer
  <2> QED
    BY <1>1, <1>3, <2>1
<1> QED
  BY <1>2, <1>4, <1>5 DEF RequestStep

\* How send leaves the callback of the call it makes: told of a timeout at once, of
\* nothing ever, or still to be told.
LEMMA SendTells ==
  ASSUME TypeOK, NoneAhead, NEW n \in Node, NEW to \in Node, Send(n, to)
  PROVE  \E k \in Call :
           /\ k = made + 1 /\ made' = k /\ answers' = answers
           /\ req[k].phase = "unused" /\ req'[k].phase # "unused"
           /\ \A j \in Call \ {k} : req'[j] = req[j] /\ completions'[j] = completions[j]
                                    /\ errors'[j] = errors[j]
           /\ \/ Budget >= 0 /\ errors'[k] # {} /\ completions'[k] = Again(completions[k])
              \/ Budget >= 0 /\ Live(k)' /\ errors' = errors /\ completions' = completions
              \/ Budget < 0 /\ errors' = errors /\ completions' = completions
<1>0. PICK k : k = made + 1
  OBVIOUS
<1> DEFINE c == [phase |-> "waiting", from |-> n, to |-> to, id |-> nextId[n],
                 remain |-> Int8(Retry), sent |-> 0]
           map == [requesting EXCEPT ![n][c.id] = k]
           left == Int8(c.remain - 1)
<1>1. k \in Call /\ c \in RequestBlock
  BY <1>0, SendBlockType DEF Send
<1>2. OnRequestTimer(k, c, map, FALSE) /\ made' = k
  BY <1>0 DEF Send
<1>3. left = Budget /\ Budget \in Byte
  BY BudgetType
<1>4. req[k].phase = "unused"
  <2>1. ~ k <= made
    BY <1>0 DEF TypeOK
  <2>2. req[k] \in RequestBlock
    BY <1>1 DEF TypeOK
  <2> QED
    BY <1>1, <2>1, <2>2 DEF NoneAhead, Issued, RequestBlock
<1> HIDE DEF c, map
<1>5. answers' = answers
  BY <1>2, Zenon DEF OnRequestTimer, RequestEnds, history
<1>6. \/ EndsWithError(k, c, left) /\ Spent(left) /\ left = 0
      \/ EndsSilently(k, c, left)
      \/ GoesOn(k, c, left) /\ ~Spent(left)
  <2>1. \/ Spent(left) /\ RequestEnds(k, c, left, map, FALSE)
        \/ ~Spent(left) /\ GoesOn(k, c, left)
    BY <1>2, Zenon DEF OnRequestTimer, Resent, GoesOn, history
  <2>2. ASSUME Spent(left), RequestEnds(k, c, left, map, FALSE)
        PROVE  (EndsWithError(k, c, left) /\ left = 0) \/ EndsSilently(k, c, left)
    BY <2>2, Zenon DEF RequestEnds, Freed, EndsWithError, EndsSilently
  <2> QED
    BY <2>1, <2>2
<1> HIDE DEF left
<1>7. Freed(c, left).phase = "freed" /\ Resent(c, left).phase = "sending"
  BY <1>1, <1>3, LeftBlocks
<1>8. CASE EndsWithError(k, c, left) /\ left = 0
  <2>1. /\ req'[k] = Freed(c, left) /\ errors'[k] # {}
        /\ \A j \in Call \ {k} : req'[j] = req[j] /\ completions'[j] = completions[j]
                                 /\ errors'[j] = errors[j]
        /\ completions'[k] = Again(completions[k])
    BY <1>1, <1>8 DEF EndsWithError, TypeOK
  <2>2. Budget >= 0
    BY <1>3, <1>8
  <2> QED
    BY <1>0, <1>1, <1>2, <1>4, <1>5, <1>7, <2>1, <2>2
<1>9. CASE EndsSilently(k, c, left)
  <2>1. /\ req'[k] = Freed(c, left) /\ errors' = errors /\ completions' = completions
        /\ \A j \in Call \ {k} : req'[j] = req[j]
    BY <1>1, <1>9 DEF EndsSilently, TypeOK
  <2>2. Budget < 0
    BY <1>3, <1>9 DEF EndsSilently, Spent, Byte
  <2> QED
    BY <1>0, <1>1, <1>2, <1>4, <1>5, <1>7, <2>1, <2>2
<1>10. CASE GoesOn(k, c, left) /\ ~Spent(left)
  <2>1. /\ req'[k] = Resent(c, left) /\ errors' = errors /\ completions' = completions
        /\ \A j \in Call \ {k} : req'[j] = req[j]
    BY <1>1, <1>10 DEF GoesOn, TypeOK
  <2>2. Budget >= 0
    BY <1>3, <1>10 DEF Spent, Byte
  <2>3. Live(k)'
    BY <1>7, <2>1 DEF Live
  <2> QED
    BY <1>0, <1>1, <1>2, <1>4, <1>5, <1>7, <2>1, <2>2, <2>3
<1> QED
  BY <1>6, <1>8, <1>9, <1>10

\* What a callback has heard, and that a call that has ended, of a caller that stays up,
\* has heard something.
HasHeard(k) == answers[k] # {} \/ errors[k] # {}

Told(k) ==
  /\ HasHeard(k) => completions[k] > 0
  /\ Budget >= 0 /\ k <= made /\ ~Live(k) /\ req[k].from \notin Volatile => HasHeard(k)

ToldInv == \A k \in Call : Told(k)

LEMMA ToldKept ==
  ASSUME TypeOK, NEW k \in Call, Told(k), k <= made' => k <= made,
         Live(k)' <=> Live(k), req'[k].from = req[k].from, completions'[k] = completions[k],
         answers'[k] = answers[k], errors'[k] = errors[k]
  PROVE  Told(k)'
  BY Zenon DEF Told, HasHeard, Budget

\* One more call of the callback.
LEMMA AgainTold ==
  ASSUME NEW k \in Call, NEW x, completions'[k] = Again(x), HasHeard(k)'
  PROVE  Told(k)'
<1>1. Again(x) > 0
  BY DEF Again
<1> QED
  BY <1>1 DEF Told

LEMMA ToldStep == TypeOK /\ IdInv /\ BudgetInv /\ ToldInv /\ [Next]_vars => ToldInv'
<1> SUFFICES ASSUME TypeOK, IdInv, BudgetInv, ToldInv, [Next]_vars, NEW k \in Call
             PROVE  Told(k)'
  BY DEF ToldInv
<1>0. NoneAhead /\ NoDanglingControl /\ Told(k) /\ made \in Int /\ k \in Int
  BY DEF IdInv, ToldInv, TypeOK, Call
<1>1. ASSUME NEW n \in Node, NEW to \in Node, Send(n, to)
      PROVE  Told(k)'
  <2>1. PICK j \in Call :
           /\ j = made + 1 /\ made' = j /\ answers' = answers
           /\ \A i \in Call \ {j} : req'[i] = req[i] /\ completions'[i] = completions[i]
                                    /\ errors'[i] = errors[i]
           /\ \/ Budget >= 0 /\ errors'[j] # {} /\ completions'[j] = Again(completions[j])
              \/ Budget >= 0 /\ Live(j)' /\ errors' = errors /\ completions' = completions
              \/ Budget < 0 /\ errors' = errors /\ completions' = completions
    BY <1>0, <1>1, SendTells
  <2>2. CASE k # j
    <3>1. k <= made' => k <= made
      BY <1>0, <2>1, <2>2
    <3> QED
      BY <1>0, <2>1, <2>2, <3>1, ToldKept DEF Live
  <2>3. CASE k = j /\ errors'[k] # {} /\ completions'[k] = Again(completions[k])
    BY <2>3, AgainTold DEF HasHeard
  <2>4. CASE /\ k = j /\ errors' = errors /\ completions' = completions
             /\ Live(k)' \/ Budget < 0
    <3>1. Budget \in Int
      BY BudgetType DEF Byte
    <3>2. HasHeard(k)' => completions'[k] > 0
      BY <1>0, <2>1, <2>4 DEF Told, HasHeard
    <3>3. ~ (Budget >= 0 /\ ~Live(k)')
      BY <2>4, <3>1
    <3> QED
      BY <3>2, <3>3, Zenon DEF Told, Budget
  <2> QED
    BY <2>1, <2>2, <2>3, <2>4
<1>2. ASSUME SendRefused
      PROVE  Told(k)'
  <2>1. /\ made' = made + 1 /\ UNCHANGED <<req, answers>>
        /\ errors' = [errors EXCEPT ![made'] = @ \cup {"no_buffer_space"}]
        /\ completions' = [completions EXCEPT ![made'] = Again(@)]
    BY <1>2 DEF SendRefused
  <2>2. CASE k = made'
    <3>1. errors'[k] # {} /\ completions'[k] = Again(completions[k])
      BY <2>1, <2>2 DEF TypeOK
    <3> QED
      BY <3>1, AgainTold DEF HasHeard
  <2>3. CASE k # made'
    <3>1. k <= made' => k <= made
      BY <1>0, <2>1, <2>3
    <3>2. errors'[k] = errors[k] /\ completions'[k] = completions[k]
      BY <2>1, <2>3 DEF TypeOK
    <3> QED
      BY <1>0, <2>1, <3>1, <3>2, ToldKept DEF Live
  <2> QED
    BY <2>2, <2>3
<1>3. ASSUME NEW j \in Call, RequestStep(j)
      PROVE  Told(k)'
  <2>1. made' = made /\ answers' = answers
    <3>1. ASSUME NEW failed, OnRequestTimer(j, req[j], requesting, failed)
          PROVE  answers' = answers
      BY <3>1, Zenon DEF OnRequestTimer, RequestEnds, history
    <3> QED
      BY <1>3, <3>1 DEF RequestStep, RequestSent, RequestSendFailed, RequestTimer, history
  <2>2. /\ Live(j)
        /\ req'[j].from = req[j].from
        /\ \A i \in Call \ {j} : req'[i] = req[i] /\ completions'[i] = completions[i]
                                 /\ errors'[i] = errors[i]
        /\ \/ errors'[j] # {} /\ ~Live(j)' /\ completions'[j] = Again(completions[j])
           \/ errors' = errors /\ Live(j)' /\ completions' = completions
           \/ /\ errors' = errors /\ ~Live(j)' /\ completions' = completions
              /\ answers[j] # {}
    BY <1>3, RequestStepTells
  <2>3. CASE k # j
    BY <1>0, <2>1, <2>2, <2>3, ToldKept DEF Live
  <2>4. CASE k = j /\ errors'[k] # {} /\ completions'[k] = Again(completions[k])
    BY <2>4, AgainTold DEF HasHeard
  <2>5. CASE k = j /\ errors' = errors /\ completions' = completions /\ (Live(k)' \/ answers[k] # {})
    BY <1>0, <2>1, <2>5, Zenon DEF Told, HasHeard, Budget
  <2> QED
    BY <2>2, <2>3, <2>4, <2>5
<1>4. ASSUME NEW m \in net, FeedReply(m)
      PROVE  Told(k)'
  <2>0. PICK j : j = requesting[m.to][m.id]
    OBVIOUS
  <2>1. /\ j \in Call
        /\ made' = made /\ errors' = errors
        /\ answers' = [answers EXCEPT ![j] = @ \cup {m.call}]
        /\ completions' = [completions EXCEPT ![j] = Again(@)]
        /\ req' = [req EXCEPT ![j] = Settled(@)]
    BY <1>4, <2>0 DEF TypeOK, Message, FeedReply, Addressee
  <2>2. CASE k = j
    <3>1. answers'[k] # {} /\ completions'[k] = Again(completions[k])
      BY <2>1, <2>2 DEF TypeOK
    <3> QED
      BY <3>1, AgainTold DEF HasHeard
  <2>3. CASE k # j
    <3>1. req'[k] = req[k] /\ answers'[k] = answers[k] /\ completions'[k] = completions[k]
      BY <2>1, <2>3 DEF TypeOK
    <3> QED
      BY <1>0, <2>1, <3>1, ToldKept DEF Live
  <2> QED
    BY <2>2, <2>3
<1>5. ASSUME \/ \E m \in net : FeedRequest(m)
             \/ \E n \in Node, s \in Node \X Id : ReplyStep(n, s)
             \/ UNCHANGED vars
      PROVE  Told(k)'
  <2>1. UNCHANGED <<made, req, answers, errors, completions>>
    BY <1>5 DEF FeedRequest, ReplyStep, ReplySent, ReplySendFailed, ReplyTimer, history, vars
  <2> QED
    BY <1>0, <2>1, ToldKept DEF Live
<1>6. ASSUME NEW n \in Node, Restart(n)
      PROVE  Told(k)'
  <2>1. /\ n \in Volatile
        /\ UNCHANGED <<made, answers, errors, completions>>
        /\ req'[k] = IF Live(k) /\ req[k].from = n
                     THEN [req[k] EXCEPT !.phase = "freed"] ELSE req[k]
    BY <1>6 DEF Restart, history
  <2>2. CASE Live(k) /\ req[k].from = n
    <3>1. req[k] \in RequestBlock
      BY DEF TypeOK
    <3>2. req'[k].from = n
      BY <2>1, <2>2, <3>1 DEF RequestBlock
    <3> QED
      BY <1>0, <2>1, <3>2, Zenon DEF Told, HasHeard
  <2>3. CASE ~(Live(k) /\ req[k].from = n)
    BY <1>0, <2>1, <2>3, ToldKept DEF Live
  <2> QED
    BY <2>2, <2>3
<1> QED
  BY <1>1, <1>2, <1>3, <1>4, <1>5, <1>6 DEF Next

LEMMA ToldInit == Init => ToldInv
<1> SUFFICES ASSUME Init, NEW k \in Call PROVE Told(k)
  BY DEF ToldInv
<1>1. answers[k] = {} /\ errors[k] = {} /\ made = 0
  BY DEF Init
<1>2. ~ k <= made
  BY <1>1 DEF Call
<1> QED
  BY <1>1, <1>2 DEF Told, HasHeard

LEMMA ToldAlways == Spec => []ToldInv
  BY BudgetAlways, ToldInit, ToldStep, PTL DEF Spec

\* No call ends without a word: of a caller that stays up, with a retry argument that
\* leaves a budget, the callback of every call whose block has been freed has run
\* (Rpc.h:115-124, 194-203), whatever the network and the socket do.
THEOREM EndedToldCorrect ==
  Spec => [](\A k \in Call :
               Budget >= 0 /\ k <= made /\ ~Live(k) /\ req[k].from \notin Volatile
                 => completions[k] > 0)
<1>1. ToldInv => \A k \in Call :
        Budget >= 0 /\ k <= made /\ ~Live(k) /\ req[k].from \notin Volatile
          => completions[k] > 0
  BY DEF ToldInv, Told
<1> QED
  BY <1>1, ToldAlways, PTL

\* The retry arguments that leave no budget.
LEMMA NoBudget ==
  ASSUME Retry % 256 = 0 \/ Retry % 256 > 128
  PROVE  Budget < 0
<1> DEFINE r == Retry % 256
<1>1. Retry \in Int /\ r \in 0 .. 255 /\ (r = 0 \/ r > 128)
  BY Parameters
<1>2. Int8(Retry) = IF r > 128 THEN r - 256 ELSE 0
  BY <1>1 DEF Int8
<1>3. CASE r > 128
  <2>1. Int8(Retry) - 1 = r - 257
    BY <1>1, <1>2, <1>3
  <2>2. r - 257 \in Byte
    BY <1>1, <1>3 DEF Byte
  <2> QED
    BY <1>1, <2>1, <2>2, Int8Range DEF Budget, Byte
<1>4. CASE r = 0
  <2>1. Int8(Retry) - 1 = -1 /\ -1 \in Byte
    BY <1>2, <1>4 DEF Byte
  <2> QED
    BY <2>1, Int8Range DEF Budget, Byte
<1> QED
  BY <1>1, <1>3, <1>4

\* Without a budget nothing is ever outstanding, at the caller or at the callee.
LEMMA NothingUnderWay ==
  ASSUME TypeOK, BudgetInv, Budget < 0
  PROVE  /\ \A k \in Call : ~Live(k)
         /\ \A n \in Node, s \in Node \X Id : replying[n][s].phase = "absent"
<1>0. Budget \in Int
  BY BudgetType DEF Byte
<1>1. ASSUME NEW k \in Call, Live(k)
      PROVE  FALSE
  <2>1. req[k].sent \in Nat /\ req[k].remain \in Int
    <3>1. req[k] \in RequestBlock
      BY DEF TypeOK
    <3> QED
      BY <3>1 DEF RequestBlock, Byte
  <2>2. Going(req[k]) \/ Answered(req[k])
    BY <1>1 DEF BudgetInv, CallBudget
  <2> QED
    BY <1>0, <2>1, <2>2 DEF Going, Answered
<1>2. ASSUME NEW n \in Node, NEW s \in Node \X Id, replying[n][s].phase # "absent"
      PROVE  FALSE
  <2>1. replying[n][s] \in ReplyBlock /\ Going(replying[n][s])
    BY <1>2, PresentType DEF BudgetInv, ReplyBudget
  <2> QED
    BY <1>0, <2>1 DEF Going, ReplyBlock, Byte
<1> QED
  BY <1>1, <1>2

\* Nothing leaves, nothing is executed, and of the calls only those send refused hear.
Silent ==
  /\ net = {} /\ executed = {}
  /\ \A k \in Call : req[k].phase # "unused" \/ k > made => completions[k] = 0

LEMMA SilentStep ==
  TypeOK /\ IdInv /\ BudgetInv /\ Budget < 0 /\ Silent /\ [Next]_vars => Silent'
<1> SUFFICES ASSUME TypeOK, IdInv, BudgetInv, Budget < 0, Silent, [Next]_vars
             PROVE  Silent'
  OBVIOUS
<1>0. /\ NoneAhead /\ made \in Int /\ net = {} /\ Call \subseteq Int
      /\ \A k \in Call : ~Live(k)
      /\ \A n \in Node, s \in Node \X Id : replying[n][s].phase = "absent"
  <2>1. made \in Int /\ Call \subseteq Int
    BY DEF TypeOK, Call
  <2>2. NoneAhead /\ net = {}
    BY DEF IdInv, Silent
  <2> QED
    BY <2>1, <2>2, NothingUnderWay
<1>1. ASSUME NEW n \in Node, NEW to \in Node, Send(n, to)
      PROVE  Silent'
  <2>1. PICK k \in Call :
           /\ k = made + 1 /\ made' = k
           /\ \A j \in Call \ {k} : req'[j] = req[j]
           /\ \/ Budget >= 0
              \/ completions' = completions
    BY <1>0, <1>1, SendTells
  <2>2. ~ Budget >= 0
    BY BudgetType DEF Byte
  <2>3. completions[k] = 0
    <3>1. k > made
      BY <1>0, <2>1
    <3> QED
      BY <3>1 DEF Silent
  <2>4. ASSUME NEW j \in Call, req'[j].phase # "unused" \/ j > made'
        PROVE  completions'[j] = 0
    <3>1. j > made' => j > made
      BY <1>0, <2>1
    <3> QED
      BY <2>1, <2>2, <2>3, <2>4, <3>1 DEF Silent
  <2>5. UNCHANGED <<net, executed>>
    BY <1>1 DEF Send
  <2> QED
    BY <2>4, <2>5 DEF Silent
<1>2. ASSUME SendRefused
      PROVE  Silent'
  <2>1. /\ made' = made + 1 /\ UNCHANGED <<req, net, executed>>
        /\ completions' = [completions EXCEPT ![made'] = Again(@)]
    BY <1>2 DEF SendRefused
  <2>2. ASSUME NEW j \in Call, req[j].phase # "unused" \/ j > made'
        PROVE  completions'[j] = 0
    <3>1. j # made' /\ (j > made' => j > made)
      <4>1. CASE j > made'
        BY <1>0, <2>1, <4>1
      <4>2. CASE req[j].phase # "unused"
        <5>1. j <= made
          BY <4>2 DEF IdInv, NoneAhead, Issued
        <5> QED
          BY <1>0, <2>1, <5>1
      <4> QED
        BY <2>2, <4>1, <4>2
    <3>2. completions'[j] = completions[j]
      BY <2>1, <3>1 DEF TypeOK
    <3> QED
      BY <2>2, <3>1, <3>2 DEF Silent
  <2> QED
    BY <2>1, <2>2 DEF Silent
<1>3. ASSUME \E k \in Call : RequestStep(k)
      PROVE  FALSE
  BY <1>0, <1>3, RequestStepTells
<1>4. ASSUME \E n \in Node, s \in Node \X Id : ReplyStep(n, s)
      PROVE  FALSE
  BY <1>0, <1>4 DEF ReplyStep, ReplySent, ReplySendFailed, ReplyTimer
<1>5. ASSUME NEW n \in Node, Restart(n)
      PROVE  Silent'
  <2>1. UNCHANGED <<made, net, executed, completions>>
    BY <1>5 DEF Restart, history
  <2>2. \A k \in Call : req'[k] = req[k]
    BY <1>0, <1>5 DEF Restart
  <2> QED
    BY <2>1, <2>2 DEF Silent
<1>6. CASE UNCHANGED vars
  BY <1>6 DEF vars, Silent
<1> QED
  BY <1>0, <1>1, <1>2, <1>3, <1>4, <1>5, <1>6 DEF Next

\* With a retry argument whose first decrement is negative, 0 among them, an Rpc object is
\* mute: no datagram leaves it, no handler runs, and no callback of a call that send took
\* on is ever called (Rpc.h:39, 121, 173, 195-203).
THEOREM SilentCorrect ==
  ASSUME Retry % 256 = 0 \/ Retry % 256 > 128
  PROVE  Spec => [](/\ net = {} /\ executed = {}
                    /\ \A k \in Call : req[k].phase # "unused" => completions[k] = 0)
<1>1. Budget < 0
  BY NoBudget
<1>2. Init => Silent
  BY DEF Init, Silent
<1>3. TypeOK /\ IdInv /\ BudgetInv /\ Silent /\ [Next]_vars => Silent'
  BY <1>1, SilentStep
<1>4. Silent => /\ net = {} /\ executed = {}
                /\ \A k \in Call : req[k].phase # "unused" => completions[k] = 0
  BY DEF Silent
<1> QED
  BY <1>2, <1>3, <1>4, BudgetAlways, PTL DEF Spec

-----------------------------------------------------------------------------
(* Ids are not used twice.                                                  *)

\* The calls whose id the counter of their caller must not meet again.
Counted(k) == Live(k) \/ (Issued(k) /\ req[k].from \notin Volatile)

\* As long as a call can still be made, the counter of a node is ahead of its ids.
CounterAhead ==
  made < MaxCalls =>
    \A n \in Node :
      /\ nextId[n] <= made + 1
      /\ \A k \in Call : Counted(k) /\ req[k].from = n => req[k].id < nextId[n]

Distinct ==
  \A j, k \in Call :
    Counted(j) /\ Counted(k) /\ req[j].from = req[k].from /\ req[j].id = req[k].id
      => j = k

UniqueInv == NoWrap => CounterAhead /\ Distinct /\ MappedUntilFreed

LEMMA UniqueInit == Init => UniqueInv
<1> SUFFICES ASSUME Init PROVE UniqueInv
  OBVIOUS
<1>1. ASSUME NEW k \in Call
      PROVE  ~Live(k) /\ ~Counted(k)
  BY DEF Init, Unused, Live, Issued, Counted
<1>2. \A n \in Node : nextId[n] <= made + 1
  <2>1. nextId = [n \in Node |-> 1] /\ made = 0
    BY DEF Init
  <2>2. \A n \in Node : nextId[n] = 1
    BY <2>1
  <2>3. 1 <= made + 1
    BY <2>1
  <2> QED
    BY <2>2, <2>3, Zenon
<1> QED
  BY <1>1, <1>2 DEF UniqueInv, CounterAhead, Distinct, MappedUntilFreed

\* A step that takes no id and adds no call to those that count.
LEMMA UniqueKept ==
  ASSUME TypeOK, TypeOK', CounterAhead, Distinct, made' >= made, nextId' = nextId,
         \A k \in Call : Counted(k)' =>
           Counted(k) /\ req'[k].from = req[k].from /\ req'[k].id = req[k].id
  PROVE  CounterAhead' /\ Distinct'
<1>1. CounterAhead'
  <2> SUFFICES ASSUME made' < MaxCalls, NEW n \in Node
               PROVE  /\ nextId[n] <= made' + 1
                      /\ \A k \in Call : Counted(k)' /\ req'[k].from = n => req'[k].id < nextId[n]
    BY DEF CounterAhead
  <2>0. made \in Int /\ made' \in Int /\ MaxCalls \in Int
    <3>1. MaxCalls \in Int
      BY Parameters
    <3>2. made \in Int /\ made' \in Int
      BY DEF TypeOK
    <3> QED
      BY <3>1, <3>2
  <2>1. made < MaxCalls
    BY <2>0
  <2>2. nextId[n] <= made + 1 /\ nextId[n] \in Int /\ made \in Int /\ made' \in Int
    BY <2>1 DEF CounterAhead, TypeOK, Id
  <2>3. nextId[n] <= made' + 1
    BY <2>2
  <2> QED
    BY <2>1, <2>3 DEF CounterAhead
<1>2. Distinct'
  BY DEF Distinct
<1> QED
  BY <1>1, <1>2

\* A step that leaves the map alone as well, and starts no call.
LEMMA MappedKept ==
  ASSUME MappedUntilFreed, requesting' = requesting,
         \A k \in Call : Live(k)' =>
           Live(k) /\ req'[k].from = req[k].from /\ req'[k].id = req[k].id
  PROVE  MappedUntilFreed'
  BY DEF MappedUntilFreed, NoWrap

\* A step that only marks a block of a call, which counts as before.
LEMMA MarkKeeps ==
  ASSUME TypeOK, TypeOK', NEW k \in Call, NEW b \in RequestBlock, Issued(k),
         b.from = req[k].from, b.id = req[k].id,
         b.phase \in {"sending", "waiting"} => Live(k),
         req' = [req EXCEPT ![k] = b]
  PROVE  /\ req'[k] = b
         /\ \A j \in Call : Counted(j)' =>
              Counted(j) /\ req'[j].from = req[j].from /\ req'[j].id = req[j].id
         /\ \A j \in Call : Live(j)' =>
              Live(j) /\ req'[j].from = req[j].from /\ req'[j].id = req[j].id
<1>1. req'[k] = b /\ \A j \in Call \ {k} : req'[j] = req[j]
  BY DEF TypeOK
<1>2. Live(k)' => Live(k)
  BY <1>1 DEF Live
<1>3. Counted(k)' => Counted(k)
  BY <1>1, <1>2 DEF Counted
<1> QED
  BY <1>1, <1>2, <1>3 DEF Counted, Live, Issued

LEMMA UniqueStep ==
  TypeOK /\ TypeOK' /\ IdInv /\ UniqueInv /\ [Next]_vars => UniqueInv'
<1> SUFFICES ASSUME TypeOK, TypeOK', IdInv, UniqueInv, [Next]_vars, NoWrap
             PROVE  CounterAhead' /\ Distinct' /\ MappedUntilFreed'
  BY DEF UniqueInv, NoWrap
<1>0. /\ CounterAhead /\ Distinct /\ MappedUntilFreed /\ NoneAhead /\ NoDanglingControl
      /\ made \in Nat /\ made' \in Nat /\ MaxCalls <= MaxId /\ MaxId \in Nat /\ MaxCalls \in Nat
  <2>1. MaxCalls <= MaxId /\ MaxId \in Nat /\ MaxCalls \in Nat
    BY Parameters DEF NoWrap
  <2>2. made \in Nat /\ made' \in Nat
    BY DEF TypeOK
  <2> QED
    BY <2>1, <2>2 DEF UniqueInv, IdInv
<1>1. ASSUME NEW n \in Node, NEW to \in Node, Send(n, to)
      PROVE  CounterAhead' /\ Distinct' /\ MappedUntilFreed'
  <2>0. PICK k : k = made + 1
    OBVIOUS
  <2> DEFINE c == [phase |-> "waiting", from |-> n, to |-> to, id |-> nextId[n],
                   remain |-> Int8(Retry), sent |-> 0]
             map == [requesting EXCEPT ![n][c.id] = k]
  <2>1. k \in Call /\ c \in RequestBlock /\ made < MaxCalls
    BY <1>1, <2>0, SendBlockType DEF Send
  <2>2. /\ OnRequestTimer(k, c, map, FALSE) /\ made' = k
        /\ nextId' = [nextId EXCEPT ![n] = NextId(@)]
    BY <1>1, <2>0 DEF Send
  <2>3. c.from = n /\ c.id = nextId[n] /\ nextId[n] \in Id
    BY DEF TypeOK
  <2>4. map = [requesting EXCEPT ![n][nextId[n]] = k]
    OBVIOUS
  <2> HIDE DEF c, map
  <2>5. PICK b \in RequestBlock :
           /\ req' = [req EXCEPT ![k] = b]
           /\ b.from = n /\ b.id = nextId[n]
           /\ \/ b.phase = "sending" /\ requesting' = map
              \/ b.phase = "freed" /\ requesting' = [map EXCEPT ![n][nextId[n]] = None]
    <3>1. RequestShape(k, c, map)
      BY <2>1, <2>2, OnRequestTimerShape
    <3> QED
      BY <2>3, <3>1 DEF RequestShape
  <2>6. req'[k] = b /\ \A j \in Call \ {k} : req'[j] = req[j]
    BY <2>1, <2>5 DEF TypeOK
  <2>7. ASSUME NEW j \in Call, Counted(j)', j # k
        PROVE  /\ Counted(j) /\ req'[j].from = req[j].from /\ req'[j].id = req[j].id
               /\ req[j].from = n => req[j].id < nextId[n]
    <3>1. Counted(j)
      BY <2>6, <2>7 DEF Counted, Live, Issued
    <3> QED
      BY <1>0, <2>1, <2>6, <2>7, <3>1 DEF CounterAhead
  <2>8. Distinct'
    <3>1. ASSUME NEW j \in Call, Counted(j)', req'[j].from = n, req'[j].id = nextId[n]
          PROVE  j = k
      <4>1. req'[j].id \in Int /\ nextId[n] \in Int
        BY <2>3, <3>1 DEF Id
      <4> QED
        BY <2>7, <3>1, <4>1
    <3>2. ASSUME NEW i \in Call, NEW j \in Call, Counted(i)', Counted(j)',
                 req'[i].from = req'[j].from, req'[i].id = req'[j].id
          PROVE  i = j
      <4>1. CASE i = k \/ j = k
        BY <2>5, <2>6, <3>1, <3>2, <4>1
      <4>2. CASE i # k /\ j # k
        BY <1>0, <2>7, <3>2, <4>2 DEF Distinct
      <4> QED
        BY <4>1, <4>2
    <3> QED
      BY <3>2 DEF Distinct
  <2>9. CounterAhead'
    <3> SUFFICES ASSUME made' < MaxCalls, NEW p \in Node
                 PROVE  /\ nextId'[p] <= made' + 1
                        /\ \A j \in Call : Counted(j)' /\ req'[j].from = p => req'[j].id < nextId'[p]
      BY DEF CounterAhead
    <3>1. /\ nextId[p] <= made + 1 /\ nextId[p] \in Nat /\ made' = made + 1
          /\ \A j \in Call : req'[j].id \in Nat
      <4>1. nextId[p] \in Id /\ \A j \in Call : req'[j].id \in Id
        BY DEF TypeOK, RequestBlock
      <4> QED
        BY <1>0, <2>0, <2>1, <2>2, <4>1 DEF CounterAhead, Id
    <3>2. CASE p # n
      <4>1. nextId'[p] = nextId[p] /\ nextId'[p] <= made' + 1
        BY <1>0, <2>2, <3>1, <3>2 DEF TypeOK
      <4>2. ASSUME NEW j \in Call, Counted(j)', req'[j].from = p
            PROVE  req'[j].id < nextId'[p]
        <5>1. j # k
          BY <2>5, <2>6, <3>2, <4>2
        <5> QED
          BY <1>0, <2>1, <2>7, <4>1, <4>2, <5>1 DEF CounterAhead
      <4> QED
        BY <4>1, <4>2
    <3>3. CASE p = n
      <4>1. nextId'[p] = nextId[p] + 1
        <5>1. nextId[p] # MaxId
          BY <1>0, <3>1
        <5>2. nextId'[p] = NextId(nextId[p])
          BY <2>2, <3>3 DEF TypeOK
        <5> QED
          BY <5>1, <5>2 DEF NextId
      <4>2. nextId'[p] <= made' + 1
        BY <1>0, <3>1, <4>1
      <4>3. ASSUME NEW j \in Call, Counted(j)', req'[j].from = p
            PROVE  req'[j].id < nextId'[p]
        <5>1. CASE j = k
          BY <2>5, <2>6, <3>1, <3>3, <4>1, <5>1
        <5>2. CASE j # k
          <6>1. req'[j].id < nextId[p]
            BY <2>7, <3>3, <4>3, <5>2
          <6> QED
            BY <3>1, <4>1, <6>1
        <5> QED
          BY <5>1, <5>2
      <4> QED
        BY <4>2, <4>3
    <3> QED
      BY <3>2, <3>3
  <2>10. MappedUntilFreed'
    <3> SUFFICES ASSUME NEW j \in Call, Live(j)'
                 PROVE  requesting'[req'[j].from][req'[j].id] = j
      BY DEF MappedUntilFreed
    <3>1. CASE j = k
      <4>1. b.phase # "freed"
        BY <2>6, <3>1 DEF Live
      <4> QED
        BY <2>3, <2>4, <2>5, <2>6, <3>1, <4>1 DEF TypeOK
    <3>2. CASE j # k
      <4>1. Live(j) /\ req'[j] = req[j]
        BY <2>6, <3>2 DEF Live
      <4>2. req[j].from \in Node /\ req[j].id \in Id
        BY DEF TypeOK, RequestBlock
      <4>3. ~(req[j].from = n /\ req[j].id = nextId[n])
        <5>1. Counted(j)'
          BY DEF Counted
        <5>2. req[j].id \in Int
          BY <4>2 DEF Id
        <5> QED
          BY <2>7, <3>2, <5>1, <5>2
      <4>4. requesting'[req[j].from][req[j].id] = requesting[req[j].from][req[j].id]
        BY <2>3, <2>4, <2>5, <4>2, <4>3 DEF TypeOK
      <4> QED
        BY <1>0, <4>1, <4>4 DEF MappedUntilFreed
    <3> QED
      BY <3>1, <3>2
  <2> QED
    BY <2>8, <2>9, <2>10
<1>2. ASSUME NEW k \in Call, RequestSent(k)
      PROVE  CounterAhead' /\ Distinct' /\ MappedUntilFreed'
  <2>1. /\ req' = [req EXCEPT ![k] = Transmitted(req[k])]
        /\ Issued(k) /\ Live(k) /\ req[k] \in RequestBlock
        /\ UNCHANGED <<made, nextId, requesting>>
    BY <1>2 DEF RequestSent, Issued, Live, TypeOK
  <2>2. /\ Transmitted(req[k]) \in RequestBlock
        /\ Transmitted(req[k]).from = req[k].from /\ Transmitted(req[k]).id = req[k].id
    BY <2>1, BlockType, BlockFields
  <2>3. made' >= made
    BY <1>0, <2>1
  <2> QED
    BY <1>0, <2>1, <2>2, <2>3, MarkKeeps, UniqueKept, MappedKept
<1>3. ASSUME NEW m \in net, FeedReply(m)
      PROVE  CounterAhead' /\ Distinct' /\ MappedUntilFreed'
  <2>0. PICK k : k = requesting[m.to][m.id]
    OBVIOUS
  <2>1. /\ m.to \in Node /\ m.id \in Id /\ k \in Call /\ k # None
        /\ req' = [req EXCEPT ![k] = Settled(@)]
        /\ UNCHANGED <<made, nextId, requesting>>
    BY <1>3, <2>0 DEF TypeOK, Message, FeedReply, Addressee
  <2>2. Live(k) /\ Issued(k) /\ req[k] \in RequestBlock /\ made' >= made
    BY <1>0, <2>0, <2>1 DEF NoDanglingControl, Live, Issued, TypeOK
  <2>3. /\ Settled(req[k]) \in RequestBlock
        /\ Settled(req[k]).from = req[k].from /\ Settled(req[k]).id = req[k].id
    BY <2>2, BlockType, BlockFields
  <2> QED
    BY <1>0, <2>1, <2>2, <2>3, MarkKeeps, UniqueKept, MappedKept
<1>4. ASSUME NEW k \in Call, RequestSendFailed(k) \/ RequestTimer(k)
      PROVE  CounterAhead' /\ Distinct' /\ MappedUntilFreed'
  <2> DEFINE c == req[k]
  <2>1. /\ OnRequestTimer(k, c, requesting, TRUE)
           \/ OnRequestTimer(k, c, requesting, FALSE)
        /\ UNCHANGED <<made, nextId>>
        /\ Issued(k) /\ Live(k)
    BY <1>4 DEF RequestSendFailed, RequestTimer, Issued, Live
  <2>2. c \in RequestBlock
    BY DEF TypeOK
  <2> HIDE DEF c
  <2>3. PICK b \in RequestBlock :
           /\ req' = [req EXCEPT ![k] = b]
           /\ b.from = req[k].from /\ b.id = req[k].id
           /\ \/ b.phase = "sending" /\ requesting' = requesting
              \/ /\ b.phase = "freed"
                 /\ requesting' = [requesting EXCEPT ![req[k].from][req[k].id] = None]
    <3>1. RequestShape(k, c, requesting)
      BY <2>1, <2>2, OnRequestTimerShape
    <3> QED
      BY <3>1 DEF RequestShape, c
  <2>4. /\ req'[k] = b
        /\ \A j \in Call : Counted(j)' =>
             Counted(j) /\ req'[j].from = req[j].from /\ req'[j].id = req[j].id
        /\ \A j \in Call : Live(j)' =>
             Live(j) /\ req'[j].from = req[j].from /\ req'[j].id = req[j].id
    BY <2>1, <2>3, MarkKeeps
  <2>5. made' >= made
    BY <1>0, <2>1
  <2>6. CounterAhead' /\ Distinct'
    BY <1>0, <2>1, <2>4, <2>5, UniqueKept
  <2>7. ASSUME b.phase = "freed"
        PROVE  MappedUntilFreed'
    <3> SUFFICES ASSUME NEW j \in Call, Live(j)'
                 PROVE  requesting'[req'[j].from][req'[j].id] = j
      BY DEF MappedUntilFreed, NoWrap
    <3>1. j # k
      BY <2>4, <2>7 DEF Live
    <3>2. Live(j) /\ req'[j].from = req[j].from /\ req'[j].id = req[j].id
      BY <2>4
    <3>3. ~(req[j].from = req[k].from /\ req[j].id = req[k].id)
      BY <1>0, <2>1, <3>1, <3>2 DEF Distinct, Counted
    <3>4. /\ req[j].from \in Node /\ req[j].id \in Id
          /\ req[k].from \in Node /\ req[k].id \in Id
      BY DEF TypeOK, RequestBlock
    <3>5. requesting'[req[j].from][req[j].id] = requesting[req[j].from][req[j].id]
      <4>1. requesting' = [requesting EXCEPT ![req[k].from][req[k].id] = None]
        BY <2>3, <2>7
      <4>2. requesting \in [Node -> [Id -> Call \cup {None}]]
        BY DEF TypeOK
      <4> QED
        BY <3>3, <3>4, <4>1, <4>2
    <3> QED
      BY <1>0, <2>6, <3>2, <3>5 DEF MappedUntilFreed
  <2>8. CASE b.phase # "freed"
    BY <1>0, <2>3, <2>4, <2>6, <2>8, MappedKept
  <2> QED
    BY <2>6, <2>7, <2>8
<1>5. ASSUME UNCHANGED <<nextId, req, requesting>>, made' >= made
      PROVE  CounterAhead' /\ Distinct' /\ MappedUntilFreed'
  <2>1. ASSUME NEW k \in Call
        PROVE  /\ Counted(k)' => Counted(k)
               /\ Live(k)' => Live(k)
               /\ req'[k].from = req[k].from /\ req'[k].id = req[k].id
    BY <1>5 DEF Counted, Live, Issued
  <2> QED
    BY <1>0, <1>5, <2>1, UniqueKept, MappedKept
<1>6. ASSUME NEW n \in Node, Restart(n)
      PROVE  CounterAhead' /\ Distinct' /\ MappedUntilFreed'
  <2>1. /\ n \in Volatile /\ made' = made
        /\ nextId' = [nextId EXCEPT ![n] = 1]
        /\ requesting' = [requesting EXCEPT ![n] = [i \in Id |-> None]]
    BY <1>6 DEF Restart
  <2>2. ASSUME NEW k \in Call, Counted(k)'
        PROVE  Counted(k) /\ req'[k] = req[k] /\ req[k].from # n
    <3>1. CASE Live(k) /\ req[k].from = n
      <4>1. req'[k] = [req[k] EXCEPT !.phase = "freed"] /\ req[k] \in RequestBlock
        BY <1>6, <3>1 DEF Restart, TypeOK
      <4>2. req'[k].phase = "freed" /\ req'[k].from = n
        BY <3>1, <4>1 DEF RequestBlock
      <4> QED
        BY <2>1, <2>2, <4>2 DEF Counted, Live
    <3>2. CASE ~(Live(k) /\ req[k].from = n)
      <4>1. req'[k] = req[k]
        BY <1>6, <3>2 DEF Restart
      <4> QED
        BY <2>1, <2>2, <3>2, <4>1 DEF Counted, Live, Issued
    <3> QED
      BY <3>1, <3>2
  <2>3. Distinct'
    BY <1>0, <2>2 DEF Distinct
  <2>4. CounterAhead'
    <3> SUFFICES ASSUME made' < MaxCalls, NEW p \in Node
                 PROVE  /\ nextId'[p] <= made' + 1
                        /\ \A k \in Call : Counted(k)' /\ req'[k].from = p => req'[k].id < nextId'[p]
      BY DEF CounterAhead
    <3>1. CASE p = n
      <4>1. nextId'[p] = 1
        BY <2>1, <3>1 DEF TypeOK
      <4> QED
        BY <1>0, <2>1, <2>2, <3>1, <4>1
    <3>2. CASE p # n
      <4>1. nextId'[p] = nextId[p]
        BY <2>1, <3>2 DEF TypeOK
      <4> QED
        BY <1>0, <2>1, <2>2, <4>1 DEF CounterAhead
    <3> QED
      BY <3>1, <3>2
  <2>5. MappedUntilFreed'
    <3> SUFFICES ASSUME NEW k \in Call, Live(k)'
                 PROVE  requesting'[req'[k].from][req'[k].id] = k
      BY DEF MappedUntilFreed
    <3>1. req'[k] = req[k] /\ req[k].from # n
      BY <2>2 DEF Counted
    <3>2. Live(k) /\ req[k].from \in Node
      BY <3>1 DEF Live, TypeOK, RequestBlock
    <3>3. requesting'[req[k].from] = requesting[req[k].from]
      BY <2>1, <3>1, <3>2 DEF TypeOK
    <3> QED
      BY <1>0, <3>1, <3>2, <3>3 DEF MappedUntilFreed
  <2> QED
    BY <2>3, <2>4, <2>5
<1>7. CASE SendRefused \/ UNCHANGED vars
  <2>1. UNCHANGED <<nextId, req, requesting>> /\ (made' = made \/ made' = made + 1)
    BY <1>7 DEF SendRefused, vars
  <2>2. made' >= made
    BY <1>0, <2>1
  <2> QED
    BY <1>5, <2>1, <2>2
<1>8. ASSUME NEW m \in net, FeedRequest(m)
      PROVE  CounterAhead' /\ Distinct' /\ MappedUntilFreed'
  <2>1. UNCHANGED <<nextId, req, requesting, made>>
    BY <1>8 DEF FeedRequest
  <2> QED
    BY <1>0, <1>5, <2>1
<1>9. ASSUME NEW n \in Node, NEW s \in Node \X Id, ReplyStep(n, s)
      PROVE  CounterAhead' /\ Distinct' /\ MappedUntilFreed'
  <2>1. UNCHANGED <<nextId, req, requesting, made>>
    BY <1>9 DEF ReplyStep, ReplySent, ReplySendFailed, ReplyTimer
  <2> QED
    BY <1>0, <1>5, <2>1
<1> QED
  BY <1>1, <1>2, <1>3, <1>4, <1>6, <1>7, <1>8, <1>9 DEF Next, RequestStep

LEMMA UniqueAlways == Spec => [](TypeOK /\ IdInv /\ UniqueInv)
  BY TypeCorrect, IdAlways, UniqueInit, UniqueStep, PTL DEF Spec

LEMMA UniqueAnswers == TypeOK /\ IdInv /\ UniqueInv => AnswerMatchesCall
<1> SUFFICES ASSUME TypeOK, IdInv, UniqueInv, NEW k \in Call, NoWrap,
                    req[k].from \notin Volatile, NEW j \in answers[k]
             PROVE  j = k
  BY DEF AnswerMatchesCall
<1>1. j \in Call /\ Issued(k) /\ MadeUnder(j, req[k].from, req[k].id)
  BY DEF TypeOK, IdInv, AnswerIds
<1>2. Counted(j) /\ Counted(k)
  BY <1>1 DEF Counted, MadeUnder
<1> QED
  BY <1>1, <1>2 DEF UniqueInv, Distinct, MadeUnder

\* A caller that neither restarts nor has used all its ids is only handed the answer to
\* the call it made (Rpc.h:93-97, 164-170), whatever the network delays or repeats.
THEOREM AnswerCorrect == Spec => []AnswerMatchesCall
  BY UniqueAnswers, UniqueAlways, PTL

\* An outstanding request stands in the map under its id until it is freed, so a reply to
\* it finds it (Rpc.h:130, 201), as long as ids have not wrapped.
THEOREM MappedCorrect == Spec => []MappedUntilFreed
<1>1. UniqueInv => MappedUntilFreed
  BY DEF UniqueInv, MappedUntilFreed
<1> QED
  BY <1>1, UniqueAlways, PTL

-----------------------------------------------------------------------------
(* An answer comes after the handler has run.                               *)

ExecutedInv ==
  /\ \A m \in net : m.type = "REPLY" => m.call \in executed
  /\ \A n \in Node, s \in Node \X Id :
       replying[n][s].phase # "absent" => replying[n][s].call \in executed
  /\ \A k \in Call : answers[k] \subseteq executed
  /\ executed \subseteq 1 .. made

LEMMA ExecutedInit == Init => ExecutedInv
<1> SUFFICES ASSUME Init PROVE ExecutedInv
  OBVIOUS
<1>1. net = {} /\ executed = {} /\ \A k \in Call : answers[k] = {}
  BY DEF Init
<1>2. \A n \in Node, s \in Node \X Id : replying[n][s].phase = "absent"
  BY DEF Init, Absent
<1> QED
  BY <1>1, <1>2 DEF ExecutedInv

LEMMA ExecutedStep ==
  TypeOK /\ TypeOK' /\ IdInv /\ ExecutedInv /\ [Next]_vars => ExecutedInv'
<1> SUFFICES ASSUME TypeOK, TypeOK', IdInv, ExecutedInv, [Next]_vars
             PROVE  ExecutedInv'
  OBVIOUS
<1>0. made \in Int /\ made' \in Int
  BY DEF TypeOK
<1>1. ASSUME UNCHANGED <<net, replying, answers, executed>>,
             made' = made \/ made' = made + 1
      PROVE  ExecutedInv'
  BY <1>0, <1>1 DEF ExecutedInv
<1>2. ASSUME NEW n \in Node, NEW to \in Node, Send(n, to)
      PROVE  ExecutedInv'
  <2> DEFINE k == made + 1
             c == [phase |-> "waiting", from |-> n, to |-> to, id |-> nextId[n],
                   remain |-> Int8(Retry), sent |-> 0]
             map == [requesting EXCEPT ![n][c.id] = k]
  <2>1. k \in Call /\ c \in RequestBlock
    BY <1>2, SendBlockType DEF Send
  <2>2. OnRequestTimer(k, c, map, FALSE)
    BY <1>2 DEF Send
  <2>3. UNCHANGED <<net, replying, executed>> /\ made' = made + 1
    BY <1>2 DEF Send
  <2> HIDE DEF k, c, map
  <2>4. answers' = answers
    BY <2>1, <2>2, OnRequestTimerShape DEF RequestShape
  <2> QED
    BY <1>1, <2>3, <2>4
<1>3. CASE SendRefused \/ UNCHANGED vars
  BY <1>1, <1>3 DEF SendRefused, vars
<1>4. ASSUME NEW k \in Call, RequestSent(k)
      PROVE  ExecutedInv'
  <2>1. /\ net' = net \cup {RequestMessage(k)}
        /\ UNCHANGED <<made, replying, answers, executed>>
    BY <1>4 DEF RequestSent, history
  <2>2. RequestMessage(k).type = "REQUEST"
    BY DEF RequestMessage
  <2> QED
    BY <2>1, <2>2 DEF ExecutedInv
<1>5. ASSUME NEW k \in Call, RequestSendFailed(k) \/ RequestTimer(k)
      PROVE  ExecutedInv'
  <2> DEFINE c == req[k]
  <2>1. /\ OnRequestTimer(k, c, requesting, TRUE)
           \/ OnRequestTimer(k, c, requesting, FALSE)
        /\ UNCHANGED <<made, net, replying, executed>>
    BY <1>5 DEF RequestSendFailed, RequestTimer
  <2>2. c \in RequestBlock
    BY DEF TypeOK
  <2> HIDE DEF c
  <2>3. answers' = answers
    BY <2>1, <2>2, OnRequestTimerShape DEF RequestShape
  <2> QED
    BY <1>1, <2>1, <2>3
<1>6. ASSUME NEW m \in net, FeedRequest(m)
      PROVE  ExecutedInv'
  <2> DEFINE s == <<m.from, m.id>>
             c == [phase |-> "waiting", call |-> m.call,
                   remain |-> Int8(Retry), sent |-> 0]
  <2>1. /\ UNCHANGED <<made, net, answers>> /\ m.type = "REQUEST"
        /\ executed' = executed \cup {m.call}
        /\ OnReplyTimer(m.to, s, c, FALSE) \/ replying' = replying
    BY <1>6 DEF FeedRequest, history
  <2>2. m.to \in Node /\ s \in Node \X Id /\ m.call \in Call
    BY DEF TypeOK, Message
  <2>3. c \in ReplyBlock /\ c.call = m.call
    <3>1. Int8(Retry) \in Byte
      BY RetryByte
    <3> QED
      BY <2>2, <3>1 DEF ReplyBlock
  <2> HIDE DEF s, c
  <2>4. m.call \in 1 .. made
    BY <2>1 DEF IdInv, NetIds, MadeUnder
  <2>5. ASSUME NEW n \in Node, NEW t \in Node \X Id, replying'[n][t].phase # "absent"
        PROVE  replying'[n][t].call \in executed'
    <3>1. CASE replying' = replying
      BY <2>1, <2>5, <3>1 DEF ExecutedInv
    <3>2. CASE OnReplyTimer(m.to, s, c, FALSE)
      <4>1. PICK b : /\ replying' = [replying EXCEPT ![m.to][s] = b]
                     /\ b.phase # "absent" => b.call = m.call
        <5>1. ReplyShape(m.to, s, c)
          BY <2>2, <2>3, <3>2, OnReplyTimerShape
        <5> QED
          BY <2>3, <5>1 DEF ReplyShape
      <4>2. CASE n = m.to /\ t = s
        BY <2>1, <2>2, <2>5, <4>1, <4>2 DEF TypeOK
      <4>3. CASE ~(n = m.to /\ t = s)
        <5>1. replying'[n][t] = replying[n][t]
          BY <2>2, <4>1, <4>3 DEF TypeOK
        <5> QED
          BY <2>1, <2>5, <5>1 DEF ExecutedInv
      <4> QED
        BY <4>2, <4>3
    <3> QED
      BY <2>1, <3>1, <3>2
  <2> QED
    BY <2>1, <2>4, <2>5 DEF ExecutedInv
<1>7. ASSUME NEW m \in net, FeedReply(m)
      PROVE  ExecutedInv'
  <2>0. PICK k : k = requesting[m.to][m.id]
    OBVIOUS
  <2>1. /\ m.to \in Node /\ m.id \in Id /\ k \in Call /\ m.type = "REPLY"
        /\ answers' = [answers EXCEPT ![k] = @ \cup {m.call}]
        /\ UNCHANGED <<made, net, replying, executed>>
    BY <1>7, <2>0 DEF TypeOK, Message, FeedReply, Addressee
  <2>2. m.call \in executed
    BY <2>1 DEF ExecutedInv
  <2>3. \A j \in Call : answers'[j] \subseteq executed
    BY <2>1, <2>2 DEF ExecutedInv, TypeOK
  <2> QED
    BY <2>1, <2>3 DEF ExecutedInv
<1>8. ASSUME NEW n \in Node, NEW s \in Node \X Id, ReplySent(n, s)
      PROVE  ExecutedInv'
  <2>1. /\ replying[n][s].phase = "sending"
        /\ net' = net \cup {ReplyMessage(n, s)}
        /\ replying' = [replying EXCEPT ![n][s] = Transmitted(replying[n][s])]
        /\ UNCHANGED <<made, answers, executed>>
    BY <1>8 DEF ReplySent, history
  <2>2. replying[n][s].call \in executed
    BY <2>1 DEF ExecutedInv
  <2>3. Transmitted(replying[n][s]).call = replying[n][s].call
    BY <2>1, PresentType, BlockFields
  <2>4. \A m \in net' : m.type = "REPLY" => m.call \in executed
    BY <2>1, <2>2 DEF ReplyMessage, ExecutedInv
  <2>5. ASSUME NEW p \in Node, NEW t \in Node \X Id, replying'[p][t].phase # "absent"
        PROVE  replying'[p][t].call \in executed
    BY <2>1, <2>2, <2>3, <2>5 DEF ExecutedInv, TypeOK
  <2> QED
    BY <2>1, <2>4, <2>5 DEF ExecutedInv
<1>9. ASSUME NEW n \in Node, NEW s \in Node \X Id, ReplySendFailed(n, s) \/ ReplyTimer(n, s)
      PROVE  ExecutedInv'
  <2> DEFINE c == replying[n][s]
  <2>1. /\ OnReplyTimer(n, s, c, TRUE) \/ OnReplyTimer(n, s, c, FALSE)
        /\ c.phase # "absent"
        /\ UNCHANGED <<made, net, answers, executed>>
    BY <1>9 DEF ReplySendFailed, ReplyTimer, history
  <2>2. c \in ReplyBlock /\ c.call \in executed
    BY <2>1, PresentType DEF ExecutedInv
  <2> HIDE DEF c
  <2>3. PICK b : /\ replying' = [replying EXCEPT ![n][s] = b]
                 /\ b.phase # "absent" => b.call = c.call
    <3>1. ReplyShape(n, s, c)
      BY <2>1, <2>2, OnReplyTimerShape
    <3> QED
      BY <3>1 DEF ReplyShape
  <2>4. ASSUME NEW p \in Node, NEW t \in Node \X Id, replying'[p][t].phase # "absent"
        PROVE  replying'[p][t].call \in executed
    <3>1. CASE p = n /\ t = s
      BY <2>2, <2>3, <2>4, <3>1 DEF TypeOK
    <3>2. CASE ~(p = n /\ t = s)
      <4>1. replying'[p][t] = replying[p][t]
        BY <2>3, <3>2 DEF TypeOK
      <4> QED
        BY <2>4, <4>1 DEF ExecutedInv
    <3> QED
      BY <3>1, <3>2
  <2> QED
    BY <2>1, <2>4 DEF ExecutedInv
<1>10. ASSUME NEW n \in Node, Restart(n)
       PROVE  ExecutedInv'
  <2>1. UNCHANGED <<made, net, answers, executed>>
    BY <1>10 DEF Restart, history
  <2>2. ASSUME NEW p \in Node, NEW t \in Node \X Id, replying'[p][t].phase # "absent"
        PROVE  replying'[p][t] = replying[p][t]
    BY <1>10, <2>2 DEF Restart, TypeOK, Absent
  <2> QED
    BY <2>1, <2>2 DEF ExecutedInv
<1> QED
  BY <1>2, <1>3, <1>4, <1>5, <1>6, <1>7, <1>8, <1>9, <1>10 DEF Next, RequestStep, ReplyStep

-----------------------------------------------------------------------------
(* Rpc implements RpcService, step by step.                                 *)

TimedOut == {k \in Served : "timed_out" \in errors[k]}
Broken == {k \in Served : errors[k] \cap {"io_error", "no_buffer_space"} # {}}
HeardAnswers == [k \in Call |-> IF k \in Served THEN answers[k] ELSE {}]

LEMMA ServiceVars ==
  UNCHANGED <<Served, executed \cap Served, HeardAnswers, TimedOut, Broken>>
    => UNCHANGED Service!vars
  BY DEF Service!vars, HeardAnswers, TimedOut, Broken

LEMMA ServiceInit == Init => Service!Init
<1> SUFFICES ASSUME Init PROVE Service!Init
  OBVIOUS
<1>1. made = 0 /\ executed = {}
  BY DEF Init
<1>2. Served = {}
  BY <1>1 DEF Served
<1> QED
  BY <1>1, <1>2 DEF Service!Init

\* A step that makes no call keeps the callers.
SameCallers ==
  /\ made' = made
  /\ \A k \in Call : req'[k].from = req[k].from

LEMMA ServedKept ==
  ASSUME TypeOK, SameCallers
  PROVE  Served' = Served /\ Served \subseteq Call
<1>1. made \in 0 .. MaxCalls
  BY DEF TypeOK
<1>2. 1 .. made \subseteq Call
  BY <1>1, Parameters DEF Call
<1>3. Served \subseteq Call
  BY <1>2 DEF Served
<1> QED
  BY <1>2, <1>3 DEF SameCallers, Served

\* A step that concerns no served call does nothing of the service.
LEMMA ServiceStutters ==
  ASSUME Served' = Served, executed' \cap Served = executed \cap Served,
         \A k \in Served : answers'[k] = answers[k] /\ errors'[k] = errors[k]
  PROVE  UNCHANGED Service!vars
<1>1. HeardAnswers' = HeardAnswers
  BY DEF HeardAnswers
<1>2. TimedOut' = TimedOut /\ Broken' = Broken
  BY DEF TimedOut, Broken
<1> QED
  BY <1>1, <1>2, ServiceVars

\* The steps of the service, in terms of Rpc.
LEMMA ServiceIssue ==
  ASSUME NEW k \in Call, k \notin Served, Served' = Served \cup {k},
         TimedOut' \in {TimedOut, TimedOut \cup {k}},
         Broken' \in {Broken, Broken \cup {k}},
         UNCHANGED <<executed \cap Served, HeardAnswers>>
  PROVE  Service!Next
<1>1. Service!Issue(k)
  BY Zenon DEF Service!Issue, HeardAnswers, TimedOut, Broken
<1> QED
  BY <1>1, Zenon DEF Service!Next

LEMMA ServiceExecute ==
  ASSUME NEW k \in Call, k \in Served,
         (executed \cap Served)' = (executed \cap Served) \cup {k},
         UNCHANGED <<Served, HeardAnswers, TimedOut, Broken>>
  PROVE  Service!Next
<1>1. Service!Execute(k)
  BY Zenon DEF Service!Execute, HeardAnswers, TimedOut, Broken
<1> QED
  BY <1>1, Zenon DEF Service!Next

LEMMA ServiceAnswer ==
  ASSUME NEW k \in Call, k \in executed \cap Served, k \notin TimedOut \cup Broken,
         HeardAnswers' = [HeardAnswers EXCEPT ![k] = {k}],
         UNCHANGED <<Served, executed \cap Served, TimedOut, Broken>>
  PROVE  Service!Next
<1>1. Service!Answer(k)
  BY Zenon DEF Service!Answer, Service!Ended, HeardAnswers, TimedOut, Broken
<1> QED
  BY <1>1, Zenon DEF Service!Next

LEMMA ServiceTimeOut ==
  ASSUME NEW k \in Call, k \in Served, k \notin TimedOut \cup Broken,
         HeardAnswers[k] = {}, TimedOut' = TimedOut \cup {k},
         UNCHANGED <<Served, executed \cap Served, HeardAnswers, Broken>>
  PROVE  Service!Next
<1>1. Service!TimeOut(k)
  BY Zenon DEF Service!TimeOut, Service!Ended, HeardAnswers, TimedOut, Broken
<1> QED
  BY <1>1, Zenon DEF Service!Next

LEMMA ServiceBreak ==
  ASSUME NEW k \in Call, k \in Served, k \notin TimedOut \cup Broken,
         Broken' = Broken \cup {k},
         UNCHANGED <<Served, executed \cap Served, HeardAnswers, TimedOut>>
  PROVE  Service!Next
<1>1. Service!Break(k)
  BY Zenon DEF Service!Break, Service!Ended, HeardAnswers, TimedOut, Broken
<1> QED
  BY <1>1, Zenon DEF Service!Next

\* A call is made, whatever its end: the service issues it, or is not concerned.
LEMMA CallMade ==
  ASSUME TypeOK, TypeOK', ExecutedInv, NEW k \in Call, k = made + 1, made' = k,
         \A j \in Call \ {k} : req'[j].from = req[j].from /\ errors'[j] = errors[j],
         answers' = answers, answers[k] = {}, executed' = executed
  PROVE  Service!Next \/ UNCHANGED Service!vars
<1>1. /\ made \in Nat /\ made' \in Nat /\ 1 .. made \subseteq Call /\ k \notin 1 .. made
      /\ 1 .. made' = (1 .. made) \cup {k}
  <2>0. MaxCalls \in Nat
    BY Parameters
  <2>1. made \in 0 .. MaxCalls /\ MaxCalls \in Nat
    BY <2>0 DEF TypeOK
  <2>2. made \in Nat /\ made' \in Nat /\ k \notin 1 .. made
    BY <2>1
  <2>3. 1 .. made \subseteq Call
    BY <2>1 DEF Call
  <2>4. 1 .. made' = (1 .. made) \cup {k}
    BY <2>2
  <2> QED
    BY <2>2, <2>3, <2>4
<1>2. k \notin Served /\ Served \subseteq Call \ {k} /\ k \notin executed
  BY <1>1 DEF Served, ExecutedInv
<1>3. CASE req'[k].from \notin Volatile
  <2>1. Served' = Served \cup {k}
    BY <1>1, <1>3 DEF Served
  <2>2. (executed \cap Served)' = executed \cap Served
    BY <1>2, <2>1
  <2>3. HeardAnswers' = HeardAnswers
    BY <1>2, <2>1 DEF HeardAnswers
  <2>4. TimedOut' \in {TimedOut, TimedOut \cup {k}}
    <3>1. CASE "timed_out" \in errors'[k]
      <4>1. TimedOut' = TimedOut \cup {k}
        BY <1>2, <2>1, <3>1 DEF TimedOut
      <4> QED
        BY <4>1
    <3>2. CASE "timed_out" \notin errors'[k]
      <4>1. TimedOut' = TimedOut
        BY <1>2, <2>1, <3>2 DEF TimedOut
      <4> QED
        BY <4>1
    <3> QED
      BY <3>1, <3>2
  <2>5. Broken' \in {Broken, Broken \cup {k}}
    <3>1. CASE errors'[k] \cap {"io_error", "no_buffer_space"} # {}
      <4>1. Broken' = Broken \cup {k}
        BY <1>2, <2>1, <3>1 DEF Broken
      <4> QED
        BY <4>1
    <3>2. CASE ~(errors'[k] \cap {"io_error", "no_buffer_space"} # {})
      <4>1. Broken' = Broken
        BY <1>2, <2>1, <3>2 DEF Broken
      <4> QED
        BY <4>1
    <3> QED
      BY <3>1, <3>2
  <2> QED
    BY <1>2, <2>1, <2>2, <2>3, <2>4, <2>5, ServiceIssue
<1>4. CASE req'[k].from \in Volatile
  <2>1. Served' = Served
    BY <1>1, <1>4 DEF Served
  <2> QED
    BY <1>2, <2>1, ServiceStutters
<1> QED
  BY <1>3, <1>4

\* The timer handler of a request, or its failed send: the end of the call, or nothing.
LEMMA CallTimer ==
  ASSUME TypeOK, TypeOK', NoneAhead, BudgetInv, BudgetInv', NEW k \in Call,
         RequestSendFailed(k) \/ RequestTimer(k)
  PROVE  Service!Next \/ UNCHANGED Service!vars
<1> DEFINE c == req[k]
           left == Int8(c.remain - 1)
<1>1. /\ c \in RequestBlock /\ made' = made /\ executed' = executed
      /\ OnRequestTimer(k, c, requesting, TRUE)
         \/ OnRequestTimer(k, c, requesting, FALSE)
  BY Zenon DEF TypeOK, RequestSendFailed, RequestTimer
<1>2. Live(k)
  BY DEF RequestSendFailed, RequestTimer, Live
<1>3. errors[k] = {} /\ errors \in [Call -> SUBSET {"timed_out", "io_error", "no_buffer_space"}]
  BY <1>2 DEF BudgetInv, CallBudget, TypeOK
<1> HIDE DEF c
<1>4. RequestShape(k, c, requesting)
  BY <1>1, OnRequestTimerShape
<1>5. /\ left \in Byte
      /\ \/ TimesOut(k, c, left, requesting)
         \/ EndsOtherwise(k, c, left, requesting)
         \/ Resends(k, c, left, requesting)
  BY <1>1, OnRequestTimerCases
<1> HIDE DEF left
<1>6. answers' = answers /\ SameCallers
  <2>1. PICK b \in RequestBlock : req' = [req EXCEPT ![k] = b] /\ b.from = req[k].from
    BY <1>4 DEF RequestShape, c
  <2> QED
    BY <1>1, <1>4, <2>1 DEF RequestShape, SameCallers, TypeOK
<1>7. Served' = Served /\ Served \subseteq Call
  BY <1>6, ServedKept
<1>8. /\ (executed \cap Served)' = executed \cap Served
      /\ HeardAnswers' = HeardAnswers
  BY <1>1, <1>6, <1>7 DEF HeardAnswers
<1>9. CASE errors' = errors
  BY <1>1, <1>6, <1>7, <1>9, ServiceStutters
<1>10. ASSUME NEW e \in {"timed_out", "io_error"},
              errors' = [errors EXCEPT ![k] = @ \cup {e}]
       PROVE  Service!Next \/ UNCHANGED Service!vars
  <2>1. errors'[k] = {e} /\ \A j \in Call \ {k} : errors'[j] = errors[j]
    BY <1>3, <1>10
  <2>2. CASE k \notin Served
    <3>1. \A j \in Served : errors'[j] = errors[j] /\ answers'[j] = answers[j]
      BY <1>6, <1>7, <2>1, <2>2
    <3> QED
      BY <1>1, <1>7, <3>1, ServiceStutters
  <2>3. CASE k \in Served /\ e = "timed_out"
    <3>1. k \notin TimedOut \cup Broken /\ TimedOut' = TimedOut \cup {k} /\ Broken' = Broken
      BY <1>3, <1>7, <2>1, <2>3 DEF TimedOut, Broken
    <3>2. answers'[k] = {}
      BY <2>1, <2>3 DEF BudgetInv, CallBudget
    <3>3. HeardAnswers[k] = {}
      BY <1>6, <3>2 DEF HeardAnswers
    <3> QED
      BY <1>7, <1>8, <2>3, <3>1, <3>3, ServiceTimeOut
  <2>4. CASE k \in Served /\ e = "io_error"
    <3>1. k \notin TimedOut \cup Broken /\ Broken' = Broken \cup {k} /\ TimedOut' = TimedOut
      BY <1>3, <1>7, <2>1, <2>4 DEF TimedOut, Broken
    <3> QED
      BY <1>7, <1>8, <2>4, <3>1, ServiceBreak
  <2> QED
    BY <2>2, <2>3, <2>4
<1>11. \/ errors' = errors
       \/ \E e \in {"timed_out", "io_error"} : errors' = [errors EXCEPT ![k] = @ \cup {e}]
  BY <1>5 DEF TimesOut, EndsOtherwise, Resends
<1> QED
  BY <1>9, <1>10, <1>11

\* A request arrives: its handler runs.
LEMMA CallExecuted ==
  ASSUME TypeOK, TypeOK', NEW m \in net, FeedRequest(m)
  PROVE  Service!Next \/ UNCHANGED Service!vars
<1>1. /\ UNCHANGED <<made, req, answers, errors>>
      /\ executed' = executed \cup {m.call} /\ m.call \in Call
  BY DEF FeedRequest, history, TypeOK, Message
<1>2. Served' = Served
  BY <1>1 DEF Served
<1>3. HeardAnswers' = HeardAnswers /\ TimedOut' = TimedOut /\ Broken' = Broken
  BY <1>1, <1>2 DEF HeardAnswers, TimedOut, Broken
<1>4. CASE m.call \in Served
  <2>1. (executed \cap Served)' = (executed \cap Served) \cup {m.call}
    BY <1>1, <1>2, <1>4
  <2> QED
    BY <1>1, <1>2, <1>3, <1>4, <2>1, ServiceExecute
<1>5. CASE m.call \notin Served
  <2>1. (executed \cap Served)' = executed \cap Served
    BY <1>1, <1>2, <1>5
  <2> QED
    BY <1>2, <1>3, <2>1, ServiceVars
<1> QED
  BY <1>4, <1>5

\* A reply arrives at its call: a served one hears its own answer.
LEMMA CallAnswered ==
  ASSUME TypeOK, TypeOK', NoWrap, NoDanglingControl, BudgetInv, ExecutedInv,
         AnswerMatchesCall', NEW m \in net, FeedReply(m)
  PROVE  Service!Next \/ UNCHANGED Service!vars
<1>0. PICK k : k = requesting[m.to][m.id]
  OBVIOUS
<1>1. /\ m.to \in Node /\ m.id \in Id /\ k \in Call /\ k # None /\ m.type = "REPLY"
      /\ answers' = [answers EXCEPT ![k] = @ \cup {m.call}]
      /\ req' = [req EXCEPT ![k] = Settled(@)]
      /\ UNCHANGED <<made, errors, executed>>
  BY <1>0 DEF TypeOK, Message, FeedReply, Addressee
<1>2. Live(k) /\ req[k] \in RequestBlock
  BY <1>0, <1>1 DEF NoDanglingControl, TypeOK
<1>3. SameCallers
  <2>1. Settled(req[k]).from = req[k].from
    BY <1>2, BlockFields
  <2> QED
    BY <1>1, <2>1 DEF SameCallers, TypeOK
<1>4. Served' = Served /\ Served \subseteq Call
  BY <1>3, ServedKept
<1>5. TimedOut' = TimedOut /\ Broken' = Broken /\ (executed \cap Served)' = executed \cap Served
  BY <1>1, <1>4 DEF TimedOut, Broken
<1>6. CASE k \in Served
  <2>1. m.call \in answers'[k] /\ m.call \in executed
    BY <1>1 DEF TypeOK, ExecutedInv
  <2>2. answers'[k] \subseteq {k}
    <3>1. req'[k].from \notin Volatile
      BY <1>1, <1>3, <1>6, Zenon DEF SameCallers, Served
    <3> QED
      BY <1>1, <3>1, Zenon DEF AnswerMatchesCall, NoWrap
  <2>3. answers'[k] = {k} /\ k \in executed
    BY <2>1, <2>2
  <2>4. errors[k] = {}
    BY <1>1, <1>2 DEF BudgetInv, CallBudget
  <2>5. k \notin TimedOut \cup Broken
    BY <2>4 DEF TimedOut, Broken
  <2>6. \A j \in Call \ {k} : answers'[j] = answers[j]
    BY <1>1 DEF TypeOK
  <2>7. HeardAnswers' = [HeardAnswers EXCEPT ![k] = {k}]
    BY <1>1, <1>4, <1>6, <2>3, <2>6 DEF HeardAnswers
  <2> QED
    BY <1>1, <1>4, <1>5, <1>6, <2>3, <2>5, <2>7, ServiceAnswer
<1>7. CASE k \notin Served
  <2>1. \A j \in Served : answers'[j] = answers[j] /\ errors'[j] = errors[j]
    BY <1>1, <1>4, <1>7 DEF TypeOK
  <2> QED
    BY <1>1, <1>4, <2>1, ServiceStutters
<1> QED
  BY <1>6, <1>7

LEMMA ServiceStep ==
  NoWrap /\ TypeOK /\ IdInv /\ BudgetInv /\ ExecutedInv
    /\ TypeOK' /\ BudgetInv' /\ AnswerMatchesCall' /\ [Next]_vars
      => [Service!Next]_Service!vars
<1> SUFFICES ASSUME TypeOK, TypeOK', NoWrap, IdInv, BudgetInv, BudgetInv', ExecutedInv,
                    AnswerMatchesCall', [Next]_vars
             PROVE  [Service!Next]_Service!vars
  OBVIOUS
<1>0. NoneAhead /\ NoDanglingControl /\ AnswerIds /\ made \in Int
  BY DEF IdInv, TypeOK
<1>1. ASSUME NEW k \in Call, k = made + 1
      PROVE  answers[k] = {}
  <2>1. ~ k <= made /\ answers[k] \in SUBSET Call
    BY <1>0, <1>1 DEF TypeOK
  <2> QED
    BY <1>0, <2>1 DEF AnswerIds, NoneAhead
<1>2. ASSUME NEW n \in Node, NEW to \in Node, Send(n, to)
      PROVE  Service!Next \/ UNCHANGED Service!vars
  <2>0. PICK k : k = made + 1
    OBVIOUS
  <2> DEFINE c == [phase |-> "waiting", from |-> n, to |-> to, id |-> nextId[n],
                   remain |-> Int8(Retry), sent |-> 0]
             map == [requesting EXCEPT ![n][c.id] = k]
             left == Int8(c.remain - 1)
  <2>1. k \in Call /\ c \in RequestBlock
    BY <1>2, <2>0, SendBlockType DEF Send
  <2>2. OnRequestTimer(k, c, map, FALSE) /\ made' = k /\ executed' = executed
    BY <1>2, <2>0 DEF Send
  <2> HIDE DEF c, map
  <2>3. \/ TimesOut(k, c, left, map)
        \/ EndsOtherwise(k, c, left, map)
        \/ Resends(k, c, left, map)
    BY <2>1, <2>2, OnRequestTimerCases
  <2> HIDE DEF left
  <2>4. /\ answers' = answers
        /\ \A j \in Call \ {k} : req'[j] = req[j] /\ errors'[j] = errors[j]
    BY <2>3 DEF TimesOut, EndsOtherwise, Resends, TypeOK
  <2> QED
    BY <1>1, <2>0, <2>1, <2>2, <2>4, CallMade
<1>3. ASSUME SendRefused
      PROVE  Service!Next \/ UNCHANGED Service!vars
  <2>0. PICK k : k = made + 1
    OBVIOUS
  <2>1. k \in Call /\ made' = k
    <3>0. MaxCalls \in Nat
      BY Parameters
    <3>1. made \in 0 .. MaxCalls /\ made < MaxCalls /\ made' = made + 1 /\ MaxCalls \in Nat
      BY <1>3, <3>0 DEF SendRefused, TypeOK
    <3> QED
      BY <2>0, <3>1 DEF Call
  <2>2. /\ UNCHANGED <<req, answers, executed>>
        /\ \A j \in Call \ {k} : errors'[j] = errors[j]
    BY <1>3, <2>1 DEF SendRefused, TypeOK
  <2> QED
    BY <1>1, <2>0, <2>1, <2>2, CallMade
<1>4. ASSUME SameCallers, UNCHANGED <<answers, errors, executed>>
      PROVE  UNCHANGED Service!vars
  BY <1>4, ServedKept, ServiceStutters
<1>5. ASSUME NEW k \in Call, RequestSent(k)
      PROVE  UNCHANGED Service!vars
  <2>1. /\ req' = [req EXCEPT ![k] = Transmitted(req[k])] /\ req[k] \in RequestBlock
        /\ UNCHANGED <<made, answers, errors, executed>>
    BY <1>5 DEF RequestSent, history, TypeOK
  <2>2. Transmitted(req[k]).from = req[k].from
    BY <2>1, BlockFields
  <2>3. SameCallers
    BY <2>1, <2>2 DEF SameCallers, TypeOK
  <2> QED
    BY <1>4, <2>1, <2>3
<1>6. ASSUME NEW n \in Node, NEW s \in Node \X Id, ReplyStep(n, s)
      PROVE  UNCHANGED Service!vars
  <2>1. UNCHANGED <<made, req, answers, errors, executed>>
    BY <1>6 DEF ReplyStep, ReplySent, ReplySendFailed, ReplyTimer, history
  <2> QED
    BY <1>4, <2>1 DEF SameCallers
<1>7. ASSUME NEW n \in Node, Restart(n)
      PROVE  UNCHANGED Service!vars
  <2>1. UNCHANGED <<made, answers, errors, executed>>
    BY <1>7 DEF Restart, history
  <2>2. ASSUME NEW k \in Call
        PROVE  req'[k].from = req[k].from
    <3>1. /\ req[k] \in RequestBlock
          /\ req'[k] = req[k] \/ req'[k] = [req[k] EXCEPT !.phase = "freed"]
      BY <1>7 DEF Restart, TypeOK
    <3> QED
      BY <3>1 DEF RequestBlock
  <2> QED
    BY <1>4, <2>1, <2>2 DEF SameCallers
<1>8. CASE UNCHANGED vars
  BY <1>4, <1>8 DEF vars, SameCallers
<1>9. ASSUME NEW k \in Call, RequestStep(k)
      PROVE  Service!Next \/ UNCHANGED Service!vars
  BY <1>0, <1>5, <1>9, CallTimer DEF RequestStep
<1>10. ASSUME NEW m \in net, FeedRequest(m) \/ FeedReply(m)
       PROVE  Service!Next \/ UNCHANGED Service!vars
  BY <1>0, <1>10, CallExecuted, CallAnswered
<1> QED
  BY <1>2, <1>3, <1>6, <1>7, <1>8, <1>9, <1>10 DEF Next

\* Rpc implements RpcService for the callers that stay up and whose ids have not wrapped
\* (Rpc.h:93-100, 115-136, 164-219): a call is answered only after its handler ran, only
\* with its own answer, and is told of one end, whatever the network does.
THEOREM ServiceCorrect ==
  ASSUME NoWrap
  PROVE  Spec => RefinesService
<1>1. Spec => []ExecutedInv
  BY TypeCorrect, IdAlways, ExecutedInit, ExecutedStep, PTL DEF Spec
<1>2. Spec => []AnswerMatchesCall
  BY AnswerCorrect
<1>3. TypeOK /\ IdInv /\ BudgetInv /\ ExecutedInv
        /\ TypeOK' /\ BudgetInv' /\ AnswerMatchesCall' /\ [Next]_vars
          => [Service!Next]_Service!vars
  BY ServiceStep
<1> QED
  BY <1>1, <1>2, <1>3, BudgetAlways, ServiceInit, PTL
     DEF Spec, RefinesService, Service!Spec

=============================================================================
