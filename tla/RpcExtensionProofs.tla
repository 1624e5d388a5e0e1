------------------------- MODULE RpcExtensionProofs -------------------------
(***************************************************************************)
(* Theorems of the modules that extend Rpc: what the callbacks of          *)
(* RpcProtocol are told (RpcCalls), who holds the buffers of its pool      *)
(* (RpcProtocol), and what holds as long as datagrams and handlers are in  *)
(* time (RpcTimed).  Each of them only takes steps of Rpc, whose theorems  *)
(* hold of it.                                                             *)
(***************************************************************************)
EXTENDS RpcServiceProofs, RpcProtocol, RpcCalls, RpcTimed

-----------------------------------------------------------------------------
(* What the steps of Rpc leave alone.                                      *)

LEMMA SendKeeps ==
  ASSUME TypeOK, NEW n \in Node, NEW to \in Node, Send(n, to)
  PROVE  /\ made' = made + 1 /\ made' \in Call
         /\ UNCHANGED <<answers, replying, net, executed>>
<1> DEFINE k == made + 1
           c == [phase |-> "waiting", from |-> n, to |-> to, id |-> nextId[n],
                 remain |-> Int8(Retry), sent |-> 0]
           map == [requesting EXCEPT ![n][c.id] = k]
<1>0. k = made + 1
  OBVIOUS
<1>1. k \in Call /\ c \in RequestBlock
  BY SendBlockType DEF Send
<1>2. OnRequestTimer(k, c, map, FALSE)
  BY DEF Send
<1>3. made' = k /\ UNCHANGED <<replying, net, executed>>
  BY DEF Send
<1> HIDE DEF k, c, map
<1>4. answers' = answers
  BY <1>1, <1>2, OnRequestTimerShape DEF RequestShape
<1> QED
  BY <1>0, <1>1, <1>3, <1>4

LEMMA RequestStepKeeps ==
  ASSUME TypeOK, NEW k \in Call, RequestStep(k)
  PROVE  UNCHANGED <<made, answers, replying, executed>>
<1>0. req[k] \in RequestBlock
  BY DEF TypeOK
<1>1. CASE RequestSent(k)
  BY <1>1 DEF RequestSent, history
<1>2. CASE RequestSendFailed(k)
  BY <1>0, <1>2, OnRequestTimerShape DEF RequestSendFailed, RequestShape
<1>3. CASE RequestTimer(k)
  BY <1>0, <1>3, OnRequestTimerShape DEF RequestTimer, RequestShape
<1> QED
  BY <1>1, <1>2, <1>3 DEF RequestStep

\* A step of a reply goes on with its block, for the same call, or frees it.
LEMMA ReplyStepKeeps ==
  ASSUME TypeOK, NEW n \in Node, NEW s \in Node \X Id, ReplyStep(n, s)
  PROVE  /\ UNCHANGED <<nextId, made, req, requesting, history, executed, restarts>>
         /\ replying[n][s].phase # "absent"
         /\ \E b \in ReplyBlock \cup {Absent} :
              /\ replying' = [replying EXCEPT ![n][s] = b]
              /\ b.phase # "absent" => b.call = replying[n][s].call
<1>0. replying[n][s].phase # "absent" => replying[n][s] \in ReplyBlock
  BY PresentType
<1>1. CASE ReplySent(n, s)
  <2> DEFINE b == Transmitted(replying[n][s])
  <2>1. replying[n][s].phase # "absent"
    BY <1>1 DEF ReplySent
  <2>2. b \in ReplyBlock /\ b.call = replying[n][s].call
    BY <1>0, <2>1, BlockType, BlockFields
  <2>3. /\ replying' = [replying EXCEPT ![n][s] = b]
        /\ UNCHANGED <<nextId, made, req, requesting, history, executed, restarts>>
    BY <1>1 DEF ReplySent
  <2> HIDE DEF b
  <2> QED
    BY <2>1, <2>2, <2>3
<1>2. ASSUME NEW failed, OnReplyTimer(n, s, replying[n][s], failed),
             replying[n][s].phase # "absent"
      PROVE  \E b \in ReplyBlock \cup {Absent} :
               /\ replying' = [replying EXCEPT ![n][s] = b]
               /\ b.phase # "absent" => b.call = replying[n][s].call
  <2> DEFINE left == Int8(replying[n][s].remain - 1)
             c == replying[n][s]
  <2>1. c \in ReplyBlock
    BY <1>0, <1>2
  <2>2. left \in Byte /\ (ReplyEnds(n, s) \/ ReplyResends(n, s, c, left))
    BY <1>2, <2>1, ReplyTimerOutcomes
  <2> HIDE DEF left, c
  <2>3. Resent(c, left) \in ReplyBlock /\ Resent(c, left).call = c.call
    BY <2>1, <2>2 DEF Resent, ReplyBlock
  <2>4. Absent \in ReplyBlock \cup {Absent} /\ Absent.phase = "absent"
    BY DEF Absent
  <2> QED
    BY <2>2, <2>3, <2>4 DEF ReplyEnds, ReplyResends, c
<1>3. CASE ReplySendFailed(n, s)
  BY <1>2, <1>3 DEF ReplySendFailed
<1>4. CASE ReplyTimer(n, s)
  BY <1>2, <1>4 DEF ReplyTimer
<1> QED
  BY <1>1, <1>3, <1>4 DEF ReplyStep

\* A request that is not ignored is answered by a new block, or declined.
LEMMA FeedRequestKeeps ==
  ASSUME TypeOK, NEW m \in net, FeedRequest(m)
  PROVE  /\ m \in Message /\ m.to \in Node /\ <<m.from, m.id>> \in Node \X Id /\ m.call \in Call
         /\ m.type = "REQUEST"
         /\ replying[m.to][<<m.from, m.id>>] = Absent
         /\ executed' = executed \cup {m.call}
         /\ UNCHANGED <<nextId, made, req, requesting, net, history, restarts>>
         /\ \/ replying' = replying
            \/ /\ Budget > 0
               /\ \E b \in ReplyBlock :
                    /\ replying' = [replying EXCEPT ![m.to][<<m.from, m.id>>] = b]
                    /\ b.phase = "sending" /\ b.call = m.call
                    /\ b.remain = Budget /\ b.sent = 0
<1> DEFINE n == m.to
           s == <<m.from, m.id>>
           c == [phase |-> "waiting", call |-> m.call, remain |-> Int8(Retry), sent |-> 0]
<1>1. m \in Message /\ n \in Node /\ s \in Node \X Id /\ m.call \in Call
  BY DEF TypeOK, Message
<1>2. replying[n][s] = Absent
  <2>1. replying[n][s].phase = "absent"
    BY DEF FeedRequest, Unanswered
  <2>2. replying[n][s] \in ReplyBlock \cup {Absent}
    <3> HIDE DEF n, s
    <3> QED
      BY <1>1 DEF TypeOK
  <2> QED
    BY <2>1, <2>2 DEF ReplyBlock
<1>3. /\ m.type = "REQUEST" /\ executed' = executed \cup {m.call}
      /\ UNCHANGED <<nextId, made, req, requesting, net, history, restarts>>
  BY DEF FeedRequest
<1>4. OnReplyTimer(n, s, c, FALSE) \/ UNCHANGED replying
  BY DEF FeedRequest
<1>5. c \in ReplyBlock
  BY <1>1, RetryByte DEF ReplyBlock
<1>6. Int8(c.remain - 1) = Budget
  BY DEF Budget
<1>7. CASE OnReplyTimer(n, s, c, FALSE)
  <2>1. ReplyEnds(n, s) \/ ReplyResends(n, s, c, Budget)
    <3> HIDE DEF n, s, c
    <3> QED
      BY <1>1, <1>5, <1>6, <1>7, ReplyTimerOutcomes
  <2>2. ReplyEnds(n, s) => replying' = replying
    <3> HIDE DEF n, s
    <3>1. ASSUME ReplyEnds(n, s), NEW p \in Node PROVE replying'[p] = replying[p]
      BY <1>1, <1>2, <3>1 DEF ReplyEnds, TypeOK
    <3> QED
      BY <1>1, <3>1 DEF ReplyEnds, TypeOK
  <2>3. CASE ReplyResends(n, s, c, Budget)
    <3> DEFINE b == Resent(c, Budget)
    <3>1. c.call = m.call /\ c.sent = 0
      OBVIOUS
    <3> HIDE DEF c
    <3>2. /\ b \in ReplyBlock /\ b.phase = "sending" /\ b.call = c.call
          /\ b.remain = Budget /\ b.sent = c.sent
      BY <1>5, BudgetType DEF Resent, ReplyBlock
    <3>3. Budget > 0 /\ replying' = [replying EXCEPT ![n][s] = b]
      BY <2>3 DEF ReplyResends
    <3> HIDE DEF b
    <3> QED
      BY <1>1, <1>2, <1>3, <3>1, <3>2, <3>3
  <2>4. CASE replying' = replying
    BY <1>1, <1>2, <1>3, <2>4
  <2> QED
    BY <2>1, <2>2, <2>3, <2>4
<1> QED
  BY <1>1, <1>2, <1>3, <1>4, <1>7

-----------------------------------------------------------------------------
(* RpcCalls: what callbacks are told.                                      *)

LEMMA CallsImplement == CallsSpec => Spec
<1>1. CallsInit => Init
  BY DEF CallsInit
<1>2. [CallsNext]_callsVars => [Next]_vars
  BY DEF CallsNext, callsVars, SendCall, CallGoesOn, AnswerGoesOn, HandleCall, HearAnswer,
         CallsRestart, Next
<1> QED
  BY <1>1, <1>2, PTL DEF CallsSpec, Spec

CallsType ==
  /\ kind \in [Call -> Kinds]
  /\ replyCode \in [Node -> [Node \X Id -> Code]]
  /\ carried \in [Call -> SUBSET Code]
  /\ given \in [Call -> SUBSET Code]
  /\ told \in [Call -> SUBSET {"SUCCESS", "REFUSED", "INVALID_INPUT", "NETWORK_ISSUE"}]

\* The code of success is in a reply block, or in a datagram, only if a handler gave it
\* for the call.
Granted ==
  /\ \A k \in Call : "SUCCESS" \in carried[k] => "SUCCESS" \in given[k]
  /\ \A n \in Node, s \in Node \X Id :
       replyCode[n][s] = "SUCCESS" =>
         ~Unanswered(n, s) /\ "SUCCESS" \in given[replying[n][s].call]

\* A callback told of success was handed the answer of a call that was granted it.
Witness(k, j) ==
  /\ j \in answers[k]
  /\ "SUCCESS" \in given[j]
  /\ kind[k] = "CONNECT" => kind[j] = "CONNECT"

Witnessed == \A k \in Call : "SUCCESS" \in told[k] => \E j \in Call : Witness(k, j)

CallsInv == CallsType /\ Granted /\ Witnessed

LEMMA CallsInitInv == CallsInit => CallsInv
<1> SUFFICES ASSUME CallsInit PROVE CallsInv
  OBVIOUS
<1>1. CallsType
  <2>1. (CHOOSE type \in Kinds : TRUE) \in Kinds
    BY RpcCallsAssumption
  <2> QED
    BY <2>1 DEF CallsInit, CallsType, NoCodes, Code
<1>2. Granted
  BY DEF CallsInit, Granted, NoCodes
<1>3. Witnessed
  BY DEF CallsInit, Witnessed
<1> QED
  BY <1>1, <1>2, <1>3 DEF CallsInv

\* A witness stays one as answers and codes are added to, and no made call changes its
\* kind.
LEMMA WitnessKept ==
  ASSUME IdInv, Witnessed,
         \A k \in Call : "SUCCESS" \in told'[k] => "SUCCESS" \in told[k],
         \A k \in Call : answers[k] \subseteq answers'[k] /\ given[k] \subseteq given'[k],
         \A k \in Call : k <= made => kind'[k] = kind[k]
  PROVE  Witnessed'
<1> SUFFICES ASSUME NEW k \in Call, "SUCCESS" \in told'[k]
             PROVE  \E j \in Call : Witness(k, j)'
  BY DEF Witnessed
<1>1. PICK j \in Call : Witness(k, j)
  BY DEF Witnessed
<1>2. k <= made /\ j <= made
  <2>1. Issued(k) /\ Issued(j)
    BY <1>1 DEF Witness, IdInv, AnswerIds, MadeUnder
  <2> QED
    BY <2>1 DEF IdInv, NoneAhead
<1>3. Witness(k, j)'
  BY <1>1, <1>2 DEF Witness
<1> QED
  BY <1>3

LEMMA CallsStep == TypeOK /\ IdInv /\ CallsInv /\ [CallsNext]_callsVars => CallsInv'
<1> SUFFICES ASSUME TypeOK, IdInv, CallsType, Granted, Witnessed, [CallsNext]_callsVars
             PROVE  CallsInv'
  BY DEF CallsInv
<1>0. CASE UNCHANGED callsVars
  BY <1>0 DEF callsVars, vars, CallsInv, CallsType, Granted, Witnessed, Witness, Unanswered
<1>1. ASSUME NEW n \in Node, NEW to \in Node, NEW type \in Kinds, SendCall(n, to, type)
      PROVE  CallsInv'
  <2>1. /\ made' = made + 1 /\ made' \in Call
        /\ answers' = answers /\ replying' = replying
        /\ kind' = [kind EXCEPT ![made'] = type]
        /\ UNCHANGED <<replyCode, carried, given, told>>
    BY <1>1, SendKeeps DEF SendCall
  <2>2. CallsType'
    BY <2>1 DEF CallsType
  <2>3. Granted'
    BY <2>1 DEF Granted, Unanswered
  <2>4. \A k \in Call : k <= made => kind'[k] = kind[k]
    <3>1. made \in Int
      BY DEF TypeOK
    <3> QED
      BY <2>1, <3>1 DEF CallsType, Call
  <2>5. Witnessed'
    BY <2>1, <2>4, WitnessKept
  <2> QED
    BY <2>2, <2>3, <2>5 DEF CallsInv
<1>2. ASSUME NEW k \in Call, CallGoesOn(k)
      PROVE  CallsInv'
  <2>1. /\ UNCHANGED <<made, answers, replying, kind, replyCode, carried, given>>
        /\ told' = told \/ told' = Add(told, k, Failure(k))
    BY <1>2, RequestStepKeeps DEF CallGoesOn
  <2>2. Failure(k) \in {"INVALID_INPUT", "NETWORK_ISSUE"}
    BY DEF Failure
  <2>3. CallsType' /\ \A j \in Call : "SUCCESS" \in told'[j] => "SUCCESS" \in told[j]
    <3>1. PICK e \in {"INVALID_INPUT", "NETWORK_ISSUE"} : told' = told \/ told' = Add(told, k, e)
      BY <2>1, <2>2
    <3>2. \A j \in Call : told'[j] \subseteq told[j] \cup {e}
      BY <3>1 DEF CallsType, Add
    <3>3. told' \in [Call -> SUBSET {"SUCCESS", "REFUSED", "INVALID_INPUT", "NETWORK_ISSUE"}]
      BY <3>1, <3>2 DEF CallsType, Add
    <3>4. "SUCCESS" # e
      OBVIOUS
    <3> QED
      BY <2>1, <3>2, <3>3, <3>4 DEF CallsType
  <2>4. Granted'
    BY <2>1 DEF Granted, Unanswered
  <2>5. Witnessed'
    BY <2>1, <2>3, WitnessKept
  <2> QED
    BY <2>3, <2>4, <2>5 DEF CallsInv
<1>3. ASSUME NEW n \in Node, NEW s \in Node \X Id, AnswerGoesOn(n, s)
      PROVE  CallsInv'
  <2> DEFINE c == replying[n][s].call
  <2>1. PICK b \in ReplyBlock \cup {Absent} :
          /\ replying' = [replying EXCEPT ![n][s] = b]
          /\ b.phase # "absent" => b.call = c
    BY <1>3, ReplyStepKeeps DEF AnswerGoesOn
  <2>2. UNCHANGED <<made, answers, kind, given, told>> /\ replying[n][s].phase # "absent"
    BY <1>3, ReplyStepKeeps DEF AnswerGoesOn, history
  <2>3. c \in Call
    BY <2>2, PresentType DEF ReplyBlock
  <2>4. replying'[n][s] = b
    BY <2>1 DEF TypeOK
  <2>5. /\ carried' = IF b.phase = "waiting" THEN Add(carried, c, replyCode[n][s]) ELSE carried
        /\ replyCode' = IF b.phase = "absent" THEN [replyCode EXCEPT ![n][s] = "REFUSED"]
                        ELSE replyCode
    BY <1>3, <2>4 DEF AnswerGoesOn
  <2> HIDE DEF c
  <2>6. CallsType'
    <3>1. replyCode' \in [Node -> [Node \X Id -> Code]]
      BY <2>5 DEF CallsType, Code
    <3>2. replyCode[n][s] \in Code
      BY DEF CallsType
    <3>3. carried' \in [Call -> SUBSET Code]
      <4>1. carried' = carried \/ carried' = [carried EXCEPT ![c] = @ \cup {replyCode[n][s]}]
        BY <2>5 DEF Add
      <4> QED
        BY <2>3, <3>2, <4>1 DEF CallsType
    <3> QED
      BY <2>2, <3>1, <3>3 DEF CallsType
  <2>7. Granted'
    <3>1. ASSUME NEW k \in Call, "SUCCESS" \in carried'[k] PROVE "SUCCESS" \in given[k]
      <4>1. CASE "SUCCESS" \in carried[k]
        BY <4>1 DEF Granted
      <4>2. CASE "SUCCESS" \notin carried[k]
        <5>1. k = c /\ replyCode[n][s] = "SUCCESS"
          BY <2>3, <2>5, <3>1, <4>2 DEF CallsType, Add
        <5> QED
          BY <5>1 DEF Granted, c
      <4> QED
        BY <4>1, <4>2
    <3>2. ASSUME NEW p \in Node, NEW t \in Node \X Id, replyCode'[p][t] = "SUCCESS"
          PROVE  replying'[p][t].phase # "absent" /\ "SUCCESS" \in given[replying'[p][t].call]
      <4>1. CASE p = n /\ t = s
        <5>1. b.phase # "absent" /\ replyCode[n][s] = "SUCCESS"
          BY <2>5, <3>2, <4>1 DEF CallsType
        <5> QED
          BY <2>1, <2>4, <4>1, <5>1 DEF Granted, c
      <4>2. CASE ~(p = n /\ t = s)
        <5>1. replying'[p][t] = replying[p][t] /\ replyCode[p][t] = "SUCCESS"
          BY <2>1, <2>5, <3>2, <4>2 DEF TypeOK, CallsType
        <5> QED
          BY <5>1 DEF Granted, Unanswered
      <4> QED
        BY <4>1, <4>2
    <3> QED
      BY <2>2, <3>1, <3>2 DEF Granted, Unanswered
  <2>8. Witnessed'
    BY <2>2, WitnessKept
  <2> QED
    BY <2>6, <2>7, <2>8 DEF CallsInv
<1>4. ASSUME NEW m \in net, HandleCall(m)
      PROVE  CallsInv'
  <2> DEFINE n == m.to
             s == <<m.from, m.id>>
  <2>1. /\ n \in Node /\ s \in Node \X Id /\ m.call \in Call
        /\ replying[n][s] = Absent /\ answers' = answers /\ made' = made
        /\ \/ replying' = replying
           \/ \E b \in ReplyBlock :
                /\ replying' = [replying EXCEPT ![n][s] = b]
                /\ b.phase = "sending" /\ b.call = m.call
    BY <1>4, FeedRequestKeeps DEF HandleCall, history
  <2>2. UNCHANGED <<kind, carried, told>>
    BY <1>4 DEF HandleCall
  <2> HIDE DEF n, s
  <2>3. CASE replying' = replying
    <3>1. UNCHANGED <<replyCode, given>>
      BY <1>4, <2>3 DEF HandleCall
    <3>2. CallsType' /\ Granted'
      BY <2>2, <2>3, <3>1 DEF CallsType, Granted, Unanswered
    <3>3. Witnessed'
      BY <2>1, <2>2, <3>1, WitnessKept
    <3> QED
      BY <3>2, <3>3 DEF CallsInv
  <2>4. CASE replying' # replying
    <3>1. PICK code \in Code :
            /\ given' = Add(given, m.call, code)
            /\ replyCode' = [replyCode EXCEPT ![n][s] = code]
      BY <1>4, <2>4 DEF HandleCall, n, s
    <3>2. PICK b \in ReplyBlock :
            /\ replying' = [replying EXCEPT ![n][s] = b]
            /\ b.phase = "sending" /\ b.call = m.call
      BY <2>1, <2>4
    <3>3. CallsType'
      BY <2>1, <2>2, <3>1 DEF CallsType, Add
    <3>4. /\ \A k \in Call : given[k] \subseteq given'[k]
          /\ code \in given'[m.call]
      BY <2>1, <3>1 DEF CallsType, Add
    <3>5. ASSUME NEW p \in Node, NEW t \in Node \X Id, replyCode'[p][t] = "SUCCESS"
          PROVE  replying'[p][t].phase # "absent" /\ "SUCCESS" \in given'[replying'[p][t].call]
      <4>1. CASE p = n /\ t = s
        <5>1. replying'[p][t] = b /\ code = "SUCCESS"
          BY <2>1, <3>1, <3>2, <3>5, <4>1 DEF TypeOK, CallsType
        <5> QED
          BY <3>2, <3>4, <5>1
      <4>2. CASE ~(p = n /\ t = s)
        <5>1. replying'[p][t] = replying[p][t] /\ replyCode[p][t] = "SUCCESS"
          BY <2>1, <3>1, <3>2, <3>5, <4>2 DEF TypeOK, CallsType
        <5>2. replying[p][t].phase # "absent" /\ "SUCCESS" \in given[replying[p][t].call]
          BY <5>1 DEF Granted, Unanswered
        <5>3. replying[p][t].call \in Call
          BY <5>2, PresentType DEF ReplyBlock
        <5> QED
          BY <3>4, <5>1, <5>2, <5>3
      <4> QED
        BY <4>1, <4>2
    <3>6. Granted'
      BY <2>2, <3>4, <3>5 DEF Granted, Unanswered
    <3>7. Witnessed'
      BY <2>1, <2>2, <3>4, WitnessKept
    <3> QED
      BY <3>3, <3>6, <3>7 DEF CallsInv
  <2> QED
    BY <2>3, <2>4
<1>5. ASSUME NEW m \in net, HearAnswer(m)
      PROVE  CallsInv'
  <2> DEFINE k == Addressee(m.to, m.id)
  <2>1. PICK code \in carried[m.call] : told' = Add(told, k, Heard(k, m.call, code))
    BY <1>5 DEF HearAnswer
  <2>2. /\ k # None /\ answers' = [answers EXCEPT ![k] = @ \cup {m.call}]
        /\ UNCHANGED <<made, replying, kind, replyCode, carried, given>>
    BY <1>5 DEF HearAnswer, FeedReply
  <2>3. m.call \in Call /\ k \in Call
    <3>1. m \in Message
      BY DEF TypeOK
    <3>2. m.call \in Call /\ m.to \in Node /\ m.id \in Id
      BY <3>1 DEF Message
    <3> QED
      BY <2>2, <3>2 DEF TypeOK, Addressee
  <2> HIDE DEF k
  <2>4. code \in Code
    BY <2>1, <2>3 DEF CallsType
  <2>5. Heard(k, m.call, code) \in {"SUCCESS", "REFUSED", "INVALID_INPUT"}
    BY <2>4 DEF Heard, Code
  <2>6. CallsType'
    BY <2>1, <2>2, <2>3, <2>5 DEF CallsType, Add
  <2>7. Granted'
    BY <2>2 DEF Granted, Unanswered
  <2>8. ASSUME NEW j \in Call, "SUCCESS" \in told'[j]
        PROVE  \E i \in Call : Witness(j, i)'
    <3>1. CASE "SUCCESS" \in told[j]
      <4>1. PICK i \in Call : Witness(j, i)
        BY <3>1 DEF Witnessed
      <4>2. Witness(j, i)'
        BY <2>2, <2>3, <4>1 DEF Witness, TypeOK
      <4> QED
        BY <4>2
    <3>2. CASE "SUCCESS" \notin told[j]
      <4>1. j = k /\ Heard(k, m.call, code) = "SUCCESS"
        BY <2>1, <2>3, <2>8, <3>2 DEF CallsType, Add
      <4>2. code = "SUCCESS" /\ (kind[k] = "CONNECT" => kind[m.call] = "CONNECT")
        BY <4>1 DEF Heard
      <4>3. "SUCCESS" \in given[m.call]
        BY <2>1, <2>3, <4>2 DEF Granted
      <4>4. m.call \in answers'[k]
        BY <2>2, <2>3 DEF TypeOK
      <4> QED
        BY <2>2, <2>3, <4>1, <4>2, <4>3, <4>4 DEF Witness
    <3> QED
      BY <3>1, <3>2
  <2> QED
    BY <2>6, <2>7, <2>8 DEF CallsInv, Witnessed
<1>6. ASSUME NEW n \in Node, CallsRestart(n)
      PROVE  CallsInv'
  <2>1. /\ UNCHANGED <<made, answers, kind, carried, given, told>>
        /\ replyCode' = [replyCode EXCEPT ![n] = NoCodes]
        /\ replying' = [replying EXCEPT ![n] = [s \in Node \X Id |-> Absent]]
    BY <1>6 DEF CallsRestart, Restart, history
  <2>2. NoCodes \in [Node \X Id -> Code] /\ \A s \in Node \X Id : NoCodes[s] = "REFUSED"
    BY DEF NoCodes, Code
  <2>3. CallsType'
    BY <2>1, <2>2 DEF CallsType
  <2>4. ASSUME NEW p \in Node, NEW t \in Node \X Id, replyCode'[p][t] = "SUCCESS"
        PROVE  replying'[p][t] = replying[p][t] /\ replyCode[p][t] = "SUCCESS"
    <3>1. p # n
      BY <2>1, <2>2, <2>4 DEF CallsType
    <3> QED
      BY <2>1, <2>4, <3>1 DEF CallsType, TypeOK
  <2>5. Granted'
    BY <2>1, <2>4 DEF Granted, Unanswered
  <2>6. Witnessed'
    BY <2>1, WitnessKept
  <2> QED
    BY <2>3, <2>5, <2>6 DEF CallsInv
<1> QED
  BY <1>0, <1>1, <1>2, <1>3, <1>4, <1>5, <1>6 DEF CallsNext

\* A callback that hears of success has the word of a handler that ran for a call of its
\* caller with its id, and connect's callback that of a connect handler
\* (RpcProtocol.h:67-81, 96-102, 135-146), for any kinds of calls, ids and nodes.
THEOREM SuccessCorrect == CallsSpec => []SuccessWasGiven
<1>1. IdInv /\ CallsInv => SuccessWasGiven
  BY DEF IdInv, AnswerIds, MadeUnder, CallsInv, Witnessed, Witness, SuccessWasGiven
<1>2. CallsSpec => [](TypeOK /\ IdInv)
  BY CallsImplement, TypeCorrect, IdAlways, PTL
<1> QED
  BY <1>1, <1>2, CallsInitInv, CallsStep, PTL DEF CallsSpec

-----------------------------------------------------------------------------
(* RpcProtocol: the pool.                                                  *)

Pool == [available : Seq(Nat), chunks : Nat]

\* Nothing stands on the stack twice.
NoDuplicates(p) ==
  \A i, j \in DOMAIN p.available : i # j => p.available[i] # p.available[j]

\* alloc takes one buffer of the stack, or of a new chunk.
LEMMA AllocFacts ==
  ASSUME NEW p \in Pool, AvailableBuffers(p) \subseteq AllBuffers(p)
  PROVE  /\ Allocated(p) \in Nat
         /\ AfterAlloc(p) \in Pool
         /\ AllBuffers(p) \subseteq AllBuffers(AfterAlloc(p))
         /\ AvailableBuffers(AfterAlloc(p)) \cup {Allocated(p)}
              = AvailableBuffers(p) \cup (AllBuffers(AfterAlloc(p)) \ AllBuffers(p))
         /\ NoDuplicates(p) => /\ NoDuplicates(AfterAlloc(p))
                               /\ Allocated(p) \notin AvailableBuffers(AfterAlloc(p))
<1> DEFINE f == Filled(p)
           q == AfterAlloc(p)
           n == Len(f.available)
<1>0. BuffersPerChunk \in Nat /\ BuffersPerChunk >= 1
  BY BufferPoolAssumption
<1>1. /\ f \in Pool /\ n \in Nat /\ n >= 1
      /\ AllBuffers(p) \subseteq AllBuffers(f)
      /\ AvailableBuffers(f) = AvailableBuffers(p) \cup (AllBuffers(f) \ AllBuffers(p))
      /\ NoDuplicates(p) => NoDuplicates(f)
  <2>1. CASE p.available # <<>>
    <3>1. f = p
      BY <2>1 DEF Filled
    <3>2. p.available \in Seq(Nat) /\ Len(p.available) >= 1
      BY <2>1 DEF Pool
    <3> QED
      BY <3>1, <3>2
  <2>2. CASE p.available = <<>>
    <3> DEFINE base == p.chunks * BuffersPerChunk
               chunk == [i \in 1 .. BuffersPerChunk |-> base + i]
    <3>1. f = [available |-> chunk, chunks |-> p.chunks + 1]
      BY <2>2 DEF Filled
    <3>2. p.chunks \in Nat
      BY DEF Pool
    <3>3. base \in Nat /\ (p.chunks + 1) * BuffersPerChunk = base + BuffersPerChunk
      BY <1>0, <3>2
    <3>4. AllBuffers(p) = 1 .. base /\ AllBuffers(f) = 1 .. base + BuffersPerChunk
      BY <3>1, <3>3 DEF AllBuffers
    <3> HIDE DEF base
    <3>5. chunk \in Seq(Nat) /\ Len(chunk) = BuffersPerChunk
      <4>1. chunk \in [1 .. BuffersPerChunk -> Nat]
        BY <1>0, <3>3
      <4> QED
        BY <1>0, <4>1
    <3>6. {chunk[i] : i \in DOMAIN chunk} = base + 1 .. base + BuffersPerChunk
      <4>1. \A i \in DOMAIN chunk : chunk[i] \in base + 1 .. base + BuffersPerChunk
        BY <1>0, <3>3
      <4>2. ASSUME NEW b \in base + 1 .. base + BuffersPerChunk
            PROVE  \E i \in DOMAIN chunk : chunk[i] = b
        <5>1. b - base \in 1 .. BuffersPerChunk /\ base + (b - base) = b
          BY <1>0, <3>3
        <5> QED
          BY <5>1
      <4> QED
        BY <4>1, <4>2
    <3>7. AvailableBuffers(f) = base + 1 .. base + BuffersPerChunk
      <4>1. f.available = chunk
        BY <3>1
      <4> HIDE DEF f, chunk
      <4> QED
        BY <3>6, <4>1 DEF AvailableBuffers
    <3>8. AvailableBuffers(p) = {}
      <4>1. DOMAIN p.available = {}
        BY <2>2
      <4> QED
        BY <4>1 DEF AvailableBuffers
    <3>9. AvailableBuffers(f) = AvailableBuffers(p) \cup (AllBuffers(f) \ AllBuffers(p))
      BY <1>0, <3>3, <3>4, <3>7, <3>8
    <3>10. NoDuplicates(f)
      BY <1>0, <3>1, <3>3 DEF NoDuplicates
    <3>11. AllBuffers(p) \subseteq AllBuffers(f)
      BY <1>0, <3>3, <3>4
    <3> QED
      BY <1>0, <3>1, <3>2, <3>5, <3>9, <3>10, <3>11 DEF Pool
  <2> QED
    BY <2>1, <2>2
<1>2. q = [f EXCEPT !.available = SubSeq(f.available, 1, n - 1)]
  BY DEF AfterAlloc
<1>3. Allocated(p) = f.available[n]
  BY DEF Allocated
<1> HIDE DEF f
<1>4. /\ q \in Pool /\ q.chunks = f.chunks
      /\ DOMAIN q.available = 1 .. n - 1
      /\ \A i \in 1 .. n - 1 : q.available[i] = f.available[i]
  <2>1. f.available \in Seq(Nat) /\ f.chunks \in Nat
    BY <1>1 DEF Pool
  <2> DEFINE w == SubSeq(f.available, 1, n - 1)
  <2>2. w \in Seq(Nat) /\ Len(w) = n - 1 /\ \A i \in 1 .. n - 1 : w[i] = f.available[i]
    BY <1>1, <2>1
  <2>3. DOMAIN w = 1 .. n - 1
    BY <2>2
  <2> HIDE DEF w
  <2> QED
    BY <1>1, <1>2, <2>1, <2>2, <2>3 DEF Pool, w
<1>5. DOMAIN f.available = 1 .. n
  BY <1>1 DEF Pool
<1> HIDE DEF q, n
<1>6. AllBuffers(q) = AllBuffers(f)
  BY <1>4 DEF AllBuffers
<1>7. AvailableBuffers(q) \cup {Allocated(p)} = AvailableBuffers(f)
  <2>1. \A i \in 1 .. n : i \in 1 .. n - 1 \/ i = n
    BY <1>1
  <2>2. \A i \in 1 .. n - 1 : i \in 1 .. n
    BY <1>1
  <2>3. n \in 1 .. n
    BY <1>1
  <2> QED
    BY <1>3, <1>4, <1>5, <2>1, <2>2, <2>3 DEF AvailableBuffers
<1>8. NoDuplicates(f) => NoDuplicates(q) /\ Allocated(p) \notin AvailableBuffers(q)
  <2>1. \A i \in 1 .. n - 1 : i \in 1 .. n /\ i # n
    BY <1>1
  <2>2. n \in 1 .. n
    BY <1>1
  <2> QED
    BY <1>3, <1>4, <1>5, <2>1, <2>2 DEF NoDuplicates, AvailableBuffers
<1>9. Allocated(p) \in Nat
  BY <1>1, <1>3 DEF Pool, n
<1> QED
  BY <1>1, <1>4, <1>6, <1>7, <1>8, <1>9 DEF q

\* free puts the buffer on the stack.
LEMMA FreeFacts ==
  ASSUME NEW p \in Pool, NEW b \in Nat
  PROVE  /\ AfterFree(p, b) \in Pool
         /\ AllBuffers(AfterFree(p, b)) = AllBuffers(p)
         /\ AvailableBuffers(AfterFree(p, b)) = AvailableBuffers(p) \cup {b}
         /\ NoDuplicates(p) /\ b \notin AvailableBuffers(p) => NoDuplicates(AfterFree(p, b))
<1> DEFINE q == AfterFree(p, b)
           n == Len(p.available)
<1>1. p.available \in Seq(Nat) /\ p.chunks \in Nat /\ n \in Nat /\ DOMAIN p.available = 1 .. n
  BY DEF Pool
<1>2. q = [p EXCEPT !.available = Append(p.available, b)]
  BY DEF AfterFree
<1>3. /\ q \in Pool /\ q.chunks = p.chunks
      /\ DOMAIN q.available = 1 .. n + 1
      /\ \A i \in 1 .. n : q.available[i] = p.available[i]
      /\ q.available[n + 1] = b
  <2> DEFINE w == Append(p.available, b)
  <2>1. w \in Seq(Nat) /\ Len(w) = n + 1 /\ w[n + 1] = b /\ \A i \in 1 .. n : w[i] = p.available[i]
    BY <1>1
  <2>2. DOMAIN w = 1 .. n + 1
    BY <1>1, <2>1
  <2> HIDE DEF w
  <2> QED
    BY <1>1, <1>2, <2>1, <2>2 DEF Pool, w
<1> HIDE DEF q, n
<1>4. AllBuffers(q) = AllBuffers(p)
  BY <1>3 DEF AllBuffers
<1>5. \A i \in 1 .. n + 1 : i \in 1 .. n \/ i = n + 1
  BY <1>1
<1>6. n + 1 \in 1 .. n + 1 /\ \A i \in 1 .. n : i \in 1 .. n + 1
  BY <1>1
<1>7. AvailableBuffers(q) = AvailableBuffers(p) \cup {b}
  BY <1>1, <1>3, <1>5, <1>6 DEF AvailableBuffers
<1>8. NoDuplicates(p) /\ b \notin AvailableBuffers(p) => NoDuplicates(q)
  BY <1>1, <1>3, <1>5, <1>6 DEF NoDuplicates, AvailableBuffers
<1> QED
  BY <1>3, <1>4, <1>7, <1>8 DEF q

LEMMA EmptyFacts ==
  /\ EmptyPool \in Pool
  /\ AllBuffers(EmptyPool) = {} /\ AvailableBuffers(EmptyPool) = {}
  /\ NoDuplicates(EmptyPool)
<1>1. EmptyPool.chunks = 0 /\ EmptyPool.available = << >> /\ EmptyPool \in Pool
  BY DEF EmptyPool, Pool
<1>2. 0 * BuffersPerChunk = 0 /\ 1 .. 0 = {}
  BY BufferPoolAssumption
<1>3. DOMAIN << >> = {}
  OBVIOUS
<1>4. AllBuffers(EmptyPool) = {}
  BY <1>1, <1>2, Zenon DEF AllBuffers
<1> QED
  BY <1>1, <1>3, <1>4 DEF AvailableBuffers, NoDuplicates

-----------------------------------------------------------------------------
(* RpcProtocol: who holds a buffer.                                        *)

LEMMA ProtocolImplement == ProtocolSpec => Spec
<1>1. ProtocolInit => Init
  BY DEF ProtocolInit
<1>2. [ProtocolNext]_protocolVars => [Next]_vars
  BY DEF ProtocolNext, protocolVars, SendJson, RequestGoesOn, ReplyGoesOn, HandleRequest,
         HearReply, ProtocolRestart, Next
<1> QED
  BY <1>1, <1>2, PTL DEF ProtocolSpec, Spec

PoolType ==
  /\ pool \in [Node -> Pool]
  /\ buffer \in [Call -> Nat]
  /\ replyBuffer \in [Node -> [Node \X Id -> Nat]]

\* A callback has run when its call is answered, and not before the call is made.
Completed ==
  \A k \in Call :
    /\ k > made => completions[k] = 0
    /\ Live(k) /\ answers[k] # {} => completions[k] # 0

\* The buffer of an outstanding request is one of its process's pool, freed or not.
LiveKnown == \A k \in Call : Live(k) => buffer[k] \in AllBuffers(pool[req[k].from])

\* NoneLost and OneOwner, of one node.
Whole(n) == AllBuffers(pool[n]) = AvailableBuffers(pool[n]) \cup HeldBuffers(n)

Owned(n) ==
  /\ \A j, k \in Unheard(n) : j # k => buffer[j] # buffer[k]
  /\ \A s, t \in Replies(n) : s # t => replyBuffer[n][s] # replyBuffer[n][t]
  /\ \A k \in Unheard(n), s \in Replies(n) : buffer[k] # replyBuffer[n][s]
  /\ HeldBuffers(n) \cap AvailableBuffers(pool[n]) = {}
  /\ NoDuplicates(pool[n])

LEMMA PerNode ==
  /\ NoneLost <=> \A n \in Node : Whole(n)
  /\ OneOwner <=> (CompletedOnce => \A n \in Node : Owned(n))
  /\ NoneLost' <=> \A n \in Node : Whole(n)'
  /\ OneOwner' <=> (CompletedOnce' => \A n \in Node : Owned(n)')
  BY Zenon DEF NoneLost, OneOwner, Whole, Owned, NoDuplicates

\* Nothing changes for node n.
Untouched(n) ==
  /\ pool'[n] = pool[n]
  /\ Unheard(n)' = Unheard(n)
  /\ Replies(n)' = Replies(n)
  /\ \A k \in Unheard(n) : buffer'[k] = buffer[k]
  /\ \A s \in Replies(n) : replyBuffer'[n][s] = replyBuffer[n][s]

LEMMA UntouchedKeeps ==
  ASSUME NEW n \in Node, Untouched(n)
  PROVE  (Whole(n) => Whole(n)') /\ (Owned(n) => Owned(n)')
<1>1. HeldBuffers(n)' = HeldBuffers(n)
  BY DEF Untouched, HeldBuffers
<1> QED
  BY <1>1 DEF Untouched, Whole, Owned

\* A call, or a reply, takes the buffer alloc returns.
CallTakes(n, k) ==
  /\ pool'[n] = AfterAlloc(pool[n])
  /\ Unheard(n)' = Unheard(n) \cup {k}
  /\ Replies(n)' = Replies(n)
  /\ \A j \in Unheard(n) : j # k /\ buffer'[j] = buffer[j]
  /\ buffer'[k] = Allocated(pool[n])
  /\ \A s \in Replies(n) : replyBuffer'[n][s] = replyBuffer[n][s]

ReplyTakes(n, s) ==
  /\ pool'[n] = AfterAlloc(pool[n])
  /\ Unheard(n)' = Unheard(n)
  /\ Replies(n)' = Replies(n) \cup {s}
  /\ \A k \in Unheard(n) : buffer'[k] = buffer[k]
  /\ \A t \in Replies(n) : t # s /\ replyBuffer'[n][t] = replyBuffer[n][t]
  /\ replyBuffer'[n][s] = Allocated(pool[n])

\* A call, or a reply, gives its buffer back, which a call may have done before.
CallGives(n, k) ==
  /\ pool'[n] = AfterFree(pool[n], buffer[k])
  /\ Unheard(n)' = Unheard(n) \ {k}
  /\ Replies(n)' = Replies(n)
  /\ \A j \in Unheard(n) : buffer'[j] = buffer[j]
  /\ \A s \in Replies(n) : replyBuffer'[n][s] = replyBuffer[n][s]

ReplyGives(n, s) ==
  /\ pool'[n] = AfterFree(pool[n], replyBuffer[n][s])
  /\ Unheard(n)' = Unheard(n)
  /\ Replies(n)' = Replies(n) \ {s}
  /\ s \in Replies(n)
  /\ \A k \in Unheard(n) : buffer'[k] = buffer[k]
  /\ \A t \in Replies(n) \ {s} : replyBuffer'[n][t] = replyBuffer[n][t]

\* What is taken was held by nobody.
LEMMA TakenIsFree ==
  ASSUME NEW n \in Node, pool[n] \in Pool, Whole(n), Owned(n)
  PROVE  /\ Allocated(pool[n]) \notin HeldBuffers(n)
         /\ Allocated(pool[n]) \notin AvailableBuffers(AfterAlloc(pool[n]))
         /\ HeldBuffers(n) \cap AvailableBuffers(AfterAlloc(pool[n])) = {}
         /\ NoDuplicates(AfterAlloc(pool[n]))
<1>1. AvailableBuffers(pool[n]) \subseteq AllBuffers(pool[n])
  BY DEF Whole
<1>2. /\ AvailableBuffers(AfterAlloc(pool[n])) \cup {Allocated(pool[n])}
           = AvailableBuffers(pool[n])
               \cup (AllBuffers(AfterAlloc(pool[n])) \ AllBuffers(pool[n]))
      /\ NoDuplicates(AfterAlloc(pool[n]))
      /\ Allocated(pool[n]) \notin AvailableBuffers(AfterAlloc(pool[n]))
  BY <1>1, AllocFacts DEF Owned
<1>3. /\ HeldBuffers(n) \subseteq AllBuffers(pool[n])
      /\ HeldBuffers(n) \cap AvailableBuffers(pool[n]) = {}
  BY DEF Whole, Owned
<1>4. ASSUME NEW b \in HeldBuffers(n)
      PROVE  b # Allocated(pool[n]) /\ b \notin AvailableBuffers(AfterAlloc(pool[n]))
  BY <1>2, <1>3
<1> QED
  BY <1>2, <1>4

LEMMA CallTakesKeeps ==
  ASSUME NEW n \in Node, NEW k, pool[n] \in Pool, CallTakes(n, k), Whole(n)
  PROVE  Whole(n)' /\ (Owned(n) => Owned(n)')
<1>1. HeldBuffers(n)' = HeldBuffers(n) \cup {Allocated(pool[n])}
  BY DEF CallTakes, HeldBuffers
<1>2. AvailableBuffers(pool[n]) \subseteq AllBuffers(pool[n])
  BY DEF Whole
<1>3. /\ AllBuffers(pool[n]) \subseteq AllBuffers(AfterAlloc(pool[n]))
      /\ AvailableBuffers(AfterAlloc(pool[n])) \cup {Allocated(pool[n])}
           = AvailableBuffers(pool[n])
               \cup (AllBuffers(AfterAlloc(pool[n])) \ AllBuffers(pool[n]))
  BY <1>2, AllocFacts
<1>4. Whole(n)'
  BY <1>1, <1>3 DEF Whole, CallTakes
<1>5. ASSUME Owned(n)
      PROVE  Owned(n)'
  <2>1. /\ Allocated(pool[n]) \notin HeldBuffers(n)
        /\ Allocated(pool[n]) \notin AvailableBuffers(AfterAlloc(pool[n]))
        /\ HeldBuffers(n) \cap AvailableBuffers(AfterAlloc(pool[n])) = {}
        /\ NoDuplicates(AfterAlloc(pool[n]))
    BY <1>5, TakenIsFree
  <2>2. /\ \A j \in Unheard(n) : buffer[j] # Allocated(pool[n])
        /\ \A s \in Replies(n) : replyBuffer[n][s] # Allocated(pool[n])
    BY <2>1 DEF HeldBuffers
  <2>3. \A i, j \in Unheard(n)' : i # j => buffer'[i] # buffer'[j]
    BY <1>5, <2>2 DEF CallTakes, Owned
  <2>4. \A s, t \in Replies(n)' : s # t => replyBuffer'[n][s] # replyBuffer'[n][t]
    BY <1>5 DEF CallTakes, Owned
  <2>5. \A j \in Unheard(n)', s \in Replies(n)' : buffer'[j] # replyBuffer'[n][s]
    BY <1>5, <2>2 DEF CallTakes, Owned
  <2>6. HeldBuffers(n)' \cap AvailableBuffers(pool'[n]) = {} /\ NoDuplicates(pool'[n])
    BY <1>1, <2>1 DEF CallTakes
  <2> QED
    BY <2>3, <2>4, <2>5, <2>6 DEF Owned
<1> QED
  BY <1>4, <1>5

LEMMA ReplyTakesKeeps ==
  ASSUME NEW n \in Node, NEW s, pool[n] \in Pool, ReplyTakes(n, s), Whole(n)
  PROVE  Whole(n)' /\ (Owned(n) => Owned(n)')
<1>1. HeldBuffers(n)' = HeldBuffers(n) \cup {Allocated(pool[n])}
  BY DEF ReplyTakes, HeldBuffers
<1>2. AvailableBuffers(pool[n]) \subseteq AllBuffers(pool[n])
  BY DEF Whole
<1>3. /\ AllBuffers(pool[n]) \subseteq AllBuffers(AfterAlloc(pool[n]))
      /\ AvailableBuffers(AfterAlloc(pool[n])) \cup {Allocated(pool[n])}
           = AvailableBuffers(pool[n])
               \cup (AllBuffers(AfterAlloc(pool[n])) \ AllBuffers(pool[n]))
  BY <1>2, AllocFacts
<1>4. Whole(n)'
  BY <1>1, <1>3 DEF Whole, ReplyTakes
<1>5. ASSUME Owned(n)
      PROVE  Owned(n)'
  <2>1. /\ Allocated(pool[n]) \notin HeldBuffers(n)
        /\ Allocated(pool[n]) \notin AvailableBuffers(AfterAlloc(pool[n]))
        /\ HeldBuffers(n) \cap AvailableBuffers(AfterAlloc(pool[n])) = {}
        /\ NoDuplicates(AfterAlloc(pool[n]))
    BY <1>5, TakenIsFree
  <2>2. /\ \A j \in Unheard(n) : buffer[j] # Allocated(pool[n])
        /\ \A t \in Replies(n) : replyBuffer[n][t] # Allocated(pool[n])
    BY <2>1 DEF HeldBuffers
  <2>3. \A i, j \in Unheard(n)' : i # j => buffer'[i] # buffer'[j]
    BY <1>5 DEF ReplyTakes, Owned
  <2>4. \A r, t \in Replies(n)' : r # t => replyBuffer'[n][r] # replyBuffer'[n][t]
    BY <1>5, <2>2 DEF ReplyTakes, Owned
  <2>5. \A j \in Unheard(n)', t \in Replies(n)' : buffer'[j] # replyBuffer'[n][t]
    BY <1>5, <2>2 DEF ReplyTakes, Owned
  <2>6. HeldBuffers(n)' \cap AvailableBuffers(pool'[n]) = {} /\ NoDuplicates(pool'[n])
    BY <1>1, <2>1 DEF ReplyTakes
  <2> QED
    BY <2>3, <2>4, <2>5, <2>6 DEF Owned
<1> QED
  BY <1>4, <1>5

LEMMA CallGivesKeeps ==
  ASSUME NEW n \in Node, NEW k, pool[n] \in Pool, buffer[k] \in Nat,
         buffer[k] \in AllBuffers(pool[n]), CallGives(n, k), Whole(n)
  PROVE  Whole(n)' /\ (Owned(n) /\ k \in Unheard(n) => Owned(n)')
<1>1. HeldBuffers(n)' \subseteq HeldBuffers(n) /\ HeldBuffers(n) \subseteq HeldBuffers(n)' \cup {buffer[k]}
  BY DEF CallGives, HeldBuffers
<1>2. /\ AllBuffers(pool'[n]) = AllBuffers(pool[n])
      /\ AvailableBuffers(pool'[n]) = AvailableBuffers(pool[n]) \cup {buffer[k]}
      /\ NoDuplicates(pool[n]) /\ buffer[k] \notin AvailableBuffers(pool[n])
           => NoDuplicates(pool'[n])
  BY FreeFacts DEF CallGives
<1>3. Whole(n)'
  BY <1>1, <1>2 DEF Whole
<1>4. ASSUME Owned(n), k \in Unheard(n)
      PROVE  Owned(n)'
  <2>1. buffer[k] \notin AvailableBuffers(pool[n])
    BY <1>4 DEF Owned, HeldBuffers
  <2>2. buffer[k] \notin HeldBuffers(n)'
    BY <1>4 DEF Owned, CallGives, HeldBuffers
  <2>3. /\ \A i, j \in Unheard(n)' : i # j => buffer'[i] # buffer'[j]
        /\ \A s, t \in Replies(n)' : s # t => replyBuffer'[n][s] # replyBuffer'[n][t]
        /\ \A j \in Unheard(n)', s \in Replies(n)' : buffer'[j] # replyBuffer'[n][s]
    BY <1>4 DEF CallGives, Owned
  <2>4. HeldBuffers(n)' \cap AvailableBuffers(pool'[n]) = {} /\ NoDuplicates(pool'[n])
    BY <1>1, <1>2, <1>4, <2>1, <2>2 DEF Owned
  <2> QED
    BY <2>3, <2>4 DEF Owned
<1> QED
  BY <1>3, <1>4

LEMMA ReplyGivesKeeps ==
  ASSUME NEW n \in Node, NEW s, pool[n] \in Pool, replyBuffer[n][s] \in Nat,
         ReplyGives(n, s), Whole(n)
  PROVE  Whole(n)' /\ (Owned(n) => Owned(n)')
<1>1. /\ HeldBuffers(n)' \subseteq HeldBuffers(n)
      /\ HeldBuffers(n) \subseteq HeldBuffers(n)' \cup {replyBuffer[n][s]}
      /\ replyBuffer[n][s] \in HeldBuffers(n)
  BY DEF ReplyGives, HeldBuffers
<1>2. /\ AllBuffers(pool'[n]) = AllBuffers(pool[n])
      /\ AvailableBuffers(pool'[n]) = AvailableBuffers(pool[n]) \cup {replyBuffer[n][s]}
      /\ NoDuplicates(pool[n]) /\ replyBuffer[n][s] \notin AvailableBuffers(pool[n])
           => NoDuplicates(pool'[n])
  BY FreeFacts DEF ReplyGives
<1>3. Whole(n)'
  BY <1>1, <1>2 DEF Whole
<1>4. ASSUME Owned(n)
      PROVE  Owned(n)'
  <2>1. replyBuffer[n][s] \notin AvailableBuffers(pool[n])
    BY <1>1, <1>4 DEF Owned
  <2>2. replyBuffer[n][s] \notin HeldBuffers(n)'
    BY <1>4 DEF Owned, ReplyGives, HeldBuffers
  <2>3. /\ \A i, j \in Unheard(n)' : i # j => buffer'[i] # buffer'[j]
        /\ \A r, t \in Replies(n)' : r # t => replyBuffer'[n][r] # replyBuffer'[n][t]
        /\ \A j \in Unheard(n)', t \in Replies(n)' : buffer'[j] # replyBuffer'[n][t]
    BY <1>4 DEF ReplyGives, Owned
  <2>4. HeldBuffers(n)' \cap AvailableBuffers(pool'[n]) = {} /\ NoDuplicates(pool'[n])
    BY <1>1, <1>2, <1>4, <2>1, <2>2 DEF Owned
  <2> QED
    BY <2>3, <2>4 DEF Owned
<1> QED
  BY <1>3, <1>4

\* With a budget, a call that is made is outstanding.
LEMMA SendMakesLive ==
  ASSUME TypeOK, NoneAhead, Budget > 0, NEW n \in Node, NEW to \in Node, Send(n, to)
  PROVE  \E k \in Call :
           /\ k = made + 1 /\ made' = k
           /\ ~Live(k) /\ Live(k)' /\ req'[k].from = n
           /\ req'[k].phase = "sending" /\ req'[k].sent = 0
           /\ \A j \in Call \ {k} : req'[j] = req[j]
           /\ UNCHANGED <<answers, completions, replying, errors>>
<1>0. PICK k : k = made + 1
  OBVIOUS
<1> DEFINE c == [phase |-> "waiting", from |-> n, to |-> to, id |-> nextId[n],
                 remain |-> Int8(Retry), sent |-> 0]
           map == [requesting EXCEPT ![n][c.id] = k]
           left == Int8(c.remain - 1)
<1>1. k \in Call /\ c \in RequestBlock
  BY <1>0, SendBlockType DEF Send
<1>2. OnRequestTimer(k, c, map, FALSE)
  BY <1>0 DEF Send
<1>3. /\ made' = k
      /\ UNCHANGED <<answers, replying>>
  BY <1>0, SendKeeps
<1>4. left = Budget
  BY BudgetType
<1>5. c.from = n /\ c.sent = 0
  OBVIOUS
<1> HIDE DEF c, map, left
<1>6. ~Spent(left)
  BY <1>4, BudgetType DEF Spent, Byte
<1>7. GoesOn(k, c, left)
  <2>1. left = Int8(c.remain - 1)
    BY DEF left
  <2>2. req' = [req EXCEPT ![k] = [c EXCEPT !.phase = "sending", !.remain = left]]
          /\ UNCHANGED history
    BY <1>2, <1>6, <2>1, Zenon DEF OnRequestTimer
  <2> QED
    BY <2>2 DEF GoesOn, Resent, history
<1>8. req'[k] = Resent(c, left) /\ \A j \in Call \ {k} : req'[j] = req[j]
  BY <1>1, <1>7 DEF GoesOn, TypeOK
<1>9. Resent(c, left).phase = "sending" /\ Resent(c, left).from = c.from
      /\ Resent(c, left).sent = c.sent
  BY <1>1 DEF Resent, RequestBlock
<1>10. ~Live(k)
  <2>1. ~ k <= made
    BY <1>0 DEF TypeOK
  <2> QED
    BY <1>1, <2>1 DEF NoneAhead, Issued, Live
<1> QED
  BY <1>0, <1>1, <1>3, <1>5, <1>7, <1>8, <1>9, <1>10 DEF GoesOn, Live

PoolInv == PoolType /\ Completed /\ LiveKnown /\ NoneLost /\ OneOwner

LEMMA PoolInit == ProtocolInit => PoolInv
<1> SUFFICES ASSUME ProtocolInit PROVE PoolInv
  OBVIOUS
<1>1. /\ \A k \in Call : ~Live(k) /\ completions[k] = 0 /\ answers[k] = {}
      /\ \A n \in Node, s \in Node \X Id : Unanswered(n, s)
      /\ \A n \in Node : pool[n] = EmptyPool
  BY DEF ProtocolInit, Init, Live, Unused, Unanswered, Absent
<1>2. PoolType
  <2>1. EmptyPool \in Pool
    BY DEF EmptyPool, Pool
  <2> QED
    BY <2>1 DEF ProtocolInit, PoolType, NoBuffer
<1>3. Completed /\ LiveKnown
  BY <1>1 DEF Completed, LiveKnown
<1>4. ASSUME NEW n \in Node
      PROVE  Whole(n) /\ Owned(n)
  <2>1. Unheard(n) = {} /\ Replies(n) = {}
    BY <1>1 DEF Unheard, Replies
  <2>2. /\ HeldBuffers(n) = {} /\ AvailableBuffers(pool[n]) = {}
        /\ AllBuffers(pool[n]) = {} /\ NoDuplicates(pool[n])
    BY <1>1, <2>1, EmptyFacts DEF HeldBuffers
  <2> QED
    BY <2>1, <2>2 DEF Whole, Owned
<1> QED
  BY <1>2, <1>3, <1>4, PerNode DEF PoolInv

\* A step that only node n's buffers are concerned with.
LEMMA OneNode ==
  ASSUME NoneLost, OneOwner, NEW n \in Node,
         \A p \in Node \ {n} : Untouched(p),
         CompletedOnce' => CompletedOnce,
         Whole(n) => Whole(n)',
         Whole(n) /\ Owned(n) /\ CompletedOnce' => Owned(n)'
  PROVE  NoneLost' /\ OneOwner'
<1>1. ASSUME NEW p \in Node PROVE Whole(p)'
  BY UntouchedKeeps, PerNode
<1>2. ASSUME NEW p \in Node, CompletedOnce' PROVE Owned(p)'
  BY <1>2, UntouchedKeeps, PerNode
<1> QED
  BY <1>1, <1>2, PerNode

\* A callback that has run twice stays one that has.
LEMMA OnceBefore ==
  ASSUME TypeOK,
         \A k \in Call : completions'[k] \in {completions[k], Again(completions[k])}
  PROVE  CompletedOnce' => CompletedOnce
<1>1. \A x \in 0 .. 2 : Again(x) <= 1 => x <= 1
  BY DEF Again
<1>2. \A k \in Call : completions[k] \in 0 .. 2
  BY DEF TypeOK
<1> QED
  BY <1>1, <1>2 DEF CompletedOnce

LEMMA PoolSend ==
  ASSUME TypeOK, IdInv, PoolInv, NEW n \in Node, NEW to \in Node, SendJson(n, to)
  PROVE  PoolInv'
<1>0. NoneAhead /\ AnswerIds /\ PoolType /\ Completed /\ LiveKnown /\ NoneLost /\ OneOwner
  BY DEF IdInv, PoolInv
<1>1. PICK k \in Call :
        /\ k = made + 1 /\ made' = k
        /\ ~Live(k) /\ Live(k)' /\ req'[k].from = n
        /\ \A j \in Call \ {k} : req'[j] = req[j]
        /\ UNCHANGED <<answers, completions, replying>>
  BY <1>0, SendMakesLive, RpcProtocolAssumption DEF SendJson
<1>2. /\ buffer' = [buffer EXCEPT ![k] = Allocated(pool[n])]
      /\ pool' = [pool EXCEPT ![n] = AfterAlloc(@)]
      /\ replyBuffer' = replyBuffer
  BY <1>1 DEF SendJson
<1>3. /\ pool'[n] = AfterAlloc(pool[n]) /\ \A p \in Node \ {n} : pool'[p] = pool[p]
      /\ buffer'[k] = Allocated(pool[n]) /\ \A j \in Call \ {k} : buffer'[j] = buffer[j]
  BY <1>0, <1>2 DEF PoolType
<1>4. pool[n] \in Pool /\ AvailableBuffers(pool[n]) \subseteq AllBuffers(pool[n])
  BY <1>0 DEF PoolType, NoneLost
<1>5. /\ Allocated(pool[n]) \in Nat /\ AfterAlloc(pool[n]) \in Pool
      /\ AllBuffers(pool[n]) \subseteq AllBuffers(pool'[n])
      /\ Allocated(pool[n]) \in AllBuffers(pool'[n])
  <2>1. /\ Allocated(pool[n]) \in Nat /\ AfterAlloc(pool[n]) \in Pool
        /\ AllBuffers(pool[n]) \subseteq AllBuffers(AfterAlloc(pool[n]))
        /\ AvailableBuffers(AfterAlloc(pool[n])) \cup {Allocated(pool[n])}
             = AvailableBuffers(pool[n])
                 \cup (AllBuffers(AfterAlloc(pool[n])) \ AllBuffers(pool[n]))
    BY <1>4, AllocFacts
  <2> QED
    BY <1>3, <1>4, <2>1
<1>6. PoolType'
  BY <1>0, <1>2, <1>5 DEF PoolType
<1>7. k > made /\ made \in Int /\ ~ k <= made
  BY <1>1 DEF TypeOK
<1>8. completions[k] = 0 /\ answers[k] = {}
  <2>1. ~Issued(k)
    BY <1>0, <1>7 DEF NoneAhead
  <2>2. answers[k] \subseteq Call
    BY DEF TypeOK
  <2> QED
    BY <1>0, <1>7, <2>1, <2>2 DEF Completed, AnswerIds
<1>9. Completed'
  <2>1. \A j \in Call : j > made' => j > made
    BY <1>1, <1>7 DEF Call
  <2>2. \A j \in Call \ {k} : Live(j)' => Live(j)
    BY <1>1 DEF Live
  <2> QED
    BY <1>0, <1>1, <1>8, <2>1, <2>2 DEF Completed
<1>10. LiveKnown'
  <2>1. ASSUME NEW j \in Call \ {k}, Live(j)'
        PROVE  buffer'[j] \in AllBuffers(pool'[req'[j].from])
    <3>1. Live(j) /\ req'[j].from = req[j].from /\ req[j].from \in Node
      BY <1>1, <2>1 DEF Live, TypeOK, RequestBlock
    <3> QED
      BY <1>0, <1>3, <1>5, <3>1 DEF LiveKnown
  <2> QED
    BY <1>1, <1>3, <1>5, <2>1 DEF LiveKnown
<1>11. \A p \in Node : Replies(p)' = Replies(p)
  BY <1>1 DEF Replies, Unanswered
<1>12. ASSUME NEW p \in Node \ {n}
       PROVE  Untouched(p)
  <2>1. Unheard(p)' = Unheard(p)
    BY <1>1 DEF Unheard, Live
  <2>2. k \notin Unheard(p)
    BY <1>1 DEF Unheard
  <2> QED
    BY <1>2, <1>3, <1>11, <2>1, <2>2 DEF Untouched, Unheard
<1>13. CallTakes(n, k)
  <2>1. Unheard(n)' = Unheard(n) \cup {k}
    BY <1>1, <1>8 DEF Unheard, Live
  <2>2. k \notin Unheard(n)
    BY <1>1 DEF Unheard
  <2> QED
    BY <1>2, <1>3, <1>11, <2>1, <2>2 DEF CallTakes, Unheard
<1>14. (Whole(n) => Whole(n)') /\ (Whole(n) /\ Owned(n) => Owned(n)')
  BY <1>4, <1>13, CallTakesKeeps
<1>15. CompletedOnce' => CompletedOnce
  BY <1>1 DEF CompletedOnce
<1>16. NoneLost' /\ OneOwner'
  BY <1>0, <1>12, <1>14, <1>15, OneNode
<1> QED
  BY <1>6, <1>9, <1>10, <1>16 DEF PoolInv

\* A call's buffer goes back to the pool of its process as its callback runs.
LEMMA CallbackFrees ==
  ASSUME TypeOK, PoolInv, NEW k \in Call, Live(k), OnComplete(k),
         UNCHANGED <<made, replying, buffer, replyBuffer>>,
         req'[k].from = req[k].from, completions'[k] = Again(completions[k]),
         \A j \in Call \ {k} : /\ req'[j] = req[j] /\ completions'[j] = completions[j]
                               /\ answers'[j] = answers[j],
         k <= made
  PROVE  PoolInv'
<1>0. PoolType /\ Completed /\ LiveKnown /\ NoneLost /\ OneOwner
  BY DEF PoolInv
<1>1. PICK n \in Node : n = req[k].from
  BY DEF TypeOK, RequestBlock
<1>2. /\ pool'[n] = AfterFree(pool[n], buffer[k])
      /\ \A p \in Node \ {n} : pool'[p] = pool[p]
      /\ pool' = [pool EXCEPT ![n] = AfterFree(pool[n], buffer[k])]
  BY <1>0, <1>1 DEF OnComplete, PoolType
<1>3. pool[n] \in Pool /\ buffer[k] \in Nat /\ buffer[k] \in AllBuffers(pool[n])
  BY <1>0, <1>1 DEF PoolType, LiveKnown
<1>4. AfterFree(pool[n], buffer[k]) \in Pool /\ AllBuffers(pool'[n]) = AllBuffers(pool[n])
  BY <1>2, <1>3, FreeFacts
<1>5. PoolType'
  BY <1>0, <1>2, <1>4 DEF PoolType
<1>6. completions'[k] # 0 /\ completions[k] \in 0 .. 2
  BY DEF Again, TypeOK
<1>7. Completed'
  <2>1. ~ k > made
    BY DEF TypeOK, Call
  <2>2. \A j \in Call \ {k} : Live(j)' => Live(j)
    BY DEF Live
  <2> QED
    BY <1>0, <1>6, <2>1, <2>2 DEF Completed
<1>8. ASSUME NEW j \in Call, Live(j)'
      PROVE  buffer'[j] \in AllBuffers(pool'[req'[j].from])
  <2>1. Live(j) /\ req'[j].from = req[j].from /\ req[j].from \in Node
    BY <1>8 DEF Live, TypeOK, RequestBlock
  <2> QED
    BY <1>0, <1>2, <1>4, <2>1 DEF LiveKnown
<1>9. \A p \in Node : Replies(p)' = Replies(p)
  BY DEF Replies, Unanswered
<1>10. ASSUME NEW p \in Node \ {n}
       PROVE  Untouched(p)
  <2>1. Unheard(p)' = Unheard(p)
    BY <1>1 DEF Unheard, Live
  <2> QED
    BY <1>2, <1>9, <2>1 DEF Untouched
<1>11. CallGives(n, k)
  <2>1. Unheard(n)' = Unheard(n) \ {k}
    BY <1>6 DEF Unheard, Live
  <2> QED
    BY <1>2, <1>9, <2>1 DEF CallGives
<1>12. /\ Whole(n) => Whole(n)'
       /\ Whole(n) /\ Owned(n) /\ k \in Unheard(n) => Owned(n)'
  BY <1>3, <1>11, CallGivesKeeps
<1>13. CompletedOnce' => k \in Unheard(n)
  BY <1>1 DEF CompletedOnce, Again, Unheard
<1>14. CompletedOnce' => CompletedOnce
  <2>1. \A j \in Call : completions'[j] \in {completions[j], Again(completions[j])}
    OBVIOUS
  <2> QED
    BY <2>1, OnceBefore
<1>15. NoneLost' /\ OneOwner'
  BY <1>0, <1>10, <1>12, <1>13, <1>14, OneNode
<1> QED
  BY <1>5, <1>7, <1>8, <1>15 DEF PoolInv, LiveKnown

LEMMA PoolRequest ==
  ASSUME TypeOK, IdInv, BudgetInv, PoolInv, NEW k \in Call, RequestGoesOn(k)
  PROVE  PoolInv'
<1>0. NoneAhead /\ PoolType /\ Completed /\ LiveKnown /\ NoneLost /\ OneOwner
  BY DEF IdInv, PoolInv
<1>1. /\ Live(k) /\ k <= made
      /\ UNCHANGED <<made, answers, replying, buffer, replyBuffer>>
      /\ req'[k].from = req[k].from
      /\ \A j \in Call \ {k} : req'[j] = req[j] /\ completions'[j] = completions[j]
      /\ \/ errors' # errors /\ ~Live(k)' /\ completions'[k] = Again(completions[k])
         \/ errors' = errors /\ Live(k)' /\ completions' = completions
         \/ /\ errors' = errors /\ ~Live(k)' /\ completions' = completions
            /\ answers[k] # {}
  <2>1. RequestStep(k) /\ UNCHANGED <<buffer, replyBuffer>>
    BY DEF RequestGoesOn
  <2>2. UNCHANGED <<made, answers, replying>>
    BY <2>1, RequestStepKeeps
  <2>3. Live(k) => k <= made
    BY <1>0 DEF NoneAhead, Live, Issued
  <2> QED
    BY <2>1, <2>2, <2>3, RequestStepTells
<1>2. CASE errors' # errors
  <2>1. OnComplete(k) /\ completions'[k] = Again(completions[k])
    BY <1>1, <1>2 DEF RequestGoesOn
  <2> QED
    BY <1>1, <2>1, CallbackFrees
<1>3. CASE errors' = errors
  <2>1. pool' = pool /\ completions' = completions /\ (Live(k)' \/ completions[k] # 0)
    BY <1>0, <1>1, <1>3 DEF RequestGoesOn, Completed
  <2>2. \A j \in Call : Live(j)' => Live(j) /\ req'[j].from = req[j].from
    BY <1>1 DEF Live
  <2>3. PoolType' /\ Completed' /\ LiveKnown'
    BY <1>0, <1>1, <2>1, <2>2 DEF PoolType, Completed, LiveKnown
  <2>4. ASSUME NEW p \in Node
        PROVE  Untouched(p)
    <3>1. ASSUME NEW j \in Call
          PROVE  (Live(j) /\ req[j].from = p /\ completions[j] = 0)
                   <=> (Live(j) /\ req[j].from = p /\ completions[j] = 0)'
      BY <1>1, <2>1 DEF Live
    <3>2. Unheard(p)' = Unheard(p)
      BY <3>1 DEF Unheard
    <3> QED
      BY <1>1, <2>1, <3>2 DEF Untouched, Replies, Unanswered
  <2>5. NoneLost'
    BY <1>0, <2>4, UntouchedKeeps, PerNode
  <2>6. CompletedOnce' => CompletedOnce
    BY <2>1 DEF CompletedOnce
  <2>7. OneOwner'
    BY <1>0, <2>4, <2>6, UntouchedKeeps, PerNode
  <2> QED
    BY <2>3, <2>5, <2>7 DEF PoolInv
<1> QED
  BY <1>2, <1>3

LEMMA PoolHear ==
  ASSUME TypeOK, IdInv, PoolInv, NEW m \in net, HearReply(m)
  PROVE  PoolInv'
<1>0. NoneAhead /\ NoDanglingControl
  BY DEF IdInv
<1>1. PICK k : k = Addressee(m.to, m.id)
  OBVIOUS
<1>2. /\ k # None
      /\ answers' = [answers EXCEPT ![k] = @ \cup {m.call}]
      /\ completions' = [completions EXCEPT ![k] = Again(@)]
      /\ req' = [req EXCEPT ![k] = Settled(@)]
      /\ OnComplete(k)
      /\ UNCHANGED <<made, replying, buffer, replyBuffer>>
  BY <1>1 DEF HearReply, FeedReply
<1>3. m.to \in Node /\ m.id \in Id
  BY DEF TypeOK, Message
<1>4. k \in Call /\ Live(k)
  BY <1>0, <1>1, <1>2, <1>3 DEF TypeOK, Addressee, NoDanglingControl
<1>5. /\ req'[k] = Settled(req[k]) /\ completions'[k] = Again(completions[k])
      /\ \A j \in Call \ {k} : /\ req'[j] = req[j] /\ completions'[j] = completions[j]
                               /\ answers'[j] = answers[j]
  BY <1>2, <1>4 DEF TypeOK
<1>6. req'[k].from = req[k].from
  BY <1>4, <1>5, BlockFields DEF TypeOK
<1>7. k <= made
  BY <1>0, <1>4 DEF NoneAhead, Live, Issued
<1> QED
  BY <1>2, <1>4, <1>5, <1>6, <1>7, CallbackFrees

\* A step of a reply concerns no call.
LEMMA CallsApart ==
  ASSUME Completed, LiveKnown, UNCHANGED <<made, req, completions, answers, buffer>>,
         \A p \in Node : AllBuffers(pool[p]) \subseteq AllBuffers(pool'[p]),
         \A k \in Call : req[k].from \in Node
  PROVE  /\ Completed' /\ LiveKnown'
         /\ \A p \in Node : Unheard(p)' = Unheard(p)
         /\ CompletedOnce' => CompletedOnce
<1>1. Completed' /\ (CompletedOnce' => CompletedOnce)
  BY DEF Completed, CompletedOnce, Live
<1>2. LiveKnown'
  BY DEF LiveKnown, Live
<1>3. \A p \in Node : Unheard(p)' = Unheard(p)
  BY DEF Unheard, Live
<1> QED
  BY <1>1, <1>2, <1>3

\* A reply appears, goes on or disappears.
LEMMA RepliesAfter ==
  ASSUME TypeOK, NEW n \in Node, NEW s \in Node \X Id, NEW b,
         replying' = [replying EXCEPT ![n][s] = b]
  PROVE  /\ \A p \in Node \ {n} : Replies(p)' = Replies(p)
         /\ b.phase = "absent" => Replies(n)' = Replies(n) \ {s}
         /\ b.phase # "absent" => Replies(n)' = Replies(n) \cup {s}
<1>1. /\ replying'[n][s] = b
      /\ \A t \in (Node \X Id) \ {s} : replying'[n][t] = replying[n][t]
      /\ \A p \in Node \ {n} : replying'[p] = replying[p]
  BY DEF TypeOK
<1> QED
  BY <1>1 DEF Replies, Unanswered

LEMMA PoolHandle ==
  ASSUME TypeOK, PoolInv, NEW m \in net, HandleRequest(m)
  PROVE  PoolInv'
<1>0. PoolType /\ Completed /\ LiveKnown /\ NoneLost /\ OneOwner
  BY DEF PoolInv
<1>1. PICK n \in Node, s \in Node \X Id :
        /\ n = m.to /\ s = <<m.from, m.id>>
        /\ replying[n][s] = Absent
        /\ UNCHANGED <<made, req, completions, answers, buffer>>
        /\ \/ replying' = replying
           \/ \E b \in ReplyBlock :
                replying' = [replying EXCEPT ![n][s] = b] /\ b.phase = "sending"
  <2>1. PICK s : s = <<m.from, m.id>>
    OBVIOUS
  <2>2. FeedRequest(m) /\ buffer' = buffer
    BY DEF HandleRequest
  <2>3. /\ m.to \in Node /\ s \in Node \X Id
        /\ replying[m.to][s] = Absent
        /\ UNCHANGED <<made, req, completions, answers>>
        /\ \/ replying' = replying
           \/ \E b \in ReplyBlock :
                replying' = [replying EXCEPT ![m.to][s] = b] /\ b.phase = "sending"
    BY <2>1, <2>2, FeedRequestKeeps DEF history
  <2> QED
    BY <2>1, <2>2, <2>3
<1>2. \A k \in Call : req[k].from \in Node
  BY DEF TypeOK, RequestBlock
<1>3. CASE replying' = replying
  <2>1. UNCHANGED <<pool, replyBuffer>>
    BY <1>3 DEF HandleRequest
  <2>2. Completed' /\ LiveKnown' /\ (\A p \in Node : Unheard(p)' = Unheard(p))
          /\ (CompletedOnce' => CompletedOnce)
    BY <1>0, <1>1, <1>2, <2>1, CallsApart
  <2>3. \A p \in Node : Untouched(p)
    BY <1>1, <1>3, <2>1, <2>2 DEF Untouched, Replies, Unanswered
  <2>4. NoneLost' /\ OneOwner'
    BY <1>0, <2>2, <2>3, UntouchedKeeps, PerNode
  <2> QED
    BY <1>0, <1>1, <2>1, <2>2, <2>4 DEF PoolInv, PoolType
<1>4. CASE replying' # replying
  <2>1. PICK b \in ReplyBlock :
          replying' = [replying EXCEPT ![n][s] = b] /\ b.phase = "sending"
    BY <1>1, <1>4
  <2>2. /\ replyBuffer' = [replyBuffer EXCEPT ![n][s] = Allocated(pool[n])]
        /\ pool' = [pool EXCEPT ![n] = AfterAlloc(@)]
    BY <1>1, <1>4 DEF HandleRequest
  <2>3. /\ pool'[n] = AfterAlloc(pool[n]) /\ \A p \in Node \ {n} : pool'[p] = pool[p]
        /\ replyBuffer'[n][s] = Allocated(pool[n])
        /\ \A t \in (Node \X Id) \ {s} : replyBuffer'[n][t] = replyBuffer[n][t]
        /\ \A p \in Node \ {n} : replyBuffer'[p] = replyBuffer[p]
    BY <1>0, <2>2 DEF PoolType
  <2>4. pool[n] \in Pool /\ AvailableBuffers(pool[n]) \subseteq AllBuffers(pool[n])
    BY <1>0 DEF PoolType, NoneLost
  <2>5. /\ Allocated(pool[n]) \in Nat /\ AfterAlloc(pool[n]) \in Pool
        /\ AllBuffers(pool[n]) \subseteq AllBuffers(pool'[n])
    BY <2>3, <2>4, AllocFacts
  <2>6. PoolType'
    <3>1. replyBuffer' \in [Node -> [Node \X Id -> Nat]]
      BY <1>0, <2>2, <2>5 DEF PoolType
    <3> QED
      BY <1>0, <1>1, <2>2, <2>5, <3>1 DEF PoolType
  <2>7. \A p \in Node : AllBuffers(pool[p]) \subseteq AllBuffers(pool'[p])
    BY <2>3, <2>5
  <2>8. Completed' /\ LiveKnown' /\ (\A p \in Node : Unheard(p)' = Unheard(p))
          /\ (CompletedOnce' => CompletedOnce)
    BY <1>0, <1>1, <1>2, <2>7, CallsApart
  <2>9. /\ \A p \in Node \ {n} : Replies(p)' = Replies(p)
        /\ Replies(n)' = Replies(n) \cup {s}
    BY <2>1, RepliesAfter
  <2>10. s \notin Replies(n)
    BY <1>1 DEF Replies, Unanswered, Absent
  <2>11. \A p \in Node \ {n} : Untouched(p)
    BY <1>1, <2>3, <2>8, <2>9 DEF Untouched
  <2>12. ReplyTakes(n, s)
    BY <1>1, <2>3, <2>8, <2>9, <2>10 DEF ReplyTakes, Replies
  <2>13. NoneLost' /\ OneOwner'
    BY <1>0, <2>4, <2>8, <2>11, <2>12, ReplyTakesKeeps, OneNode
  <2> QED
    BY <2>6, <2>8, <2>13 DEF PoolInv
<1> QED
  BY <1>3, <1>4

LEMMA PoolReply ==
  ASSUME TypeOK, PoolInv, NEW n \in Node, NEW s \in Node \X Id, ReplyGoesOn(n, s)
  PROVE  PoolInv'
<1>0. PoolType /\ Completed /\ LiveKnown /\ NoneLost /\ OneOwner
  BY DEF PoolInv
<1>1. PICK b \in ReplyBlock \cup {Absent} : replying' = [replying EXCEPT ![n][s] = b]
  BY ReplyStepKeeps DEF ReplyGoesOn
<1>2. /\ UNCHANGED <<made, req, completions, answers, buffer>>
      /\ s \in Replies(n)
  BY ReplyStepKeeps DEF ReplyGoesOn, history, Replies, Unanswered
<1>3. \A k \in Call : req[k].from \in Node
  BY DEF TypeOK, RequestBlock
<1>4. replying'[n][s] = b
  BY <1>1 DEF TypeOK
<1>5. /\ \A p \in Node \ {n} : Replies(p)' = Replies(p)
      /\ b.phase = "absent" => Replies(n)' = Replies(n) \ {s}
      /\ b.phase # "absent" => Replies(n)' = Replies(n) \cup {s}
  BY <1>1, RepliesAfter
<1>6. CASE b.phase # "absent"
  <2>1. UNCHANGED <<pool, replyBuffer>>
    BY <1>4, <1>6 DEF ReplyGoesOn
  <2>2. Completed' /\ LiveKnown' /\ (\A p \in Node : Unheard(p)' = Unheard(p))
          /\ (CompletedOnce' => CompletedOnce)
    BY <1>0, <1>2, <1>3, <2>1, CallsApart
  <2>3. \A p \in Node : Untouched(p)
    BY <1>2, <1>5, <1>6, <2>1, <2>2 DEF Untouched
  <2>4. NoneLost' /\ OneOwner'
    BY <1>0, <2>2, <2>3, UntouchedKeeps, PerNode
  <2> QED
    BY <1>0, <1>2, <2>1, <2>2, <2>4 DEF PoolInv, PoolType
<1>7. CASE b.phase = "absent"
  <2>1. /\ pool' = [pool EXCEPT ![n] = AfterFree(@, replyBuffer[n][s])]
        /\ replyBuffer' = [replyBuffer EXCEPT ![n][s] = NoBuffer]
    BY <1>4, <1>7 DEF ReplyGoesOn
  <2>2. /\ pool'[n] = AfterFree(pool[n], replyBuffer[n][s])
        /\ \A p \in Node \ {n} : pool'[p] = pool[p]
        /\ \A t \in (Node \X Id) \ {s} : replyBuffer'[n][t] = replyBuffer[n][t]
        /\ \A p \in Node \ {n} : replyBuffer'[p] = replyBuffer[p]
    BY <1>0, <2>1 DEF PoolType
  <2>3. pool[n] \in Pool /\ replyBuffer[n][s] \in Nat
    BY <1>0 DEF PoolType
  <2>4. /\ AfterFree(pool[n], replyBuffer[n][s]) \in Pool
        /\ AllBuffers(pool'[n]) = AllBuffers(pool[n])
    BY <2>2, <2>3, FreeFacts
  <2>5. PoolType'
    <3>1. replyBuffer' \in [Node -> [Node \X Id -> Nat]]
      BY <1>0, <2>1 DEF PoolType, NoBuffer
    <3> QED
      BY <1>0, <1>2, <2>1, <2>4, <3>1 DEF PoolType
  <2>6. \A p \in Node : AllBuffers(pool[p]) \subseteq AllBuffers(pool'[p])
    BY <2>2, <2>4
  <2>7. Completed' /\ LiveKnown' /\ (\A p \in Node : Unheard(p)' = Unheard(p))
          /\ (CompletedOnce' => CompletedOnce)
    BY <1>0, <1>2, <1>3, <2>6, CallsApart
  <2>8. \A p \in Node \ {n} : Untouched(p)
    BY <1>2, <1>5, <2>2, <2>7 DEF Untouched
  <2>9. ReplyGives(n, s)
    BY <1>2, <1>5, <1>7, <2>2, <2>7 DEF ReplyGives, Replies
  <2>10. NoneLost' /\ OneOwner'
    BY <1>0, <2>3, <2>7, <2>8, <2>9, ReplyGivesKeeps, OneNode
  <2> QED
    BY <2>5, <2>7, <2>10 DEF PoolInv
<1> QED
  BY <1>6, <1>7

\* A new process has an empty pool and owes nothing.
LEMMA PoolRestart ==
  ASSUME TypeOK, PoolInv, NEW n \in Node, ProtocolRestart(n)
  PROVE  PoolInv'
<1>0. PoolType /\ Completed /\ LiveKnown /\ NoneLost /\ OneOwner
  BY DEF PoolInv
<1>1. /\ UNCHANGED <<made, completions, answers, buffer>>
      /\ pool' = [pool EXCEPT ![n] = EmptyPool]
      /\ replyBuffer' = [replyBuffer EXCEPT ![n] = [s \in Node \X Id |-> NoBuffer]]
      /\ replying' = [replying EXCEPT ![n] = [s \in Node \X Id |-> Absent]]
  BY DEF ProtocolRestart, Restart, history
<1>2. \A k \in Call : Live(k)' =>
        Live(k) /\ req[k].from # n /\ req'[k] = req[k] /\ req[k].from \in Node
  <2>1. ASSUME NEW k \in Call, Live(k), req[k].from = n
        PROVE  ~Live(k)'
    <3>1. req'[k] = [req[k] EXCEPT !.phase = "freed"] /\ req[k] \in RequestBlock
      BY <2>1 DEF ProtocolRestart, Restart, TypeOK
    <3> QED
      BY <3>1 DEF Live, RequestBlock
  <2>2. ASSUME NEW k \in Call, ~(Live(k) /\ req[k].from = n)
        PROVE  req'[k] = req[k] /\ req[k].from \in Node
    BY <2>2 DEF ProtocolRestart, Restart, TypeOK, RequestBlock
  <2> QED
    BY <2>1, <2>2 DEF Live
<1>3. \A k \in Call : Live(k) /\ req[k].from # n => req'[k] = req[k]
  BY DEF ProtocolRestart, Restart
<1>4. pool'[n] = EmptyPool /\ \A p \in Node \ {n} : pool'[p] = pool[p]
  BY <1>0, <1>1 DEF PoolType
<1>5. PoolType'
  <2>1. [s \in Node \X Id |-> NoBuffer] \in [Node \X Id -> Nat]
    BY DEF NoBuffer
  <2> QED
    BY <1>0, <1>1, <2>1, EmptyFacts DEF PoolType
<1>6. Completed'
  BY <1>0, <1>1, <1>2 DEF Completed
<1>7. LiveKnown'
  BY <1>0, <1>1, <1>2, <1>4 DEF LiveKnown
<1>8. CompletedOnce' => CompletedOnce
  BY <1>1 DEF CompletedOnce
<1>9. ASSUME NEW p \in Node \ {n}
      PROVE  Untouched(p)
  <2>1. Unheard(p)' = Unheard(p)
    <3>1. \A k \in Call : Live(k)' /\ req'[k].from = p <=> Live(k) /\ req[k].from = p
      BY <1>2, <1>3 DEF Live
    <3> QED
      BY <1>1, <3>1 DEF Unheard
  <2>2. replying'[p] = replying[p] /\ replyBuffer'[p] = replyBuffer[p]
    BY <1>0, <1>1 DEF TypeOK, PoolType
  <2> QED
    BY <1>1, <1>4, <2>1, <2>2 DEF Untouched, Replies, Unanswered
<1>10. Whole(n)' /\ Owned(n)'
  <2>1. Unheard(n)' = {}
    BY <1>2 DEF Unheard
  <2>2. Replies(n)' = {}
    <3>1. replying'[n] = [s \in Node \X Id |-> Absent]
      BY <1>1 DEF TypeOK
    <3> QED
      BY <3>1 DEF Replies, Unanswered, Absent
  <2>3. HeldBuffers(n)' = {}
    BY <2>1, <2>2 DEF HeldBuffers
  <2> QED
    BY <1>4, <2>1, <2>2, <2>3, EmptyFacts DEF Whole, Owned
<1>11. NoneLost' /\ OneOwner'
  BY <1>0, <1>8, <1>9, <1>10, OneNode
<1> QED
  BY <1>5, <1>6, <1>7, <1>11 DEF PoolInv

LEMMA PoolStep ==
  TypeOK /\ IdInv /\ BudgetInv /\ PoolInv /\ [ProtocolNext]_protocolVars => PoolInv'
<1> SUFFICES ASSUME TypeOK, IdInv, BudgetInv, PoolInv, [ProtocolNext]_protocolVars
             PROVE  PoolInv'
  OBVIOUS
<1>1. CASE UNCHANGED protocolVars
  <2>1. UNCHANGED <<made, req, replying, completions, answers, pool, buffer, replyBuffer>>
    BY <1>1 DEF protocolVars, vars
  <2>2. PoolType' /\ Completed' /\ LiveKnown' /\ (CompletedOnce' => CompletedOnce)
    BY <2>1 DEF PoolInv, PoolType, Completed, LiveKnown, Live, CompletedOnce
  <2>3. \A p \in Node : Untouched(p)
    BY <2>1 DEF Untouched, Unheard, Live, Replies, Unanswered
  <2>4. NoneLost' /\ OneOwner'
    BY <2>2, <2>3, UntouchedKeeps, PerNode DEF PoolInv
  <2> QED
    BY <2>2, <2>4 DEF PoolInv
<1> QED
  BY <1>1, PoolSend, PoolRequest, PoolReply, PoolHandle, PoolHear, PoolRestart
  DEF ProtocolNext

LEMMA PoolAlways == ProtocolSpec => []PoolInv
<1>1. ProtocolSpec => [](TypeOK /\ IdInv /\ BudgetInv)
  BY ProtocolImplement, BudgetAlways, PTL
<1> QED
  BY <1>1, PoolInit, PoolStep, PTL DEF ProtocolSpec

\* No buffer of a pool is lost, whether calls end by an answer, a timeout or an error, or
\* a reply is given up (RpcProtocol.h:57, 65, 152-160; BufferPool.h:138-151), for any
\* retry argument that leaves a budget, any chunk size, and any ids and nodes; also when
\* a callback runs twice.
THEOREM NoneLostCorrect == ProtocolSpec => []NoneLost
<1>1. PoolInv => NoneLost
  BY DEF PoolInv
<1> QED
  BY <1>1, PoolAlways, PTL

\* A buffer has one owner, a request, a reply or the stack of the pool, as long as no
\* callback runs twice.
THEOREM OneOwnerCorrect == ProtocolSpec => []OneOwner
<1>1. PoolInv => OneOwner
  BY DEF PoolInv
<1> QED
  BY <1>1, PoolAlways, PTL

-----------------------------------------------------------------------------
(* RpcTimed: what time makes true.                                         *)

LEMMA NetGrows == [Next]_vars => net \subseteq net'
<1> SUFFICES ASSUME [Next]_vars PROVE net \subseteq net'
  OBVIOUS
<1>1. ASSUME NEW k \in Call, RequestStep(k) PROVE net \subseteq net'
  BY <1>1 DEF RequestStep, RequestSent, RequestSendFailed, RequestTimer
<1>2. ASSUME NEW n \in Node, NEW s \in Node \X Id, ReplyStep(n, s) PROVE net \subseteq net'
  BY <1>2 DEF ReplyStep, ReplySent, ReplySendFailed, ReplyTimer
<1> QED
  BY <1>1, <1>2 DEF Next, Send, SendRefused, FeedRequest, FeedReply, Restart, vars

\* What flies has left a socket.
Flying == now \in Nat /\ flight \subseteq [message : net, at : Nat, arrived : BOOLEAN]

LEMMA TimedImplements == Flying /\ [TimedNext]_timedVars => Flying' /\ [Next]_vars
<1> SUFFICES ASSUME Flying, [TimedNext]_timedVars PROVE Flying' /\ [Next]_vars
  OBVIOUS
<1>1. ASSUME NEW m \in net', net \subseteq net', flight' = flight \cup {Copy(m)}, now' = now
      PROVE  Flying'
  <2>1. [message |-> m, at |-> now, arrived |-> FALSE]
          \in [message : net', at : Nat, arrived : BOOLEAN]
    BY <1>1 DEF Flying
  <2>2. [message : net, at : Nat, arrived : BOOLEAN]
          \subseteq [message : net', at : Nat, arrived : BOOLEAN]
    BY <1>1
  <2> QED
    BY <1>1, <2>1, <2>2 DEF Flying, Copy
<1>2. ASSUME net \subseteq net', flight' \subseteq flight, now' \in Nat
      PROVE  Flying'
  <2>1. [message : net, at : Nat, arrived : BOOLEAN]
          \subseteq [message : net', at : Nat, arrived : BOOLEAN]
    BY <1>2
  <2> QED
    BY <1>2, <2>1 DEF Flying
<1>3. ASSUME NEW n \in Node, NEW to \in Node, TimedSend(n, to)
      PROVE  Next /\ flight' = flight /\ now' = now
  BY <1>3 DEF TimedSend, Next, clockVars
<1>4. ASSUME NEW k \in Call, TimedRequestSent(k)
      PROVE  Flying' /\ Next
  <2>1. /\ Next /\ RequestMessage(k) \in net' /\ now' = now
        /\ flight' = flight \cup {Copy(RequestMessage(k))}
    BY <1>4 DEF TimedRequestSent, RequestSent, RequestStep, Next, clockVars
  <2> QED
    BY <1>1, <2>1, NetGrows
<1>5. ASSUME NEW k \in Call, TimedRequestEvent(k)
      PROVE  Next /\ flight' = flight /\ now' = now
  BY <1>5 DEF TimedRequestEvent, RequestStep, Next, clockVars
<1>6. ASSUME NEW f \in flight, TimedFeedRequest(f) \/ TimedFeedReply(f)
      PROVE  Flying' /\ Next
  <2>1. f.message \in net
    BY DEF Flying
  <2>2. /\ Next /\ now' = now /\ Arrives(f)
    BY <1>6, <2>1 DEF TimedFeedRequest, TimedFeedReply, Next, clockVars
  <2>3. [f EXCEPT !.arrived = TRUE] \in [message : net, at : Nat, arrived : BOOLEAN]
    BY DEF Flying
  <2>4. flight' \subseteq [message : net, at : Nat, arrived : BOOLEAN]
    BY <2>2, <2>3 DEF Arrives, Flying
  <2>5. [message : net, at : Nat, arrived : BOOLEAN]
          \subseteq [message : net', at : Nat, arrived : BOOLEAN]
    BY <2>2, NetGrows
  <2> QED
    BY <2>2, <2>4, <2>5 DEF Flying
<1>7. ASSUME NEW n \in Node, NEW s \in Node \X Id, TimedReplySent(n, s)
      PROVE  Flying' /\ Next
  <2>1. /\ Next /\ ReplyMessage(n, s) \in net' /\ now' = now
        /\ flight' = flight \cup {Copy(ReplyMessage(n, s))}
    BY <1>7 DEF TimedReplySent, ReplySent, ReplyStep, Next, clockVars
  <2> QED
    BY <1>1, <2>1, NetGrows
<1>8. ASSUME NEW n \in Node, NEW s \in Node \X Id,
             TimedReplySendFailed(n, s) \/ TimedReplyTimer(n, s)
      PROVE  Next /\ flight' = flight /\ now' = now
  BY <1>8 DEF TimedReplySendFailed, TimedReplyTimer, ReplyStep, Next, clockVars
<1>9. ASSUME NEW n \in Node, TimedRestart(n)
      PROVE  Next /\ flight' = flight /\ now' = now
  BY <1>9 DEF TimedRestart, Next, clockVars
<1>10. CASE Tick
  BY <1>2, <1>10 DEF Tick, vars, Flying
<1>11. CASE UNCHANGED timedVars
  BY <1>2, <1>11 DEF timedVars, vars, clockVars, Flying
<1> QED
  BY <1>2, <1>3, <1>4, <1>5, <1>6, <1>7, <1>8, <1>9, <1>10, <1>11, NetGrows
  DEF TimedNext, Flying

LEMMA TimedImplement == TimedSpec => Spec /\ []Flying
<1>1. TimedInit => Init /\ Flying
  BY DEF TimedInit, Flying
<1> QED
  BY <1>1, TimedImplements, PTL DEF TimedSpec, Spec

\* Time is counted in products, which the proofs keep closed.
Times(a, w) == a * w

LEMMA TimesFacts ==
  ASSUME NEW a \in Nat, NEW b \in Nat, NEW w \in Nat
  PROVE  /\ Times(a, w) \in Nat /\ Times(0, w) = 0
         /\ Times(a + 1, w) = Times(a, w) + w
         /\ a <= b => Times(a, w) <= Times(b, w)
<1>1. a * w \in Nat /\ 0 * w = 0 /\ (a + 1) * w = a * w + w
  OBVIOUS
<1>2. ASSUME a <= b PROVE a * w <= b * w
  <2>1. PICK d \in Nat : b = a + d
    <3>1. b - a \in Nat /\ b = a + (b - a)
      BY <1>2
    <3> QED
      BY <3>1
  <2>2. b * w = a * w + d * w /\ d * w \in Nat
    BY <2>1
  <2> QED
    BY <1>1, <2>2
<1> QED
  BY <1>1, <1>2 DEF Times

\* No step takes back a call, or changes where it comes from and goes.
LEMMA IdentityKept ==
  ASSUME TypeOK, IdInv, [Next]_vars, NEW k \in Call, Issued(k)
  PROVE  /\ Issued(k)' /\ k <= made
         /\ req'[k].from = req[k].from /\ req'[k].to = req[k].to /\ req'[k].id = req[k].id
<1>0. k <= made /\ req[k] \in RequestBlock /\ NoneAhead /\ NoDanglingControl
  BY DEF IdInv, NoneAhead, TypeOK
<1>1. ASSUME NEW j \in Call, NEW c \in RequestBlock, NEW map, RequestShape(j, c, map),
             j = k => /\ c.from = req[k].from /\ c.to = req[k].to /\ c.id = req[k].id
      PROVE  /\ Issued(k)'
             /\ req'[k].from = req[k].from /\ req'[k].to = req[k].to /\ req'[k].id = req[k].id
  <2>1. PICK b \in RequestBlock :
          /\ req' = [req EXCEPT ![j] = b]
          /\ b.from = c.from /\ b.to = c.to /\ b.id = c.id
          /\ b.phase \in {"sending", "freed"}
    BY <1>1 DEF RequestShape
  <2> QED
    BY <1>1, <2>1 DEF Issued, TypeOK
<1>2. CASE \E n, to \in Node : Send(n, to)
  <2>1. PICK n \in Node, to \in Node : Send(n, to)
    BY <1>2
  <2>2. PICK j : j = made + 1
    OBVIOUS
  <2> DEFINE c == [phase |-> "waiting", from |-> n, to |-> to, id |-> nextId[n],
                   remain |-> Int8(Retry), sent |-> 0]
             map == [requesting EXCEPT ![n][c.id] = j]
  <2>3. j \in Call /\ c \in RequestBlock
    BY <2>1, <2>2, SendBlockType DEF Send
  <2>4. OnRequestTimer(j, c, map, FALSE)
    BY <2>1, <2>2 DEF Send
  <2>5. j # k
    BY <1>0, <2>2 DEF TypeOK, Call
  <2> HIDE DEF c, map
  <2>6. RequestShape(j, c, map)
    BY <2>3, <2>4, OnRequestTimerShape
  <2> QED
    BY <1>0, <1>1, <2>3, <2>5, <2>6
<1>3. CASE \E j \in Call : RequestStep(j)
  <2>1. PICK j \in Call : RequestStep(j)
    BY <1>3
  <2>2. CASE RequestSent(j)
    <3>1. req' = [req EXCEPT ![j] = Transmitted(@)]
      BY <2>2 DEF RequestSent
    <3>2. /\ Transmitted(req[k]).from = req[k].from /\ Transmitted(req[k]).to = req[k].to
          /\ Transmitted(req[k]).id = req[k].id /\ Transmitted(req[k]).phase = "waiting"
      <4>1. ASSUME NEW c \in RequestBlock, NEW x \in Nat
            PROVE  [c EXCEPT !.phase = "waiting", !.sent = x].to = c.to
        BY DEF RequestBlock
      <4>2. req[k].sent + 1 \in Nat
        BY <1>0 DEF RequestBlock
      <4>3. Transmitted(req[k]).to = req[k].to
        BY <1>0, <4>1, <4>2 DEF Transmitted
      <4> QED
        BY <1>0, <4>3, BlockFields
    <3> QED
      BY <1>0, <3>1, <3>2 DEF Issued, TypeOK
  <2>3. CASE RequestSendFailed(j) \/ RequestTimer(j)
    <3>1. req[j] \in RequestBlock
      BY DEF TypeOK
    <3>2. RequestShape(j, req[j], requesting)
      BY <2>3, <3>1, OnRequestTimerShape DEF RequestSendFailed, RequestTimer
    <3> QED
      BY <1>0, <1>1, <3>1, <3>2
  <2> QED
    BY <1>0, <2>1, <2>2, <2>3 DEF RequestStep
<1>4. CASE \E m \in net : FeedReply(m)
  <2>1. PICK m \in net : FeedReply(m)
    BY <1>4
  <2>2. PICK j : j = Addressee(m.to, m.id)
    OBVIOUS
  <2>3. req' = [req EXCEPT ![j] = Settled(@)] /\ j \in Call
    BY <2>1, <2>2 DEF FeedReply, TypeOK, Message, Addressee
  <2>4. /\ Settled(req[k]).from = req[k].from /\ Settled(req[k]).to = req[k].to
        /\ Settled(req[k]).id = req[k].id /\ Settled(req[k]).phase = req[k].phase
    BY <1>0 DEF Settled, RequestBlock
  <2> QED
    BY <1>0, <2>3, <2>4 DEF Issued, TypeOK
<1>5. CASE \E n \in Node : Restart(n)
  <2>1. req'[k] = req[k] \/ req'[k] = [req[k] EXCEPT !.phase = "freed"]
    BY <1>5 DEF Restart
  <2> QED
    BY <1>0, <2>1 DEF Issued, RequestBlock
<1>6. CASE req' = req
  BY <1>0, <1>6 DEF Issued
<1>7. \/ \E n, to \in Node : Send(n, to)
      \/ \E j \in Call : RequestStep(j)
      \/ \E m \in net : FeedReply(m)
      \/ \E n \in Node : Restart(n)
      \/ req' = req
  BY DEF Next, SendRefused, ReplyStep, ReplySent, ReplySendFailed, ReplyTimer, FeedRequest, vars
<1> QED
  BY <1>0, <1>2, <1>3, <1>4, <1>5, <1>6, <1>7

TimedType ==
  /\ now \in Nat /\ delay \in Nat /\ lag \in Nat
  /\ due \in [Call -> Nat] /\ started \in [Call -> Nat]
  /\ replyDue \in [Node -> [Node \X Id -> Nat]]
  /\ runs \in [Call -> 0 .. 2]

\* A call's deadline: a period and a lag for every datagram it has sent.
Deadline(k) ==
  Live(k) =>
    /\ started[k] <= now
    /\ req[k].phase = "sending" => now <= started[k] + Times(req[k].sent, Period + lag)
    /\ req[k].phase = "waiting" =>
         /\ now <= due[k] + lag
         /\ due[k] + lag <= started[k] + Times(req[k].sent, Period + lag)

\* A copy of a request: where it goes, when it left, and the timer armed after it.
RequestCopy(f) ==
  LET k == f.message.call IN
  f.message.type = "REQUEST" =>
    /\ f.message.to = req[k].to
    /\ started[k] <= f.at
    /\ f.at <= started[k] + Times(Budget - 1, Period + lag)
    /\ req[k].phase = "waiting" => f.at + Period <= due[k]
    /\ req[k].phase = "sending" => f.at + Period <= now
    /\ "timed_out" \in errors[k] => f.at + Period <= now

Copies ==
  \A f \in flight :
    /\ f.at <= now /\ now <= f.at + delay
    /\ RequestCopy(f)

ClockInv == TimedType /\ (\A k \in Call : Deadline(k)) /\ Copies

\* A request's timer, or its failed send, ends it or starts the next transmission.
LEMMA RequestEventOutcomes ==
  ASSUME TypeOK, NEW k \in Call, RequestSendFailed(k) \/ RequestTimer(k)
  PROVE  /\ Live(k)
         /\ \A j \in Call \ {k} : req'[j] = req[j] /\ errors'[j] = errors[j]
         /\ \/ req'[k].phase = "freed"
            \/ /\ RequestTimer(k) /\ errors' = errors
               /\ req'[k].phase = "sending" /\ req'[k].sent = req[k].sent
<1> DEFINE c == req[k]
           left == Int8(c.remain - 1)
<1>1. c \in RequestBlock /\ Live(k)
  BY DEF TypeOK, RequestSendFailed, RequestTimer, Live
<1>2. left \in Byte
      /\ \/ TimesOut(k, c, left, requesting)
         \/ EndsOtherwise(k, c, left, requesting)
         \/ Resends(k, c, left, requesting) /\ RequestTimer(k)
  <2>1. CASE RequestSendFailed(k)
    <3>1. OnRequestTimer(k, c, requesting, TRUE)
      BY <2>1 DEF RequestSendFailed
    <3> HIDE DEF c
    <3> QED
      BY <1>1, <3>1, FailedTimerEnds, OnRequestTimerCases
  <2>2. CASE RequestTimer(k)
    <3>1. OnRequestTimer(k, c, requesting, FALSE)
      BY <2>2 DEF RequestTimer
    <3> HIDE DEF c
    <3> QED
      BY <1>1, <2>2, <3>1, OnRequestTimerCases
  <2> QED
    BY <2>1, <2>2
<1> HIDE DEF left
<1>3. /\ Freed(c, left).phase = "freed"
      /\ Resent(c, left).phase = "sending" /\ Resent(c, left).sent = c.sent
  <2> HIDE DEF c
  <2> QED
    BY <1>1, <1>2, LeftBlocks
<1>4. \A j \in Call \ {k} : req'[j] = req[j] /\ errors'[j] = errors[j]
  BY <1>2 DEF TimesOut, EndsOtherwise, Resends, TypeOK
<1>5. \/ req'[k] = Freed(c, left)
      \/ req'[k] = Resent(c, left) /\ RequestTimer(k) /\ errors' = errors
  BY <1>2 DEF TimesOut, EndsOtherwise, Resends, TypeOK
<1> QED
  BY <1>1, <1>3, <1>4, <1>5

\* What of a step leaves the clocks of a call alone.
Calm(k) ==
  /\ req'[k].phase \in {req[k].phase, "freed"}
  /\ req'[k].sent = req[k].sent
  /\ due'[k] = due[k] /\ started'[k] = started[k]
  /\ "timed_out" \in errors'[k] => "timed_out" \in errors[k]

LEMMA CalmDeadline ==
  ASSUME NEW k, Calm(k), Deadline(k), now' = now, lag' = lag
  PROVE  Deadline(k)'
<1>1. Live(k)' => Live(k) /\ req'[k].phase = req[k].phase
  BY DEF Calm, Live
<1> QED
  BY <1>1 DEF Calm, Deadline

LEMMA CalmCopy ==
  ASSUME NEW f, NEW g, g.message = f.message, g.at = f.at, f.at \in Nat,
         Calm(f.message.call), req'[f.message.call].to = req[f.message.call].to,
         now \in Nat, now' \in Nat, now' >= now, lag' = lag, RequestCopy(f)
  PROVE  RequestCopy(g)'
<1> DEFINE k == f.message.call
<1>0. Period \in Nat
  BY RpcTimedAssumption
<1>1. g.message.call = k /\ g.message.type = f.message.type /\ g.message.to = f.message.to
  OBVIOUS
<1>2. /\ req'[k].phase = "waiting" => req[k].phase = "waiting"
      /\ req'[k].phase = "sending" => req[k].phase = "sending"
      /\ due'[k] = due[k] /\ started'[k] = started[k] /\ req'[k].to = req[k].to
      /\ "timed_out" \in errors'[k] => "timed_out" \in errors[k]
  BY DEF Calm
<1> HIDE DEF k
<1>3. f.message.type = "REQUEST" =>
        /\ f.message.to = req[k].to /\ started[k] <= f.at
        /\ f.at <= started[k] + Times(Budget - 1, Period + lag)
        /\ req[k].phase = "waiting" => f.at + Period <= due[k]
        /\ req[k].phase = "sending" => f.at + Period <= now
        /\ "timed_out" \in errors[k] => f.at + Period <= now
  BY DEF RequestCopy, k
<1>4. f.at + Period <= now => f.at + Period <= now'
  BY <1>0
<1>5. g.message.type = "REQUEST" =>
        /\ g.message.to = req'[k].to /\ started'[k] <= g.at
        /\ g.at <= started'[k] + Times(Budget - 1, Period + lag')
        /\ req'[k].phase = "waiting" => g.at + Period <= due'[k]
        /\ req'[k].phase = "sending" => g.at + Period <= now'
        /\ "timed_out" \in errors'[k] => g.at + Period <= now'
  BY <1>1, <1>2, <1>3, <1>4
<1> QED
  BY <1>1, <1>5 DEF RequestCopy

\* The request a copy is of has been made, and goes where the copy goes.
LEMMA CopyOfCall ==
  ASSUME TypeOK, IdInv, Flying, [Next]_vars, NEW f \in flight
  PROVE  /\ f.message \in Message /\ f.at \in Nat
         /\ f.message.call \in Call /\ f.message.call <= made
         /\ Issued(f.message.call)
         /\ req'[f.message.call].to = req[f.message.call].to
<1>1. f.message \in net /\ f.at \in Nat
  BY DEF Flying
<1>2. f.message \in Message /\ f.message.call \in Call
  BY <1>1 DEF TypeOK, Message
<1>3. Issued(f.message.call)
  BY <1>1 DEF IdInv, NetIds, MadeUnder
<1> QED
  BY <1>1, <1>2, <1>3, IdentityKept

\* A step that sends no request and is calm for every call.
LEMMA ClockKeeps ==
  ASSUME TypeOK, IdInv, Flying, ClockInv, [Next]_vars, TimedType',
         UNCHANGED <<now, delay, lag>>, \A k \in Call : Calm(k),
         \A g \in flight' :
           \/ \E f \in flight : g.message = f.message /\ g.at = f.at
           \/ g.message.type # "REQUEST" /\ g.at = now
  PROVE  ClockInv'
<1>1. \A k \in Call : Deadline(k)'
  BY CalmDeadline DEF ClockInv
<1>2. ASSUME NEW g \in flight'
      PROVE  g.at <= now' /\ now' <= g.at + delay' /\ RequestCopy(g)'
  <2>0. now \in Nat /\ delay \in Nat /\ now' = now /\ delay' = delay
    BY DEF ClockInv, TimedType
  <2>1. ASSUME NEW f \in flight, g.message = f.message, g.at = f.at
        PROVE  g.at <= now' /\ now' <= g.at + delay' /\ RequestCopy(g)'
    <3>1. /\ f.message.call \in Call /\ f.at \in Nat
          /\ req'[f.message.call].to = req[f.message.call].to
      BY CopyOfCall
    <3>2. f.at <= now /\ now <= f.at + delay /\ RequestCopy(f)
      BY DEF ClockInv, Copies
    <3>3. now' >= now
      BY <2>0
    <3> QED
      BY <2>0, <2>1, <3>1, <3>2, <3>3, CalmCopy
  <2>2. ASSUME g.message.type # "REQUEST", g.at = now
        PROVE  g.at <= now' /\ now' <= g.at + delay' /\ RequestCopy(g)'
    BY <2>0, <2>2 DEF RequestCopy
  <2> QED
    BY <2>1, <2>2
<1> QED
  BY <1>1, <1>2 DEF ClockInv, Copies

\* The types are kept by every step.
LEMMA TimedTypeStep ==
  TypeOK /\ TypeOK' /\ Flying /\ TimedType /\ [TimedNext]_timedVars => TimedType'
<1> SUFFICES ASSUME TypeOK, TypeOK', Flying, TimedType, [TimedNext]_timedVars
             PROVE  TimedType'
  OBVIOUS
<1>0. now + Period \in Nat /\ now + 1 \in Nat
  BY RpcTimedAssumption DEF TimedType
<1>1. ASSUME NEW n \in Node, NEW to \in Node, TimedSend(n, to) PROVE TimedType'
  BY <1>1 DEF TimedSend, TimedType, clockVars
<1>2. ASSUME NEW k \in Call, TimedRequestSent(k) \/ TimedRequestEvent(k) PROVE TimedType'
  BY <1>0, <1>2 DEF TimedRequestSent, TimedRequestEvent, TimedType, clockVars
<1>3. ASSUME NEW f \in flight, TimedFeedRequest(f) PROVE TimedType'
  <2>1. /\ runs' = [runs EXCEPT ![f.message.call] = Again(@)]
        /\ UNCHANGED <<now, delay, lag, due, replyDue, started>>
    BY <1>3 DEF TimedFeedRequest, clockVars
  <2>2. \A x : Again(x) \in 0 .. 2
    BY DEF Again
  <2> QED
    BY <2>1, <2>2 DEF TimedType
<1>4. ASSUME NEW f \in flight, TimedFeedReply(f) PROVE TimedType'
  BY <1>4 DEF TimedFeedReply, TimedType, clockVars
<1>5. ASSUME NEW n \in Node, NEW s \in Node \X Id,
             TimedReplySent(n, s) \/ TimedReplySendFailed(n, s) \/ TimedReplyTimer(n, s)
      PROVE  TimedType'
  <2>1. CASE TimedReplySent(n, s)
    <3>1. /\ replyDue' = [replyDue EXCEPT ![n][s] = now + Period]
          /\ UNCHANGED <<now, delay, lag, due, started, runs>>
      BY <2>1 DEF TimedReplySent, clockVars
    <3>2. replyDue' \in [Node -> [Node \X Id -> Nat]]
      BY <1>0, <3>1 DEF TimedType
    <3> QED
      BY <3>1, <3>2 DEF TimedType
  <2>2. CASE TimedReplySendFailed(n, s) \/ TimedReplyTimer(n, s)
    BY <2>2 DEF TimedReplySendFailed, TimedReplyTimer, TimedType, clockVars
  <2> QED
    BY <1>5, <2>1, <2>2
<1>6. ASSUME NEW n \in Node, TimedRestart(n) PROVE TimedType'
  BY <1>6 DEF TimedRestart, TimedType, clockVars
<1>7. CASE Tick
  BY <1>0, <1>7 DEF Tick, TimedType
<1>8. CASE UNCHANGED timedVars
  BY <1>8 DEF timedVars, TimedType, clockVars
<1> QED
  BY <1>1, <1>2, <1>3, <1>4, <1>5, <1>6, <1>7, <1>8 DEF TimedNext

\* A copy that arrives is the copy it was.
LEMMA ArrivesKeeps ==
  ASSUME Flying, NEW f \in flight, Arrives(f), NEW g \in flight'
  PROVE  \E h \in flight : g.message = h.message /\ g.at = h.at
<1>1. [f EXCEPT !.arrived = TRUE].message = f.message /\ [f EXCEPT !.arrived = TRUE].at = f.at
  BY DEF Flying
<1>2. g \in flight \/ g = [f EXCEPT !.arrived = TRUE]
  BY DEF Arrives
<1> QED
  BY <1>1, <1>2

LEMMA ClockSend ==
  ASSUME TypeOK, IdInv, Flying, ClockInv, [Next]_vars, TimedType',
         NEW n \in Node, NEW to \in Node, TimedSend(n, to)
  PROVE  ClockInv'
<1>0. NoneAhead /\ TimedType
  BY DEF IdInv, ClockInv
<1>1. PICK k \in Call :
        /\ k = made + 1 /\ made' = k
        /\ req'[k].phase = "sending" /\ req'[k].sent = 0
        /\ \A j \in Call \ {k} : req'[j] = req[j]
        /\ errors' = errors
  BY <1>0, SendMakesLive, RpcTimedAssumption DEF TimedSend
<1>2. /\ started' = [started EXCEPT ![k] = now]
      /\ UNCHANGED <<now, delay, lag, due, flight>>
  BY <1>1 DEF TimedSend, clockVars
<1>3. ASSUME NEW j \in Call \ {k}
      PROVE  Calm(j)
  BY <1>0, <1>1, <1>2 DEF Calm, TimedType
<1>4. Deadline(k)'
  <2>1. started'[k] = now /\ Period + lag \in Nat /\ now \in Nat
    BY <1>0, <1>2, RpcTimedAssumption DEF TimedType
  <2>2. Times(0, Period + lag) = 0
    BY <2>1, TimesFacts
  <2>3. /\ started'[k] <= now
        /\ now <= started'[k] + Times(req'[k].sent, Period + lag)
    BY <1>1, <2>1, <2>2
  <2> QED
    BY <1>1, <1>2, <2>3 DEF Deadline
<1>5. \A j \in Call : Deadline(j)'
  BY <1>2, <1>3, <1>4, CalmDeadline DEF ClockInv
<1>6. ASSUME NEW f \in flight'
      PROVE  f.at <= now' /\ now' <= f.at + delay' /\ RequestCopy(f)'
  <2>1. /\ f \in flight /\ f.at \in Nat
        /\ f.message.call \in Call /\ f.message.call <= made
        /\ req'[f.message.call].to = req[f.message.call].to
    BY <1>2, <1>6, CopyOfCall
  <2>2. f.message.call # k
    BY <1>1, <2>1 DEF TypeOK, Call
  <2>3. f.at <= now /\ now <= f.at + delay /\ RequestCopy(f)
    BY <2>1 DEF ClockInv, Copies
  <2>4. now \in Nat /\ now' \in Nat /\ now' >= now
    BY <1>0, <1>2 DEF TimedType
  <2> QED
    BY <1>2, <1>3, <2>1, <2>2, <2>3, <2>4, CalmCopy
<1> QED
  BY <1>5, <1>6 DEF ClockInv, Copies

\* The datagram of a request being sent is one the budget still holds.
LEMMA SendingWithin ==
  ASSUME TypeOK, BudgetInv, NEW k \in Call, Live(k)
  PROVE  /\ req[k].sent \in Nat /\ Budget \in Int
         /\ req[k].phase = "sending" => req[k].sent <= Budget - 1
         /\ req[k].sent <= Budget
         /\ errors[k] = {}
<1>1. req[k].sent \in Nat /\ req[k].remain \in Int /\ Budget \in Int
  <2>1. req[k] \in RequestBlock
    BY DEF TypeOK
  <2> QED
    BY <2>1, BudgetType DEF RequestBlock, Byte
<1>2. Going(req[k]) \/ Answered(req[k])
  BY DEF BudgetInv, CallBudget
<1>3. errors[k] = {}
  BY DEF BudgetInv, CallBudget
<1> QED
  BY <1>1, <1>2, <1>3 DEF Going, Answered

LEMMA ClockSent ==
  ASSUME TypeOK, IdInv, BudgetInv, Flying, ClockInv, [Next]_vars, TimedType',
         NEW k \in Call, TimedRequestSent(k)
  PROVE  ClockInv'
<1> DEFINE w == Period + lag
<1>0. TimedType /\ Period \in Nat /\ w \in Nat /\ now \in Nat /\ lag \in Nat /\ delay \in Nat
  <2>1. TimedType /\ Period \in Nat /\ now \in Nat /\ lag \in Nat /\ delay \in Nat
    BY RpcTimedAssumption DEF ClockInv, TimedType
  <2> QED
    BY <2>1
<1>1. /\ req[k].phase = "sending" /\ Live(k)
      /\ req' = [req EXCEPT ![k] = Transmitted(@)]
      /\ errors' = errors
      /\ flight' = flight \cup {Copy(RequestMessage(k))}
      /\ due' = [due EXCEPT ![k] = now + Period]
      /\ UNCHANGED <<now, delay, lag, started>>
  BY DEF TimedRequestSent, RequestSent, history, clockVars, Live
<1>2. req[k] \in RequestBlock
  BY DEF TypeOK
<1>3. /\ req'[k].phase = "waiting" /\ req'[k].sent = req[k].sent + 1
      /\ due'[k] = now + Period
      /\ \A j \in Call \ {k} : req'[j] = req[j] /\ due'[j] = due[j]
  <2>1. req'[k] = Transmitted(req[k]) /\ \A j \in Call \ {k} : req'[j] = req[j]
    BY <1>1 DEF TypeOK
  <2>2. due'[k] = now + Period /\ \A j \in Call \ {k} : due'[j] = due[j]
    BY <1>0, <1>1 DEF TimedType
  <2> QED
    BY <1>2, <2>1, <2>2, BlockFields
<1>4. ASSUME NEW j \in Call \ {k}
      PROVE  Calm(j)
  BY <1>1, <1>3 DEF Calm
<1>5. req[k].sent \in Nat /\ req[k].sent <= Budget - 1 /\ Budget - 1 \in Nat /\ errors[k] = {}
  BY <1>1, SendingWithin, RpcTimedAssumption
<1>6. started[k] \in Nat /\ started[k] <= now /\ now <= started[k] + Times(req[k].sent, w)
  BY <1>0, <1>1 DEF ClockInv, Deadline, TimedType
<1>7. /\ Times(req[k].sent, w) \in Nat /\ Times(Budget - 1, w) \in Nat
      /\ Times(req[k].sent + 1, w) = Times(req[k].sent, w) + w
      /\ Times(req[k].sent, w) <= Times(Budget - 1, w)
  BY <1>0, <1>5, TimesFacts
<1>8. Deadline(k)'
  <2>1. /\ started[k] <= now /\ now <= due'[k] + lag
        /\ due'[k] + lag <= started[k] + Times(req'[k].sent, w)
    BY <1>0, <1>3, <1>6, <1>7
  <2> QED
    BY <1>1, <1>3, <2>1 DEF Deadline
<1>9. \A j \in Call : Deadline(j)'
  BY <1>1, <1>4, <1>8, CalmDeadline DEF ClockInv
<1>10. ASSUME NEW f, f.message.call = k, f.message.to = req[k].to,
              started[k] <= f.at, f.at <= started[k] + Times(Budget - 1, w),
              f.at \in Nat, f.at <= now
       PROVE  RequestCopy(f)'
  <2>1. req'[k].to = req[k].to
    <3>1. Issued(k)
      BY <1>1 DEF Issued
    <3> QED
      BY <3>1, IdentityKept
  <2>2. f.at + Period <= due'[k]
    BY <1>0, <1>3, <1>10
  <2> QED
    BY <1>1, <1>3, <1>5, <1>10, <2>1, <2>2 DEF RequestCopy
<1>11. ASSUME NEW f \in flight'
       PROVE  f.at <= now' /\ now' <= f.at + delay' /\ RequestCopy(f)'
  <2>1. CASE f \in flight
    <3>1. /\ f.at \in Nat /\ f.message.call \in Call
          /\ req'[f.message.call].to = req[f.message.call].to
      BY <2>1, CopyOfCall
    <3>2. f.at <= now /\ now <= f.at + delay /\ RequestCopy(f)
      BY <2>1 DEF ClockInv, Copies
    <3>3. CASE f.message.call # k
      <4>1. now' \in Nat /\ now' >= now
        BY <1>0, <1>1
      <4> QED
        BY <1>0, <1>1, <1>4, <3>1, <3>2, <3>3, <4>1, CalmCopy
    <3>4. CASE f.message.call = k
      <4>1. f.message.type = "REQUEST" => RequestCopy(f)'
        BY <1>10, <3>1, <3>2, <3>4 DEF RequestCopy
      <4>2. f.message.type # "REQUEST" => RequestCopy(f)'
        BY DEF RequestCopy
      <4> QED
        BY <1>1, <3>2, <4>1, <4>2
    <3> QED
      BY <3>3, <3>4
  <2>2. CASE f = Copy(RequestMessage(k))
    <3>1. f.at = now /\ f.message.call = k /\ f.message.to = req[k].to
      BY <2>2 DEF Copy, RequestMessage
    <3>2. now <= started[k] + Times(Budget - 1, w)
      BY <1>0, <1>6, <1>7
    <3> QED
      BY <1>0, <1>1, <1>6, <1>10, <3>1, <3>2
  <2> QED
    BY <1>1, <2>1, <2>2
<1> QED
  BY <1>9, <1>11 DEF ClockInv, Copies

LEMMA ClockEvent ==
  ASSUME TypeOK, IdInv, BudgetInv, Flying, ClockInv, [Next]_vars, TimedType',
         NEW k \in Call, TimedRequestEvent(k)
  PROVE  ClockInv'
<1>0. /\ TimedType /\ Period \in Nat /\ now \in Nat /\ lag \in Nat /\ delay \in Nat
      /\ started[k] \in Nat /\ due[k] \in Nat
  BY RpcTimedAssumption DEF ClockInv, TimedType
<1>1. /\ RequestSendFailed(k) \/ RequestTimer(k)
      /\ RequestTimer(k) => now >= due[k]
      /\ UNCHANGED <<now, delay, lag, due, started, flight>>
  <2>1. RequestTimer(k) => ~RequestSendFailed(k)
    BY Zenon DEF RequestSendFailed, RequestTimer
  <2> QED
    BY <2>1 DEF TimedRequestEvent, clockVars, Expired
<1>2. /\ Live(k)
      /\ \A j \in Call \ {k} : req'[j] = req[j] /\ errors'[j] = errors[j]
      /\ \/ req'[k].phase = "freed"
         \/ /\ RequestTimer(k) /\ errors' = errors
            /\ req'[k].phase = "sending" /\ req'[k].sent = req[k].sent
  BY <1>1, RequestEventOutcomes
<1>3. \A j \in Call \ {k} : Calm(j)
  BY <1>1, <1>2 DEF Calm
<1>4. Deadline(k)'
  <2>1. CASE req'[k].phase = "freed"
    BY <2>1 DEF Deadline, Live
  <2>2. CASE /\ RequestTimer(k)
             /\ req'[k].phase = "sending" /\ req'[k].sent = req[k].sent
    <3>1. req[k].phase = "waiting"
      BY <2>2 DEF RequestTimer
    <3>2. /\ started[k] <= now /\ now <= due[k] + lag
          /\ due[k] + lag <= started[k] + Times(req[k].sent, Period + lag)
      BY <1>2, <3>1 DEF ClockInv, Deadline
    <3>3. req[k].sent \in Nat /\ Times(req[k].sent, Period + lag) \in Nat
      <4>1. Period + lag \in Nat /\ req[k].sent \in Nat
        BY <1>0, <1>2, SendingWithin
      <4> QED
        BY <4>1, TimesFacts
    <3>4. now <= started[k] + Times(req[k].sent, Period + lag)
      BY <1>0, <3>2, <3>3
    <3> QED
      BY <1>1, <2>2, <3>2, <3>4 DEF Deadline
  <2> QED
    BY <1>2, <2>1, <2>2
<1>5. \A j \in Call : Deadline(j)'
  BY <1>1, <1>3, <1>4, CalmDeadline DEF ClockInv
<1>6. ASSUME NEW f \in flight'
      PROVE  f.at <= now' /\ now' <= f.at + delay' /\ RequestCopy(f)'
  <2>1. /\ f \in flight /\ f.at \in Nat /\ f.message.call \in Call
        /\ req'[f.message.call].to = req[f.message.call].to
    BY <1>1, <1>6, CopyOfCall
  <2>2. f.at <= now /\ now <= f.at + delay /\ RequestCopy(f)
    BY <2>1 DEF ClockInv, Copies
  <2>3. CASE f.message.call # k
    <3>1. now' \in Nat /\ now' >= now
      BY <1>0, <1>1
    <3> QED
      BY <1>0, <1>1, <1>3, <2>1, <2>2, <2>3, <3>1, CalmCopy
  <2>4. CASE f.message.call = k /\ f.message.type = "REQUEST"
    <3>1. f.at + Period <= now
      <4>1. CASE req[k].phase = "sending"
        BY <2>2, <2>4, <4>1 DEF RequestCopy
      <4>2. CASE req[k].phase = "waiting" /\ RequestTimer(k)
        <5>1. f.at + Period <= due[k]
          BY <2>2, <2>4, <4>2 DEF RequestCopy
        <5> QED
          BY <1>0, <1>1, <2>1, <4>2, <5>1
      <4> QED
        BY <1>1, <4>1, <4>2 DEF RequestSendFailed, RequestTimer
    <3>2. req'[k].phase # "waiting"
      BY <1>2
    <3> QED
      BY <1>1, <2>1, <2>2, <2>4, <3>1, <3>2 DEF RequestCopy
  <2>5. CASE f.message.type # "REQUEST"
    BY <1>1, <2>2, <2>5 DEF RequestCopy
  <2> QED
    BY <2>3, <2>4, <2>5
<1> QED
  BY <1>5, <1>6 DEF ClockInv, Copies

LEMMA ClockTick ==
  ASSUME TypeOK, IdInv, Flying, ClockInv, [Next]_vars, TimedType', Tick
  PROVE  ClockInv'
<1>0. TimedType /\ Period \in Nat /\ now \in Nat /\ lag \in Nat /\ delay \in Nat
  BY RpcTimedAssumption DEF ClockInv, TimedType
<1>1. /\ \A k \in Call : Live(k) => req[k].phase # "sending" /\ now < due[k] + lag
      /\ now' = now + 1
      /\ flight' = {f \in flight : now < f.at + delay}
      /\ UNCHANGED <<req, errors, delay, lag, due, started>>
  BY DEF Tick, MayPass, vars
<1>2. ASSUME NEW k \in Call
      PROVE  Deadline(k)'
  <2>1. due[k] \in Nat /\ started[k] \in Nat
    BY <1>0 DEF TimedType
  <2>2. CASE Live(k)
    <3>1. /\ req[k].phase = "waiting" /\ now < due[k] + lag /\ started[k] <= now
          /\ due[k] + lag <= started[k] + Times(req[k].sent, Period + lag)
      BY <1>1, <2>2 DEF Live, ClockInv, Deadline
    <3>2. now + 1 <= due[k] + lag /\ started[k] <= now + 1
      BY <1>0, <2>1, <3>1
    <3> QED
      BY <1>1, <3>1, <3>2 DEF Deadline
  <2>3. CASE ~Live(k)
    BY <1>1, <2>3 DEF Deadline, Live
  <2> QED
    BY <2>2, <2>3
<1>3. ASSUME NEW f \in flight'
      PROVE  f.at <= now' /\ now' <= f.at + delay' /\ RequestCopy(f)'
  <2>1. f \in flight /\ now < f.at + delay
    BY <1>1, <1>3
  <2>2. /\ f.at \in Nat /\ f.message.call \in Call
        /\ req'[f.message.call].to = req[f.message.call].to
    BY <2>1, CopyOfCall
  <2>3. f.at <= now /\ RequestCopy(f)
    BY <2>1 DEF ClockInv, Copies
  <2>4. now' \in Nat /\ now' >= now /\ f.at <= now' /\ now' <= f.at + delay'
    BY <1>0, <1>1, <2>1, <2>2, <2>3
  <2>5. Calm(f.message.call)
    BY <1>1 DEF Calm
  <2> QED
    BY <1>0, <1>1, <2>2, <2>3, <2>4, <2>5, CalmCopy
<1> QED
  BY <1>2, <1>3 DEF ClockInv, Copies

LEMMA ClockStep ==
  TypeOK /\ TypeOK' /\ IdInv /\ BudgetInv /\ Flying /\ ClockInv /\ [TimedNext]_timedVars
    => ClockInv'
<1> SUFFICES ASSUME TypeOK, TypeOK', IdInv, BudgetInv, Flying, ClockInv,
                    [TimedNext]_timedVars
             PROVE  ClockInv'
  OBVIOUS
<1>0. [Next]_vars /\ TimedType'
  BY TimedImplements, TimedTypeStep DEF ClockInv
<1>1. ASSUME NEW f \in flight, TimedFeedRequest(f)
      PROVE  ClockInv'
  <2>1. Arrives(f) /\ UNCHANGED <<req, errors, now, delay, lag, due, started>>
    BY <1>1 DEF TimedFeedRequest, FeedRequest, history, clockVars
  <2>2. \A k \in Call : Calm(k)
    BY <2>1 DEF Calm
  <2> QED
    BY <1>0, <2>1, <2>2, ArrivesKeeps, ClockKeeps
<1>2. ASSUME NEW f \in flight, TimedFeedReply(f)
      PROVE  ClockInv'
  <2>1. PICK k : k = Addressee(f.message.to, f.message.id)
    OBVIOUS
  <2>2. /\ Arrives(f) /\ UNCHANGED <<errors, now, delay, lag, due, started>>
        /\ req' = [req EXCEPT ![k] = Settled(@)]
    BY <1>2, <2>1 DEF TimedFeedReply, FeedReply, clockVars
  <2>3. \A j \in Call : /\ req[j] \in RequestBlock
                        /\ req'[j] = req[j] \/ req'[j] = Settled(req[j])
    BY <2>2 DEF TypeOK
  <2>4. \A j \in Call : req'[j].phase = req[j].phase /\ req'[j].sent = req[j].sent
    BY <2>3, BlockFields
  <2>5. \A j \in Call : Calm(j)
    BY <2>2, <2>4 DEF Calm
  <2> QED
    BY <1>0, <2>2, <2>5, ArrivesKeeps, ClockKeeps
<1>3. ASSUME NEW n \in Node, NEW s \in Node \X Id,
             TimedReplySent(n, s) \/ TimedReplySendFailed(n, s) \/ TimedReplyTimer(n, s)
      PROVE  ClockInv'
  <2>1. /\ UNCHANGED <<req, errors, now, delay, lag, due, started>>
        /\ flight' = flight \/ flight' = flight \cup {Copy(ReplyMessage(n, s))}
    <3>1. ReplyStep(n, s)
      BY <1>3 DEF TimedReplySent, TimedReplySendFailed, TimedReplyTimer, ReplyStep
    <3>2. UNCHANGED <<req, errors>>
      BY <3>1, ReplyStepKeeps DEF history
    <3> QED
      BY <1>3, <3>2 DEF TimedReplySent, TimedReplySendFailed, TimedReplyTimer, clockVars
  <2>2. \A k \in Call : Calm(k)
    BY <2>1 DEF Calm
  <2>3. Copy(ReplyMessage(n, s)).message.type # "REQUEST" /\ Copy(ReplyMessage(n, s)).at = now
    BY DEF Copy, ReplyMessage
  <2> QED
    BY <1>0, <2>1, <2>2, <2>3, ClockKeeps
<1>4. ASSUME NEW n \in Node, TimedRestart(n)
      PROVE  ClockInv'
  <2>1. /\ UNCHANGED <<errors, now, delay, lag, due, started, flight>>
        /\ req' = [k \in Call |-> IF Live(k) /\ req[k].from = n
                                  THEN [req[k] EXCEPT !.phase = "freed"] ELSE req[k]]
    BY <1>4 DEF TimedRestart, Restart, history, clockVars
  <2>2. ASSUME NEW k \in Call
        PROVE  req'[k].phase \in {req[k].phase, "freed"} /\ req'[k].sent = req[k].sent
    <3>1. req[k] \in RequestBlock
      BY DEF TypeOK
    <3>2. [req[k] EXCEPT !.phase = "freed"].phase = "freed"
            /\ [req[k] EXCEPT !.phase = "freed"].sent = req[k].sent
      BY <3>1 DEF RequestBlock
    <3>3. req'[k] = req[k] \/ req'[k] = [req[k] EXCEPT !.phase = "freed"]
      BY <2>1
    <3> QED
      BY <3>2, <3>3
  <2>3. \A k \in Call : Calm(k)
    BY <2>1, <2>2 DEF Calm
  <2> QED
    BY <1>0, <2>1, <2>3, ClockKeeps
<1>5. CASE UNCHANGED timedVars
  <2>1. UNCHANGED <<req, errors, now, delay, lag, due, started, flight>>
    BY <1>5 DEF timedVars, vars, clockVars
  <2>2. \A k \in Call : Calm(k)
    BY <2>1 DEF Calm
  <2> QED
    BY <1>0, <2>1, <2>2, ClockKeeps
<1> QED
  BY <1>0, <1>1, <1>2, <1>3, <1>4, <1>5, ClockSend, ClockSent, ClockEvent, ClockTick
  DEF TimedNext

LEMMA ClockInit == TimedInit => ClockInv
<1> SUFFICES ASSUME TimedInit PROVE ClockInv
  OBVIOUS
<1>1. TimedType
  BY RpcTimedAssumption DEF TimedInit, TimedType
<1>2. \A k \in Call : ~Live(k)
  BY DEF TimedInit, Init, Live, Unused
<1>3. Copies
  BY DEF TimedInit, Copies
<1> QED
  BY <1>1, <1>2, <1>3 DEF ClockInv, Deadline

LEMMA ClockAlways == TimedSpec => [](TypeOK /\ IdInv /\ BudgetInv /\ Flying /\ ClockInv)
<1>1. TimedSpec => [](TypeOK /\ IdInv /\ BudgetInv /\ Flying)
  BY TimedImplement, BudgetAlways, PTL
<1> QED
  BY <1>1, ClockInit, ClockStep, PTL DEF TimedSpec

\* A call ends within Budget periods, each as late as a handler may be
\* (Rpc.h:195-203, 213-214), for any retry argument, period, delay and lateness.
THEOREM EndsInTimeCorrect == TimedSpec => []EndsInTime
<1>1. TypeOK /\ BudgetInv /\ ClockInv => EndsInTime
  <2> SUFFICES ASSUME TypeOK, BudgetInv, ClockInv, NEW k \in Call, Live(k)
               PROVE  now <= started[k] + Budget * (Period + lag)
    BY DEF EndsInTime
  <2>1. /\ req[k].sent \in Nat /\ Budget \in Nat /\ Period + lag \in Nat
        /\ req[k].sent <= Budget
    <3>1. Budget \in Int /\ Budget > 0 /\ Period \in Nat /\ lag \in Nat
      BY SendingWithin, RpcTimedAssumption DEF ClockInv, TimedType
    <3> QED
      BY <3>1, SendingWithin
  <2>2. Times(req[k].sent, Period + lag) <= Times(Budget, Period + lag)
        /\ Times(req[k].sent, Period + lag) \in Nat /\ Times(Budget, Period + lag) \in Nat
    BY <2>1, TimesFacts
  <2>3. now \in Nat /\ lag \in Nat /\ due[k] \in Nat /\ started[k] \in Nat
    BY DEF ClockInv, TimedType
  <2>4. now <= started[k] + Times(req[k].sent, Period + lag)
    <3>1. CASE req[k].phase = "sending"
      BY <3>1 DEF ClockInv, Deadline
    <3>2. CASE req[k].phase = "waiting"
      <4>1. /\ now <= due[k] + lag
            /\ due[k] + lag <= started[k] + Times(req[k].sent, Period + lag)
        BY <3>2 DEF ClockInv, Deadline
      <4> QED
        BY <2>2, <2>3, <4>1
    <3> QED
      BY <3>1, <3>2 DEF Live
  <2>5. now <= started[k] + Times(Budget, Period + lag)
    BY <2>2, <2>3, <2>4
  <2> QED
    BY <2>5 DEF Times
<1> QED
  BY <1>1, ClockAlways, PTL

\* A call of a caller that stays up has been told of an answer or an error when Budget
\* periods, each as late as a handler may be, have passed since it was made
\* (Rpc.h:115-136, 194-218), although the network may lose every datagram.
THEOREM ToldInTimeCorrect ==
  TimedSpec => [](\A k \in Call :
                    /\ k <= made /\ req[k].from \notin Volatile
                    /\ now > started[k] + Budget * (Period + lag)
                    => completions[k] > 0)
<1>1. ASSUME TypeOK, ClockInv, EndsInTime, ToldInv, NEW k \in Call,
             k <= made, req[k].from \notin Volatile,
             now > started[k] + Budget * (Period + lag)
      PROVE  completions[k] > 0
  <2>1. Budget \in Int /\ Budget > 0
    BY BudgetType, RpcTimedAssumption DEF Byte
  <2>2. ~Live(k)
    <3>1. started[k] + Budget * (Period + lag) \in Int /\ now \in Int
      <4>1. TimedType
        BY <1>1 DEF ClockInv
      <4>2. started[k] \in Nat /\ lag \in Nat /\ now \in Nat /\ Period \in Nat
        BY <4>1, RpcTimedAssumption DEF TimedType
      <4>3. Period + lag \in Nat
        BY <4>2
      <4>4. Budget * (Period + lag) \in Int
        BY <2>1, <4>3
      <4> QED
        BY <4>2, <4>4
    <3> QED
      BY <1>1, <3>1 DEF EndsInTime
  <2> QED
    BY <1>1, <2>1, <2>2 DEF ToldInv, Told
<1>2. TypeOK /\ ClockInv /\ EndsInTime /\ ToldInv =>
        \A k \in Call :
          /\ k <= made /\ req[k].from \notin Volatile
          /\ now > started[k] + Budget * (Period + lag)
          => completions[k] > 0
  BY <1>1
<1> QED
  BY <1>2, ClockAlways, EndsInTimeCorrect, TimedImplement, ToldAlways, PTL

LEMMA InTimeDelay ==
  ASSUME TimedType, InTime
  PROVE  /\ delay < Period /\ Budget - 1 \in Nat
         /\ Times(Budget - 1, lag) + delay < Period
<1>1. Budget - 1 \in Nat /\ lag \in Nat /\ delay \in Nat /\ Period \in Nat
  <2>1. Budget \in Int /\ Budget > 0
    BY BudgetType, RpcTimedAssumption DEF Byte
  <2> QED
    BY <2>1, RpcTimedAssumption DEF TimedType
<1>2. Times(Budget - 1, lag) \in Nat
  BY <1>1, TimesFacts
<1>3. Times(Budget - 1, lag) + delay < Period
  BY DEF InTime, Times
<1> QED
  BY <1>1, <1>2, <1>3

\* No request of a call that timed out is still on its way: all of its copies left more
\* than a delay ago.
LEMMA NoCopyLeft ==
  ASSUME TypeOK, IdInv, Flying, ClockInv, InTime,
         NEW f \in flight, f.message.type = "REQUEST"
  PROVE  "timed_out" \notin errors[f.message.call]
<1>1. f.at \in Nat /\ now \in Nat /\ delay \in Nat /\ Period \in Nat /\ delay < Period
  BY InTimeDelay, RpcTimedAssumption DEF Flying, ClockInv, TimedType
<1>2. /\ now <= f.at + delay
      /\ "timed_out" \in errors[f.message.call] => f.at + Period <= now
  BY DEF ClockInv, Copies, RequestCopy
<1> QED
  BY <1>1, <1>2

LEMMA NoRunStep ==
  TypeOK /\ IdInv /\ Flying /\ ClockInv /\ [TimedNext]_timedVars
    => [InTime => \A k \in Call :
          runs'[k] # runs[k] => "timed_out" \notin errors[k]]_timedVars
<1> SUFFICES ASSUME TypeOK, IdInv, Flying, ClockInv, [TimedNext]_timedVars, InTime,
                    NEW k \in Call, runs'[k] # runs[k]
             PROVE  "timed_out" \notin errors[k]
  OBVIOUS
<1>1. PICK f \in flight : TimedFeedRequest(f)
  BY DEF TimedNext, timedVars, TimedSend, TimedRequestSent, TimedRequestEvent, TimedReplySent,
         TimedReplySendFailed, TimedReplyTimer, TimedFeedReply, TimedRestart, Tick
<1>2. runs' = [runs EXCEPT ![f.message.call] = Again(@)] /\ f.message.type = "REQUEST"
  BY <1>1 DEF TimedFeedRequest, FeedRequest
<1>3. f.message.call = k
  BY <1>2 DEF ClockInv, TimedType
<1> QED
  BY <1>2, <1>3, NoCopyLeft

\* No request is executed after its caller was told of a timeout, when the network is
\* faster than the timers (Rpc.h:64, 195-203), for any retry argument, period, delay and
\* lateness that make it so.
THEOREM NoRunCorrect == TimedSpec => NoRunAfterTimeout
  BY ClockAlways, NoRunStep, PTL DEF TimedSpec, NoRunAfterTimeout

\* What the callee remembers of a call.
BlockOf(k) == replying[req[k].to][<<req[k].from, req[k].id>>]
DueOf(k) == replyDue[req[k].to][<<req[k].from, req[k].id>>]

\* Its reply block is still there, and has been for a period for every reply it sent; or
\* it had the time to send them all.
Kept(k) ==
  /\ BlockOf(k).phase # "absent" /\ BlockOf(k).call = k
  /\ BlockOf(k).phase = "sending" =>
       started[k] + 1 + Times(BlockOf(k).sent, Period) <= now
  /\ BlockOf(k).phase = "waiting" =>
       started[k] + 1 + Times(BlockOf(k).sent, Period) <= DueOf(k)

Gone(k) == started[k] + 1 + Times(Budget, Period) <= now

Recalled(k) ==
  /\ runs[k] # 0 => Issued(k)
  /\ InTime /\ k \notin cut => runs[k] <= 1 /\ (runs[k] # 0 => Kept(k) \/ Gone(k))

LEMMA RecalledKept ==
  ASSUME TypeOK, IdInv, TimedType, TimedType', [Next]_vars, NEW k \in Call, Recalled(k),
         runs'[k] = runs[k], runs[k] # 0 => started'[k] = started[k],
         Issued(k) /\ Kept(k) => BlockOf(k)' = BlockOf(k) /\ DueOf(k)' = DueOf(k),
         cut \subseteq cut', now' >= now, UNCHANGED <<delay, lag>>
  PROVE  Recalled(k)'
<1>0. InTime' <=> InTime
  BY DEF InTime
<1>1. CASE runs[k] = 0
  BY <1>1 DEF Recalled
<1>2. CASE runs[k] # 0
  <2>1. Issued(k) /\ Issued(k)'
    BY <1>2, IdentityKept DEF Recalled
  <2>2. now \in Nat /\ now' \in Nat /\ started[k] \in Nat /\ started'[k] = started[k]
    BY <1>2 DEF TimedType
  <2>3. Kept(k) => Kept(k)'
    <3>1. SUFFICES ASSUME Kept(k) PROVE Kept(k)'
      OBVIOUS
    <3>2. PICK c, d : c = BlockOf(k) /\ d = DueOf(k)
      OBVIOUS
    <3>3. BlockOf(k)' = c /\ DueOf(k)' = d
      BY <2>1, <3>1, <3>2
    <3>4. PICK x : x = started[k] + 1 + Times(c.sent, Period)
      OBVIOUS
    <3>5. /\ c.phase # "absent" /\ c.call = k
          /\ c.phase = "sending" => x <= now
          /\ c.phase = "waiting" => x <= d
      BY <3>1, <3>2, <3>4 DEF Kept
    <3>6. c.phase = "sending" => x <= now'
      <4>1. CASE c.phase = "sending"
        <5>1. c \in ReplyBlock
          <6>1. req[k].to \in Node /\ req[k].from \in Node /\ req[k].id \in Id
            BY DEF TypeOK, RequestBlock
          <6> QED
            BY <3>2, <3>5, <6>1, PresentType DEF BlockOf
        <5>2. x \in Nat
          <6>1. Times(c.sent, Period) \in Nat
            BY <5>1, TimesFacts, RpcTimedAssumption DEF ReplyBlock
          <6> QED
            BY <2>2, <3>4, <6>1
        <5> QED
          BY <2>2, <3>5, <5>2
      <4> QED
        BY <4>1
    <3> QED
      BY <2>2, <3>3, <3>4, <3>5, <3>6 DEF Kept
  <2>4. Gone(k) => Gone(k)'
    <3>1. Budget \in Nat /\ Period \in Nat
      BY BudgetType, RpcTimedAssumption DEF Byte
    <3>2. Times(Budget, Period) \in Nat
      BY <3>1, TimesFacts
    <3> QED
      BY <2>2, <3>2 DEF Gone
  <2> QED
    BY <1>0, <1>2, <2>1, <2>3, <2>4 DEF Recalled
<1> QED
  BY <1>1, <1>2

\* No copy of the request of a call is left when its reply block can have gone.
LEMMA GoneIsLate ==
  ASSUME TypeOK, IdInv, Flying, ClockInv, InTime,
         NEW f \in flight, f.message.type = "REQUEST"
  PROVE  ~Gone(f.message.call)
<1>1. PICK k : k = f.message.call
  OBVIOUS
<1>2. /\ f.at \in Nat /\ now \in Nat /\ delay \in Nat /\ Period \in Nat /\ lag \in Nat
      /\ k \in Call /\ started[k] \in Nat
  <2>1. f.message \in Message
    BY DEF Flying, TypeOK
  <2>2. k \in Call
    BY <1>1, <2>1 DEF Message
  <2> QED
    BY <2>2, RpcTimedAssumption DEF Flying, ClockInv, TimedType
<1>3. Budget - 1 \in Nat /\ Times(Budget - 1, lag) + delay < Period
  BY InTimeDelay DEF ClockInv
<1>4. PICK a \in Nat : a = Budget - 1
  BY <1>3
<1>5. Budget = a + 1
  BY <1>4, BudgetType DEF Byte
<1>6. /\ Times(a, Period + lag) = Times(a, Period) + Times(a, lag)
      /\ Times(Budget, Period) = Times(a, Period) + Period
      /\ Times(a, Period) \in Nat /\ Times(a, lag) \in Nat
  <2>1. a * (Period + lag) = a * Period + a * lag
    BY <1>2
  <2> QED
    BY <1>2, <1>5, <2>1, TimesFacts DEF Times
<1>7. f.at <= started[k] + Times(a, Period + lag) /\ now <= f.at + delay
  BY <1>1, <1>4 DEF ClockInv, Copies, RequestCopy
<1>8. Times(a, lag) + delay < Period
  BY <1>3, <1>4
<1>9. ~ started[k] + 1 + Times(Budget, Period) <= now
  BY <1>2, <1>6, <1>7, <1>8
<1> QED
  BY <1>1, <1>9 DEF Gone

\* The timer of a reply starts the next transmission, or the budget is spent.
LEMMA ReplyTimerTells ==
  ASSUME TypeOK, BudgetInv, NEW n \in Node, NEW s \in Node \X Id, ReplyTimer(n, s)
  PROVE  /\ replying[n][s] \in ReplyBlock /\ replying[n][s].phase = "waiting"
         /\ \/ /\ replying' = [replying EXCEPT ![n][s] = Absent]
               /\ replying[n][s].sent = Budget
            \/ \E b \in ReplyBlock :
                 /\ replying' = [replying EXCEPT ![n][s] = b]
                 /\ b.phase = "sending" /\ b.call = replying[n][s].call
                 /\ b.sent = replying[n][s].sent
<1>1. PICK c : c = replying[n][s]
  OBVIOUS
<1>2. PICK left : left = Int8(c.remain - 1)
  OBVIOUS
<1>3. c.phase = "waiting" /\ OnReplyTimer(n, s, c, FALSE)
  BY <1>1 DEF ReplyTimer
<1>4. c \in ReplyBlock
  BY <1>1, <1>3, PresentType
<1>5. Going(c)
  BY <1>1, <1>3 DEF BudgetInv, ReplyBudget
<1>6. left \in Byte /\ left = c.remain - 1
  BY <1>2, <1>4, <1>5, GoingOn
<1>7. \/ Spent(left) /\ replying' = [replying EXCEPT ![n][s] = Absent]
      \/ replying' = [replying EXCEPT ![n][s] = Resent(c, left)]
  BY <1>2, <1>3, Zenon DEF OnReplyTimer, Resent
<1>8. Spent(left) => c.sent = Budget
  <2>1. c.remain \in Int /\ c.sent \in Nat /\ Budget \in Int
    BY <1>4, BudgetType DEF ReplyBlock, Byte
  <2> QED
    BY <1>3, <1>5, <1>6, <2>1 DEF Spent, Going
<1>9. /\ Resent(c, left) \in ReplyBlock /\ Resent(c, left).phase = "sending"
      /\ Resent(c, left).call = c.call /\ Resent(c, left).sent = c.sent
  BY <1>4, <1>6 DEF Resent, ReplyBlock
<1> QED
  BY <1>1, <1>3, <1>4, <1>7, <1>8, <1>9

LEMMA RecalledReply ==
  ASSUME TypeOK, IdInv, BudgetInv, TimedType, TimedType', [Next]_vars,
         NEW n \in Node, NEW s \in Node \X Id,
         TimedReplySent(n, s) \/ TimedReplySendFailed(n, s) \/ TimedReplyTimer(n, s),
         NEW k \in Call, Recalled(k)
  PROVE  Recalled(k)'
<1>1. /\ ReplyStep(n, s)
      /\ UNCHANGED <<now, delay, lag, started, runs>> /\ cut \subseteq cut'
  BY DEF TimedReplySent, TimedReplySendFailed, TimedReplyTimer, ReplyStep, clockVars
<1>2. /\ req' = req
      /\ \E b : replying' = [replying EXCEPT ![n][s] = b]
  BY <1>1, ReplyStepKeeps
<1>3. replyDue' = replyDue \/ replyDue' = [replyDue EXCEPT ![n][s] = now + Period]
  BY DEF TimedReplySent, TimedReplySendFailed, TimedReplyTimer
<1>4. \A p \in Node, t \in Node \X Id : ~(p = n /\ t = s) =>
        replying'[p][t] = replying[p][t] /\ replyDue'[p][t] = replyDue[p][t]
  BY <1>2, <1>3 DEF TypeOK, TimedType
<1>5. PICK p \in Node, t \in Node \X Id : p = req[k].to /\ t = <<req[k].from, req[k].id>>
  BY DEF TypeOK, RequestBlock
<1>6. /\ BlockOf(k) = replying[p][t] /\ DueOf(k) = replyDue[p][t]
      /\ BlockOf(k)' = replying'[p][t] /\ DueOf(k)' = replyDue'[p][t]
  BY <1>2, <1>5 DEF BlockOf, DueOf
<1>7. now' >= now
  BY <1>1 DEF TimedType
<1>8. CASE ~(p = n /\ t = s) \/ ~Kept(k)
  <2>1. Kept(k) => BlockOf(k)' = BlockOf(k) /\ DueOf(k)' = DueOf(k)
    BY <1>4, <1>6, <1>8
  <2> QED
    BY <1>1, <1>7, <2>1, RecalledKept
<1>9. CASE p = n /\ t = s /\ Kept(k)
  <2>0. PICK c, d : c = replying[n][s] /\ d = replyDue[n][s]
    OBVIOUS
  <2>1. /\ c \in ReplyBlock /\ c.call = k
        /\ c.phase = "sending" => started[k] + 1 + Times(c.sent, Period) <= now
        /\ c.phase = "waiting" => started[k] + 1 + Times(c.sent, Period) <= d
    <3>1. BlockOf(k) = c /\ DueOf(k) = d
      BY <1>6, <1>9, <2>0
    <3>2. c.phase # "absent"
      BY <1>9, <3>1 DEF Kept
    <3>3. c \in ReplyBlock
      BY <2>0, <3>2, PresentType
    <3> QED
      BY <1>9, <3>1, <3>3 DEF Kept
  <2>2. /\ c.sent \in Nat /\ Period \in Nat /\ now \in Nat /\ started[k] \in Nat /\ d \in Nat
        /\ Times(c.sent, Period) \in Nat
        /\ Times(c.sent + 1, Period) = Times(c.sent, Period) + Period
    <3>1. c.sent \in Nat /\ Period \in Nat /\ now \in Nat /\ started[k] \in Nat /\ d \in Nat
      BY <2>0, <2>1, RpcTimedAssumption DEF ReplyBlock, TimedType
    <3> QED
      BY <3>1, TimesFacts
  <2>3. ASSUME NEW b, replying'[n][s] = b, b.phase # "absent", b.call = k,
               b.phase = "sending" => started[k] + 1 + Times(b.sent, Period) <= now,
               b.phase = "waiting" => started[k] + 1 + Times(b.sent, Period) <= replyDue'[n][s]
        PROVE  Kept(k)'
    <3>1. BlockOf(k)' = b /\ DueOf(k)' = replyDue'[n][s]
      BY <1>6, <1>9, <2>3
    <3> QED
      BY <1>1, <2>3, <3>1 DEF Kept
  <2>4. Kept(k)' \/ Gone(k)' \/ k \in cut'
    <3>1. CASE TimedReplySent(n, s)
      <4>1. /\ c.phase = "sending"
            /\ replying' = [replying EXCEPT ![n][s] = Transmitted(c)]
            /\ replyDue' = [replyDue EXCEPT ![n][s] = now + Period]
        BY <2>0, <3>1 DEF TimedReplySent, ReplySent
      <4>2. replying'[n][s] = Transmitted(c) /\ replyDue'[n][s] = now + Period
        BY <4>1 DEF TypeOK, TimedType
      <4>3. PICK b : b = Transmitted(c)
        OBVIOUS
      <4>4. b.phase = "waiting" /\ b.call = k /\ b.sent = c.sent + 1
        BY <2>1, <4>3, BlockFields
      <4>5. started[k] + 1 + Times(b.sent, Period) <= replyDue'[n][s]
        BY <2>1, <2>2, <4>1, <4>2, <4>4
      <4> QED
        BY <2>3, <4>2, <4>3, <4>4, <4>5
    <3>2. CASE TimedReplySendFailed(n, s)
      BY <2>0, <2>1, <3>2 DEF TimedReplySendFailed
    <3>3. CASE TimedReplyTimer(n, s)
      <4>1. ReplyTimer(n, s) /\ now >= d
        BY <2>0, <3>3 DEF TimedReplyTimer, Expired
      <4>2. /\ c.phase = "waiting"
            /\ \/ c.sent = Budget
               \/ \E b \in ReplyBlock :
                    /\ replying' = [replying EXCEPT ![n][s] = b]
                    /\ b.phase = "sending" /\ b.call = c.call /\ b.sent = c.sent
        BY <2>0, <4>1, ReplyTimerTells
      <4>3. started[k] + 1 + Times(c.sent, Period) <= now
        BY <2>1, <2>2, <4>1, <4>2
      <4>4. CASE c.sent = Budget
        BY <1>1, <4>3, <4>4 DEF Gone
      <4>5. CASE \E b \in ReplyBlock :
                   /\ replying' = [replying EXCEPT ![n][s] = b]
                   /\ b.phase = "sending" /\ b.call = c.call /\ b.sent = c.sent
        <5>1. PICK b \in ReplyBlock :
                /\ replying' = [replying EXCEPT ![n][s] = b]
                /\ b.phase = "sending" /\ b.call = c.call /\ b.sent = c.sent
          BY <4>5
        <5>2. replying'[n][s] = b
          BY <5>1 DEF TypeOK
        <5> QED
          BY <2>1, <2>3, <4>3, <5>1, <5>2
      <4> QED
        BY <4>2, <4>4, <4>5
    <3> QED
      BY <3>1, <3>2, <3>3
  <2>5. (InTime' => InTime) /\ Issued(k)' = Issued(k) /\ runs'[k] = runs[k]
    BY <1>1, <1>2 DEF InTime, Issued
  <2> QED
    BY <1>1, <2>4, <2>5 DEF Recalled
<1> QED
  BY <1>8, <1>9

LEMMA RecalledFeed ==
  ASSUME TypeOK, IdInv, Flying, ClockInv, TimedType', [Next]_vars,
         NEW f \in flight, TimedFeedRequest(f), NEW k \in Call, Recalled(k)
  PROVE  Recalled(k)'
<1>0. TimedType
  BY DEF ClockInv
<1>1. PICK m \in net : m = f.message
  BY DEF Flying
<1>2. PICK n \in Node, s \in Node \X Id : n = m.to /\ s = <<m.from, m.id>>
  BY DEF TypeOK, Message
<1>3. /\ FeedRequest(m) /\ now > f.at
      /\ runs' = [runs EXCEPT ![m.call] = Again(@)]
      /\ cut' = IF replying' = replying THEN cut \cup {m.call} ELSE cut
      /\ UNCHANGED <<now, delay, lag, replyDue, started>>
  BY <1>1 DEF TimedFeedRequest, Arrives, clockVars
<1>4. /\ m.type = "REQUEST" /\ m.call \in Call /\ req' = req
      /\ replying[n][s] = Absent
      /\ \/ replying' = replying
         \/ \E b \in ReplyBlock :
              /\ replying' = [replying EXCEPT ![n][s] = b]
              /\ b.phase = "sending" /\ b.call = m.call /\ b.sent = 0
  BY <1>2, <1>3, FeedRequestKeeps
<1>5. PICK p \in Node, t \in Node \X Id : p = req[k].to /\ t = <<req[k].from, req[k].id>>
  BY DEF TypeOK, RequestBlock
<1>6. /\ BlockOf(k) = replying[p][t] /\ DueOf(k) = replyDue[p][t]
      /\ BlockOf(k)' = replying'[p][t] /\ DueOf(k)' = replyDue'[p][t]
  BY <1>4, <1>5 DEF BlockOf, DueOf
<1>7. now' >= now /\ cut \subseteq cut'
  BY <1>0, <1>3 DEF TimedType
<1>8. CASE k # m.call
  <2>1. runs'[k] = runs[k]
    BY <1>0, <1>3, <1>8 DEF TimedType
  <2>2. Kept(k) => BlockOf(k)' = BlockOf(k) /\ DueOf(k)' = DueOf(k)
    <3>1. SUFFICES ASSUME Kept(k)
                   PROVE  BlockOf(k)' = BlockOf(k) /\ DueOf(k)' = DueOf(k)
      OBVIOUS
    <3>2. replying[p][t].phase # "absent"
      BY <1>6, <3>1 DEF Kept
    <3>3. ~(p = n /\ t = s)
      BY <1>4, <3>2 DEF Absent
    <3>4. replying'[p][t] = replying[p][t]
      BY <1>4, <3>3 DEF TypeOK
    <3> QED
      BY <1>3, <1>6, <3>4
  <2> QED
    BY <1>0, <1>3, <1>7, <2>1, <2>2, RecalledKept
<1>9. CASE k = m.call
  <2>1. Issued(k) /\ req[k].from = m.from /\ req[k].id = m.id
    BY <1>4, <1>9 DEF IdInv, NetIds, MadeUnder
  <2>2. RequestCopy(f) /\ f.message.to = req[k].to /\ started[k] <= f.at /\ f.at \in Nat
    <3>1. RequestCopy(f) /\ f.at \in Nat
      BY DEF ClockInv, Copies, Flying
    <3> QED
      BY <1>1, <1>4, <1>9, <3>1 DEF RequestCopy
  <2>3. p = n /\ t = s
    BY <1>1, <1>2, <1>5, <2>1, <2>2
  <2>4. ~Kept(k)
    BY <1>4, <1>6, <2>3 DEF Kept, Absent
  <2>5. InTime => ~Gone(k)
    BY <1>1, <1>4, <1>9, GoneIsLate
  <2>6. Issued(k)' /\ (InTime' => InTime)
    BY <1>3, <1>4, <2>1 DEF Issued, InTime
  <2>7. ASSUME InTime, k \notin cut'
        PROVE  runs'[k] <= 1 /\ Kept(k)'
    <3>1. runs[k] = 0
      BY <1>7, <2>4, <2>5, <2>7 DEF Recalled
    <3>2. runs'[k] = 1
      BY <1>0, <1>3, <1>9, <3>1 DEF TimedType, Again
    <3>3. replying' # replying
      BY <1>3, <1>9, <2>7
    <3>4. PICK b \in ReplyBlock :
            /\ replying' = [replying EXCEPT ![n][s] = b]
            /\ b.phase = "sending" /\ b.call = m.call /\ b.sent = 0
      BY <1>4, <3>3
    <3>5. BlockOf(k)' = b
      BY <1>6, <2>3, <3>4 DEF TypeOK
    <3>6. started[k] + 1 + Times(b.sent, Period) <= now
      <4>1. Times(0, Period) = 0
        BY TimesFacts, RpcTimedAssumption
      <4>2. started[k] \in Nat /\ now \in Nat
        BY <1>0 DEF TimedType
      <4> QED
        BY <1>3, <2>2, <3>4, <4>1, <4>2
    <3>7. Kept(k)'
      BY <1>3, <1>9, <3>4, <3>5, <3>6 DEF Kept
    <3> QED
      BY <3>2, <3>7
  <2> QED
    BY <2>6, <2>7 DEF Recalled
<1> QED
  BY <1>8, <1>9

LEMMA RecalledRestart ==
  ASSUME TypeOK, IdInv, TimedType, TimedType', [Next]_vars,
         NEW n \in Node, TimedRestart(n), NEW k \in Call, Recalled(k)
  PROVE  Recalled(k)'
<1>1. /\ UNCHANGED <<now, delay, lag, replyDue, started, runs>>
      /\ replying' = [replying EXCEPT ![n] = [s \in Node \X Id |-> Absent]]
      /\ cut' = cut \cup {replying[n][s].call : s \in {t \in Node \X Id : ~Unanswered(n, t)}}
  BY DEF TimedRestart, Restart, clockVars
<1>2. PICK p \in Node, t \in Node \X Id : p = req[k].to /\ t = <<req[k].from, req[k].id>>
  BY DEF TypeOK, RequestBlock
<1>3. now' >= now /\ cut \subseteq cut'
  BY <1>1 DEF TimedType
<1>4. BlockOf(k) = replying[p][t]
  BY <1>2 DEF BlockOf
<1>5. CASE p = n /\ Kept(k)
  <2>1. ~Unanswered(n, t) /\ replying[n][t].call = k
    BY <1>4, <1>5 DEF Kept, Unanswered
  <2>2. k \in cut'
    BY <1>1, <2>1
  <2>3. runs'[k] # 0 => Issued(k)'
    BY <1>1, IdentityKept DEF Recalled
  <2> QED
    BY <2>2, <2>3 DEF Recalled
<1>6. CASE ~(p = n /\ Kept(k))
  <2>1. Issued(k) /\ Kept(k) => BlockOf(k)' = BlockOf(k) /\ DueOf(k)' = DueOf(k)
    <3>1. SUFFICES ASSUME Issued(k), Kept(k)
                   PROVE  BlockOf(k)' = BlockOf(k) /\ DueOf(k)' = DueOf(k)
      OBVIOUS
    <3>2. req'[k].from = req[k].from /\ req'[k].to = req[k].to /\ req'[k].id = req[k].id
      BY <3>1, IdentityKept
    <3>3. replying'[p] = replying[p]
      BY <1>1, <1>6, <3>1 DEF TypeOK
    <3> QED
      BY <1>1, <1>2, <3>2, <3>3 DEF BlockOf, DueOf
  <2> QED
    BY <1>1, <1>3, <2>1, RecalledKept
<1> QED
  BY <1>5, <1>6

CallsRecalled == \A k \in Call : Recalled(k)

LEMMA RecalledStep ==
  TypeOK /\ TypeOK' /\ IdInv /\ BudgetInv /\ Flying /\ ClockInv
    /\ CallsRecalled /\ [TimedNext]_timedVars
    => CallsRecalled'
<1> SUFFICES ASSUME TypeOK, TypeOK', IdInv, BudgetInv, Flying, ClockInv,
                    \A k \in Call : Recalled(k), [TimedNext]_timedVars,
                    NEW k \in Call
             PROVE  Recalled(k)'
  BY DEF CallsRecalled
<1>0. [Next]_vars /\ TimedType /\ TimedType' /\ NoneAhead
  BY TimedImplements, TimedTypeStep DEF ClockInv, IdInv
<1>1. ASSUME UNCHANGED <<replying, replyDue, runs, cut, delay, lag>>,
             runs[k] # 0 => started'[k] = started[k], now' >= now
      PROVE  Recalled(k)'
  <2>1. Issued(k) => BlockOf(k)' = BlockOf(k) /\ DueOf(k)' = DueOf(k)
    BY <1>0, <1>1, IdentityKept DEF BlockOf, DueOf
  <2> QED
    BY <1>0, <1>1, <2>1, RecalledKept
<1>2. now' >= now \/ now' # now
  BY <1>0 DEF TimedType
<1>3. ASSUME NEW n \in Node, NEW to \in Node, TimedSend(n, to)
      PROVE  Recalled(k)'
  <2>1. /\ replying' = replying /\ made' = made + 1
        /\ started' = [started EXCEPT ![made'] = now]
        /\ UNCHANGED <<now, delay, lag, replyDue, runs, cut>>
    BY <1>3, SendKeeps DEF TimedSend, clockVars
  <2>2. runs[k] # 0 => k # made'
    <3>1. runs[k] # 0 => k <= made
      BY <1>0 DEF Recalled, NoneAhead
    <3> QED
      BY <2>1, <3>1 DEF TypeOK, Call
  <2>3. runs[k] # 0 => started'[k] = started[k]
    BY <1>0, <2>1, <2>2 DEF TimedType
  <2> QED
    BY <1>1, <1>2, <2>1, <2>3
<1>4. ASSUME NEW j \in Call, TimedRequestSent(j) \/ TimedRequestEvent(j)
      PROVE  Recalled(k)'
  <2>1. RequestStep(j)
    BY <1>4 DEF TimedRequestSent, TimedRequestEvent, RequestStep
  <2>2. UNCHANGED <<replying, replyDue, runs, cut, delay, lag, started, now>>
    BY <1>4, <2>1, RequestStepKeeps DEF TimedRequestSent, TimedRequestEvent, clockVars
  <2> QED
    BY <1>1, <1>2, <2>2
<1>5. ASSUME NEW f \in flight, TimedFeedReply(f)
      PROVE  Recalled(k)'
  <2>1. UNCHANGED <<replying, replyDue, runs, cut, delay, lag, started, now>>
    BY <1>5 DEF TimedFeedReply, FeedReply, clockVars
  <2> QED
    BY <1>1, <1>2, <2>1
<1>6. CASE Tick
  <2>1. UNCHANGED <<replying, replyDue, runs, cut, delay, lag, started>> /\ now' = now + 1
    BY <1>6 DEF Tick, vars
  <2>2. now' >= now
    BY <1>0, <2>1 DEF TimedType
  <2> QED
    BY <1>1, <2>1, <2>2
<1>7. CASE UNCHANGED timedVars
  <2>1. UNCHANGED <<replying, replyDue, runs, cut, delay, lag, started, now>>
    BY <1>7 DEF timedVars, vars, clockVars
  <2> QED
    BY <1>1, <1>2, <2>1
<1> QED
  BY <1>0, <1>3, <1>4, <1>5, <1>6, <1>7, RecalledReply, RecalledFeed, RecalledRestart
  DEF TimedNext

LEMMA RecalledInit == TimedInit => CallsRecalled
  BY DEF TimedInit, CallsRecalled, Recalled

\* The handler of a call runs once, unless the callee gave its reply up early, when the
\* network is faster than the timers (Rpc.h:64, 88, 173-176, 213-214): a copy of the
\* request is gone before the reply block is; for any retry argument, period, delay and
\* lateness that make it so, with ids used again and nodes that restart.
THEOREM AtMostOnceCorrect == TimedSpec => []AtMostOnce
<1>1. CallsRecalled => AtMostOnce
  BY DEF CallsRecalled, Recalled, AtMostOnce
<1> QED
  BY <1>1, ClockAlways, RecalledInit, RecalledStep, PTL DEF TimedSpec


-----------------------------------------------------------------------------
(* The pace of the timers.  With handlers that are never late every datagram of a  *)
(* call leaves at its beat, and the beats of caller and callee interleave.         *)

\* When the clocks move: a call is started once, timers and bounds are set by sends.
LEMMA ClocksKept ==
  ASSUME TypeOK, IdInv, Flying, TimedType, [TimedNext]_timedVars
  PROVE  /\ UNCHANGED <<delay, lag>> /\ (repeated => repeated') /\ cut \subseteq cut'
         /\ now' = now \/ Tick
         /\ now \in Nat /\ now' \in Nat /\ now <= now'
         /\ \A k \in Call : Issued(k) => started'[k] = started[k]
         /\ \A k \in Call : runs[k] # 0 => runs'[k] # 0
<1>0. NoneAhead /\ now \in Nat
  BY DEF IdInv, TimedType
<1>1. ASSUME NEW n \in Node, NEW to \in Node, TimedSend(n, to)
      PROVE  /\ UNCHANGED <<delay, lag, now, repeated, cut, runs>>
             /\ \A k \in Call : Issued(k) => started'[k] = started[k]
  <2>1. /\ UNCHANGED <<delay, lag, now, repeated, cut, runs>>
        /\ started' = [started EXCEPT ![made'] = now] /\ made' = made + 1
    BY <1>1, SendKeeps DEF TimedSend, clockVars
  <2>2. \A k \in Call : Issued(k) => k # made'
    BY <1>0, <2>1 DEF NoneAhead, TypeOK, Call
  <2> QED
    BY <2>1, <2>2 DEF TimedType
<1>2. ASSUME NEW k \in Call, TimedRequestSent(k) \/ TimedRequestEvent(k)
      PROVE  UNCHANGED <<delay, lag, now, repeated, cut, runs, started>>
  BY <1>2 DEF TimedRequestSent, TimedRequestEvent, clockVars
<1>3. ASSUME NEW f \in flight, TimedFeedRequest(f)
      PROVE  /\ UNCHANGED <<delay, lag, now, started>> /\ (repeated => repeated')
             /\ cut \subseteq cut' /\ \A k \in Call : runs[k] # 0 => runs'[k] # 0
  <2>1. /\ UNCHANGED <<delay, lag, now, started>> /\ (repeated => repeated')
        /\ cut \subseteq cut' /\ runs' = [runs EXCEPT ![f.message.call] = Again(@)]
    BY <1>3 DEF TimedFeedRequest, Arrives, clockVars
  <2>2. \A x : Again(x) # 0
    BY DEF Again
  <2> QED
    BY <2>1, <2>2 DEF TimedType
<1>4. ASSUME NEW f \in flight, TimedFeedReply(f)
      PROVE  UNCHANGED <<delay, lag, now, cut, runs, started>> /\ (repeated => repeated')
  BY <1>4 DEF TimedFeedReply, Arrives, clockVars
<1>5. ASSUME NEW n \in Node, NEW s \in Node \X Id,
             TimedReplySent(n, s) \/ TimedReplySendFailed(n, s) \/ TimedReplyTimer(n, s)
      PROVE  UNCHANGED <<delay, lag, now, repeated, runs, started>> /\ cut \subseteq cut'
  BY <1>5 DEF TimedReplySent, TimedReplySendFailed, TimedReplyTimer, clockVars
<1>6. ASSUME NEW n \in Node, TimedRestart(n)
      PROVE  UNCHANGED <<delay, lag, now, repeated, runs, started>> /\ cut \subseteq cut'
  BY <1>6 DEF TimedRestart, clockVars
<1>7. CASE Tick
  BY <1>0, <1>7 DEF Tick
<1>8. CASE UNCHANGED timedVars
  BY <1>0, <1>8 DEF timedVars, clockVars
<1> QED
  BY <1>0, <1>1, <1>2, <1>3, <1>4, <1>5, <1>6, <1>7, <1>8 DEF TimedNext

\* Where the copies in flight come from.
Stayed(g) ==
  \E f \in flight : g.message = f.message /\ g.at = f.at /\ (f.arrived => g.arrived)

LEMMA CopiesFrom ==
  ASSUME Flying, [TimedNext]_timedVars, NEW g \in flight'
  PROVE  \/ Stayed(g)
         \/ \E k \in Call : TimedRequestSent(k) /\ g = Copy(RequestMessage(k))
         \/ \E n \in Node, s \in Node \X Id :
              TimedReplySent(n, s) /\ g = Copy(ReplyMessage(n, s))
<1>1. ASSUME NEW f \in flight, Arrives(f)
      PROVE  Stayed(g)
  <2>1. /\ [f EXCEPT !.arrived = TRUE].message = f.message
        /\ [f EXCEPT !.arrived = TRUE].at = f.at /\ [f EXCEPT !.arrived = TRUE].arrived
    BY DEF Flying
  <2>2. g \in flight \/ g = [f EXCEPT !.arrived = TRUE]
    BY <1>1 DEF Arrives
  <2> QED
    BY <2>1, <2>2 DEF Stayed
<1>2. ASSUME flight' \subseteq flight
      PROVE  Stayed(g)
  BY <1>2 DEF Stayed
<1>3. CASE \E n, to \in Node : TimedSend(n, to)
  BY <1>2, <1>3 DEF TimedSend
<1>4. CASE \E k \in Call : TimedRequestSent(k) \/ TimedRequestEvent(k)
  BY <1>2, <1>4 DEF TimedRequestSent, TimedRequestEvent, Stayed
<1>5. CASE \E f \in flight : TimedFeedRequest(f) \/ TimedFeedReply(f)
  BY <1>1, <1>5 DEF TimedFeedRequest, TimedFeedReply
<1>6. CASE \E n \in Node, s \in Node \X Id :
             TimedReplySent(n, s) \/ TimedReplySendFailed(n, s) \/ TimedReplyTimer(n, s)
  BY <1>2, <1>6 DEF TimedReplySent, TimedReplySendFailed, TimedReplyTimer, Stayed
<1>7. CASE \E n \in Node : TimedRestart(n)
  BY <1>2, <1>7 DEF TimedRestart
<1>8. CASE Tick
  BY <1>2, <1>8 DEF Tick
<1>9. CASE UNCHANGED timedVars
  BY <1>2, <1>9 DEF timedVars
<1> QED
  BY <1>3, <1>4, <1>5, <1>6, <1>7, <1>8, <1>9 DEF TimedNext

\* What a step does to a reply block: most leave it alone.
ReplyActs(n, s) ==
  TimedReplySent(n, s) \/ TimedReplySendFailed(n, s) \/ TimedReplyTimer(n, s)

LEMMA BlocksFrom ==
  ASSUME TypeOK, Flying, TimedType, [TimedNext]_timedVars, NEW n \in Node, NEW s \in Node \X Id
  PROVE  \/ replying'[n][s] = replying[n][s] /\ replyDue'[n][s] = replyDue[n][s]
         \/ ReplyActs(n, s)
         \/ TimedRestart(n) /\ replying'[n][s] = Absent
         \/ \E f \in flight :
              /\ TimedFeedRequest(f) /\ f.message.to = n /\ <<f.message.from, f.message.id>> = s
              /\ replying[n][s].phase = "absent"
<1>1. ASSUME UNCHANGED <<replying, replyDue>>
      PROVE  replying'[n][s] = replying[n][s] /\ replyDue'[n][s] = replyDue[n][s]
  BY <1>1
<1>2. ASSUME NEW p \in Node, NEW to \in Node, TimedSend(p, to)
      PROVE  UNCHANGED <<replying, replyDue>>
  BY <1>2, SendKeeps DEF TimedSend
<1>3. ASSUME NEW k \in Call, TimedRequestSent(k) \/ TimedRequestEvent(k)
      PROVE  UNCHANGED <<replying, replyDue>>
  <2>1. RequestStep(k)
    BY <1>3 DEF TimedRequestSent, TimedRequestEvent, RequestStep
  <2> QED
    BY <1>3, <2>1, RequestStepKeeps DEF TimedRequestSent, TimedRequestEvent
<1>4. ASSUME NEW f \in flight, TimedFeedReply(f)
      PROVE  UNCHANGED <<replying, replyDue>>
  BY <1>4 DEF TimedFeedReply, FeedReply
<1>5. ASSUME NEW f \in flight, TimedFeedRequest(f),
             ~(f.message.to = n /\ <<f.message.from, f.message.id>> = s)
      PROVE  replying'[n][s] = replying[n][s] /\ replyDue'[n][s] = replyDue[n][s]
  <2>1. PICK m \in net : m = f.message
    BY DEF Flying
  <2>2. PICK p \in Node, t \in Node \X Id : p = m.to /\ t = <<m.from, m.id>>
    BY DEF TypeOK, Message
  <2>3. /\ replyDue' = replyDue
        /\ \/ replying' = replying
           \/ \E b \in ReplyBlock : replying' = [replying EXCEPT ![p][t] = b]
    BY <1>5, <2>1, <2>2, FeedRequestKeeps DEF TimedFeedRequest
  <2>4. ~(p = n /\ t = s)
    BY <1>5, <2>1, <2>2
  <2>5. ASSUME NEW b, replying' = [replying EXCEPT ![p][t] = b]
        PROVE  replying'[n][s] = replying[n][s]
    BY <2>4, <2>5 DEF TypeOK
  <2> QED
    BY <2>3, <2>5
<1>6. ASSUME NEW f \in flight, TimedFeedRequest(f),
             f.message.to = n, <<f.message.from, f.message.id>> = s
      PROVE  replying[n][s].phase = "absent"
  BY <1>6 DEF TimedFeedRequest, FeedRequest, Unanswered
<1>7. ASSUME NEW p \in Node, NEW t \in Node \X Id, ReplyActs(p, t), ~(p = n /\ t = s)
      PROVE  replying'[n][s] = replying[n][s] /\ replyDue'[n][s] = replyDue[n][s]
  <2>1. ReplyStep(p, t)
    BY <1>7 DEF ReplyActs, TimedReplySent, TimedReplySendFailed, TimedReplyTimer, ReplyStep
  <2>2. \E b : replying' = [replying EXCEPT ![p][t] = b]
    BY <2>1, ReplyStepKeeps
  <2>3. replyDue' = replyDue \/ replyDue' = [replyDue EXCEPT ![p][t] = now + Period]
    BY <1>7 DEF ReplyActs, TimedReplySent, TimedReplySendFailed, TimedReplyTimer
  <2> QED
    BY <1>7, <2>2, <2>3 DEF TypeOK, TimedType
<1>8. ASSUME NEW p \in Node, TimedRestart(p)
      PROVE  \/ replying'[n][s] = replying[n][s] /\ replyDue'[n][s] = replyDue[n][s]
             \/ p = n /\ replying'[n][s] = Absent
  <2>1. replyDue' = replyDue /\ replying' = [replying EXCEPT ![p] = [t \in Node \X Id |-> Absent]]
    BY <1>8 DEF TimedRestart, Restart
  <2> QED
    BY <2>1 DEF TypeOK
<1>9. CASE Tick
  BY <1>1, <1>9 DEF Tick, vars
<1>10. CASE UNCHANGED timedVars
  BY <1>1, <1>10 DEF timedVars, vars
<1> QED
  BY <1>1, <1>2, <1>3, <1>4, <1>5, <1>6, <1>7, <1>8, <1>9, <1>10 DEF TimedNext, ReplyActs

\* Only its own handlers disturb a call's clocks.
LEMMA CallsFrom ==
  ASSUME TypeOK, IdInv, TimedType, Flying, [TimedNext]_timedVars, NEW k \in Call
  PROVE  \/ Calm(k)
         \/ TimedRequestSent(k) \/ TimedRequestEvent(k)
         \/ \E n, to \in Node : TimedSend(n, to) /\ k = made + 1
<1>0. NoneAhead
  BY DEF IdInv
<1>1. ASSUME NEW n \in Node, NEW to \in Node, TimedSend(n, to), k # made + 1
      PROVE  Calm(k)
  <2>1. PICK j \in Call :
          /\ j = made + 1 /\ made' = j
          /\ \A i \in Call \ {j} : req'[i] = req[i]
          /\ errors' = errors
    BY <1>0, <1>1, SendMakesLive, RpcTimedAssumption DEF TimedSend
  <2>2. started' = [started EXCEPT ![j] = now] /\ due' = due
    BY <1>1, <2>1 DEF TimedSend
  <2> QED
    BY <1>1, <2>1, <2>2 DEF Calm, TimedType
<1>2. ASSUME NEW j \in Call \ {k}, TimedRequestSent(j)
      PROVE  Calm(k)
  <2>1. /\ req' = [req EXCEPT ![j] = Transmitted(@)] /\ errors' = errors
        /\ due' = [due EXCEPT ![j] = now + Period] /\ started' = started
    BY <1>2 DEF TimedRequestSent, RequestSent, history
  <2> QED
    BY <2>1 DEF Calm, TypeOK, TimedType
<1>3. ASSUME NEW j \in Call \ {k}, TimedRequestEvent(j)
      PROVE  Calm(k)
  <2>1. /\ RequestSendFailed(j) \/ RequestTimer(j)
        /\ due' = due /\ started' = started
    BY <1>3 DEF TimedRequestEvent
  <2>2. req'[k] = req[k] /\ errors'[k] = errors[k]
    BY <2>1, RequestEventOutcomes
  <2> QED
    BY <2>1, <2>2 DEF Calm
<1>4. ASSUME NEW f \in flight, TimedFeedReply(f)
      PROVE  Calm(k)
  <2>1. PICK j : j = Addressee(f.message.to, f.message.id)
    OBVIOUS
  <2>2. /\ UNCHANGED <<errors, due, started>> /\ req' = [req EXCEPT ![j] = Settled(@)]
    BY <1>4, <2>1 DEF TimedFeedReply, FeedReply
  <2>3. req[k] \in RequestBlock /\ (req'[k] = req[k] \/ req'[k] = Settled(req[k]))
    BY <2>2 DEF TypeOK
  <2>4. req'[k].phase = req[k].phase /\ req'[k].sent = req[k].sent
    BY <2>3, BlockFields
  <2> QED
    BY <2>2, <2>4 DEF Calm
<1>5. ASSUME UNCHANGED <<req, errors, due, started>>
      PROVE  Calm(k)
  BY <1>5 DEF Calm
<1>6. ASSUME NEW f \in flight, TimedFeedRequest(f)
      PROVE  Calm(k)
  BY <1>5, <1>6 DEF TimedFeedRequest, FeedRequest, history
<1>7. ASSUME NEW n \in Node, NEW s \in Node \X Id, ReplyActs(n, s)
      PROVE  Calm(k)
  <2>1. ReplyStep(n, s) /\ UNCHANGED <<due, started>>
    BY <1>7 DEF ReplyActs, TimedReplySent, TimedReplySendFailed, TimedReplyTimer, ReplyStep
  <2> QED
    BY <1>5, <2>1, ReplyStepKeeps DEF history
<1>8. ASSUME NEW n \in Node, TimedRestart(n)
      PROVE  Calm(k)
  <2>1. /\ UNCHANGED <<errors, due, started>>
        /\ req'[k] = req[k] \/ req'[k] = [req[k] EXCEPT !.phase = "freed"]
    BY <1>8 DEF TimedRestart, Restart, history
  <2>2. req[k] \in RequestBlock
    BY DEF TypeOK
  <2>3. [req[k] EXCEPT !.phase = "freed"].phase = "freed"
          /\ [req[k] EXCEPT !.phase = "freed"].sent = req[k].sent
    BY <2>2 DEF RequestBlock
  <2> QED
    BY <2>1, <2>3 DEF Calm
<1>9. CASE Tick
  BY <1>5, <1>9 DEF Tick, vars
<1>10. CASE UNCHANGED timedVars
  BY <1>5, <1>10 DEF timedVars, vars
<1> QED
  BY <1>1, <1>2, <1>3, <1>4, <1>6, <1>7, <1>8, <1>9, <1>10 DEF TimedNext, ReplyActs

\* The timer of a call: a period after its last datagram, which left no earlier than its
\* beat.
Paced(k) ==
  Live(k) =>
    /\ req[k].phase = "sending" => started[k] + Times(req[k].sent, Period) <= now
    /\ req[k].phase = "waiting" =>
         /\ started[k] + Times(req[k].sent, Period) <= due[k]
         /\ due[k] <= now + Period

CallsPaced == \A k \in Call : Paced(k)

\* The time a call has been given by the periods of its datagrams.
LEMMA PaceType ==
  ASSUME TypeOK, TimedType, NEW k \in Call
  PROVE  /\ Period \in Nat /\ now \in Nat /\ due[k] \in Nat /\ started[k] \in Nat
         /\ req[k] \in RequestBlock /\ req[k].sent \in Nat
         /\ Times(req[k].sent, Period) \in Nat
         /\ started[k] + Times(req[k].sent, Period) \in Nat
<1>1. /\ Period \in Nat /\ now \in Nat /\ due[k] \in Nat /\ started[k] \in Nat
      /\ req[k] \in RequestBlock
  BY RpcTimedAssumption DEF TypeOK, TimedType
<1>2. req[k].sent \in Nat
  BY <1>1 DEF RequestBlock
<1>3. Times(req[k].sent, Period) \in Nat
  BY <1>1, <1>2, TimesFacts
<1> QED
  BY <1>1, <1>2, <1>3

LEMMA PacedStep ==
  TypeOK /\ TypeOK' /\ IdInv /\ BudgetInv /\ Flying /\ ClockInv /\ CallsPaced
    /\ [TimedNext]_timedVars => CallsPaced'
<1> SUFFICES ASSUME TypeOK, TypeOK', IdInv, BudgetInv, Flying, ClockInv, CallsPaced,
                    [TimedNext]_timedVars, NEW k \in Call
             PROVE  Paced(k)'
  BY DEF CallsPaced
<1>0. TimedType /\ TimedType' /\ NoneAhead /\ Paced(k)
  BY TimedTypeStep DEF ClockInv, IdInv, CallsPaced
<1>1. now \in Nat /\ now' \in Nat /\ now <= now'
  BY <1>0, ClocksKept
<1>2. PICK x \in Nat : x = started[k] + Times(req[k].sent, Period)
  BY <1>0, PaceType
<1>3. Period \in Nat /\ due[k] \in Nat /\ started[k] \in Nat
  BY <1>0, PaceType
<1>4. CASE Calm(k)
  <2>1. Live(k)' => Live(k) /\ req'[k].phase = req[k].phase
    BY <1>4 DEF Calm, Live
  <2>2. x = started'[k] + Times(req'[k].sent, Period) /\ due'[k] = due[k]
    BY <1>2, <1>4 DEF Calm
  <2>3. Live(k)' => /\ req'[k].phase = "sending" => x <= now
                    /\ req'[k].phase = "waiting" => x <= due[k] /\ due[k] <= now + Period
    BY <1>0, <1>2, <2>1 DEF Paced
  <2>4. /\ x <= now => x <= now'
        /\ due[k] <= now + Period => due[k] <= now' + Period
    BY <1>1, <1>3
  <2> QED
    BY <2>2, <2>3, <2>4 DEF Paced
<1>5. CASE TimedRequestSent(k)
  <2>1. /\ req[k].phase = "sending" /\ Live(k)
        /\ req' = [req EXCEPT ![k] = Transmitted(@)]
        /\ due' = [due EXCEPT ![k] = now + Period]
        /\ UNCHANGED <<now, started>>
    BY <1>5 DEF TimedRequestSent, RequestSent, clockVars, Live
  <2>2. req[k] \in RequestBlock /\ req[k].sent \in Nat
    BY <1>0, PaceType
  <2>3. req'[k].phase = "waiting" /\ req'[k].sent = req[k].sent + 1 /\ due'[k] = now + Period
    <3>1. req'[k] = Transmitted(req[k]) /\ due'[k] = now + Period
      BY <1>0, <2>1 DEF TypeOK, TimedType
    <3> QED
      BY <2>2, <3>1, BlockFields
  <2>4. Times(req[k].sent + 1, Period) = Times(req[k].sent, Period) + Period
        /\ Times(req[k].sent, Period) \in Nat
    BY <1>3, <2>2, TimesFacts
  <2>5. x <= now
    BY <1>0, <1>2, <2>1 DEF Paced
  <2>6. started'[k] + Times(req'[k].sent, Period) <= due'[k] /\ due'[k] <= now' + Period
    BY <1>1, <1>2, <1>3, <2>1, <2>3, <2>4, <2>5
  <2> QED
    BY <2>3, <2>6 DEF Paced
<1>6. CASE TimedRequestEvent(k)
  <2>1. /\ RequestSendFailed(k) \/ (RequestTimer(k) /\ now >= due[k])
        /\ UNCHANGED <<now, due, started>>
    BY <1>6 DEF TimedRequestEvent, clockVars, Expired
  <2>2. /\ Live(k)
        /\ \/ req'[k].phase = "freed"
           \/ /\ RequestTimer(k)
              /\ req'[k].phase = "sending" /\ req'[k].sent = req[k].sent
    BY <2>1, RequestEventOutcomes
  <2>3. CASE req'[k].phase = "freed"
    BY <2>3 DEF Paced, Live
  <2>4. CASE RequestTimer(k) /\ req'[k].phase = "sending" /\ req'[k].sent = req[k].sent
    <3>1. req[k].phase = "waiting" /\ ~RequestSendFailed(k)
      BY <2>4, Zenon DEF RequestTimer, RequestSendFailed
    <3>2. x <= due[k]
      BY <1>0, <1>2, <2>2, <3>1 DEF Paced
    <3>3. x <= now
      BY <1>1, <1>3, <2>1, <3>1, <3>2
    <3> QED
      BY <1>2, <2>1, <2>4, <3>3 DEF Paced
  <2> QED
    BY <2>2, <2>3, <2>4
<1>7. CASE \E n, to \in Node : TimedSend(n, to) /\ k = made + 1
  <2>1. PICK n \in Node, to \in Node : TimedSend(n, to) /\ k = made + 1
    BY <1>7
  <2>2. made' = k /\ req'[k].phase = "sending" /\ req'[k].sent = 0
    BY <1>0, <2>1, SendMakesLive, RpcTimedAssumption DEF TimedSend
  <2>3. started'[k] = now /\ now' = now
    BY <1>0, <2>1, <2>2 DEF TimedSend, clockVars, TimedType
  <2>4. Times(0, Period) = 0
    BY <1>3, TimesFacts
  <2>5. started'[k] + Times(req'[k].sent, Period) <= now'
    BY <1>1, <2>2, <2>3, <2>4
  <2> QED
    BY <2>2, <2>5 DEF Paced
<1> QED
  BY <1>0, <1>4, <1>5, <1>6, <1>7, CallsFrom

\* A copy of a request left at a beat of its call.
RequestBeat(f) ==
  f.message.type = "REQUEST" =>
    \E i \in Nat : f.at = started[f.message.call] + Times(i, Period)

RequestBeats == lag = 0 => \A f \in flight : RequestBeat(f)

\* What the clocks say of a call when handlers are never late: it sends at its beats.
LEMMA CallBeat ==
  ASSUME TypeOK, ClockInv, lag = 0, NEW k \in Call, Live(k), Paced(k)
  PROVE  /\ req[k].sent \in Nat
         /\ req[k].phase = "sending" => now = started[k] + Times(req[k].sent, Period)
         /\ req[k].phase = "waiting" =>
              /\ due[k] = started[k] + Times(req[k].sent, Period)
              /\ now <= due[k] /\ due[k] <= now + Period
<1>1. TimedType /\ Deadline(k)
  BY DEF ClockInv
<1>2. /\ Period \in Nat /\ now \in Nat /\ due[k] \in Nat /\ started[k] \in Nat
      /\ req[k].sent \in Nat
  BY <1>1, PaceType
<1>3. PICK x \in Nat : x = started[k] + Times(req[k].sent, Period)
  BY <1>1, PaceType
<1>4. Period + lag = Period
  BY <1>2
<1>5. /\ req[k].phase = "sending" => now <= x
      /\ req[k].phase = "waiting" => now <= due[k] + lag /\ due[k] + lag <= x
  BY <1>1, <1>3, <1>4 DEF Deadline
<1>6. /\ req[k].phase = "sending" => x <= now
      /\ req[k].phase = "waiting" => x <= due[k] /\ due[k] <= now + Period
  BY <1>3 DEF Paced
<1> QED
  BY <1>2, <1>3, <1>5, <1>6

LEMMA BeatsStep ==
  TypeOK /\ IdInv /\ Flying /\ ClockInv /\ CallsPaced /\ RequestBeats
    /\ [TimedNext]_timedVars => RequestBeats'
<1> SUFFICES ASSUME TypeOK, IdInv, Flying, ClockInv, CallsPaced, RequestBeats,
                    [TimedNext]_timedVars, lag' = 0, NEW g \in flight'
             PROVE  RequestBeat(g)'
  BY DEF RequestBeats
<1>0. TimedType /\ [Next]_vars
  BY TimedImplements DEF ClockInv
<1>1. lag = 0 /\ \A k \in Call : Issued(k) => started'[k] = started[k]
  BY <1>0, ClocksKept
<1>2. CASE Stayed(g)
  <2>1. PICK f \in flight : g.message = f.message /\ g.at = f.at
    BY <1>2 DEF Stayed
  <2>2. f.message.call \in Call /\ Issued(f.message.call)
    BY <1>0, CopyOfCall
  <2>3. RequestBeat(f)
    BY <1>1 DEF RequestBeats
  <2> QED
    BY <1>1, <2>1, <2>2, <2>3 DEF RequestBeat
<1>3. ASSUME NEW k \in Call, TimedRequestSent(k), g = Copy(RequestMessage(k))
      PROVE  RequestBeat(g)'
  <2>1. g.at = now /\ g.message.call = k
    BY <1>3 DEF Copy, RequestMessage
  <2>2. req[k].phase = "sending" /\ Live(k) /\ started' = started
    BY <1>3 DEF TimedRequestSent, RequestSent, Live
  <2>3. req[k].sent \in Nat /\ now = started[k] + Times(req[k].sent, Period)
    BY <1>1, <2>2, CallBeat DEF CallsPaced
  <2> QED
    BY <2>1, <2>2, <2>3 DEF RequestBeat
<1>4. ASSUME NEW n \in Node, NEW s \in Node \X Id, g = Copy(ReplyMessage(n, s))
      PROVE  RequestBeat(g)'
  BY <1>4 DEF Copy, ReplyMessage, RequestBeat
<1> QED
  BY <1>2, <1>3, <1>4, CopiesFrom

\* The time x comes up to a delay after a beat of a call, and not on it: when its callee
\* may answer.
OnBeat(start, bound, x) ==
  \E i, o \in Nat : 1 <= o /\ o <= bound /\ x = start + Times(i, Period) + o

\* A reply block belongs to the callee of its call, whose request has been executed; its
\* timer is never late, and on the beat when no handler is.
Punctual(n, s) ==
  LET k == replying[n][s].call IN
  replying[n][s].phase # "absent" =>
    /\ n = req[k].to /\ runs[k] # 0
    /\ replying[n][s].phase = "waiting" => now <= replyDue[n][s] + lag
    /\ replying[n][s].phase = "sending" /\ lag = 0 => OnBeat(started[k], delay, now)
    /\ replying[n][s].phase = "waiting" /\ lag = 0 =>
         OnBeat(started[k], delay, replyDue[n][s])

RepliesPunctual == \A n \in Node, s \in Node \X Id : Punctual(n, s)

\* One period after a beat comes the next.
LEMMA NextBeat ==
  ASSUME NEW start \in Nat, NEW bound \in Nat, NEW x, OnBeat(start, bound, x)
  PROVE  OnBeat(start, bound, x + Period)
<1>1. PICK i \in Nat, o \in Nat :
        1 <= o /\ o <= bound /\ x = start + Times(i, Period) + o
  BY DEF OnBeat
<1>2. Period \in Nat
  BY RpcTimedAssumption
<1>3. Times(i + 1, Period) = Times(i, Period) + Period /\ Times(i, Period) \in Nat
  BY <1>2, TimesFacts
<1>4. x + Period = start + Times(i + 1, Period) + o
  BY <1>1, <1>2, <1>3
<1>5. i + 1 \in Nat
  OBVIOUS
<1> QED
  BY <1>1, <1>4, <1>5 DEF OnBeat

\* The call of a reply block.
LEMMA WhoseBlock ==
  ASSUME TypeOK, IdInv, NEW n \in Node, NEW s \in Node \X Id,
         replying[n][s].phase # "absent"
  PROVE  \E k \in Call :
           /\ k = replying[n][s].call /\ Issued(k)
           /\ s = <<req[k].from, req[k].id>>
<1>1. replying[n][s] \in ReplyBlock
  BY PresentType
<1>2. MadeUnder(replying[n][s].call, s[1], s[2])
  BY DEF IdInv, ReplyIds
<1> QED
  BY <1>1, <1>2 DEF ReplyBlock, MadeUnder

\* A block left alone stays punctual.
LEMMA PunctualKept ==
  ASSUME TypeOK, IdInv, Flying, ClockInv, [TimedNext]_timedVars,
         NEW n \in Node, NEW s \in Node \X Id, Punctual(n, s),
         replying'[n][s] = replying[n][s], replyDue'[n][s] = replyDue[n][s]
  PROVE  Punctual(n, s)'
<1>0. TimedType /\ [Next]_vars
  BY TimedImplements DEF ClockInv
<1>1. PICK c, d : c = replying[n][s] /\ d = replyDue[n][s]
  OBVIOUS
<1>2. CASE c.phase = "absent"
  BY <1>1, <1>2, Zenon DEF Punctual
<1>3. CASE c.phase # "absent"
  <2>1. PICK k \in Call : k = c.call /\ Issued(k)
    BY <1>1, <1>3, WhoseBlock
  <2>2. /\ req'[k].to = req[k].to /\ started'[k] = started[k] /\ delay' = delay /\ lag' = lag
        /\ runs[k] # 0 => runs'[k] # 0
    BY <1>0, <2>1, ClocksKept, IdentityKept
  <2>3. /\ n = req[k].to /\ runs[k] # 0
        /\ c.phase = "waiting" => now <= d + lag
        /\ c.phase = "sending" /\ lag = 0 => OnBeat(started[k], delay, now)
        /\ c.phase = "waiting" /\ lag = 0 => OnBeat(started[k], delay, d)
    BY <1>1, <1>3, <2>1 DEF Punctual
  <2>4. c.phase = "waiting" => now' <= d + lag
    <3>1. CASE Tick
      <4>1. c.phase = "waiting" => now < d + lag
        <5>1. <<n, s>> \in Replying
          BY <1>1, <1>3 DEF Replying, Unanswered
        <5>2. MayPass(replying[n][s].phase, replyDue[n][s])
          <6>1. \A x \in Replying : MayPass(replying[x[1]][x[2]].phase, replyDue[x[1]][x[2]])
            BY <3>1 DEF Tick
          <6> QED
            BY <5>1, <6>1
        <5> QED
          BY <1>1, <5>2 DEF MayPass
      <4>2. now' = now + 1 /\ now \in Nat /\ d + lag \in Nat
        BY <1>0, <1>1, <3>1 DEF Tick, TimedType
      <4> QED
        BY <4>1, <4>2
    <3>2. CASE now' = now
      BY <2>3, <3>2
    <3> QED
      BY <1>0, <3>1, <3>2, ClocksKept
  <2>5. c.phase = "sending" => now' = now
    <3>1. SUFFICES ASSUME c.phase = "sending", Tick PROVE FALSE
      BY <1>0, ClocksKept
    <3>2. <<n, s>> \in Replying
      BY <1>1, <3>1 DEF Replying, Unanswered
    <3>3. \A x \in Replying : MayPass(replying[x[1]][x[2]].phase, replyDue[x[1]][x[2]])
      BY <3>1 DEF Tick
    <3> QED
      BY <1>1, <3>1, <3>2, <3>3 DEF MayPass
  <2>6. replying'[n][s] = c /\ replyDue'[n][s] = d
    BY <1>1
  <2> QED
    BY <2>1, <2>2, <2>3, <2>4, <2>5, <2>6, Zenon DEF Punctual
<1> QED
  BY <1>2, <1>3

\* A step of a reply keeps its block punctual.
LEMMA PunctualReply ==
  ASSUME TypeOK, IdInv, BudgetInv, Flying, ClockInv, [TimedNext]_timedVars,
         NEW n \in Node, NEW s \in Node \X Id, Punctual(n, s), ReplyActs(n, s)
  PROVE  Punctual(n, s)'
<1>0. TimedType
  BY DEF ClockInv
<1>1. /\ ReplyStep(n, s) /\ UNCHANGED <<now, delay, lag, started, runs>>
  BY DEF ReplyActs, TimedReplySent, TimedReplySendFailed, TimedReplyTimer, ReplyStep, clockVars
<1>2. req' = req /\ replying[n][s].phase # "absent"
  BY <1>1, ReplyStepKeeps
<1>3. PICK k \in Call : k = replying[n][s].call /\ Issued(k)
  BY <1>2, WhoseBlock
<1>4. PICK c, d : c = replying[n][s] /\ d = replyDue[n][s]
  OBVIOUS
<1>5. /\ n = req[k].to /\ runs[k] # 0
      /\ c.phase = "waiting" => now <= d + lag
      /\ c.phase = "sending" /\ lag = 0 => OnBeat(started[k], delay, now)
      /\ c.phase = "waiting" /\ lag = 0 => OnBeat(started[k], delay, d)
  BY <1>2, <1>3, <1>4 DEF Punctual
<1>6. c \in ReplyBlock /\ d \in Nat /\ now \in Nat /\ lag \in Nat /\ Period \in Nat
      /\ started[k] \in Nat /\ delay \in Nat
  BY <1>0, <1>2, <1>4, PresentType, RpcTimedAssumption DEF TimedType
<1>7. CASE TimedReplySent(n, s)
  <2>1. /\ c.phase = "sending"
        /\ replying'[n][s] = Transmitted(c) /\ replyDue'[n][s] = now + Period
    <3>1. /\ c.phase = "sending"
          /\ replying' = [replying EXCEPT ![n][s] = Transmitted(@)]
          /\ replyDue' = [replyDue EXCEPT ![n][s] = now + Period]
      BY <1>4, <1>7 DEF TimedReplySent, ReplySent
    <3> QED
      BY <1>0, <1>4, <3>1 DEF TypeOK, TimedType
  <2>2. PICK b : b = Transmitted(c)
    OBVIOUS
  <2>3. b.phase = "waiting" /\ b.call = k
    BY <1>3, <1>4, <1>6, <2>2, BlockFields
  <2>4. now <= (now + Period) + lag
    BY <1>6
  <2>5. lag = 0 => OnBeat(started[k], delay, now + Period)
    BY <1>5, <1>6, <2>1, NextBeat
  <2> QED
    BY <1>1, <1>2, <1>5, <2>1, <2>2, <2>3, <2>4, <2>5 DEF Punctual
<1>8. CASE TimedReplySendFailed(n, s)
  <2>1. replying' = [replying EXCEPT ![n][s] = Absent]
    <3>1. OnReplyTimer(n, s, c, TRUE)
      BY <1>4, <1>8 DEF TimedReplySendFailed, ReplySendFailed
    <3> QED
      BY <3>1, Zenon DEF OnReplyTimer
  <2>2. replying'[n][s].phase = "absent"
    BY <2>1 DEF TypeOK, Absent
  <2> QED
    BY <2>2 DEF Punctual
<1>9. CASE TimedReplyTimer(n, s)
  <2>1. ReplyTimer(n, s) /\ now >= d /\ c.phase = "waiting"
    BY <1>4, <1>9 DEF TimedReplyTimer, ReplyTimer, Expired
  <2>2. \/ replying' = [replying EXCEPT ![n][s] = Absent]
        \/ \E b \in ReplyBlock :
             /\ replying' = [replying EXCEPT ![n][s] = b]
             /\ b.phase = "sending" /\ b.call = c.call
    BY <1>4, <2>1, ReplyTimerTells
  <2>3. CASE replying' = [replying EXCEPT ![n][s] = Absent]
    <3>1. replying'[n][s].phase = "absent"
      BY <2>3, Zenon DEF TypeOK, Absent
    <3> QED
      BY <3>1 DEF Punctual
  <2>4. ASSUME NEW b \in ReplyBlock, replying' = [replying EXCEPT ![n][s] = b],
               b.phase = "sending", b.call = c.call
        PROVE  Punctual(n, s)'
    <3>1. replying'[n][s] = b
      BY <2>4 DEF TypeOK
    <3>2. lag = 0 => now = d
      BY <1>5, <1>6, <2>1
    <3>3. lag = 0 => OnBeat(started[k], delay, now)
      BY <1>5, <2>1, <3>2
    <3> QED
      BY <1>1, <1>2, <1>3, <1>4, <1>5, <2>4, <3>1, <3>3, Zenon DEF Punctual
  <2> QED
    BY <2>2, <2>3, <2>4
<1> QED
  BY <1>7, <1>8, <1>9 DEF ReplyActs

\* So does a request that is answered.
LEMMA PunctualFeed ==
  ASSUME TypeOK, IdInv, Flying, ClockInv, RequestBeats, [TimedNext]_timedVars,
         NEW n \in Node, NEW s \in Node \X Id, NEW f \in flight,
         TimedFeedRequest(f), f.message.to = n, <<f.message.from, f.message.id>> = s
  PROVE  Punctual(n, s)'
<1>0. TimedType
  BY DEF ClockInv
<1>1. PICK m \in net : m = f.message
  BY DEF Flying
<1>2. /\ FeedRequest(m) /\ now > f.at
      /\ runs' = [runs EXCEPT ![m.call] = Again(@)]
      /\ UNCHANGED <<now, delay, lag, replyDue, started>>
  BY <1>1 DEF TimedFeedRequest, Arrives, clockVars
<1>3. /\ m.type = "REQUEST" /\ m.call \in Call /\ req' = req
      /\ replying[n][s] = Absent
      /\ \/ replying' = replying
         \/ \E b \in ReplyBlock :
              /\ replying' = [replying EXCEPT ![n][s] = b]
              /\ b.phase = "sending" /\ b.call = m.call
  BY <1>1, <1>2, FeedRequestKeeps
<1>4. PICK k \in Call : k = m.call
  BY <1>3
<1>5. n = req[k].to /\ runs'[k] # 0
  <2>1. RequestCopy(f)
    BY DEF ClockInv, Copies
  <2>2. Again(runs[k]) # 0
    BY DEF Again
  <2> QED
    BY <1>0, <1>1, <1>2, <1>3, <1>4, <2>1, <2>2 DEF RequestCopy, TimedType
<1>6. lag = 0 => OnBeat(started[k], delay, now)
  <2>1. SUFFICES ASSUME lag = 0 PROVE OnBeat(started[k], delay, now)
    OBVIOUS
  <2>2. PICK i \in Nat : f.at = started[k] + Times(i, Period)
    BY <1>1, <1>3, <1>4, <2>1 DEF RequestBeats, RequestBeat
  <2>3. f.at \in Nat /\ now \in Nat /\ delay \in Nat /\ now <= f.at + delay
    BY <1>0 DEF Flying, ClockInv, Copies, TimedType
  <2>4. PICK o \in Nat : now = f.at + o
    <3>1. now - f.at \in Nat /\ now = f.at + (now - f.at)
      BY <1>2, <2>3
    <3> QED
      BY <3>1
  <2>5. 1 <= o /\ o <= delay
    BY <1>2, <2>3, <2>4
  <2> QED
    BY <2>2, <2>4, <2>5 DEF OnBeat
<1>7. CASE replying' = replying
  <2>1. replying'[n][s].phase = "absent"
    <3>1. replying'[n][s] = Absent
      BY <1>3, <1>7, Zenon
    <3> QED
      BY <3>1 DEF Absent
  <2> QED
    BY <2>1 DEF Punctual
<1>8. ASSUME NEW b \in ReplyBlock, replying' = [replying EXCEPT ![n][s] = b],
             b.phase = "sending", b.call = m.call
      PROVE  Punctual(n, s)'
  <2>1. replying'[n][s] = b
    BY <1>8 DEF TypeOK
  <2> QED
    BY <1>2, <1>3, <1>4, <1>5, <1>6, <1>8, <2>1, Zenon DEF Punctual
<1> QED
  BY <1>3, <1>7, <1>8

LEMMA PunctualStep ==
  TypeOK /\ IdInv /\ BudgetInv /\ Flying /\ ClockInv /\ RequestBeats /\ RepliesPunctual
    /\ [TimedNext]_timedVars => RepliesPunctual'
<1> SUFFICES ASSUME TypeOK, IdInv, BudgetInv, Flying, ClockInv, RequestBeats,
                    RepliesPunctual, [TimedNext]_timedVars,
                    NEW n \in Node, NEW s \in Node \X Id
             PROVE  Punctual(n, s)'
  BY DEF RepliesPunctual
<1>0. Punctual(n, s) /\ TimedType
  BY DEF RepliesPunctual, ClockInv
<1>1. CASE replying'[n][s] = replying[n][s] /\ replyDue'[n][s] = replyDue[n][s]
  BY <1>0, <1>1, PunctualKept
<1>2. CASE ReplyActs(n, s)
  BY <1>0, <1>2, PunctualReply
<1>3. CASE replying'[n][s] = Absent
  BY <1>3 DEF Punctual, Absent
<1>4. CASE \E f \in flight :
             TimedFeedRequest(f) /\ f.message.to = n /\ <<f.message.from, f.message.id>> = s
  BY <1>4, PunctualFeed, Zenon
<1> QED
  BY <1>0, <1>1, <1>2, <1>3, <1>4, BlocksFrom

-----------------------------------------------------------------------------
(* Where the replies are: while a copy of one is in flight, its block waits. *)

\* The block of the call a copy of a reply answers, since the copy left.
Held(f) ==
  LET k == f.message.call IN
  f.message.type = "REPLY" /\ k \notin cut =>
    BlockOf(k).phase = "waiting" /\ BlockOf(k).call = k /\ DueOf(k) = f.at + Period

\* No two copies of replies to one call are in flight.
Alone(f, g) ==
  /\ f.message.type = "REPLY" /\ g.message.type = "REPLY"
  /\ f.message.call = g.message.call /\ f.message.call \notin cut
  => f = g

ReplyCopies ==
  delay < Period =>
    /\ \A f \in flight : Held(f)
    /\ \A f, g \in flight : Alone(f, g)

\* The block of a call is the one that names it.
LEMMA OneBlock ==
  ASSUME TypeOK, IdInv, NEW n \in Node, NEW s \in Node \X Id,
         replying[n][s].phase # "absent", Punctual(n, s)
  PROVE  \E k \in Call :
           /\ k = replying[n][s].call /\ Issued(k)
           /\ n = req[k].to /\ s = <<req[k].from, req[k].id>>
           /\ BlockOf(k) = replying[n][s] /\ DueOf(k) = replyDue[n][s]
<1>1. PICK k \in Call :
        k = replying[n][s].call /\ Issued(k) /\ s = <<req[k].from, req[k].id>>
  BY WhoseBlock, Zenon
<1>2. n = req[k].to
  BY <1>1, Zenon DEF Punctual
<1> QED
  BY <1>1, <1>2, Zenon DEF BlockOf, DueOf

\* A block that has been held stays so as long as a copy of its reply flies.
LEMMA HeldKept ==
  ASSUME TypeOK, IdInv, Flying, ClockInv, delay < Period, [TimedNext]_timedVars,
         NEW f \in flight, Held(f), NEW g, g.message = f.message, g.at = f.at
  PROVE  Held(g)'
<1> SUFFICES ASSUME f.message.type = "REPLY", f.message.call \notin cut'
             PROVE  \E k : /\ k = f.message.call
                           /\ BlockOf(k)'.phase = "waiting" /\ BlockOf(k)'.call = k
                           /\ DueOf(k)' = f.at + Period
  BY DEF Held
<1>0. TimedType /\ [Next]_vars
  BY TimedImplements DEF ClockInv
<1>1. PICK k \in Call : k = f.message.call /\ Issued(k) /\ f.at \in Nat
  BY <1>0, CopyOfCall
<1>2. k \notin cut
  BY <1>0, <1>1, ClocksKept
<1>3. BlockOf(k).phase = "waiting" /\ BlockOf(k).call = k /\ DueOf(k) = f.at + Period
  BY <1>1, <1>2 DEF Held
<1>4. PICK n \in Node, s \in Node \X Id : n = req[k].to /\ s = <<req[k].from, req[k].id>>
  BY DEF TypeOK, RequestBlock
<1>5. /\ BlockOf(k) = replying[n][s] /\ DueOf(k) = replyDue[n][s]
      /\ BlockOf(k)' = replying'[n][s] /\ DueOf(k)' = replyDue'[n][s]
  <2>1. req'[k].to = req[k].to /\ req'[k].from = req[k].from /\ req'[k].id = req[k].id
    BY <1>0, <1>1, IdentityKept
  <2> QED
    BY <1>4, <2>1 DEF BlockOf, DueOf
<1>6. CASE ReplyActs(n, s)
  <2>1. replying[n][s].phase # "sending"
    BY <1>3, <1>5
  <2>2. TimedReplyTimer(n, s)
    BY <1>6, <2>1 DEF ReplyActs, TimedReplySent, TimedReplySendFailed, ReplySent, ReplySendFailed
  <2>3. now >= f.at + Period
    BY <1>3, <1>5, <2>2 DEF TimedReplyTimer, Expired
  <2>4. now <= f.at + delay /\ now \in Nat /\ delay \in Nat
    BY <1>0 DEF ClockInv, Copies, TimedType
  <2> QED
    BY <1>1, <2>3, <2>4, RpcTimedAssumption
<1>7. CASE TimedRestart(n)
  <2>1. ~Unanswered(n, s) /\ replying[n][s].call = k
    BY <1>3, <1>5 DEF Unanswered
  <2>2. k \in cut'
    BY <1>7, <2>1 DEF TimedRestart
  <2> QED
    BY <1>1, <2>2
<1>8. replying[n][s].phase # "absent"
  BY <1>3, <1>5
<1>9. CASE replying'[n][s] = replying[n][s] /\ replyDue'[n][s] = replyDue[n][s]
  BY <1>1, <1>3, <1>5, <1>9
<1> QED
  BY <1>0, <1>6, <1>7, <1>8, <1>9, BlocksFrom

\* What a step does to the copies in flight.
LEMMA FlightFrom ==
  ASSUME Flying, [TimedNext]_timedVars
  PROVE  \/ flight' \subseteq flight
         \/ \E f \in flight : Arrives(f)
         \/ \E k \in Call : TimedRequestSent(k)
         \/ \E n \in Node, s \in Node \X Id : TimedReplySent(n, s)
<1>1. CASE Tick
  BY <1>1 DEF Tick
<1>2. CASE UNCHANGED timedVars
  BY <1>2 DEF timedVars
<1> QED
  BY <1>1, <1>2 DEF TimedNext, TimedSend, TimedRequestEvent, TimedFeedRequest, TimedFeedReply,
                    TimedReplySendFailed, TimedReplyTimer, TimedRestart

\* No reply to a call flies while the next one is being sent, and the copy that leaves is
\* held by its block.
LEMMA ReplyLeaves ==
  ASSUME TypeOK, IdInv, Flying, ClockInv, delay < Period, RepliesPunctual,
         \A f \in flight : Held(f), [TimedNext]_timedVars,
         NEW n \in Node, NEW s \in Node \X Id, TimedReplySent(n, s)
  PROVE  \E new : /\ flight' = flight \cup {new} /\ new = Copy(ReplyMessage(n, s))
                  /\ Held(new)'
                  /\ \A f \in flight : f.message.type = "REPLY"
                       /\ f.message.call = new.message.call => f.message.call \in cut
<1>0. TimedType
  BY DEF ClockInv
<1>1. PICK c : c = replying[n][s]
  OBVIOUS
<1>2. /\ c.phase = "sending"
      /\ flight' = flight \cup {Copy(ReplyMessage(n, s))}
      /\ replying' = [replying EXCEPT ![n][s] = Transmitted(@)]
      /\ replyDue' = [replyDue EXCEPT ![n][s] = now + Period]
      /\ req' = req /\ now' = now
  BY <1>1 DEF TimedReplySent, ReplySent, clockVars
<1>3. PICK k \in Call :
        /\ k = c.call /\ n = req[k].to /\ s = <<req[k].from, req[k].id>>
        /\ BlockOf(k) = c
  <2>1. replying[n][s].phase # "absent" /\ Punctual(n, s)
    BY <1>1, <1>2 DEF RepliesPunctual
  <2> QED
    BY <1>1, <2>1, OneBlock
<1>4. PICK new : new = Copy(ReplyMessage(n, s))
  BY Zenon
<1>5. new.message.type = "REPLY" /\ new.message.call = k /\ new.at = now
  BY <1>1, <1>3, <1>4, Zenon DEF Copy, ReplyMessage
<1>6. Held(new)'
  <2>1. replying'[n][s] = Transmitted(c) /\ replyDue'[n][s] = now + Period
    BY <1>0, <1>1, <1>2 DEF TypeOK, TimedType
  <2>2. c \in ReplyBlock
    BY <1>1, <1>2, PresentType
  <2>3. PICK b : b = Transmitted(c)
    OBVIOUS
  <2>4. b.phase = "waiting" /\ b.call = k
    BY <1>3, <2>2, <2>3, BlockFields
  <2>5. BlockOf(k)' = b /\ DueOf(k)' = now + Period
    BY <1>2, <1>3, <2>1, <2>3 DEF BlockOf, DueOf
  <2> QED
    BY <1>2, <1>5, <2>4, <2>5 DEF Held
<1>7. ASSUME NEW f \in flight, f.message.type = "REPLY", f.message.call = new.message.call,
             f.message.call \notin cut
      PROVE  FALSE
  <2>1. f.message.call = k /\ Held(f)
    BY <1>5, <1>7
  <2>2. BlockOf(k).phase = "waiting"
    BY <1>7, <2>1 DEF Held
  <2> QED
    BY <1>2, <1>3, <2>2
<1> QED
  BY <1>2, <1>4, <1>6, <1>7

LEMMA ReplyCopiesStep ==
  TypeOK /\ IdInv /\ Flying /\ ClockInv /\ RepliesPunctual /\ ReplyCopies
    /\ [TimedNext]_timedVars => ReplyCopies'
<1> SUFFICES ASSUME TypeOK, IdInv, Flying, ClockInv, RepliesPunctual, ReplyCopies,
                    [TimedNext]_timedVars, delay' < Period
             PROVE  (\A f \in flight' : Held(f)') /\ (\A f, g \in flight' : Alone(f, g)')
  BY DEF ReplyCopies
<1>0. TimedType /\ [Next]_vars
  BY TimedImplements DEF ClockInv
<1>1. delay < Period /\ cut \subseteq cut'
  BY <1>0, ClocksKept
<1>2. (\A f \in flight : Held(f)) /\ (\A f, g \in flight : Alone(f, g))
  BY <1>1 DEF ReplyCopies
<1>3. ASSUME NEW f \in flight PROVE Held(f)'
  BY <1>1, <1>2, HeldKept
<1>4. ASSUME NEW f \in flight, NEW g \in flight PROVE Alone(f, g)'
  <2>1. Alone(f, g)
    BY <1>2
  <2> QED
    BY <1>1, <2>1 DEF Alone
<1>5. CASE flight' \subseteq flight
  BY <1>3, <1>4, <1>5
<1>6. ASSUME NEW f \in flight, Arrives(f)
      PROVE  (\A g \in flight' : Held(g)') /\ (\A g, h \in flight' : Alone(g, h)')
  <2>1. PICK new : new = [f EXCEPT !.arrived = TRUE]
    OBVIOUS
  <2>2. new.message = f.message /\ new.at = f.at
    BY <2>1 DEF Flying
  <2>3. flight' = (flight \ {f}) \cup {new}
    BY <1>6, <2>1 DEF Arrives
  <2>4. Held(new)'
    BY <1>1, <1>2, <2>2, HeldKept
  <2>5. ASSUME NEW g \in flight \ {f} PROVE Alone(g, new)' /\ Alone(new, g)'
    <3>1. Alone(g, f) /\ g # f
      BY <1>2
    <3>2. g.message.type = "REPLY" /\ f.message.type = "REPLY"
            /\ g.message.call = f.message.call => g.message.call \in cut'
      BY <1>1, <3>1 DEF Alone
    <3> QED
      BY <2>2, <3>2 DEF Alone
  <2>6. Alone(new, new)'
    BY DEF Alone
  <2> QED
    BY <1>3, <1>4, <2>3, <2>4, <2>5, <2>6
<1>7. ASSUME NEW k \in Call, TimedRequestSent(k)
      PROVE  (\A f \in flight' : Held(f)') /\ (\A f, g \in flight' : Alone(f, g)')
  <2>1. PICK new : new = Copy(RequestMessage(k))
    OBVIOUS
  <2>2. flight' = flight \cup {new} /\ new.message.type = "REQUEST"
    BY <1>7, <2>1 DEF TimedRequestSent, Copy, RequestMessage
  <2>3. Held(new)' /\ \A g : Alone(g, new)' /\ Alone(new, g)'
    BY <2>2 DEF Held, Alone
  <2> QED
    BY <1>3, <1>4, <2>2, <2>3
<1>8. ASSUME NEW n \in Node, NEW s \in Node \X Id, TimedReplySent(n, s)
      PROVE  (\A f \in flight' : Held(f)') /\ (\A f, g \in flight' : Alone(f, g)')
  <2>1. PICK new :
          /\ flight' = flight \cup {new} /\ Held(new)'
          /\ \A f \in flight : f.message.type = "REPLY"
               /\ f.message.call = new.message.call => f.message.call \in cut
    BY <1>1, <1>2, <1>8, ReplyLeaves
  <2>2. ASSUME NEW f \in flight PROVE Alone(f, new)' /\ Alone(new, f)'
    <3>1. f.message.type = "REPLY" /\ f.message.call = new.message.call
            => f.message.call \in cut'
      BY <1>1, <2>1
    <3> QED
      BY <3>1 DEF Alone
  <2>3. Alone(new, new)'
    BY DEF Alone
  <2> QED
    BY <1>3, <1>4, <2>1, <2>2, <2>3
<1> QED
  BY <1>5, <1>6, <1>7, <1>8, FlightFrom

-----------------------------------------------------------------------------
(* What a call hears: one answer, and its end before the next reply.         *)

\* The conditions under which a call hears of one end.
Quiet(k) ==
  /\ NoWrap /\ lag = 0 /\ 2 * delay < Period /\ ~repeated
  /\ k \notin cut /\ req[k].from \notin Volatile

\* An answered call that waits for its timer: the copy of the reply it heard is the only
\* one, and the next reply is due after its timer.
Satisfied(k) ==
  /\ req[k].phase = "waiting" /\ runs[k] # 0 /\ answers[k] # {}
  /\ \A f \in flight : f.message.type = "REPLY" /\ f.message.call = k => f.arrived
  /\ BlockOf(k).phase # "absent" /\ BlockOf(k).call = k =>
       BlockOf(k).phase = "waiting" /\ due[k] < DueOf(k)

Hearing(k) ==
  /\ ~Issued(k) => completions[k] = 0
  /\ Quiet(k) => /\ completions[k] <= 1
                 /\ completions[k] = 1 /\ Live(k) => Satisfied(k)

CallsHearing == \A k \in Call : Hearing(k)

\* The timer of a call that was answered frees its block.
LEMMA AnsweredEnds ==
  ASSUME TypeOK, BudgetInv, NEW k \in Call, answers[k] # {},
         RequestSendFailed(k) \/ RequestTimer(k)
  PROVE  ~Live(k)'
<1>1. PICK c : c = req[k]
  OBVIOUS
<1>2. c \in RequestBlock /\ Live(k)
  BY <1>1 DEF TypeOK, RequestSendFailed, RequestTimer, Live
<1>3. c.remain = 0
  BY <1>1, <1>2 DEF BudgetInv, CallBudget, Answered
<1>4. PICK left : left = Int8(c.remain - 1)
  OBVIOUS
<1>5. Spent(left)
  BY <1>3, <1>4 DEF Spent, Int8
<1>6. PICK failed : OnRequestTimer(k, c, requesting, failed)
  BY <1>1 DEF RequestSendFailed, RequestTimer
<1>7. EndsWithError(k, c, left) \/ EndsSilently(k, c, left)
  BY <1>4, <1>5, <1>6, TimerTells
<1>8. req' = [req EXCEPT ![k] = Freed(c, left)]
  BY <1>7 DEF EndsWithError, EndsSilently
<1>9. left \in Byte
  BY <1>3, <1>4, Int8Range DEF Byte
<1>10. Freed(c, left).phase = "freed"
  BY <1>2, <1>9, LeftBlocks
<1> QED
  BY <1>8, <1>10 DEF TypeOK, Live

\* Who tells a call, and what.
LEMMA ToldFrom ==
  ASSUME TypeOK, IdInv, BudgetInv, Flying, [TimedNext]_timedVars, NEW k \in Call
  PROVE  /\ answers[k] \subseteq answers'[k]
         /\ \/ completions'[k] = completions[k]
            \/ /\ TimedRequestEvent(k) /\ Live(k) /\ ~Live(k)'
               /\ completions'[k] = Again(completions[k])
            \/ \E f \in flight :
                 /\ TimedFeedReply(f) /\ k = Addressee(f.message.to, f.message.id)
                 /\ completions'[k] = Again(completions[k])
                 /\ answers'[k] = answers[k] \cup {f.message.call}
<1>0. NoneAhead
  BY DEF IdInv
<1>1. ASSUME UNCHANGED history
      PROVE  answers'[k] = answers[k] /\ completions'[k] = completions[k]
  BY <1>1 DEF history
<1>2. ASSUME NEW n \in Node, NEW to \in Node, TimedSend(n, to)
      PROVE  UNCHANGED history
  BY <1>0, <1>2, SendMakesLive, RpcTimedAssumption DEF TimedSend, history
<1>3. ASSUME NEW j \in Call, TimedRequestSent(j)
      PROVE  UNCHANGED history
  BY <1>3 DEF TimedRequestSent, RequestSent
<1>4. ASSUME NEW j \in Call, TimedRequestEvent(j)
      PROVE  /\ answers' = answers
             /\ \/ completions'[k] = completions[k]
                \/ /\ j = k /\ Live(k) /\ ~Live(k)'
                   /\ completions'[k] = Again(completions[k])
  <2>1. RequestStep(j)
    BY <1>4 DEF TimedRequestEvent, RequestStep
  <2>2. answers' = answers
    BY <2>1, RequestStepKeeps
  <2>3. /\ Live(j)
        /\ j # k => completions'[k] = completions[k]
        /\ \/ ~Live(j)' /\ completions'[j] = Again(completions[j])
           \/ completions' = completions
    BY <2>1, RequestStepTells
  <2> QED
    BY <2>2, <2>3
<1>5. ASSUME NEW f \in flight, TimedFeedRequest(f)
      PROVE  UNCHANGED history
  BY <1>5 DEF TimedFeedRequest, FeedRequest
<1>6. ASSUME NEW f \in flight, TimedFeedReply(f)
      PROVE  /\ answers[k] \subseteq answers'[k]
             /\ \/ completions'[k] = completions[k]
                \/ /\ k = Addressee(f.message.to, f.message.id)
                   /\ completions'[k] = Again(completions[k])
                   /\ answers'[k] = answers[k] \cup {f.message.call}
  <2>1. PICK j, m : j = Addressee(f.message.to, f.message.id) /\ m = f.message
    OBVIOUS
  <2>2. /\ answers' = [answers EXCEPT ![j] = @ \cup {m.call}]
        /\ completions' = [completions EXCEPT ![j] = Again(@)]
    BY <1>6, <2>1 DEF TimedFeedReply, FeedReply
  <2>3. CASE j = k
    BY <2>1, <2>2, <2>3 DEF TypeOK
  <2>4. CASE j # k
    BY <2>2, <2>4 DEF TypeOK
  <2> QED
    BY <2>3, <2>4
<1>7. ASSUME NEW n \in Node, NEW s \in Node \X Id, ReplyActs(n, s)
      PROVE  UNCHANGED history
  <2>1. ReplyStep(n, s)
    BY <1>7 DEF ReplyActs, TimedReplySent, TimedReplySendFailed, TimedReplyTimer, ReplyStep
  <2> QED
    BY <2>1, ReplyStepKeeps
<1>8. ASSUME NEW n \in Node, TimedRestart(n)
      PROVE  UNCHANGED history
  BY <1>8 DEF TimedRestart, Restart
<1>9. CASE Tick
  BY <1>1, <1>9 DEF Tick, vars, history
<1>10. CASE UNCHANGED timedVars
  BY <1>1, <1>10 DEF timedVars, vars, history
<1> QED
  BY <1>1, <1>2, <1>3, <1>4, <1>5, <1>6, <1>7, <1>8, <1>9, <1>10 DEF TimedNext, ReplyActs

\* Between two beats nothing else may be due: when a copy that left on the callee's beat
\* arrives, its caller is not sending, and its timer is due before the callee's.
LEMMA BetweenBeats ==
  ASSUME NEW start \in Nat, NEW bound \in Nat, NEW x \in Nat, NEW time \in Nat, NEW m \in Nat,
         NEW d \in Nat, 2 * bound < Period, OnBeat(start, bound, x + Period),
         x < time, time <= x + bound
  PROVE  /\ time # start + Times(m, Period)
         /\ d = start + Times(m, Period) /\ d <= time + Period => d < x + Period
<1>1. PICK i \in Nat, o \in Nat :
        1 <= o /\ o <= bound /\ x + Period = start + Times(i, Period) + o
  BY DEF OnBeat
<1>2. PICK w \in Nat : w = Period
  BY RpcTimedAssumption
<1>3. PICK a \in Nat, b \in Nat : a = Times(i, w) /\ b = Times(m, w)
  BY TimesFacts
<1>4. m <= i => b <= a
  BY <1>3, TimesFacts
<1>5. m < i => b + w <= a
  <2>1. ASSUME m < i PROVE b + w <= a
    <3>1. m + 1 \in Nat /\ m + 1 <= i
      BY <2>1
    <3>2. Times(m + 1, w) <= Times(i, w) /\ Times(m + 1, w) = Times(m, w) + w
      BY <3>1, TimesFacts
    <3> QED
      BY <1>3, <3>2
  <2> QED
    BY <2>1
<1>6. i < m => a + w <= b
  <2>1. ASSUME i < m PROVE a + w <= b
    <3>1. i + 1 \in Nat /\ i + 1 <= m
      BY <2>1
    <3>2. Times(i + 1, w) <= Times(m, w) /\ Times(i + 1, w) = Times(i, w) + w
      BY <3>1, TimesFacts
    <3> QED
      BY <1>3, <3>2
  <2> QED
    BY <2>1
<1>7. 2 * bound < w /\ x + w = start + a + o /\ 1 <= o /\ o <= bound
  BY <1>1, <1>2, <1>3
<1>8. time # start + b
  <2>1. SUFFICES ASSUME time = start + b PROVE FALSE
    OBVIOUS
  <2>2. ~ i <= m
    <3>1. a <= b \/ ~ i <= m
      BY <1>3, TimesFacts
    <3> QED
      BY <1>7, <2>1, <3>1
  <2>3. m < i
    BY <2>2
  <2>4. b + w <= a
    BY <1>5, <2>3
  <2> QED
    BY <1>7, <2>1, <2>4
<1>9. ASSUME d = start + b, d <= time + w PROVE d < x + w
  <2>1. CASE m <= i
    BY <1>4, <1>7, <1>9, <2>1
  <2>2. CASE i < m
    BY <1>6, <1>7, <1>9, <2>2
  <2> QED
    BY <2>1, <2>2
<1> QED
  BY <1>2, <1>3, <1>8, <1>9

LEMMA QuietFacts ==
  ASSUME TimedType, NEW k, Quiet(k)
  PROVE  /\ NoWrap /\ lag = 0 /\ 2 * delay < Period /\ delay < Period /\ InTime
         /\ k \notin cut /\ req[k].from \notin Volatile /\ ~repeated
<1>1. /\ NoWrap /\ lag = 0 /\ 2 * delay < Period /\ k \notin cut
      /\ req[k].from \notin Volatile /\ ~repeated
  BY DEF Quiet
<1>2. delay \in Nat /\ Period \in Nat /\ Budget - 1 \in Int
  BY BudgetType, RpcTimedAssumption DEF TimedType, Byte
<1>3. delay < Period /\ (Budget - 1) * 0 = 0
  BY <1>1, <1>2
<1>4. (Budget - 1) * lag + delay < Period
  BY <1>1, <1>2, <1>3
<1> QED
  BY <1>1, <1>3, <1>4 DEF InTime

\* A call that is quiet was so before, and a live one was live.
LEMMA QuietBefore ==
  ASSUME TypeOK, IdInv, Flying, ClockInv, [TimedNext]_timedVars,
         NEW k \in Call, Issued(k), Quiet(k)'
  PROVE  Quiet(k) /\ (Live(k)' => Live(k))
<1>0. TimedType /\ [Next]_vars
  BY TimedImplements DEF ClockInv
<1>1. /\ lag' = lag /\ delay' = delay /\ (repeated => repeated') /\ cut \subseteq cut'
      /\ req'[k].from = req[k].from
  BY <1>0, ClocksKept, IdentityKept
<1>2. Quiet(k)
  BY <1>1 DEF Quiet
<1>3. Live(k)' => Live(k)
  <2>1. CASE Calm(k)
    BY <2>1 DEF Calm, Live
  <2>2. CASE TimedRequestSent(k) \/ TimedRequestEvent(k)
    <3>1. RequestStep(k)
      BY <2>2 DEF TimedRequestSent, TimedRequestEvent, RequestStep
    <3> QED
      BY <3>1 DEF RequestStep, RequestSent, RequestSendFailed, RequestTimer, Live
  <2>3. k # made + 1
    <3>1. k <= made
      BY <1>0, IdentityKept
    <3>2. made \in Int /\ k \in Int
      BY DEF TypeOK, Call
    <3> QED
      BY <3>1, <3>2
  <2> QED
    BY <1>0, <2>1, <2>2, <2>3, CallsFrom
<1> QED
  BY <1>2, <1>3

\* Only its timer, which ends it, disturbs an answered call.
LEMMA SatisfiedWaits ==
  ASSUME TypeOK, IdInv, BudgetInv, Flying, ClockInv, [TimedNext]_timedVars,
         NEW k \in Call, Issued(k), Satisfied(k), Live(k)'
  PROVE  req'[k].phase = "waiting" /\ due'[k] = due[k]
<1>0. TimedType /\ [Next]_vars
  BY TimedImplements DEF ClockInv
<1>1. req[k].phase = "waiting" /\ answers[k] # {}
  BY DEF Satisfied
<1>2. CASE Calm(k)
  BY <1>1, <1>2 DEF Calm, Live
<1>3. ~TimedRequestSent(k)
  BY <1>1 DEF TimedRequestSent, RequestSent
<1>4. ~TimedRequestEvent(k)
  BY <1>1, AnsweredEnds DEF TimedRequestEvent
<1>5. k # made + 1
  <2>1. k <= made
    BY <1>0, IdentityKept
  <2>2. made \in Int /\ k \in Int
    BY DEF TypeOK, Call
  <2> QED
    BY <2>1, <2>2
<1> QED
  BY <1>0, <1>2, <1>3, <1>4, <1>5, CallsFrom

\* Its last timer does not tell it of anything.
LEMMA SatisfiedUntold ==
  ASSUME TypeOK, BudgetInv, NEW k \in Call, Satisfied(k), TimedRequestEvent(k)
  PROVE  completions'[k] = completions[k]
<1>1. req[k].phase = "waiting" /\ answers[k] # {}
  BY DEF Satisfied
<1>2. PICK c : c = req[k]
  OBVIOUS
<1>3. c.remain = 0
  BY <1>1, <1>2 DEF BudgetInv, CallBudget, Answered, Live
<1>4. PICK left : left = Int8(c.remain - 1)
  OBVIOUS
<1>5. left # 0 /\ Spent(left)
  BY <1>3, <1>4 DEF Spent, Int8
<1>6. OnRequestTimer(k, c, requesting, FALSE)
  BY <1>1, <1>2 DEF TimedRequestEvent, RequestSendFailed, RequestTimer
<1>7. RequestEnds(k, c, left, requesting, FALSE)
  BY <1>4, <1>5, <1>6, Zenon DEF OnRequestTimer
<1> QED
  BY <1>5, <1>7, Zenon DEF RequestEnds

\* No reply to it leaves.
LEMMA SatisfiedCopies ==
  ASSUME TypeOK, IdInv, Flying, [TimedNext]_timedVars, RepliesPunctual,
         NEW k \in Call, Satisfied(k),
         NEW g \in flight', g.message.type = "REPLY", g.message.call = k
  PROVE  g.arrived
<1>1. CASE Stayed(g)
  BY <1>1 DEF Stayed, Satisfied
<1>2. ASSUME NEW j \in Call, g = Copy(RequestMessage(j))
      PROVE  FALSE
  BY <1>2 DEF Copy, RequestMessage
<1>3. ASSUME NEW n \in Node, NEW s \in Node \X Id,
             TimedReplySent(n, s), g = Copy(ReplyMessage(n, s))
      PROVE  FALSE
  <2>1. replying[n][s].phase = "sending"
    BY <1>3 DEF TimedReplySent, ReplySent
  <2>2. replying[n][s].call = k
    BY <1>3 DEF Copy, ReplyMessage
  <2>3. BlockOf(k) = replying[n][s]
    BY <2>1, <2>2, OneBlock DEF RepliesPunctual
  <2> QED
    BY <2>1, <2>2, <2>3 DEF Satisfied
<1> QED
  BY <1>1, <1>2, <1>3, CopiesFrom

\* Its callee's block, if it is there, waits for longer than the call itself.
LEMMA SatisfiedBlock ==
  ASSUME TypeOK, IdInv, BudgetInv, Flying, ClockInv, [TimedNext]_timedVars, CallsRecalled',
         NEW k \in Call, Issued(k), Quiet(k), Quiet(k)', Live(k), Satisfied(k),
         BlockOf(k)'.phase # "absent", BlockOf(k)'.call = k
  PROVE  BlockOf(k)'.phase = "waiting" /\ due[k] < DueOf(k)'
<1>0. TimedType /\ TimedType' /\ [Next]_vars
  BY TimedImplements, TypeStep, TimedTypeStep DEF ClockInv
<1>1. PICK n \in Node, s \in Node \X Id : n = req[k].to /\ s = <<req[k].from, req[k].id>>
  BY DEF TypeOK, RequestBlock
<1>2. /\ BlockOf(k) = replying[n][s] /\ DueOf(k) = replyDue[n][s]
      /\ BlockOf(k)' = replying'[n][s] /\ DueOf(k)' = replyDue'[n][s]
  <2>1. req'[k].to = req[k].to /\ req'[k].from = req[k].from /\ req'[k].id = req[k].id
    BY <1>0, IdentityKept
  <2> QED
    BY <1>1, <2>1 DEF BlockOf, DueOf
<1>3. BlockOf(k).phase # "absent" /\ BlockOf(k).call = k =>
        BlockOf(k).phase = "waiting" /\ due[k] < DueOf(k)
  BY DEF Satisfied
<1>4. CASE replying'[n][s] = replying[n][s] /\ replyDue'[n][s] = replyDue[n][s]
  BY <1>2, <1>3, <1>4
<1>5. CASE ReplyActs(n, s)
  <2>1. ReplyStep(n, s)
    BY <1>5 DEF ReplyActs, TimedReplySent, TimedReplySendFailed, TimedReplyTimer, ReplyStep
  <2>2. PICK b :
          /\ replying[n][s].phase # "absent"
          /\ replying' = [replying EXCEPT ![n][s] = b]
          /\ b.phase # "absent" => b.call = replying[n][s].call
    BY <2>1, ReplyStepKeeps
  <2>3. replying'[n][s] = b
    BY <2>2 DEF TypeOK
  <2>4. replying[n][s].call = k
    BY <1>2, <2>2, <2>3
  <2>5. replying[n][s].phase = "waiting" /\ due[k] < replyDue[n][s]
    BY <1>2, <1>3, <2>2, <2>4
  <2>6. TimedReplyTimer(n, s)
    BY <1>5, <2>5 DEF ReplyActs, TimedReplySent, TimedReplySendFailed, ReplySent, ReplySendFailed
  <2>7. now >= replyDue[n][s]
    BY <2>6 DEF TimedReplyTimer, Expired
  <2>8. now <= due[k] + lag /\ lag = 0
    BY <1>0, QuietFacts DEF ClockInv, Deadline, Satisfied
  <2>9. now \in Nat /\ due[k] \in Nat /\ replyDue[n][s] \in Nat
    BY <1>0 DEF TimedType
  <2> QED
    BY <2>5, <2>7, <2>8, <2>9
<1>6. CASE replying'[n][s] = Absent
  BY <1>2, <1>6 DEF Absent
<1>7. ASSUME NEW f \in flight, TimedFeedRequest(f), f.message.to = n,
             <<f.message.from, f.message.id>> = s, replying[n][s].phase = "absent"
      PROVE  FALSE
  <2>1. PICK m \in net : m = f.message
    BY DEF Flying
  <2>2. /\ FeedRequest(m) /\ runs' = [runs EXCEPT ![m.call] = Again(@)]
    BY <1>7, <2>1 DEF TimedFeedRequest
  <2>3. /\ m.call \in Call
        /\ \/ replying' = replying
           \/ \E b \in ReplyBlock :
                replying' = [replying EXCEPT ![n][s] = b] /\ b.call = m.call
    BY <1>7, <2>1, <2>2, FeedRequestKeeps
  <2>4. replying' # replying
    BY <1>2, <1>7
  <2>5. m.call = k
    <3>1. PICK b \in ReplyBlock :
            replying' = [replying EXCEPT ![n][s] = b] /\ b.call = m.call
      BY <2>3, <2>4
    <3>2. replying'[n][s] = b
      BY <3>1 DEF TypeOK
    <3> QED
      BY <1>2, <3>1, <3>2
  <2>6. runs'[k] = 2
    <3>1. runs[k] # 0
      BY DEF Satisfied
    <3> QED
      BY <1>0, <2>2, <2>5, <3>1 DEF TimedType, Again
  <2>7. runs'[k] <= 1
    <3>1. k \notin cut'
      BY DEF Quiet
    <3>2. InTime' <=> InTime
      BY <1>0, ClocksKept DEF InTime
    <3>3. InTime
      BY <1>0, QuietFacts
    <3>4. Recalled(k)'
      BY DEF CallsRecalled
    <3> QED
      BY <3>1, <3>2, <3>3, <3>4 DEF Recalled
  <2> QED
    BY <2>6, <2>7
<1> QED
  BY <1>0, <1>4, <1>5, <1>6, <1>7, BlocksFrom

LEMMA SatisfiedStep ==
  ASSUME TypeOK, IdInv, BudgetInv, Flying, ClockInv, RepliesPunctual, CallsRecalled',
         [TimedNext]_timedVars, NEW k \in Call, Issued(k),
         Quiet(k), Quiet(k)', Live(k), Live(k)', Satisfied(k)
  PROVE  Satisfied(k)'
<1>0. TimedType
  BY DEF ClockInv
<1>1. req'[k].phase = "waiting" /\ due'[k] = due[k]
  BY SatisfiedWaits
<1>2. runs'[k] # 0
  BY <1>0, ClocksKept DEF Satisfied
<1>3. answers'[k] # {}
  BY ToldFrom DEF Satisfied
<1>4. \A g \in flight' : g.message.type = "REPLY" /\ g.message.call = k => g.arrived
  BY SatisfiedCopies
<1>5. BlockOf(k)'.phase # "absent" /\ BlockOf(k)'.call = k =>
        BlockOf(k)'.phase = "waiting" /\ due[k] < DueOf(k)'
  BY SatisfiedBlock, Zenon
<1> QED
  BY <1>1, <1>2, <1>3, <1>4, <1>5 DEF Satisfied

\* The reply a call hears is its own, and heard for the first time.
LEMMA OwnReply ==
  ASSUME TypeOK, IdInv, Flying, ClockInv, UniqueInv, NEW k \in Call, Quiet(k), Quiet(k)',
         Hearing(k), NEW f \in flight, TimedFeedReply(f),
         k = Addressee(f.message.to, f.message.id)
  PROVE  /\ Live(k) /\ f.message.type = "REPLY" /\ f.message.call = k
         /\ ~f.arrived /\ completions[k] = 0
<1>0. TimedType
  BY DEF ClockInv
<1>1. PICK m \in net : m = f.message
  BY Zenon DEF Flying
<1>2. /\ m.type = "REPLY" /\ k = requesting[m.to][m.id] /\ k # None
      /\ repeated' = (repeated \/ f.arrived)
      /\ m.to \in Node /\ m.id \in Id /\ m.call \in Call
  BY <1>1, Zenon DEF TimedFeedReply, FeedReply, Arrives, Addressee, TypeOK, Message
<1>3. Live(k) /\ req[k].from = m.to /\ req[k].id = m.id
  BY <1>2 DEF IdInv, NoDanglingControl
<1>4. MadeUnder(m.call, m.to, m.id)
  BY <1>2 DEF IdInv, NetIds
<1>5. m.call = k
  <2>1. NoWrap /\ req[k].from \notin Volatile
    BY <1>0, QuietFacts
  <2>2. Counted(m.call) /\ Counted(k)
    BY <1>3, <1>4, <2>1 DEF Counted, MadeUnder
  <2> QED
    BY <1>2, <1>3, <1>4, <2>1, <2>2 DEF UniqueInv, Distinct, MadeUnder
<1>6. ~f.arrived
  BY <1>2, Zenon DEF Quiet
<1>7. completions[k] = 0
  <2>1. completions[k] \in 0 .. 2 /\ completions[k] <= 1
    BY DEF TypeOK, Hearing
  <2>2. completions[k] # 1
    BY <1>1, <1>2, <1>3, <1>5, <1>6, Zenon DEF Hearing, Satisfied
  <2> QED
    BY <2>1, <2>2
<1> QED
  BY <1>1, <1>2, <1>3, <1>5, <1>6, <1>7

LEMMA ReplyHeard ==
  ASSUME TypeOK, IdInv, Flying, ClockInv, UniqueInv, CallsPaced, RepliesPunctual,
         ReplyCopies, [TimedNext]_timedVars, NEW k \in Call, Quiet(k), Quiet(k)', Hearing(k),
         NEW f \in flight, TimedFeedReply(f), k = Addressee(f.message.to, f.message.id),
         completions'[k] = Again(completions[k]),
         answers'[k] = answers[k] \cup {f.message.call}
  PROVE  completions'[k] <= 1 /\ Satisfied(k)'
<1>0. TimedType
  BY DEF ClockInv
<1>1. /\ Live(k) /\ f.message.type = "REPLY" /\ f.message.call = k
      /\ ~f.arrived /\ completions[k] = 0
  BY OwnReply
<1>2. /\ now > f.at /\ flight' = (flight \ {f}) \cup {[f EXCEPT !.arrived = TRUE]}
      /\ req' = [req EXCEPT ![k] = Settled(@)]
      /\ UNCHANGED <<replying, due, replyDue, started, runs, cut>>
  BY DEF TimedFeedReply, FeedReply, Arrives
<1>3. completions'[k] = 1 /\ answers'[k] # {}
  BY <1>1 DEF Again
<1>4. lag = 0 /\ 2 * delay < Period /\ delay < Period /\ k \notin cut
  BY <1>0, QuietFacts
<1>5. BlockOf(k).phase = "waiting" /\ BlockOf(k).call = k /\ DueOf(k) = f.at + Period
  BY <1>1, <1>4, Zenon DEF ReplyCopies, Held
<1>6. PICK n \in Node, s \in Node \X Id :
        /\ n = req[k].to /\ s = <<req[k].from, req[k].id>>
        /\ BlockOf(k) = replying[n][s] /\ DueOf(k) = replyDue[n][s]
  <2>1. req[k].to \in Node /\ <<req[k].from, req[k].id>> \in Node \X Id
    BY DEF TypeOK, RequestBlock
  <2> QED
    BY <2>1, Zenon DEF BlockOf, DueOf
<1>7. runs[k] # 0 /\ OnBeat(started[k], delay, f.at + Period)
  <2>1. Punctual(n, s)
    BY <1>6 DEF RepliesPunctual
  <2>2. PICK b, d : b = replying[n][s] /\ d = replyDue[n][s]
    BY Zenon
  <2>3. b.phase = "waiting" /\ b.call = k /\ d = f.at + Period
    BY <1>5, <1>6, <2>2, Zenon
  <2>4. runs[k] # 0 /\ OnBeat(started[k], delay, d)
    BY <1>4, <2>1, <2>2, <2>3 DEF Punctual
  <2> QED
    BY <2>3, <2>4
<1>8. /\ req[k].sent \in Nat
      /\ req[k].phase = "sending" => now = started[k] + Times(req[k].sent, Period)
      /\ req[k].phase = "waiting" =>
           due[k] = started[k] + Times(req[k].sent, Period) /\ due[k] <= now + Period
  BY <1>1, <1>4, CallBeat DEF CallsPaced
<1>9. /\ now # started[k] + Times(req[k].sent, Period)
      /\ due[k] = started[k] + Times(req[k].sent, Period) /\ due[k] <= now + Period
           => due[k] < f.at + Period
  <2>1. /\ started[k] \in Nat /\ delay \in Nat /\ f.at \in Nat /\ now \in Nat /\ due[k] \in Nat
        /\ now <= f.at + delay
    BY <1>0 DEF TimedType, Flying, ClockInv, Copies
  <2>2. f.at < now
    BY <1>2, <2>1
  <2> QED
    BY <1>4, <1>7, <1>8, <2>1, <2>2, BetweenBeats
<1>10. req[k].phase = "waiting" /\ due[k] < DueOf(k)
  BY <1>1, <1>5, <1>8, <1>9, Zenon DEF Live
<1>11. /\ req'[k].phase = "waiting" /\ BlockOf(k)' = BlockOf(k) /\ DueOf(k)' = DueOf(k)
  <2>1. req[k] \in RequestBlock /\ req'[k] = Settled(req[k])
    BY <1>2 DEF TypeOK
  <2>2. /\ Settled(req[k]).phase = req[k].phase /\ Settled(req[k]).to = req[k].to
        /\ Settled(req[k]).from = req[k].from /\ Settled(req[k]).id = req[k].id
    BY <2>1 DEF Settled, RequestBlock
  <2> QED
    BY <1>2, <1>10, <2>1, <2>2 DEF BlockOf, DueOf
<1>12. ASSUME NEW g \in flight', g.message.type = "REPLY", g.message.call = k
       PROVE  g.arrived
  <2>1. CASE g \in flight \ {f}
    <3>1. Alone(g, f)
      BY <1>4, <2>1 DEF ReplyCopies
    <3> QED
      BY <1>1, <1>4, <1>12, <2>1, <3>1 DEF Alone
  <2>2. CASE g = [f EXCEPT !.arrived = TRUE]
    BY <2>2 DEF Flying
  <2> QED
    BY <1>2, <2>1, <2>2
<1>13. /\ req'[k].phase = "waiting" /\ runs'[k] # 0 /\ answers'[k] # {}
  BY <1>2, <1>3, <1>7, <1>11
<1>14. BlockOf(k)'.phase = "waiting" /\ due'[k] < DueOf(k)'
  <2>1. due'[k] = due[k]
    BY <1>2
  <2>2. PICK b, d : b = BlockOf(k) /\ d = DueOf(k)
    OBVIOUS
  <2>3. BlockOf(k)' = b /\ DueOf(k)' = d
    BY <1>11, <2>2
  <2> QED
    BY <1>5, <1>10, <2>1, <2>2, <2>3
<1>15. Satisfied(k)'
  BY <1>12, <1>13, <1>14 DEF Satisfied
<1> QED
  BY <1>3, <1>15

LEMMA HearingStep ==
  TypeOK /\ IdInv /\ BudgetInv /\ Flying /\ ClockInv /\ UniqueInv /\ CallsPaced
    /\ RepliesPunctual /\ ReplyCopies /\ CallsRecalled' /\ CallsHearing
    /\ [TimedNext]_timedVars => CallsHearing'
<1> SUFFICES ASSUME TypeOK, IdInv, BudgetInv, Flying, ClockInv, UniqueInv, CallsPaced,
                    RepliesPunctual, ReplyCopies, CallsRecalled', CallsHearing,
                    [TimedNext]_timedVars, NEW k \in Call
             PROVE  Hearing(k)'
  BY DEF CallsHearing
<1>0. Hearing(k) /\ TimedType /\ [Next]_vars
  BY TimedImplements DEF CallsHearing, ClockInv
<1>1. CASE ~Issued(k)
  <2>1. completions[k] = 0 /\ ~Live(k)
    BY <1>0, <1>1 DEF Hearing, Issued, Live
  <2>2. completions'[k] = 0
    <3>1. ASSUME NEW f \in flight, TimedFeedReply(f), k = Addressee(f.message.to, f.message.id)
          PROVE  FALSE
      <4>1. PICK m \in net : m = f.message
        BY Zenon DEF Flying
      <4>2. k = requesting[m.to][m.id] /\ k # None /\ m.to \in Node /\ m.id \in Id
        BY <3>1, <4>1 DEF TimedFeedReply, FeedReply, Addressee, TypeOK, Message
      <4> QED
        BY <2>1, <4>2 DEF IdInv, NoDanglingControl
    <3> QED
      BY <2>1, <3>1, ToldFrom
  <2> QED
    BY <2>2 DEF Hearing
<1>2. CASE Issued(k)
  <2>1. SUFFICES ASSUME Quiet(k)'
                 PROVE  /\ completions'[k] <= 1
                        /\ completions'[k] = 1 /\ Live(k)' => Satisfied(k)'
    <3>1. Issued(k)'
      BY <1>0, <1>2, IdentityKept
    <3> QED
      BY <2>1, <3>1 DEF Hearing
  <2>2. Quiet(k) /\ (Live(k)' => Live(k))
    BY <1>0, <1>2, <2>1, QuietBefore
  <2>3. CASE completions'[k] = completions[k]
    <3>1. completions[k] <= 1 /\ (completions[k] = 1 /\ Live(k) => Satisfied(k))
      BY <1>0, <2>2 DEF Hearing
    <3>2. ASSUME Live(k)', Live(k), Satisfied(k) PROVE Satisfied(k)'
      BY <1>2, <2>1, <2>2, <3>2, SatisfiedStep
    <3> QED
      BY <2>2, <2>3, <3>1, <3>2
  <2>4. ASSUME NEW f \in flight, TimedFeedReply(f), k = Addressee(f.message.to, f.message.id),
               completions'[k] = Again(completions[k]),
               answers'[k] = answers[k] \cup {f.message.call}
        PROVE  completions'[k] <= 1 /\ Satisfied(k)'
    BY <1>0, <2>1, <2>2, <2>4, ReplyHeard
  <2>5. ASSUME TimedRequestEvent(k), Live(k), ~Live(k)', completions'[k] = Again(completions[k]),
               completions'[k] # completions[k]
        PROVE  completions'[k] <= 1
    <3>1. completions[k] \in 0 .. 2 /\ completions[k] <= 1
      BY <1>0, <2>2 DEF TypeOK, Hearing
    <3>2. completions[k] # 1
      BY <1>0, <2>2, <2>5, SatisfiedUntold, Zenon DEF Hearing
    <3> QED
      BY <2>5, <3>1, <3>2 DEF Again
  <2> QED
    BY <2>2, <2>3, <2>4, <2>5, ToldFrom
<1> QED
  BY <1>1, <1>2

PaceInv == CallsPaced /\ RequestBeats /\ RepliesPunctual /\ ReplyCopies /\ CallsHearing

LEMMA PaceInit == TimedInit => PaceInv
<1> SUFFICES ASSUME TimedInit PROVE PaceInv
  OBVIOUS
<1>1. \A k \in Call : ~Live(k) /\ completions[k] = 0
  BY DEF TimedInit, Init, Live, Unused
<1>2. \A n \in Node, s \in Node \X Id : replying[n][s].phase = "absent"
  BY DEF TimedInit, Init, Absent
<1>3. flight = {}
  BY DEF TimedInit
<1>4. CallsPaced /\ CallsHearing
  BY <1>1 DEF CallsPaced, Paced, CallsHearing, Hearing
<1>5. RequestBeats /\ ReplyCopies
  BY <1>3 DEF RequestBeats, ReplyCopies
<1>6. RepliesPunctual
  BY <1>2 DEF RepliesPunctual, Punctual
<1> QED
  BY <1>4, <1>5, <1>6 DEF PaceInv

LEMMA PaceStep ==
  TypeOK /\ TypeOK' /\ IdInv /\ BudgetInv /\ Flying /\ ClockInv /\ UniqueInv
    /\ CallsRecalled' /\ PaceInv /\ [TimedNext]_timedVars => PaceInv'
  BY PacedStep, BeatsStep, PunctualStep, ReplyCopiesStep, HearingStep DEF PaceInv

\* A call hears one answer or one error, never two of them (test/transmission/Rpc.cc:124),
\* when a request and its reply take less than a period together, no handler is late, the
\* network does not repeat, the caller neither restarts nor uses an id twice, and the reply
\* was not given up early (Rpc.h:94-98, 187-188, 195-203, 213-214): the beats of caller and
\* callee interleave, so the caller's timer always comes between two replies, and an answer
\* never meets a retransmission whose send could still fail; for any retry argument, period
\* and delay, whatever else is lost or fails.
THEOREM HeardOnceCorrect == TimedSpec => []HeardOnce
<1>1. PaceInv => HeardOnce
  <2>1. SUFFICES ASSUME CallsHearing, NoWrap, lag = 0, 2 * delay < Period, ~repeated,
                        NEW k \in Call \ cut, req[k].from \notin Volatile
                 PROVE  completions[k] <= 1
    BY DEF PaceInv, HeardOnce
  <2>2. Quiet(k)
    BY <2>1 DEF Quiet
  <2>3. Hearing(k)
    BY <2>1 DEF CallsHearing
  <2> QED
    BY <2>2, <2>3 DEF Hearing
<1>2. TimedSpec => []CallsRecalled
  BY ClockAlways, RecalledInit, RecalledStep, PTL DEF TimedSpec
<1>3. TimedSpec => []UniqueInv
  BY TimedImplement, UniqueAlways, PTL
<1>4. TimedSpec => []PaceInv
  BY <1>2, <1>3, ClockAlways, PaceInit, PaceStep, PTL DEF TimedSpec
<1> QED
  BY <1>1, <1>4, PTL

-----------------------------------------------------------------------------
(* How long the callee remembers: the last copy of a request arrives a delay after it *)
(* left, and the reply block it may open is gone Budget periods later.                *)

\* The latest a copy of the request of call k arrives.
LastArrival(k) == started[k] + Times(Budget - 1, Period + lag) + delay

\* A reply block is on time: no later than the replies it sent explain.
OnTime(n, s) ==
  LET c == replying[n][s]
      latest == LastArrival(c.call) + Times(c.sent, Period + lag)
  IN
  /\ c.phase = "sending" => now <= latest
  /\ c.phase = "waiting" => now <= replyDue[n][s] + lag /\ replyDue[n][s] + lag <= latest

BlocksOnTime == \A n \in Node, s \in Node \X Id : OnTime(n, s)

LEMMA LastArrivalType ==
  ASSUME TimedType, NEW k \in Call
  PROVE  /\ LastArrival(k) \in Nat /\ Period + lag \in Nat /\ Budget - 1 \in Nat
         /\ now \in Nat /\ lag \in Nat /\ Period \in Nat
<1>1. /\ started[k] \in Nat /\ delay \in Nat /\ Period \in Nat /\ lag \in Nat /\ now \in Nat
  BY RpcTimedAssumption DEF TimedType
<1>2. Budget - 1 \in Nat
  BY BudgetType, RpcTimedAssumption DEF Byte
<1>3. Period + lag \in Nat
  BY <1>1
<1>4. Times(Budget - 1, Period + lag) \in Nat
  BY <1>2, <1>3, TimesFacts
<1> QED
  BY <1>1, <1>2, <1>3, <1>4 DEF LastArrival

\* A step never moves the latest arrival of a call that was made.
LEMMA LastArrivalKept ==
  ASSUME TypeOK, IdInv, Flying, TimedType, [TimedNext]_timedVars, NEW k \in Call, Issued(k)
  PROVE  LastArrival(k)' = LastArrival(k)
<1>1. delay' = delay /\ lag' = lag /\ started'[k] = started[k]
  BY ClocksKept
<1> QED
  BY <1>1 DEF LastArrival

\* Time passes no block that is sending or whose timer is overdue.
LEMMA TimePasses ==
  ASSUME TypeOK, IdInv, Flying, TimedType, [TimedNext]_timedVars,
         NEW n \in Node, NEW s \in Node \X Id, replying[n][s].phase # "absent"
  PROVE  /\ replying[n][s].phase = "sending" => now' = now
         /\ replying[n][s].phase = "waiting" /\ now <= replyDue[n][s] + lag
              => now' <= replyDue[n][s] + lag
<1>1. CASE Tick
  <2>1. <<n, s>> \in Replying
    BY DEF Replying, Unanswered
  <2>2. \A x \in Replying : MayPass(replying[x[1]][x[2]].phase, replyDue[x[1]][x[2]])
    BY <1>1 DEF Tick
  <2>3. replying[n][s].phase # "sending" /\ now < replyDue[n][s] + lag
    BY <2>1, <2>2 DEF MayPass
  <2>4. now' = now + 1 /\ now \in Nat /\ replyDue[n][s] \in Nat /\ lag \in Nat
    BY <1>1 DEF Tick, TimedType
  <2> QED
    BY <2>3, <2>4
<1>2. CASE now' = now
  BY <1>2
<1> QED
  BY <1>1, <1>2, ClocksKept

\* A block left alone stays on time.
LEMMA OnTimeKept ==
  ASSUME TypeOK, IdInv, Flying, TimedType, [TimedNext]_timedVars,
         NEW n \in Node, NEW s \in Node \X Id, OnTime(n, s),
         replying'[n][s] = replying[n][s], replyDue'[n][s] = replyDue[n][s]
  PROVE  OnTime(n, s)'
<1>1. PICK c, d : c = replying[n][s] /\ d = replyDue[n][s]
  OBVIOUS
<1>2. replying'[n][s] = c /\ replyDue'[n][s] = d
  BY <1>1
<1>3. CASE c.phase = "absent"
  BY <1>2, <1>3, Zenon DEF OnTime
<1>4. CASE c.phase # "absent"
  <2>1. PICK k \in Call : k = c.call /\ Issued(k)
    BY <1>1, <1>4, WhoseBlock
  <2>2. PICK x, w : x = LastArrival(k) /\ w = Period + lag
    OBVIOUS
  <2>3. LastArrival(k)' = x /\ Period + lag' = w /\ lag' = lag
    BY <2>1, <2>2, LastArrivalKept, ClocksKept
  <2>4. /\ c.phase = "sending" => now <= x + Times(c.sent, w)
        /\ c.phase = "waiting" => now <= d + lag /\ d + lag <= x + Times(c.sent, w)
    BY <1>1, <2>1, <2>2 DEF OnTime
  <2>5. /\ c.phase = "sending" => now' = now
        /\ c.phase = "waiting" => now' <= d + lag
    BY <1>1, <1>4, <2>4, TimePasses
  <2>6. /\ c.phase = "sending" => now' <= x + Times(c.sent, w)
        /\ c.phase = "waiting" => now' <= d + lag' /\ d + lag' <= x + Times(c.sent, w)
    BY <2>3, <2>4, <2>5
  <2> QED
    BY <1>2, <2>1, <2>3, <2>6 DEF OnTime
<1> QED
  BY <1>3, <1>4

\* A step of a reply keeps its block on time.
LEMMA OnTimeReply ==
  ASSUME TypeOK, IdInv, BudgetInv, Flying, TimedType, [TimedNext]_timedVars,
         NEW n \in Node, NEW s \in Node \X Id, OnTime(n, s), ReplyActs(n, s)
  PROVE  OnTime(n, s)'
<1>1. /\ ReplyStep(n, s) /\ UNCHANGED <<now, delay, lag, started>>
  BY DEF ReplyActs, TimedReplySent, TimedReplySendFailed, TimedReplyTimer, ReplyStep, clockVars
<1>2. replying[n][s].phase # "absent"
  BY <1>1, ReplyStepKeeps
<1>3. PICK k \in Call : k = replying[n][s].call /\ Issued(k)
  BY <1>2, WhoseBlock
<1>4. PICK c, d : c = replying[n][s] /\ d = replyDue[n][s]
  OBVIOUS
<1>5. PICK x, w : x = LastArrival(k) /\ w = Period + lag
  OBVIOUS
<1>6. x \in Nat /\ w \in Nat /\ now \in Nat /\ lag \in Nat /\ d \in Nat /\ c \in ReplyBlock
  BY <1>2, <1>4, <1>5, LastArrivalType, PresentType DEF TimedType
<1>7. LastArrival(k)' = x /\ Period + lag' = w /\ lag' = lag /\ now' = now
  BY <1>1, <1>3, <1>5, LastArrivalKept
<1>8. c.sent \in Nat /\ Times(c.sent, w) \in Nat /\ Times(c.sent + 1, w) = Times(c.sent, w) + w
  <2>1. c.sent \in Nat
    BY <1>6 DEF ReplyBlock
  <2> QED
    BY <1>6, <2>1, TimesFacts
<1>9. /\ c.phase = "sending" => now <= x + Times(c.sent, w)
      /\ c.phase = "waiting" => now <= d + lag /\ d + lag <= x + Times(c.sent, w)
  BY <1>3, <1>4, <1>5 DEF OnTime
<1>10. CASE TimedReplySent(n, s)
  <2>1. /\ c.phase = "sending"
        /\ replying'[n][s] = Transmitted(c) /\ replyDue'[n][s] = now + Period
    <3>1. /\ c.phase = "sending"
          /\ replying' = [replying EXCEPT ![n][s] = Transmitted(@)]
          /\ replyDue' = [replyDue EXCEPT ![n][s] = now + Period]
      BY <1>4, <1>10 DEF TimedReplySent, ReplySent
    <3> QED
      BY <1>4, <3>1 DEF TypeOK, TimedType
  <2>2. PICK b : b = Transmitted(c)
    OBVIOUS
  <2>3. b.phase = "waiting" /\ b.call = k /\ b.sent = c.sent + 1
    BY <1>3, <1>4, <1>6, <2>2, BlockFields
  <2>4. Period \in Nat
    BY RpcTimedAssumption
  <2>5. now <= (now + Period) + lag /\ (now + Period) + lag <= x + Times(b.sent, w)
    BY <1>5, <1>6, <1>8, <1>9, <2>1, <2>3, <2>4
  <2> QED
    BY <1>7, <2>1, <2>2, <2>3, <2>5 DEF OnTime
<1>11. CASE TimedReplySendFailed(n, s)
  <2>1. replying' = [replying EXCEPT ![n][s] = Absent]
    <3>1. OnReplyTimer(n, s, c, TRUE)
      BY <1>4, <1>11 DEF TimedReplySendFailed, ReplySendFailed
    <3> QED
      BY <3>1, Zenon DEF OnReplyTimer
  <2>2. replying'[n][s].phase = "absent"
    BY <2>1 DEF TypeOK, Absent
  <2> QED
    BY <2>2 DEF OnTime
<1>12. CASE TimedReplyTimer(n, s)
  <2>1. ReplyTimer(n, s)
    BY <1>12 DEF TimedReplyTimer
  <2>2. /\ c.phase = "waiting"
        /\ \/ replying' = [replying EXCEPT ![n][s] = Absent]
           \/ \E b \in ReplyBlock :
                /\ replying' = [replying EXCEPT ![n][s] = b]
                /\ b.phase = "sending" /\ b.call = c.call /\ b.sent = c.sent
    BY <1>4, <2>1, ReplyTimerTells
  <2>3. CASE replying' = [replying EXCEPT ![n][s] = Absent]
    <3>1. replying'[n][s].phase = "absent"
      BY <2>3, Zenon DEF TypeOK, Absent
    <3> QED
      BY <3>1 DEF OnTime
  <2>4. ASSUME NEW b \in ReplyBlock, replying' = [replying EXCEPT ![n][s] = b],
               b.phase = "sending", b.call = c.call, b.sent = c.sent
        PROVE  OnTime(n, s)'
    <3>1. replying'[n][s] = b
      BY <2>4 DEF TypeOK
    <3>2. now <= x + Times(b.sent, w)
      BY <1>6, <1>8, <1>9, <2>2, <2>4
    <3> QED
      BY <1>3, <1>4, <1>7, <2>4, <3>1, <3>2 DEF OnTime
  <2> QED
    BY <2>2, <2>3, <2>4
<1> QED
  BY <1>10, <1>11, <1>12 DEF ReplyActs

\* A request that is answered opens a block on time: the copy it came with left before the
\* budget was spent.
LEMMA OnTimeFeed ==
  ASSUME TypeOK, IdInv, Flying, ClockInv, [TimedNext]_timedVars,
         NEW n \in Node, NEW s \in Node \X Id, NEW f \in flight,
         TimedFeedRequest(f), f.message.to = n, <<f.message.from, f.message.id>> = s
  PROVE  OnTime(n, s)'
<1>0. TimedType
  BY DEF ClockInv
<1>1. PICK m \in net : m = f.message
  BY DEF Flying
<1>2. FeedRequest(m) /\ UNCHANGED <<now, delay, lag, started>>
  BY <1>1 DEF TimedFeedRequest, clockVars
<1>3. /\ m.type = "REQUEST" /\ m.call \in Call
      /\ replying[n][s] = Absent
      /\ \/ replying' = replying
         \/ \E b \in ReplyBlock :
              /\ replying' = [replying EXCEPT ![n][s] = b]
              /\ b.phase = "sending" /\ b.call = m.call /\ b.sent = 0
  BY <1>1, <1>2, FeedRequestKeeps
<1>4. PICK k \in Call : k = m.call
  BY <1>3
<1>5. now <= LastArrival(k) + Times(0, Period + lag)
  <2>1. f.at <= started[k] + Times(Budget - 1, Period + lag) /\ now <= f.at + delay
    BY <1>1, <1>3, <1>4 DEF ClockInv, Copies, RequestCopy
  <2>2. /\ f.at \in Nat /\ delay \in Nat /\ started[k] \in Nat /\ now \in Nat
        /\ Period + lag \in Nat /\ Budget - 1 \in Nat
    BY <1>0, LastArrivalType DEF Flying, TimedType
  <2>3. Times(Budget - 1, Period + lag) \in Nat /\ Times(0, Period + lag) = 0
    BY <2>2, TimesFacts
  <2> QED
    BY <2>1, <2>2, <2>3 DEF LastArrival
<1>6. CASE replying' = replying
  <2>1. replying'[n][s].phase = "absent"
    <3>1. replying'[n][s] = Absent
      BY <1>3, <1>6, Zenon
    <3> QED
      BY <3>1 DEF Absent
  <2> QED
    BY <2>1 DEF OnTime
<1>7. ASSUME NEW b \in ReplyBlock, replying' = [replying EXCEPT ![n][s] = b],
             b.phase = "sending", b.call = m.call, b.sent = 0
      PROVE  OnTime(n, s)'
  <2>1. replying'[n][s] = b
    BY <1>7 DEF TypeOK
  <2>2. LastArrival(k)' = LastArrival(k) /\ lag' = lag /\ now' = now
    BY <1>2 DEF LastArrival
  <2> QED
    BY <1>4, <1>5, <1>7, <2>1, <2>2 DEF OnTime
<1> QED
  BY <1>3, <1>6, <1>7

LEMMA OnTimeStep ==
  TypeOK /\ IdInv /\ BudgetInv /\ Flying /\ ClockInv /\ BlocksOnTime
    /\ [TimedNext]_timedVars => BlocksOnTime'
<1> SUFFICES ASSUME TypeOK, IdInv, BudgetInv, Flying, ClockInv, BlocksOnTime,
                    [TimedNext]_timedVars, NEW n \in Node, NEW s \in Node \X Id
             PROVE  OnTime(n, s)'
  BY DEF BlocksOnTime
<1>0. OnTime(n, s) /\ TimedType
  BY DEF BlocksOnTime, ClockInv
<1>1. CASE replying'[n][s] = replying[n][s] /\ replyDue'[n][s] = replyDue[n][s]
  BY <1>0, <1>1, OnTimeKept
<1>2. CASE ReplyActs(n, s)
  BY <1>0, <1>2, OnTimeReply
<1>3. CASE replying'[n][s] = Absent
  BY <1>3 DEF OnTime, Absent
<1>4. CASE \E f \in flight :
             TimedFeedRequest(f) /\ f.message.to = n /\ <<f.message.from, f.message.id>> = s
  BY <1>4, OnTimeFeed, Zenon
<1> QED
  BY <1>0, <1>1, <1>2, <1>3, <1>4, BlocksFrom

LEMMA OnTimeInit == TimedInit => BlocksOnTime
  BY DEF TimedInit, Init, Absent, BlocksOnTime, OnTime

\* The callee has forgotten a request, and answers a new one with that endpoint and id
\* again, 2 * Budget - 1 periods and a delay after the call was made (Rpc.h:64, 88,
\* 173-176, 213-214): the request may be the last one its caller sent.
THEOREM WindowEndsCorrect ==
  TimedSpec => [](\A n \in Node, s \in Node \X Id :
                    ~Unanswered(n, s) =>
                      now <= started[replying[n][s].call]
                               + (2 * Budget - 1) * (Period + lag) + delay)
<1>1. ASSUME TypeOK, IdInv, BudgetInv, TimedType, BlocksOnTime,
             NEW n \in Node, NEW s \in Node \X Id, ~Unanswered(n, s)
      PROVE  now <= started[replying[n][s].call] + (2 * Budget - 1) * (Period + lag) + delay
  <2>1. PICK c, d : c = replying[n][s] /\ d = replyDue[n][s]
    OBVIOUS
  <2>2. c \in ReplyBlock
    BY <1>1, <2>1, PresentType DEF Unanswered
  <2>3. PICK k \in Call : k = c.call
    BY <2>2 DEF ReplyBlock
  <2>4. PICK a, w : a = Budget - 1 /\ w = Period + lag
    OBVIOUS
  <2>5. /\ LastArrival(k) \in Nat /\ w \in Nat /\ a \in Nat /\ now \in Nat /\ lag \in Nat
        /\ d \in Nat /\ started[k] \in Nat /\ delay \in Nat
    BY <1>1, <2>1, <2>4, LastArrivalType DEF TimedType
  <2>6. c.sent \in Nat /\ c.sent <= a + 1 /\ c.phase \in {"sending", "waiting"}
    <3>1. Going(c)
      BY <1>1, <2>1 DEF BudgetInv, ReplyBudget, Unanswered
    <3>2. c.sent \in Nat /\ c.remain \in Int /\ c.phase \in {"sending", "waiting"}
      BY <2>2 DEF ReplyBlock, Byte
    <3> QED
      BY <2>4, <2>5, <3>1, <3>2, BudgetType DEF Going, Byte
  <2>7. Times(c.sent, w) \in Nat /\ Times(a + 1, w) \in Nat /\ Times(c.sent, w) <= Times(a + 1, w)
    <3>1. a + 1 \in Nat
      BY <2>5
    <3> QED
      BY <2>5, <2>6, <3>1, TimesFacts
  <2>8. now <= LastArrival(k) + Times(c.sent, w)
    <3>1. /\ c.phase = "sending" => now <= LastArrival(k) + Times(c.sent, w)
          /\ c.phase = "waiting" => /\ now <= d + lag
                                    /\ d + lag <= LastArrival(k) + Times(c.sent, w)
      BY <1>1, <2>1, <2>3, <2>4 DEF BlocksOnTime, OnTime
    <3> QED
      BY <2>5, <2>6, <2>7, <3>1
  <2>9. now <= LastArrival(k) + Times(a + 1, w)
    BY <2>5, <2>7, <2>8
  <2>10. LastArrival(k) = started[k] + a * w + delay
    BY <2>4 DEF LastArrival, Times
  <2>11. (2 * Budget - 1) * w = a * w + (a + 1) * w
    <3>1. 2 * Budget - 1 = a + (a + 1)
      BY <2>4, <2>5, BudgetType DEF Byte
    <3>2. (a + (a + 1)) * w = a * w + (a + 1) * w
      BY <2>5
    <3> QED
      BY <3>1, <3>2
  <2>12. a * w \in Nat /\ (a + 1) * w \in Nat
    BY <2>5
  <2>13. now <= started[k] + (2 * Budget - 1) * w + delay
    BY <2>5, <2>9, <2>10, <2>11, <2>12 DEF Times
  <2> QED
    BY <2>1, <2>3, <2>4, <2>13
<1>2. TypeOK /\ IdInv /\ BudgetInv /\ ClockInv /\ BlocksOnTime =>
        \A n \in Node, s \in Node \X Id :
          ~Unanswered(n, s) =>
            now <= started[replying[n][s].call] + (2 * Budget - 1) * (Period + lag) + delay
  BY <1>1 DEF ClockInv
<1>3. TimedSpec => []BlocksOnTime
  BY ClockAlways, OnTimeInit, OnTimeStep, PTL DEF TimedSpec
<1> QED
  BY <1>2, <1>3, ClockAlways, PTL

-----------------------------------------------------------------------------
\* The extensions of Rpc do what RpcService promises: what they add (the handlers of
\* RpcProtocol.cc, the pool behind them, the clock) takes nothing from it.
THEOREM ExtensionsServe ==
  ASSUME NoWrap
  PROVE  /\ CallsSpec => RefinesService
         /\ ProtocolSpec => RefinesService
         /\ TimedSpec => RefinesService
<1>1. Spec => RefinesService
  BY ServiceCorrect
<1>2. CallsSpec => RefinesService
  BY <1>1, CallsImplement, PTL
<1>3. ProtocolSpec => RefinesService
  BY <1>1, ProtocolImplement, PTL
<1>4. TimedSpec => RefinesService
  BY <1>1, TimedImplement, PTL
<1> QED
  BY <1>2, <1>3, <1>4

=============================================================================
