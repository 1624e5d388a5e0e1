------------------------------- MODULE RpcCalls -------------------------------
(***************************************************************************)
(* What the callbacks of RpcProtocol (transmission/RpcProtocol.h) are told *)
(* of their calls: connect, ping and disconnect over Rpc.  A payload is    *)
(* known by its kind of call and its error code; a reply has a key and an  *)
(* iv when it is one to connect.  RpcProtocol, the module, has the buffers *)
(* of the same handlers.                                                   *)
(***************************************************************************)
EXTENDS Rpc

CONSTANT
  Kinds   \* the kinds of calls made, of CONNECT, PING and DISCONNECT

ASSUME RpcCallsAssumption ==
  Kinds # {} /\ Kinds \subseteq {"CONNECT", "PING", "DISCONNECT"}

VARIABLES
  kind,        \* the type in every request
  replyCode,   \* the error in every reply block, per node
  carried,     \* the errors in the reply datagrams to every call
  given,       \* history: what onConnect, onPing and onDisconnect returned
  told         \* history: what the callback of every call was told

callsVars == <<vars, kind, replyCode, carried, given, told>>

\* What a handler returns: success, or one of the errors it has.
Code == {"SUCCESS", "REFUSED"}

NoCodes == [s \in Node \X Id |-> "REFUSED"]

CallsInit ==
  /\ Init
  /\ kind = [k \in Call |-> CHOOSE type \in Kinds : TRUE]
  /\ replyCode = [n \in Node |-> NoCodes]
  /\ carried = [k \in Call |-> {}]
  /\ given = [k \in Call |-> {}]
  /\ told = [k \in Call |-> {}]

Add(codes, k, code) == [codes EXCEPT ![k] = @ \cup {code}]

\* connect, ping and disconnect, which have room for the header.
SendCall(n, to, type) ==
  /\ Send(n, to)
  /\ kind' = [kind EXCEPT ![made'] = type]
  /\ UNCHANGED <<replyCode, carried, given, told>>

\* Every error is NETWORK_ISSUE, which connect, missing key and iv, takes for bad input.
Failure(k) == IF kind[k] = "CONNECT" THEN "INVALID_INPUT" ELSE "NETWORK_ISSUE"

\* A step of a request; an error runs the callback.
CallGoesOn(k) ==
  /\ RequestStep(k)
  /\ told' = IF errors' # errors THEN Add(told, k, Failure(k)) ELSE told
  /\ UNCHANGED <<kind, replyCode, carried, given>>

\* Mutant of Heard: connect does not look for key and iv.
HeardAnyway(k, j, code) == code

\* What the callback of k makes of a reply to call j.
Heard(k, j, code) ==
  IF kind[k] = "CONNECT" /\ kind[j] # "CONNECT" THEN "INVALID_INPUT" ELSE code

\* A reply arrives, which runs the callback.
HearAnswer(m) ==
  /\ FeedReply(m)
  /\ \E code \in carried[m.call] :
       LET k == Addressee(m.to, m.id) IN told' = Add(told, k, Heard(k, m.call, code))
  /\ UNCHANGED <<kind, replyCode, carried, given>>

\* A request arrives: _requestHandler asks onConnect, onPing or onDisconnect, or declines
\* before it asks.
HandleCall(m) ==
  /\ FeedRequest(m)
  /\ IF replying' = replying THEN UNCHANGED <<replyCode, given>>
     ELSE \E code \in Code :
            /\ given' = Add(given, m.call, code)
            /\ replyCode' = [replyCode EXCEPT ![m.to][<<m.from, m.id>>] = code]
  /\ UNCHANGED <<kind, carried, told>>

\* A step of a reply: its datagrams carry the code.
AnswerGoesOn(n, s) ==
  /\ ReplyStep(n, s)
  /\ carried' = IF replying'[n][s].phase = "waiting"
                THEN Add(carried, replying[n][s].call, replyCode[n][s]) ELSE carried
  /\ replyCode' = IF replying'[n][s].phase = "absent"
                  THEN [replyCode EXCEPT ![n][s] = "REFUSED"] ELSE replyCode
  /\ UNCHANGED <<kind, given, told>>

CallsRestart(n) ==
  /\ Restart(n)
  /\ replyCode' = [replyCode EXCEPT ![n] = NoCodes]
  /\ UNCHANGED <<kind, carried, given, told>>

CallsNext ==
  \/ \E n, to \in Node, type \in Kinds : SendCall(n, to, type)
  \/ \E k \in Call : CallGoesOn(k)
  \/ \E n \in Node, s \in Node \X Id : AnswerGoesOn(n, s)
  \/ \E m \in net : HandleCall(m) \/ HearAnswer(m)
  \/ \E n \in Node : CallsRestart(n)

CallsSpec == CallsInit /\ [][CallsNext]_callsVars

\* A callback that hears SUCCESS has the word of a handler that ran for a call of its
\* caller with its id, and connect's callback that of a connect handler, although a
\* reply is known by its id only and a late one may answer another kind of call
\* (RpcProtocol.h:67-81, 96-102, 135-146).
SuccessWasGiven ==
  \A k \in Call :
    "SUCCESS" \in told[k] =>
      \E j \in answers[k] :
        /\ "SUCCESS" \in given[j]
        /\ req[j].from = req[k].from /\ req[j].id = req[k].id
        /\ kind[k] = "CONNECT" => kind[j] = "CONNECT"

=============================================================================
