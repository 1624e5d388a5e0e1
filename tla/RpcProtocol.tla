----------------------------- MODULE RpcProtocol -----------------------------
(***************************************************************************)
(* RpcProtocol (transmission/RpcProtocol.h) over Rpc and the BufferPool of *)
(* its process: which buffer a request and a reply hold, and when it goes  *)
(* back to the pool.  connect, ping and disconnect are sendJson with a     *)
(* payload of their own; payloads are left out, as in Rpc.                 *)
(*                                                                         *)
(* Both buffers have ten bytes in front of the payload, so Rpc always has  *)
(* room for its header and its no_buffer_space returns are not reached.    *)
(* The buffers datagrams are received in are not those of this module.     *)
(***************************************************************************)
EXTENDS Rpc, BufferPool

CONSTANT
  MaxAvailable   \* bound: length of the stack at which replies are no longer heard

\* The retry argument, 10 unless a program says otherwise, leaves a budget, so the
\* first transmission is never the one to give up.
ASSUME RpcProtocolAssumption == Budget > 0 /\ MaxAvailable \in Nat

VARIABLES
  pool,         \* _bufferPool of every node
  buffer,       \* control->buffer of every call
  replyBuffer   \* control->buffer of every reply, per node

poolVars == <<pool, buffer, replyBuffer>>
protocolVars == <<vars, pool, buffer, replyBuffer>>

\* No buffer.
NoBuffer == 0

ProtocolInit ==
  /\ Init
  /\ pool = [n \in Node |-> EmptyPool]
  /\ buffer = [k \in Call |-> NoBuffer]
  /\ replyBuffer = [n \in Node |-> [s \in Node \X Id |-> NoBuffer]]

\* sendJson, which send follows.
SendJson(n, to) ==
  /\ Send(n, to)
  /\ buffer' = [buffer EXCEPT ![made'] = Allocated(pool[n])]
  /\ pool' = [pool EXCEPT ![n] = AfterAlloc(@)]
  /\ UNCHANGED replyBuffer

\* The callback of sendJson: free the request's buffer.
OnComplete(k) ==
  pool' = [pool EXCEPT ![req[k].from] = AfterFree(@, buffer[k])]

\* Mutant of RequestGoesOn: the callback does not free after an error.
RequestGoesOnLeaking(k) == RequestStep(k) /\ UNCHANGED poolVars

\* A step of a request; an error runs the callback.
RequestGoesOn(k) ==
  /\ RequestStep(k)
  /\ IF errors' # errors THEN OnComplete(k) ELSE UNCHANGED pool
  /\ UNCHANGED <<buffer, replyBuffer>>

\* A reply arrives, which runs the callback.
HearReply(m) ==
  /\ FeedReply(m)
  /\ Len(pool[m.to].available) < MaxAvailable
  /\ OnComplete(Addressee(m.to, m.id))
  /\ UNCHANGED <<buffer, replyBuffer>>

\* A request arrives: _requestHandler takes a buffer for the reply, or declines.
HandleRequest(m) ==
  /\ FeedRequest(m)
  /\ IF replying' # replying
     THEN /\ replyBuffer' = [replyBuffer EXCEPT ![m.to][<<m.from, m.id>>] =
                               Allocated(pool[m.to])]
          /\ pool' = [pool EXCEPT ![m.to] = AfterAlloc(@)]
     ELSE UNCHANGED <<pool, replyBuffer>>
  /\ UNCHANGED buffer

\* A step of a reply; its end runs control->onComplete, which frees its buffer.
ReplyGoesOn(n, s) ==
  /\ ReplyStep(n, s)
  /\ IF replying'[n][s].phase = "absent"
     THEN /\ pool' = [pool EXCEPT ![n] = AfterFree(@, replyBuffer[n][s])]
          /\ replyBuffer' = [replyBuffer EXCEPT ![n][s] = NoBuffer]
     ELSE UNCHANGED <<pool, replyBuffer>>
  /\ UNCHANGED buffer

\* A new process has a new pool.
ProtocolRestart(n) ==
  /\ Restart(n)
  /\ pool' = [pool EXCEPT ![n] = EmptyPool]
  /\ replyBuffer' = [replyBuffer EXCEPT ![n] = [s \in Node \X Id |-> NoBuffer]]
  /\ UNCHANGED buffer

ProtocolNext ==
  \/ \E n, to \in Node : SendJson(n, to)
  \/ \E k \in Call : RequestGoesOn(k)
  \/ \E n \in Node, s \in Node \X Id : ReplyGoesOn(n, s)
  \/ \E m \in net : HandleRequest(m) \/ HearReply(m)
  \/ \E n \in Node : ProtocolRestart(n)

ProtocolSpec == ProtocolInit /\ [][ProtocolNext]_protocolVars

\* As in Rpc, io_context runs every handler whose operation has finished.
ProtocolFairSpec ==
  /\ ProtocolSpec
  /\ \A k \in Call : WF_protocolVars(RequestGoesOn(k))
  /\ \A n \in Node, s \in Node \X Id : WF_protocolVars(ReplyGoesOn(n, s))

-----------------------------------------------------------------------------
(* Who holds a buffer.                                                     *)

\* The calls of n whose callback has not run.
Unheard(n) == {k \in Call : Live(k) /\ req[k].from = n /\ completions[k] = 0}

\* The replies n is sending.
Replies(n) == {s \in Node \X Id : ~Unanswered(n, s)}

HeldBuffers(n) ==
  {buffer[k] : k \in Unheard(n)} \cup {replyBuffer[n][s] : s \in Replies(n)}

\* No callback has run twice, which Rpc does not promise.
CompletedOnce == \A k \in Call : completions[k] <= 1

\* A buffer is held by one request or reply at a time, and not available meanwhile
\* (RpcProtocol.h:57, 65, 152-160; BufferPool.h:138-151), whatever is lost, repeated
\* or given up, as long as no callback runs twice: nothing else frees a buffer twice.
OneOwner ==
  CompletedOnce =>
    \A n \in Node :
      /\ \A j, k \in Unheard(n) : j # k => buffer[j] # buffer[k]
      /\ \A s, t \in Replies(n) : s # t => replyBuffer[n][s] # replyBuffer[n][t]
      /\ \A k \in Unheard(n), s \in Replies(n) : buffer[k] # replyBuffer[n][s]
      /\ HeldBuffers(n) \cap AvailableBuffers(pool[n]) = {}
      /\ \A i, j \in DOMAIN pool[n].available :
           i # j => pool[n].available[i] # pool[n].available[j]

\* No buffer is lost (RpcProtocol.h:65, 159): what is not available is held by a
\* request that will still hear of its end or by a reply being sent, whether calls end
\* by an answer, a timeout or an error.
NoneLost ==
  \A n \in Node :
    AllBuffers(pool[n]) = AvailableBuffers(pool[n]) \cup HeldBuffers(n)

=============================================================================
