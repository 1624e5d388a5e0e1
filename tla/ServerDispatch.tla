---------------------------- MODULE ServerDispatch ----------------------------
(***************************************************************************)
(* The way of an RPC packet from one Rpc object (Rpc.h:102-122) through    *)
(* the server's socket (TunnelServer.cc:30-47) to the feed of another      *)
(* (Rpc.h:55-63), byte by byte.                                            *)
(*                                                                         *)
(* Cryptor (Cryptor.h) begins every packet with the same key and iv, so    *)
(* within a block the byte at a place is always combined with the same     *)
(* byte of a key stream.  The exclusive or is an addition here.            *)
(***************************************************************************)
EXTENDS Integers, Sequences

CONSTANTS
  Id,        \* the request ids in use
  Content,   \* what follows the id: sequences of bytes in use
  Stream,    \* the key stream
  null       \* no packet

VARIABLES
  sent,   \* the header of the RPC packet that arrived last
  fed     \* what feed took it for, or null

vars == <<sent, fed>>

REQUEST == 0
REPLY == 1
TRANSMIT == 2

Encrypt(bytes) == [i \in DOMAIN bytes |-> (bytes[i] + Stream[i]) % 256]

Decrypt(bytes) == [i \in DOMAIN bytes |-> (bytes[i] - Stream[i]) % 256]

\* send: the command as it is, then the id and the content encrypted.
Packet(command, id, content) ==
  <<command>> \o Encrypt(<<id \div 256, id % 256>> \o content)

\* feed: the first byte is the type, the rest is decrypted and begins with the id.
Feed(data) ==
  LET plain == Decrypt(Tail(data)) IN
  [type |-> data[1], id |-> 256 * plain[1] + plain[2]]

Init == sent = null /\ fed = null

\* _onSocketReceive: the front boundary is moved behind the command, whatever it is;
\* the window that is left goes to feed when the command is one of Rpc's.
OnSocketReceive(data) ==
  LET command == data[1] buf == Tail(data) IN
  fed' = IF command \in {REPLY, REQUEST} THEN Feed(buf) ELSE null

Next ==
  \E command \in {REQUEST, REPLY}, id \in Id, content \in Content :
    /\ sent' = [type |-> command, id |-> id]
    /\ OnSocketReceive(Packet(command, id, content))

Spec == Init /\ [][Next]_vars

\* What the comment on packets says (Rpc.h:28-32), and the tests of Rpc do (test/
\* transmission/Rpc.cc:63-64): feed is given the packet with its command in front, so
\* it finds the command and the id the sender put there.
FedAsSent == fed # null => fed = sent

=============================================================================
