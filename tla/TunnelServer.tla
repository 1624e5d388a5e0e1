----------------------------- MODULE TunnelServer -----------------------------
(***************************************************************************)
(* The server (server/TunnelServer.cc, Session.h): sessions of clients,    *)
(* one translation table for TCP and one for UDP (Napt), the packets the   *)
(* clients send through the tunnel and the packets the raw socket sees on  *)
(* the wire.  All handlers run on one io_context thread, so a handler is   *)
(* one step.                                                               *)
(*                                                                         *)
(* The three handlers for connect, ping and disconnect are called by       *)
(* RpcProtocol through onConnect, onPing and onDisconnect (RpcProtocol.h:  *)
(* 41-48, 138-145); start() does not bind them yet, and without them there *)
(* is no session.  _removeSession, which nothing calls, is left out.       *)
(* A packet is known by its endpoints, and on the wire by what its         *)
(* checksums are made of (Checksum).  Encryption is left out.  The         *)
(* checksum test of _processTransmit drops a packet, which is the same as  *)
(* its loss.                                                               *)
(***************************************************************************)
EXTENDS Checksum

CONSTANTS
  Endpoint,      \* the clients' UDP endpoints
  ClientPort,    \* ports of the clients' connections
  Server,        \* server endpoints in use: an address, in two words, and a port
  Payload,       \* what follows the ports in a packet: the content, a sequence of
                 \* bytes, and the byte that lies beyond it in the buffer
  ClientPacket,  \* the packets the clients send through the tunnel
  IfAddress,     \* _rawSocket.ifAddress
  portFrom,      \* serverConfig.portFrom
  portTo,        \* serverConfig.portTo
  MaxPort,       \* the last uint16_t
  MaxSessions,   \* serverConfig.maxSessions, the sessions made at the start
  SessionLimit,  \* bound: number of sessions ever made
  null           \* the null pointer, and the endpoint of a session never used

Protocol == {"TCP", "UDP"}

ClientId == 0 .. SessionLimit - 1

\* A range of local ports may be empty; it does not begin at 0 (Napt).
ASSUME TunnelServerAssumption ==
  /\ MaxSessions \in 0 .. 255
  /\ SessionLimit \in Nat
  /\ MaxSessions <= SessionLimit
  /\ MaxPort \in Word
  /\ ClientPort \subseteq 0 .. MaxPort
  /\ portFrom \in 1 .. MaxPort
  /\ portTo \in 0 .. MaxPort
  /\ IfAddress \in Seq(Word)
  /\ Server \subseteq [ip : Seq(Word), port : Word]
  /\ Payload \subseteq [content : Seq(Byte), beyond : Byte]
  /\ ClientPacket \subseteq [protocol : Protocol, source : Seq(Word),
                           port : ClientPort, server : Server, payload : Payload]
  /\ null \notin Endpoint
  /\ null \notin [client : ClientId, clientPort : ClientPort, server : Server,
                 localPort : 0 .. MaxPort]

VARIABLES
  sessions,      \* sessions: id -> status and endpoint
  receiving,     \* async_receive_from is pending
  tcpServerMap, tcpClientMap, tcpLast,   \* tcpNapt
  udpServerMap, udpClientMap, udpLast,   \* udpNapt
  crashed,       \* a null pointer was used
  wire,          \* the last packet written to the wire for a client, or null
  forwarded      \* the packet from the wire the last step sent to a client, or null

tcp == <<tcpServerMap, tcpClientMap, tcpLast>>
udp == <<udpServerMap, udpClientMap, udpLast>>
vars == <<sessions, receiving, tcp, udp, crashed, wire, forwarded>>

tcpNapt == INSTANCE Napt WITH Client <- ClientId, serverMap <- tcpServerMap,
                              clientMap <- tcpClientMap, last <- tcpLast,
                              Ranges <- {<<portFrom, portTo>>},
                              range <- <<portFrom, portTo>>
udpNapt == INSTANCE Napt WITH Client <- ClientId, serverMap <- udpServerMap,
                              clientMap <- udpClientMap, last <- udpLast,
                              Ranges <- {<<portFrom, portTo>>},
                              range <- <<portFrom, portTo>>

Session == [status : {"IDLE", "CONNECTED"}, endpoint : Endpoint \cup {null}]

\* A packet on the wire between the server's address and a server.
WirePacket == [protocol : Protocol, server : Server, port : 0 .. MaxPort]

\* A packet as written to the wire.
Written ==
  [protocol : Protocol, source : {IfAddress}, dest : {sv.ip : sv \in Server},
   port : 0 .. MaxPort, destPort : {sv.port : sv \in Server}, payload : Payload,
   checksum : Word, ip4Checksum : Word]

TypeOK ==
  /\ \E n \in 0 .. SessionLimit : DOMAIN sessions = 0 .. n - 1
  /\ sessions \in [DOMAIN sessions -> Session]
  /\ receiving \in BOOLEAN
  /\ tcpNapt!TypeOK
  /\ udpNapt!TypeOK
  /\ crashed \in BOOLEAN
  /\ wire \in Written \cup {null}
  /\ forwarded \in [packet : WirePacket, to : Endpoint, port : ClientPort] \cup {null}

\* The constructor and start().
Init ==
  /\ sessions = [id \in 0 .. MaxSessions - 1 |-> [status |-> "IDLE", endpoint |-> null]]
  /\ receiving = TRUE
  /\ tcpNapt!Init
  /\ udpNapt!Init
  /\ crashed = FALSE
  /\ wire = null
  /\ forwarded = null

Connected(id) == sessions[id].status = "CONNECTED"

-----------------------------------------------------------------------------
(* The handlers RpcProtocol calls.                                         *)

Idle == {id \in DOMAIN sessions : sessions[id].status = "IDLE"}

\* The number of sessions, the id of the next one.
Count == CHOOSE n \in 0 .. SessionLimit : DOMAIN sessions = 0 .. n - 1

\* The session a client is given: the last idle one, or else a new one.
SessionFor ==
  IF Idle = {} THEN Count ELSE CHOOSE id \in Idle : \A other \in Idle : other <= id

\* _rpcConnectHandler with the right name and password.  An endpoint that is connected
\* already is given another session.  Entries of the tables are left alone.
RpcConnectHandler(from) ==
  /\ receiving
  /\ SessionFor < SessionLimit
  /\ sessions' = [id \in DOMAIN sessions \cup {SessionFor} |->
                    IF id = SessionFor THEN [status |-> "CONNECTED", endpoint |-> from]
                    ELSE sessions[id]]
  /\ forwarded' = null
  /\ UNCHANGED <<receiving, tcp, udp, crashed, wire>>

\* The session _rpcPingHandler and _rpcDisconnectHandler look for: the first.
Of(from) == {id \in DOMAIN sessions : sessions[id].endpoint = from /\ Connected(id)}

\* Mutant of RpcDisconnectHandler: the sessions from the client's on are removed.
RpcDisconnectHandlerShrinks(from) ==
  /\ receiving
  /\ \E id \in Of(from) :
       sessions' = [i \in 0 .. id - 1 |-> sessions[i]]
  /\ forwarded' = null
  /\ UNCHANGED <<receiving, tcp, udp, crashed, wire>>

\* _rpcDisconnectHandler: the client's entries of the tables stay.
RpcDisconnectHandler(from) ==
  /\ receiving
  /\ \E id \in Of(from) :
       /\ \A other \in Of(from) : id <= other
       /\ sessions' = [sessions EXCEPT ![id].status = "IDLE"]
  /\ forwarded' = null
  /\ UNCHANGED <<receiving, tcp, udp, crashed, wire>>

-----------------------------------------------------------------------------
(* Packets from the clients.                                               *)

\* The datagram names a session, comes from its endpoint, and it is connected.
Accepted(from, id) ==
  /\ receiving
  /\ id \in DOMAIN sessions
  /\ sessions[id].endpoint = from
  /\ Connected(id)

\* tcp.sourcePort(conn->clientPort): the port the packet leaves with.
SourcePort(conn) == conn.clientPort

\* Mutant of SourceIP: the packet keeps its address in the tunnel while it is summed up.
SourceIPLater(packet) == packet.source

\* ip4.sourceIP(_rawSocket.ifAddress), before the checksums are calculated.
SourceIP(packet) == IfAddress

\* The packet with its source rewritten, and its checksums, that of UDP being 0, none.
Rewritten(packet, conn) ==
  LET new == [protocol |-> packet.protocol, source |-> SourceIP(packet),
              dest |-> packet.server.ip, port |-> SourcePort(conn),
              destPort |-> packet.server.port, payload |-> packet.payload]
  IN
  [protocol |-> new.protocol, source |-> IfAddress, dest |-> new.dest,
   port |-> new.port, destPort |-> new.destPort, payload |-> new.payload,
   checksum |-> IF packet.protocol = "TCP" THEN TcpChecksum(new) ELSE 0,
   ip4Checksum |-> Ip4Checksum(new)]

\* The rest of _processTransmit: without a connection the null pointer is used.
Write(packet, conn) ==
  IF conn = null
  THEN crashed' = TRUE /\ UNCHANGED wire
  ELSE wire' = Rewritten(packet, conn) /\ UNCHANGED crashed

\* _processTransmit of a TCP packet.
TransmitTcp(from, id, packet) ==
  /\ packet.protocol = "TCP"
  /\ Accepted(from, id)
  /\ tcpNapt!CreateIfNotExist(id, packet.port, packet.server)
  /\ Write(packet, tcpLast'.conn)
  /\ forwarded' = null
  /\ UNCHANGED <<sessions, receiving, udp>>

\* _processTransmit of a UDP packet.
TransmitUdp(from, id, packet) ==
  /\ packet.protocol = "UDP"
  /\ Accepted(from, id)
  /\ udpNapt!CreateIfNotExist(id, packet.port, packet.server)
  /\ Write(packet, udpLast'.conn)
  /\ forwarded' = null
  /\ UNCHANGED <<sessions, receiving, tcp>>

\* _onSocketReceive with an error: nothing is received any more.
ReceiveFails ==
  /\ receiving
  /\ receiving' = FALSE
  /\ forwarded' = null
  /\ UNCHANGED <<sessions, tcp, udp, crashed, wire>>

-----------------------------------------------------------------------------
(* Packets from the wire.                                                  *)

\* The rest of _rawSocketPacketHandler, for the connection find has returned.
Forward(packet, conn) ==
  /\ conn # null
  /\ Connected(conn.client)
  /\ forwarded' = [packet |-> packet, to |-> sessions[conn.client].endpoint,
                   port |-> conn.clientPort]
  /\ UNCHANGED <<sessions, receiving, tcp, udp, crashed, wire>>

\* _rawSocketPacketHandler: the raw socket sees packets of any server to any port.
RawSocketPacketHandler(packet) ==
  \/ /\ packet.protocol = "TCP"
     /\ Forward(packet, tcpNapt!FindServer(packet.server, packet.port))
  \/ /\ packet.protocol = "UDP"
     /\ Forward(packet, udpNapt!FindServer(packet.server, packet.port))

RpcHandler(from) == RpcConnectHandler(from) \/ RpcDisconnectHandler(from)

Transmit(from, id, packet) == TransmitTcp(from, id, packet) \/ TransmitUdp(from, id, packet)

Next ==
  /\ ~crashed
  /\ \/ \E from \in Endpoint : RpcHandler(from)
     \/ \E from \in Endpoint, id \in ClientId, packet \in ClientPacket :
          Transmit(from, id, packet)
     \/ \E packet \in WirePacket : RawSocketPacketHandler(packet)
     \/ ReceiveFails

Spec == Init /\ [][Next]_vars

-----------------------------------------------------------------------------
(* Safety.                                                                 *)

\* Every connection of a table names a session that exists, also after disconnects
\* and reconnects: _rawSocketPacketHandler indexes sessions with it and does not
\* check (TunnelServer.cc:75, 94-100, 113-117, 151, 159).
ConnectionsNameSessions ==
  /\ \A k \in tcpNapt!ServerKey :
       tcpServerMap[k] # null => tcpServerMap[k].client \in DOMAIN sessions
  /\ \A k \in udpNapt!ServerKey :
       udpServerMap[k] # null => udpServerMap[k].client \in DOMAIN sessions

\* The null pointer createIfNotExist may return, which _processTransmit does not test
\* for (TunnelServer.cc:75-76, 82-83; napt.h:120-129), is never returned for a range
\* that is not empty and ends before the last port, as main.cc's does, however many
\* connections there are.
NeverCrashes == portFrom <= portTo /\ portTo < MaxPort => ~crashed

\* Every packet leaves with checksums its receiver finds right, after both of its source
\* fields were rewritten (TunnelServer.cc:74-85; ip4.h:114-129; tcp.h:83-104), unless its
\* segment is odd and the byte behind it, which tcp.h:96 takes along, is not zero.
WireVerifies ==
  wire # null =>
    /\ Verifies(Ip4Words(wire), wire.ip4Checksum)
    /\ wire.protocol = "TCP" /\ (Len(wire.payload.content) % 2 = 0 \/ wire.payload.beyond = 0) =>
         Verifies(TcpWords(wire, 0), wire.checksum)

=============================================================================
