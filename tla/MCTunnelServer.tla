---------------------------- MODULE MCTunnelServer ----------------------------
(* TunnelServer for TLC: two clients, two server endpoints, packets of even    *)
(* and of odd length whose sums carry.                                         *)
EXTENDS TunnelServer

CONSTANTS e1, e2

MCEndpoint == {e1, e2}
MCServer1 == [ip |-> <<65535, 65535>>, port |-> 7]
MCServer2 == [ip |-> <<2570, 1>>, port |-> 7]
MCServer == {MCServer1, MCServer2}

MCOdd == [content |-> <<255>>, beyond |-> 0]
MCOddBefore == [content |-> <<255>>, beyond |-> 248]
MCEven == [content |-> <<255, 248>>, beyond |-> 0]
MCPayload == {MCOdd, MCOddBefore, MCEven}

MCPacket(protocol, server, payload) ==
  [protocol |-> protocol, source |-> <<2560, 9>>, port |-> 2, server |-> server,
   payload |-> payload]

MCClientPacket ==
  {MCPacket("TCP", MCServer1, payload) : payload \in MCPayload} \cup
  {MCPacket("TCP", MCServer2, MCEven), MCPacket("UDP", MCServer1, MCOdd),
   MCPacket("UDP", MCServer2, MCEven)}

MCIfAddress == <<49320, 2>>

=============================================================================
