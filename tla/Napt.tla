-------------------------------- MODULE Napt --------------------------------
(***************************************************************************)
(* The network address and port translation table of libtun (napt.h): a    *)
(* connection between a client's port and a server's endpoint is given a   *)
(* local port of its own; _serverMap finds it for packets coming back from *)
(* the server, _clientMap for packets coming from the client.              *)
(*                                                                         *)
(* _clientMap is a std::map ordered by ClientKey::operator<, which says    *)
(* "not less" of any two keys of different clients.  The map then takes    *)
(* them for the same key, and the model follows the map's own lookups:     *)
(*   - find, lower_bound: the first key that is not less;                  *)
(*   - operator[]: an equivalent key where the tree walk meets one, which  *)
(*     libstdc++ and libc++ choose differently (any of them here).         *)
(* A server stands for an address and a port: the code never looks at one  *)
(* without the other.  Connections are never changed once filled, so a     *)
(* pointer is the record it points to.                                     *)
(***************************************************************************)
EXTENDS Integers

CONSTANTS
  Client,       \* client ids in use
  ClientPort,   \* client ports in use
  Server,       \* server endpoints in use
  Ranges,       \* the ranges of local ports a table may be made with
  MaxPort,      \* the last uint16_t, 0xffff in the code
  null          \* the null pointer

Port == 0 .. MaxPort

\* The struct behind a Connection*.
Connection ==
  [client : Client, clientPort : ClientPort, server : Server, localPort : Port]

\* A range that begins at 0 and ends at 0xffff would make the port scan of a full
\* table endless; the program's ranges lie far from both ends.
ASSUME NaptAssumption ==
  /\ MaxPort \in Nat
  /\ Client \subseteq Nat
  /\ ClientPort \subseteq Port
  /\ Ranges \subseteq (Port \ {0}) \X Port
  /\ null \notin Connection

VARIABLES
  range,        \* _portFrom and _portTo, the first and the last local port
  serverMap,    \* _serverMap: <<server, local port>> -> connection
  clientMap,    \* _clientMap: <<client, client port>> -> connection
  last          \* the last call of createIfNotExist and what it returned

vars == <<range, serverMap, clientMap, last>>

PortFrom == range[1]
PortTo == range[2]

ServerKey == Server \X Port
ClientKey == Client \X ClientPort

Result ==
  [client : Client, clientPort : ClientPort, server : Server,
   conn : Connection \cup {null}]

TypeOK ==
  /\ range \in Ranges
  /\ serverMap \in [ServerKey -> Connection \cup {null}]
  /\ clientMap \in [ClientKey -> Connection \cup {null}]
  /\ last \in Result \cup {null}

\* The constructor.
Init ==
  /\ range \in Ranges
  /\ serverMap = [k \in ServerKey |-> null]
  /\ clientMap = [k \in ClientKey |-> null]
  /\ last = null

-----------------------------------------------------------------------------
(* The ordered map.                                                        *)

\* ClientKey::operator<, as its second return computes it.
Less(a, b) == IF a[1] = b[1] THEN a[2] < b[2] ELSE a[1] = b[1]

Equivalent(a, b) == ~Less(a, b) /\ ~Less(b, a)

\* The keys the map holds.
Keys == {k \in ClientKey : clientMap[k] # null}

\* The keys in the map that it cannot tell from ck.
Same(ck) == {k \in Keys : Equivalent(k, ck)}

\* find(clientID, clientPort): the first of them in the order of the map.
FindClient(ck) ==
  IF Same(ck) = {} THEN null
  ELSE clientMap[CHOOSE k \in Same(ck) : \A h \in Same(ck) : ~Less(h, k)]

\* operator[]: the place a connection for ck is stored in.
Places(ck) == IF Same(ck) = {} THEN {ck} ELSE Same(ck)

-----------------------------------------------------------------------------
(* The operations.                                                         *)

\* find(serverIP, serverPort, localPort).
FindServer(sv, p) == serverMap[<<sv, p>>]

Free(sv) == {p \in PortFrom .. PortTo : FindServer(sv, p) = null}

\* Mutant of ScanPort: a port already in use is not passed over.
ScanPortFirst(sv) == PortFrom

\* Mutant of ScanPort: the scan of a full range is refused.
ScanPortRefusing(sv) ==
  IF Free(sv) # {} THEN CHOOSE p \in Free(sv) : \A q \in Free(sv) : p <= q ELSE 0

\* The port the scan stops at: the first free one; on a full range the last one it
\* tried, or 0 when the counter wraps there; 0 when the range is empty.
ScanPort(sv) ==
  IF Free(sv) # {} THEN CHOOSE p \in Free(sv) : \A q \in Free(sv) : p <= q
  ELSE IF PortFrom <= PortTo /\ PortTo < MaxPort THEN PortTo ELSE 0

Remember(c, cp, sv, conn) ==
  /\ last' = [client |-> c, clientPort |-> cp, server |-> sv, conn |-> conn]
  /\ range' = range

\* The connection that find returns leads to the server asked for.
Found(c, cp, sv) ==
  LET conn == FindClient(<<c, cp>>) IN conn # null /\ conn.server = sv

\* createIfNotExist, the connection that find returns leads to the right server.
Reuse(c, cp, sv) ==
  /\ Found(c, cp, sv)
  /\ Remember(c, cp, sv, FindClient(<<c, cp>>))
  /\ UNCHANGED <<serverMap, clientMap>>

\* createIfNotExist, no local port: null is returned.
NoPort(c, cp, sv) ==
  /\ ~Found(c, cp, sv)
  /\ ScanPort(sv) \notin PortFrom .. PortTo
  /\ Remember(c, cp, sv, null)
  /\ UNCHANGED <<serverMap, clientMap>>

\* Mutant of Create: the entry for packets from the server is forgotten when the
\* client's old connection is replaced.
CreateReplacing(c, cp, sv) ==
  LET conn == [client |-> c, clientPort |-> cp, server |-> sv, localPort |-> ScanPort(sv)]
  IN
  /\ ~Found(c, cp, sv)
  /\ ScanPort(sv) \in PortFrom .. PortTo
  /\ IF FindClient(<<c, cp>>) = null
     THEN serverMap' = [serverMap EXCEPT ![<<sv, conn.localPort>>] = conn]
     ELSE UNCHANGED serverMap
  /\ \E k \in Places(<<c, cp>>) : clientMap' = [clientMap EXCEPT ![k] = conn]
  /\ Remember(c, cp, sv, conn)

\* Mutant of Create: the local port of the new connection is not filled in.
CreateUnfilled(c, cp, sv) ==
  LET conn == [client |-> c, clientPort |-> cp, server |-> sv] IN
  /\ ~Found(c, cp, sv)
  /\ ScanPort(sv) \in PortFrom .. PortTo
  /\ serverMap' = [serverMap EXCEPT ![<<sv, ScanPort(sv)>>] = conn]
  /\ \E k \in Places(<<c, cp>>) : clientMap' = [clientMap EXCEPT ![k] = conn]
  /\ Remember(c, cp, sv, conn)

\* Mutant of Create: the new connection is given the first local port.
CreateAtFirst(c, cp, sv) ==
  LET conn == [client |-> c, clientPort |-> cp, server |-> sv, localPort |-> PortFrom] IN
  /\ ~Found(c, cp, sv)
  /\ ScanPort(sv) \in PortFrom .. PortTo
  /\ serverMap' = [serverMap EXCEPT ![<<sv, ScanPort(sv)>>] = conn]
  /\ \E k \in Places(<<c, cp>>) : clientMap' = [clientMap EXCEPT ![k] = conn]
  /\ Remember(c, cp, sv, conn)

\* createIfNotExist: a new connection enters both maps, over whatever stood there.
Create(c, cp, sv) ==
  LET conn == [client |-> c, clientPort |-> cp, server |-> sv, localPort |-> ScanPort(sv)]
  IN
  /\ ~Found(c, cp, sv)
  /\ ScanPort(sv) \in PortFrom .. PortTo
  /\ serverMap' = [serverMap EXCEPT ![<<sv, conn.localPort>>] = conn]
  /\ \E k \in Places(<<c, cp>>) : clientMap' = [clientMap EXCEPT ![k] = conn]
  /\ Remember(c, cp, sv, conn)

\* The keys removeClient walks over: upper_bound({id, 0}) and all that follow, up to
\* the first of another client.
Removed(id) == {k \in Keys : k[1] = id /\ Less(<<id, 0>>, k)}

\* removeClient; the parameter is a uint8_t.
RemoveClient(c) ==
  LET id == c % 256
      gone == {<<clientMap[k].server, clientMap[k].localPort>> : k \in Removed(id)}
  IN
  /\ serverMap' = [k \in ServerKey |-> IF k \in gone THEN null ELSE serverMap[k]]
  /\ clientMap' = [k \in ClientKey |-> IF k \in Removed(id) THEN null ELSE clientMap[k]]
  /\ last' = null
  /\ range' = range

CreateIfNotExist(c, cp, sv) ==
  Reuse(c, cp, sv) \/ NoPort(c, cp, sv) \/ Create(c, cp, sv)

Next ==
  \/ \E c \in Client, cp \in ClientPort, sv \in Server : CreateIfNotExist(c, cp, sv)
  \/ \E c \in Client : RemoveClient(c)

Spec == Init /\ [][Next]_vars

-----------------------------------------------------------------------------
(* Safety.                                                                 *)

\* An entry of _serverMap stands under its connection's own server and local port,
\* and the port is one of the range (napt.h:120-138): also when the scan found the
\* range full and went on.
ServerMapConsistent ==
  \A sv \in Server, p \in Port :
    FindServer(sv, p) # null =>
      /\ FindServer(sv, p).server = sv
      /\ FindServer(sv, p).localPort = p
      /\ p \in PortFrom .. PortTo

\* A client that sends from port 0 is the only one removeClient skips (napt.h:145).
NoPortZero == 0 \notin ClientPort

\* Every connection a client's packet can be sent through has a way back: an entry
\* of _serverMap under its server and local port (napt.h:138-139, 154-159), even if
\* another connection has taken that entry.  A range that ends at the last uint16_t is
\* never over-filled, because the scan of a full one wraps and is refused (napt.h:
\* 120-129), so there every way back is still the connection's own.
HasWayBack ==
  NoPortZero =>
    \A k \in Keys :
      LET conn == FindServer(clientMap[k].server, clientMap[k].localPort) IN
      /\ conn # null
      /\ PortTo = MaxPort => conn = clientMap[k]

\* A way back is taken over by another connection only when every local port of
\* that server is in use (napt.h:120-129).
DisplacedOnlyWhenFull ==
  [][\A k \in ServerKey :
       serverMap[k] # null /\ serverMap'[k] \notin {serverMap[k], null} =>
         Free(k[1]) = {}]_vars

\* What the test of napt expects of createIfNotExist (test/napt.cc:15, 16, 21-23):
\* the connection belongs to the client and port it was asked for, and find returns
\* it for them.
CreatedIsOwn ==
  last # null /\ last.conn # null =>
    /\ last.conn.client = last.client
    /\ last.conn.clientPort = last.clientPort
    /\ FindClient(<<last.client, last.clientPort>>) = last.conn

=============================================================================
