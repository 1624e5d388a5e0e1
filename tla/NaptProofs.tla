------------------------------ MODULE NaptProofs ------------------------------
(***************************************************************************)
(* Proofs about Napt, for all sets of clients, ports and servers, all      *)
(* ranges and all values of MaxPort.                                       *)
(*                                                                         *)
(* Everything rests on OneClientKeys: as long as the keys of _clientMap    *)
(* are of one client, ClientKey::operator< orders them by port, so that    *)
(* find and operator[] meet a key the map really holds.                    *)
(***************************************************************************)
EXTENDS Napt, WellFoundedInduction, TLAPS

\* The comparison of napt.h:53-56 leaves room for one client only: whatever is created
\* and removed, all keys of _clientMap are of the same client.  This is no wish, it is
\* what the defect that CreatedIsOwn is refuted by does to the map.
OneClientKeys == \A h, k \in Keys : h[1] = k[1]

NaptInv == TypeOK /\ OneClientKeys /\ ServerMapConsistent /\ HasWayBack

\* A set of numbers that is not empty has a least element.
LEMMA HasLeast ==
  ASSUME NEW S, S \subseteq Nat, S # {}
  PROVE  \E x \in S : \A y \in S : x <= y
<1> DEFINE R == OpToRel(<, Nat)
<1>1. IsWellFoundedOn(R, Nat)
  BY NatLessThanWellFounded
<1>2. \A x, y \in Nat : x < y => <<x, y>> \in R
  BY DEF OpToRel
<1> HIDE DEF R
<1>3. PICK x \in S : \A y \in S : ~(<<y, x>> \in R)
  BY <1>1, WFMin
<1>4. ASSUME NEW y \in S
      PROVE  x <= y
  <2>1. x \in Nat /\ y \in Nat
    OBVIOUS
  <2>2. ~(y < x)
    BY <1>2, <1>3, <2>1, Zenon
  <2> QED
    BY <2>1, <2>2
<1> QED
  BY <1>4

-----------------------------------------------------------------------------
(* The ordered map.                                                        *)

\* ClientKey::operator< tells two keys apart only when they are of one client.
LEMMA EquivalentKeys ==
  ASSUME NEW a \in ClientKey, NEW b \in ClientKey
  PROVE  Equivalent(a, b) <=> a[1] # b[1] \/ a = b
<1>1. /\ a = <<a[1], a[2]>> /\ a[1] \in Client /\ a[2] \in ClientPort
      /\ b = <<b[1], b[2]>> /\ b[1] \in Client /\ b[2] \in ClientPort
  BY DEF ClientKey
<1>2. a[2] \in Int /\ b[2] \in Int
  BY <1>1, NaptAssumption DEF Port
<1>3. a = b <=> a[1] = b[1] /\ a[2] = b[2]
  BY <1>1, Zenon
<1>4. Equivalent(a, b) <=> a[1] # b[1] \/ a[2] = b[2]
  BY <1>2 DEF Equivalent, Less
<1> QED
  BY <1>3, <1>4, Zenon

LEMMA KeysAreKeys ==
  /\ Keys \subseteq ClientKey
  /\ \A ck : Same(ck) \subseteq Keys
BY DEF Keys, Same

\* Of the keys the map takes for one, one is first in its order.
LEMMA SameHasFirst ==
  ASSUME OneClientKeys, NEW ck \in ClientKey, Same(ck) # {}
  PROVE  \E k \in Same(ck) : \A h \in Same(ck) : ~Less(h, k)
<1> DEFINE S == {k[2] : k \in Same(ck)}
<1>1. ASSUME NEW k \in Same(ck)
      PROVE  k \in ClientKey /\ k[2] \in Nat
  <2>1. ClientPort \subseteq Nat
    BY NaptAssumption DEF Port
  <2>2. k \in ClientKey
    BY KeysAreKeys
  <2>3. k[2] \in ClientPort
    BY <2>2 DEF ClientKey
  <2> QED
    BY <2>1, <2>2, <2>3, Zenon
<1>2. \E p \in S : \A q \in S : p <= q
  <2>1. S \subseteq Nat /\ S # {}
    BY <1>1
  <2> HIDE DEF S
  <2> QED
    BY <2>1, HasLeast
<1>3. PICK k \in Same(ck) : \A h \in Same(ck) : k[2] <= h[2]
  BY <1>2
<1>4. ASSUME NEW h \in Same(ck)
      PROVE  ~Less(h, k)
  <2>1. h[1] = k[1]
    BY KeysAreKeys DEF OneClientKeys
  <2>2. k[2] \in Nat /\ h[2] \in Nat /\ k[2] <= h[2]
    BY <1>1, <1>3
  <2> QED
    BY <2>1, <2>2 DEF Less
<1> QED
  BY <1>4

\* find returns the connection of a key that the map takes for the one asked for.
LEMMA FindIsKept ==
  ASSUME OneClientKeys, NEW ck \in ClientKey
  PROVE  FindClient(ck) = null \/ \E k \in Same(ck) : FindClient(ck) = clientMap[k]
<1>1. CASE Same(ck) = {}
  BY <1>1 DEF FindClient
<1>2. CASE Same(ck) # {}
  <2> DEFINE first == CHOOSE k \in Same(ck) : \A h \in Same(ck) : ~Less(h, k)
  <2>1. first \in Same(ck)
    BY <1>2, SameHasFirst
  <2>2. FindClient(ck) = clientMap[first]
    BY <1>2 DEF FindClient
  <2> QED
    BY <2>1, <2>2
<1> QED
  BY <1>1, <1>2

\* The keys after an entry was stored in place k for ck.
LEMMA StoredKeys ==
  ASSUME TypeOK, NEW ck \in ClientKey, NEW k \in Places(ck), NEW conn \in Connection,
         clientMap' = [clientMap EXCEPT ![k] = conn]
  PROVE  /\ k \in ClientKey
         /\ clientMap' \in [ClientKey -> Connection \cup {null}]
         /\ Keys' = Keys \cup {k}
         /\ clientMap'[k] = conn
         /\ \A h \in Keys \ {k} : clientMap'[h] = clientMap[h]
<1>1. k \in ClientKey
  BY KeysAreKeys DEF Places
<1>2. clientMap \in [ClientKey -> Connection \cup {null}]
  BY DEF TypeOK
<1>3. conn # null
  BY NaptAssumption
<1> QED
  BY <1>1, <1>2, <1>3 DEF Keys

-----------------------------------------------------------------------------
(* The ports.                                                              *)

LEMMA RangeFits ==
  ASSUME TypeOK
  PROVE  /\ MaxPort \in Nat
         /\ PortFrom \in Nat /\ PortFrom > 0
         /\ PortTo \in Nat /\ PortTo <= MaxPort
<1>1. range[1] \in Port \ {0} /\ range[2] \in Port
  BY NaptAssumption DEF TypeOK
<1> QED
  BY <1>1, NaptAssumption DEF PortFrom, PortTo, Port

\* A port of the range that the scan stops at is free, unless none is and the range
\* ends before the last port.
LEMMA ScanFindsFree ==
  ASSUME TypeOK, NEW sv \in Server, ScanPort(sv) \in PortFrom .. PortTo
  PROVE  /\ ScanPort(sv) \in Port
         /\ \/ FindServer(sv, ScanPort(sv)) = null
            \/ Free(sv) = {} /\ PortTo < MaxPort
<1>1. ScanPort(sv) \in Port
  BY RangeFits DEF Port
<1>2. CASE Free(sv) # {}
  <2>1. Free(sv) \subseteq Nat
    BY RangeFits DEF Free
  <2>2. \E p \in Free(sv) : \A q \in Free(sv) : p <= q
    BY <1>2, <2>1, HasLeast
  <2>3. ScanPort(sv) \in Free(sv)
    BY <1>2, <2>2, Zenon DEF ScanPort
  <2> QED
    BY <1>1, <2>3 DEF Free
<1>3. CASE Free(sv) = {}
  <2>1. ScanPort(sv) # 0
    BY RangeFits
  <2>2. PortTo < MaxPort
    BY <1>3, <2>1 DEF ScanPort
  <2> QED
    BY <1>1, <1>3, <2>2
<1> QED
  BY <1>2, <1>3

-----------------------------------------------------------------------------
(* The invariant.                                                          *)

\* HasWayBack, by key.
Way(k) ==
  /\ FindServer(clientMap[k].server, clientMap[k].localPort) # null
  /\ PortTo = MaxPort =>
       FindServer(clientMap[k].server, clientMap[k].localPort) = clientMap[k]

LEMMA WayBackByKey ==
  /\ HasWayBack <=> (NoPortZero => \A k \in Keys : Way(k))
  /\ HasWayBack' <=> (NoPortZero => \A k \in Keys' : Way(k)')
BY DEF HasWayBack, Way, NoPortZero

LEMMA InitNapt == Init => NaptInv
<1> SUFFICES ASSUME Init
             PROVE  NaptInv
  OBVIOUS
<1>1. TypeOK
  BY DEF Init, TypeOK
<1>2. Keys = {}
  BY DEF Init, Keys
<1>3. ServerMapConsistent
  BY DEF Init, ServerMapConsistent, FindServer, ServerKey
<1> QED
  BY <1>1, <1>2, <1>3 DEF NaptInv, OneClientKeys, HasWayBack

\* A connection is found, or none can be made: the maps stay as they are.
LEMMA MapsKept ==
  ASSUME NaptInv, range' = range, serverMap' = serverMap, clientMap' = clientMap,
         last' \in Result \cup {null}
  PROVE  NaptInv'
<1>1. TypeOK'
  BY DEF NaptInv, TypeOK
<1>2. Keys' = Keys /\ PortFrom' = PortFrom /\ PortTo' = PortTo
  BY DEF Keys, PortFrom, PortTo
<1>3. \A sv, p : FindServer(sv, p)' = FindServer(sv, p)
  BY DEF FindServer
<1> QED
  BY <1>1, <1>2, <1>3
  DEF NaptInv, OneClientKeys, ServerMapConsistent, HasWayBack, NoPortZero

LEMMA ReuseKeeps ==
  ASSUME NaptInv, NEW c \in Client, NEW cp \in ClientPort, NEW sv \in Server,
         Reuse(c, cp, sv)
  PROVE  NaptInv'
<1>1. <<c, cp>> \in ClientKey
  BY DEF ClientKey
<1>2. FindClient(<<c, cp>>) \in Connection \cup {null}
  <2>1. PICK k \in ClientKey \cup {<<c, cp>>} :
          \/ FindClient(<<c, cp>>) = null
          \/ /\ FindClient(<<c, cp>>) = clientMap[k]
             /\ k \in ClientKey
    BY <1>1, FindIsKept, KeysAreKeys DEF NaptInv
  <2> QED
    BY <2>1 DEF NaptInv, TypeOK
<1>3. last' \in Result \cup {null}
  BY <1>2 DEF Reuse, Remember, Result
<1> QED
  BY <1>3, MapsKept DEF Reuse, Remember

LEMMA NoPortKeeps ==
  ASSUME NaptInv, NEW c \in Client, NEW cp \in ClientPort, NEW sv \in Server,
         NoPort(c, cp, sv)
  PROVE  NaptInv'
<1>1. last' \in Result \cup {null}
  BY DEF NoPort, Remember, Result
<1> QED
  BY <1>1, MapsKept DEF NoPort, Remember

\* What createIfNotExist does to the maps, when it makes a connection.
LEMMA Created ==
  ASSUME TypeOK, NEW c \in Client, NEW cp \in ClientPort, NEW sv \in Server,
         Create(c, cp, sv)
  PROVE  \E conn \in Connection, k \in Places(<<c, cp>>) :
           /\ conn.server = sv /\ conn.localPort = ScanPort(sv)
           /\ ScanPort(sv) \in PortFrom .. PortTo
           /\ serverMap' = [serverMap EXCEPT ![<<sv, ScanPort(sv)>>] = conn]
           /\ clientMap' = [clientMap EXCEPT ![k] = conn]
           /\ last' \in Result
           /\ range' = range
<1> DEFINE conn == [client |-> c, clientPort |-> cp, server |-> sv, localPort |-> ScanPort(sv)]
<1>1. ScanPort(sv) \in PortFrom .. PortTo
  BY DEF Create
<1>2. conn \in Connection /\ conn.server = sv /\ conn.localPort = ScanPort(sv)
  BY <1>1, ScanFindsFree DEF Connection
<1>3. /\ serverMap' = [serverMap EXCEPT ![<<sv, ScanPort(sv)>>] = conn]
      /\ \E k \in Places(<<c, cp>>) : clientMap' = [clientMap EXCEPT ![k] = conn]
      /\ range' = range
  BY DEF Create, Remember
<1>4. last' \in Result
  BY <1>2 DEF Create, Remember, Result
<1> HIDE DEF conn
<1> QED
  BY <1>1, <1>2, <1>3, <1>4

LEMMA CreateKeeps ==
  ASSUME NaptInv, NEW c \in Client, NEW cp \in ClientPort, NEW sv \in Server,
         Create(c, cp, sv)
  PROVE  NaptInv'
<1> DEFINE ck == <<c, cp>>
           port == ScanPort(sv)
<1>1. TypeOK /\ OneClientKeys
  BY DEF NaptInv
<1>2. ck \in ClientKey
  BY DEF ClientKey
<1>3. PICK conn \in Connection, k \in Places(ck) :
        /\ conn.server = sv /\ conn.localPort = port
        /\ port \in PortFrom .. PortTo
        /\ serverMap' = [serverMap EXCEPT ![<<sv, port>>] = conn]
        /\ clientMap' = [clientMap EXCEPT ![k] = conn]
        /\ last' \in Result
        /\ range' = range
  BY <1>1, Created
<1>4. /\ k \in ClientKey
      /\ clientMap' \in [ClientKey -> Connection \cup {null}]
      /\ Keys' = Keys \cup {k}
      /\ clientMap'[k] = conn
      /\ \A h \in Keys \ {k} : clientMap'[h] = clientMap[h]
  BY <1>1, <1>2, <1>3, StoredKeys
<1>5. /\ port \in Port
      /\ FindServer(sv, port) = null \/ PortTo < MaxPort
  BY <1>1, <1>3, ScanFindsFree
<1>6. PortFrom' = PortFrom /\ PortTo' = PortTo
  BY <1>3 DEF PortFrom, PortTo
<1> HIDE DEF ck, port
<1>7. /\ serverMap' \in [ServerKey -> Connection \cup {null}]
      /\ serverMap'[<<sv, port>>] = conn
      /\ \A s \in Server, p \in Port :
           <<s, p>> # <<sv, port>> => serverMap'[<<s, p>>] = serverMap[<<s, p>>]
  <2>1. <<sv, port>> \in ServerKey
    BY <1>5 DEF ServerKey
  <2>2. serverMap \in [ServerKey -> Connection \cup {null}]
    BY <1>1 DEF TypeOK
  <2> QED
    BY <1>3, <2>1, <2>2 DEF ServerKey
<1>8. TypeOK'
  BY <1>1, <1>3, <1>4, <1>7 DEF TypeOK
<1>9. OneClientKeys'
  <2>1. CASE Same(ck) = {}
    <3>1. k = ck
      BY <1>3, <2>1 DEF Places
    <3>2. \A h \in Keys : h[1] = ck[1]
      BY <1>2, <2>1, KeysAreKeys, EquivalentKeys DEF Same
    <3> QED
      BY <1>1, <1>4, <3>1, <3>2 DEF OneClientKeys
  <2>2. CASE Same(ck) # {}
    <3>1. k \in Keys
      BY <1>3, <2>2, KeysAreKeys DEF Places
    <3> QED
      BY <1>1, <1>4, <3>1 DEF OneClientKeys
  <2> QED
    BY <2>1, <2>2
<1>10. ServerMapConsistent'
  <2> SUFFICES ASSUME NEW s \in Server, NEW p \in Port, FindServer(s, p)' # null
               PROVE  /\ FindServer(s, p)'.server = s
                      /\ FindServer(s, p)'.localPort = p
                      /\ p \in PortFrom' .. PortTo'
    BY DEF ServerMapConsistent
  <2>1. CASE <<s, p>> = <<sv, port>>
    <3>1. FindServer(s, p)' = conn /\ s = sv /\ p = port
      BY <1>7, <2>1, Zenon DEF FindServer
    <3> QED
      BY <1>3, <1>6, <3>1
  <2>2. CASE <<s, p>> # <<sv, port>>
    BY <1>6, <1>7, <2>2 DEF NaptInv, ServerMapConsistent, FindServer
  <2> QED
    BY <2>1, <2>2
<1>11. HasWayBack'
  <2> SUFFICES ASSUME NoPortZero, NEW h \in Keys'
               PROVE  Way(h)'
    BY WayBackByKey
  <2>1. CASE h = k
    <3>1. clientMap'[h] = conn /\ conn # null
      BY <1>4, <2>1, NaptAssumption
    <3>2. FindServer(clientMap[h].server, clientMap[h].localPort)' = conn
      BY <1>3, <1>7, <3>1 DEF FindServer
    <3> QED
      BY <3>1, <3>2 DEF Way
  <2>2. CASE h # k
    <3> DEFINE s == clientMap[h].server
               p == clientMap[h].localPort
    <3>1. h \in Keys /\ clientMap'[h] = clientMap[h]
      BY <1>4, <2>2
    <3>2. s \in Server /\ p \in Port
      BY <1>1, <3>1, KeysAreKeys DEF TypeOK, Keys, Connection
    <3>3. /\ FindServer(s, p) # null
          /\ PortTo = MaxPort => FindServer(s, p) = clientMap[h]
      BY <3>1, WayBackByKey DEF NaptInv, Way
    <3>4. /\ serverMap'[<<s, p>>] # null
          /\ PortTo = MaxPort => serverMap'[<<s, p>>] = clientMap[h]
      <4>1. CASE <<s, p>> = <<sv, port>>
        <5>1. FindServer(sv, port) # null
          BY <3>3, <4>1 DEF FindServer
        <5>2. PortTo < MaxPort
          BY <1>5, <5>1
        <5>3. PortTo # MaxPort
          BY <5>2, <1>1, RangeFits
        <5>4. serverMap'[<<s, p>>] = conn /\ conn # null
          BY <1>7, <4>1, NaptAssumption, Zenon
        <5> HIDE DEF s, p
        <5> QED
          BY <5>3, <5>4
      <4>2. CASE <<s, p>> # <<sv, port>>
        BY <1>7, <3>2, <3>3, <4>2 DEF FindServer
      <4> QED
        BY <4>1, <4>2
    <3>5. clientMap'[h].server = s /\ clientMap'[h].localPort = p
      BY <3>1
    <3> HIDE DEF s, p
    <3> QED
      BY <1>6, <3>1, <3>4, <3>5 DEF Way, FindServer
  <2> QED
    BY <2>1, <2>2
<1> QED
  BY <1>8, <1>9, <1>10, <1>11 DEF NaptInv

\* The keys that are left keep their connections, and the entries left are old ones.
LEMMA RemoveClientKeeps ==
  ASSUME NaptInv, NEW c \in Client, RemoveClient(c)
  PROVE  NaptInv'
<1> DEFINE id == c % 256
           gone == {<<clientMap[k].server, clientMap[k].localPort>> : k \in Removed(id)}
<1>1. TypeOK /\ OneClientKeys
  BY DEF NaptInv
<1>2. /\ range' = range /\ last' = null
      /\ serverMap' = [k \in ServerKey |-> IF k \in gone THEN null ELSE serverMap[k]]
      /\ clientMap' = [k \in ClientKey |-> IF k \in Removed(id) THEN null ELSE clientMap[k]]
  BY DEF RemoveClient
<1>3. PortFrom' = PortFrom /\ PortTo' = PortTo
  BY <1>2 DEF PortFrom, PortTo
<1>4. Removed(id) = {} => gone = {}
  OBVIOUS
<1> HIDE DEF gone, id
<1>5. Keys' = Keys \ Removed(id) /\ \A k \in Keys' : clientMap'[k] = clientMap[k]
  BY <1>2 DEF Keys
<1>6. TypeOK'
  BY <1>1, <1>2 DEF TypeOK
<1>7. OneClientKeys'
  BY <1>1, <1>5 DEF OneClientKeys
<1>8. ServerMapConsistent'
  <2> SUFFICES ASSUME NEW s \in Server, NEW p \in Port, FindServer(s, p)' # null
               PROVE  /\ FindServer(s, p)'.server = s
                      /\ FindServer(s, p)'.localPort = p
                      /\ p \in PortFrom' .. PortTo'
    BY DEF ServerMapConsistent
  <2>1. FindServer(s, p)' = FindServer(s, p)
    BY <1>2 DEF FindServer, ServerKey
  <2> QED
    BY <1>3, <2>1 DEF NaptInv, ServerMapConsistent
<1>9. HasWayBack'
  <2> SUFFICES ASSUME NoPortZero, NEW h \in Keys'
               PROVE  Way(h)'
    BY WayBackByKey
  <2>1. CASE Removed(id) = {}
    <3>1. h \in Keys /\ clientMap'[h] = clientMap[h]
      BY <1>5
    <3>2. /\ clientMap[h].server \in Server /\ clientMap[h].localPort \in Port
      BY <1>1, <3>1, KeysAreKeys DEF TypeOK, Keys, Connection
    <3>3. Way(h)
      BY <3>1, WayBackByKey DEF NaptInv
    <3>4. serverMap' = [k \in ServerKey |-> serverMap[k]]
      BY <1>2, <1>4, <2>1
    <3> QED
      BY <1>3, <3>1, <3>2, <3>3, <3>4 DEF Way, FindServer, ServerKey
  <2>2. CASE Removed(id) # {}
    <3>1. PICK k \in Keys : k[1] = id
      BY <2>2 DEF Removed
    <3>2. h \in Keys /\ h \in ClientKey
      BY <1>5, KeysAreKeys
    <3>3. h[1] = id
      BY <1>1, <3>1, <3>2 DEF OneClientKeys
    <3>4. Less(<<id, 0>>, h)
      <4>1. h[2] \in ClientPort /\ ClientPort \subseteq Nat /\ 0 \notin ClientPort
        BY <3>2, NaptAssumption DEF ClientKey, Port, NoPortZero
      <4>2. 0 < h[2]
        <5>1. h[2] \in Nat /\ h[2] # 0
          BY <4>1, Zenon
        <5> QED
          BY <5>1
      <4> QED
        BY <3>3, <4>2 DEF Less
    <3> QED
      BY <1>5, <3>2, <3>3, <3>4 DEF Removed
  <2> QED
    BY <2>1, <2>2
<1> QED
  BY <1>6, <1>7, <1>8, <1>9 DEF NaptInv

LEMMA NextKeepsNapt == NaptInv /\ [Next]_vars => NaptInv'
<1> SUFFICES ASSUME NaptInv, [Next]_vars
             PROVE  NaptInv'
  OBVIOUS
<1>1. ASSUME NEW c \in Client, NEW cp \in ClientPort, NEW sv \in Server,
             CreateIfNotExist(c, cp, sv)
      PROVE  NaptInv'
  BY <1>1, ReuseKeeps, NoPortKeeps, CreateKeeps DEF CreateIfNotExist
<1>2. ASSUME NEW c \in Client, RemoveClient(c)
      PROVE  NaptInv'
  BY <1>2, RemoveClientKeeps
<1>3. CASE UNCHANGED vars
  <2>1. last \in Result \cup {null}
    BY DEF NaptInv, TypeOK
  <2> QED
    BY <1>3, <2>1, MapsKept DEF vars
<1> QED
  BY <1>1, <1>2, <1>3 DEF Next

\* The inductive invariant holds in every reachable state.
LEMMA NaptInvariant == Spec => []NaptInv
BY InitNapt, NextKeepsNapt, PTL DEF Spec

-----------------------------------------------------------------------------
(* The theorems.                                                           *)

\* Both maps hold whole connections and the local ports are ports, for any range
\* (napt.h:101-161).
THEOREM NaptTypeCorrect == Spec => []TypeOK
<1>1. NaptInv => TypeOK
  BY DEF NaptInv
<1> QED
  BY <1>1, NaptInvariant, PTL

\* What the comparison of napt.h:53-56 comes to: all keys of _clientMap are of one client,
\* whatever is created and removed, so every second client is handed connections that
\* are not its own.
THEOREM OneClientCorrect == Spec => []OneClientKeys
<1>1. NaptInv => OneClientKeys
  BY DEF NaptInv
<1> QED
  BY <1>1, NaptInvariant, PTL

\* Every entry of _serverMap stands under its connection's server and local port, which
\* is one of the range (napt.h:120-138).
THEOREM ServerMapCorrect == Spec => []ServerMapConsistent
<1>1. NaptInv => ServerMapConsistent
  BY DEF NaptInv
<1> QED
  BY <1>1, NaptInvariant, PTL

\* Every connection in _clientMap has a way back, its own if the range ends at the last
\* port (napt.h:120-129, 138-139, 154-159).
THEOREM WayBackCorrect == Spec => []HasWayBack
<1>1. NaptInv => HasWayBack
  BY DEF NaptInv
<1> QED
  BY <1>1, NaptInvariant, PTL

\* A step of DisplacedOnlyWhenFull.
DisplacesWhenFull ==
  \A k \in ServerKey :
    serverMap[k] # null /\ serverMap'[k] \notin {serverMap[k], null} => Free(k[1]) = {}

LEMMA StepDisplacesWhenFull ==
  ASSUME NaptInv, Next
  PROVE  DisplacesWhenFull
<1>1. TypeOK
  BY DEF NaptInv
<1>2. ASSUME NEW c \in Client, RemoveClient(c)
      PROVE  DisplacesWhenFull
  BY <1>2 DEF RemoveClient, DisplacesWhenFull
<1>3. ASSUME NEW c \in Client, NEW cp \in ClientPort, NEW sv \in Server,
             CreateIfNotExist(c, cp, sv)
      PROVE  DisplacesWhenFull
  <2>1. CASE Reuse(c, cp, sv) \/ NoPort(c, cp, sv)
    BY <2>1 DEF Reuse, NoPort, DisplacesWhenFull
  <2>2. CASE Create(c, cp, sv)
    <3> DEFINE port == ScanPort(sv)
    <3>1. PICK conn \in Connection, key \in Places(<<c, cp>>) :
            /\ conn.server = sv /\ conn.localPort = port
            /\ port \in PortFrom .. PortTo
            /\ serverMap' = [serverMap EXCEPT ![<<sv, port>>] = conn]
            /\ clientMap' = [clientMap EXCEPT ![key] = conn]
            /\ last' \in Result
            /\ range' = range
      BY <1>1, <2>2, Created
    <3>2. FindServer(sv, port) = null \/ Free(sv) = {}
      BY <1>1, <3>1, ScanFindsFree
    <3> HIDE DEF port
    <3>3. \A k \in ServerKey : k # <<sv, port>> => serverMap'[k] = serverMap[k]
      BY <1>1, <3>1 DEF TypeOK
    <3>4. ASSUME NEW k \in ServerKey, serverMap[k] # null, serverMap'[k] # serverMap[k]
          PROVE  Free(k[1]) = {}
      <4>1. k = <<sv, port>>
        BY <3>3, <3>4
      <4> QED
        BY <3>2, <3>4, <4>1 DEF FindServer
    <3> QED
      BY <3>4 DEF DisplacesWhenFull
  <2> QED
    BY <1>3, <2>1, <2>2 DEF CreateIfNotExist
<1> QED
  BY <1>2, <1>3 DEF Next

\* An entry of _serverMap is handed to another connection only when every local port of
\* its server is in use (napt.h:120-129).
THEOREM DisplacedCorrect == Spec => DisplacedOnlyWhenFull
<1>1. NaptInv /\ [Next]_vars => [DisplacesWhenFull]_vars
  BY StepDisplacesWhenFull
<1>2. [DisplacesWhenFull]_vars =>
        [\A k \in ServerKey :
           serverMap[k] # null /\ serverMap'[k] \notin {serverMap[k], null} =>
             Free(k[1]) = {}]_vars
  BY DEF DisplacesWhenFull
<1> QED
  BY <1>1, <1>2, NaptInvariant, PTL DEF Spec, DisplacedOnlyWhenFull

=============================================================================
