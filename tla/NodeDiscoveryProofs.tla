------------------------- MODULE NodeDiscoveryProofs -------------------------
(***************************************************************************)
(* For all nodes, neighbours and numbers of datagrams, whatever the network *)
(* does to them: who is told of as a peer, which pongs can come in, and whom *)
(* the pongs and the questions of a single bootstrap reach.                  *)
(***************************************************************************)
EXTENDS NodeDiscovery, SequenceTheorems, TLAPS

(* Every bootstrap that opened a socket has sent its ping or still awaits    *)
(* connect, and nothing is known or due before the first.                    *)
Bootstraps ==
    /\ pings + Len(connecting) = Len(sockets)
    /\ sockets = <<>> => /\ pinged = {}
                         /\ \A a \in Addresses : aliveDue[a] = 0

Inv == TypeOK /\ Bootstraps

(* One bootstrap at a time, each of another node: the datagrams of a socket  *)
(* carry the hash kept for its address, and the socket whose bootstrap       *)
(* awaits connect has none.                                                  *)
IsPingOut(d) == d.dir = "out" /\ d.type = "PING"
IsPongIn(d) == d.dir = "in" /\ d.type = "PONG"

PingsRecorded ==
    /\ IsInjective(sockets)
    /\ connecting # <<>> => connecting = <<Last(sockets)>>
    /\ \A d \in net : IsPingOut(d) \/ IsPongIn(d) =>
         /\ pingRecord[sockets[d.sock]] = d.content
         /\ connecting # <<>> => d.sock # Len(sockets)

(* With one socket there is one node, everything goes to it, and its         *)
(* answers, and the handlers they set off, come after it proved its endpoint. *)
OneNode ==
    Len(sockets) = 1 =>
        /\ \A d \in net : d.node = sockets[1]
        /\ \A d \in net : d.dir = "in" /\ d.type = "PING" => d.content = d.node
        /\ \A d \in net : d.type \in {"FIND_NODE", "NEIGHBORS"} => sockets[1] \in contacted
        /\ \A a \in Addresses : aliveDue[a] > 0 => sockets[1] \in contacted
        /\ PongReachesPinger

----------------------------------------------------------------------------
(* Datagrams *)

Typed(d) ==
    /\ d.sock \in 1 .. Len(sockets) /\ d.node \in Addresses
    /\ d.type = "NEIGHBORS" => d.content \in [1 .. 2 -> Ips]

(* Whatever leaves leaves through the last socket.                           *)
LEMMA OutIs ==
    ASSUME TypeOK, sockets # <<>>, NEW type, NEW content
    PROVE  /\ Out(type, content).dir = "out" /\ Out(type, content).type = type
           /\ Out(type, content).sock = Len(sockets)
           /\ Out(type, content).node = sockets[Len(sockets)]
           /\ Out(type, content).content = content
           /\ Len(sockets) \in 1 .. Len(sockets) /\ sockets[Len(sockets)] \in Addresses
  BY DEF Out, Last, TypeOK

LEMMA InIs ==
    ASSUME NEW d, NEW type, NEW content
    PROVE  /\ In(d, type, content).dir = "in" /\ In(d, type, content).type = type
           /\ In(d, type, content).sock = d.sock /\ In(d, type, content).node = d.node
           /\ In(d, type, content).content = content
  BY DEF In

(* The state is kept under the address alone, so no message is ever found to *)
(* be sent already.                                                          *)
LEMMA NeverFoundSent ==
    ASSUME TypeOK, NEW address, NEW target
    PROVE  ~HasSentNeighborMessage(address, target)
  BY DEF TypeOK, HasSentNeighborMessage

LEMMA FindNeighborsSends ==
    ASSUME TypeOK, sockets # <<>>, NEW address \in Addresses, NEW targets,
           FindNeighbors(address, targets)
    PROVE  /\ net' = net \cup {Out("FIND_NODE", t) : t \in targets}
           /\ stateRecord' \subseteq {<<a>> : a \in Addresses}
<1>1. {t \in targets : ~HasSentNeighborMessage(address, t)} = targets
  BY NeverFoundSent
<1> QED
  BY <1>1 DEF FindNeighbors, TypeOK

LEMMA OutTyped ==
    ASSUME TypeOK, sockets # <<>>, NEW type, type # "NEIGHBORS", NEW content
    PROVE  Typed(Out(type, content))
  BY OutIs DEF Typed

(* A packet makes known the addresses it names that were not, each once.     *)
LEMMA NewNodesAre ==
    ASSUME TypeOK, NEW ips \in [1 .. 2 -> Ips]
    PROVE  /\ NewNodes(ips) \in Seq(Ips) /\ IsInjective(NewNodes(ips))
           /\ Range(NewNodes(ips)) = Range(ips) \ nodeRecord
<1>1. ips[1] \in Ips /\ ips[2] \in Ips /\ Range(ips) = {ips[1], ips[2]}
  BY DEF Range
<1>2. <<>> \o <<>> = <<>>
  BY ConcatEmptySeq
<1>a. ASSUME NEW x \in Ips PROVE <<>> \o <<x>> = <<x>> /\ <<x>> \o <<>> = <<x>>
  <2>1. <<x>> \in Seq(Ips)
    OBVIOUS
  <2> QED
    BY <2>1, ConcatEmptySeq
<1>b. ASSUME NEW x \in Ips, NEW y \in Ips PROVE <<x>> \o <<y>> = <<x, y>>
  <2>1. <<x>> \in Seq(Ips) /\ <<y>> \in Seq(Ips) /\ <<x, y>> \in Seq(Ips)
    OBVIOUS
  <2>2. <<x>> \o <<y>> \in Seq(Ips) /\ Len(<<x>> \o <<y>>) = 2
    BY <2>1, ConcatProperties
  <2>3. (<<x>> \o <<y>>)[1] = x /\ (<<x>> \o <<y>>)[2] = y
    BY <2>1, ConcatProperties
  <2>4. Len(<<x, y>>) = 2 /\ <<x, y>>[1] = x /\ <<x, y>>[2] = y
    OBVIOUS
  <2>5. \A i \in 1 .. 2 : (<<x>> \o <<y>>)[i] = <<x, y>>[i]
    BY <2>3, <2>4
  <2> QED
    BY <2>1, <2>2, <2>4, <2>5, SeqEqual
<1>3. NewNodes(ips) = IF ips[1] \in nodeRecord
                      THEN IF ips[2] \in nodeRecord \/ ips[2] = ips[1] THEN <<>> ELSE <<ips[2]>>
                      ELSE IF ips[2] \in nodeRecord \/ ips[2] = ips[1] THEN <<ips[1]>>
                           ELSE <<ips[1], ips[2]>>
  BY <1>1, <1>2, <1>a, <1>b DEF NewNodes
<1> QED
  BY <1>1, <1>3 DEF IsInjective, Range

----------------------------------------------------------------------------
(* Types, and how far the bootstraps are *)

LEMMA InitInv == Init => Inv
<1> SUFFICES ASSUME Init PROVE Inv
  OBVIOUS
<1>1. /\ sockets = <<>> /\ connecting = <<>> /\ peers = <<>> /\ net = {}
      /\ pings = 0 /\ handled = 0 /\ pinged = {}
      /\ aliveDue = [a \in Addresses |-> 0]
  BY DEF Init
<1>2. /\ <<>> \in Seq(Addresses) /\ <<>> \in Seq(Ips) /\ Len(<<>>) = 0
      /\ 0 \in 0 .. MaxBootstraps /\ 0 \in 0 .. MaxHandled /\ 0 <= MaxBootstraps
  BY DiscoveryAssumption DEF DiscoveryAssumption
<1>3. Bootstraps
  BY <1>1, <1>2 DEF Bootstraps
<1>4. TypeOK
  <2>1. pingRecord \in [Addresses -> 0 .. MaxBootstraps] /\ aliveDue \in [Addresses -> Nat]
    BY <1>2 DEF Init
  <2>2. /\ nodeRecord = {} /\ contacted = {} /\ stateRecord = {}
        /\ crashed \in BOOLEAN
    BY DEF Init
  <2>3. sockets \in Seq(Addresses) /\ Len(sockets) <= MaxBootstraps
    BY <1>1, <1>2
  <2> QED
    BY <1>1, <1>2, <2>1, <2>2, <2>3 DEF TypeOK
<1> QED
  BY <1>3, <1>4 DEF Inv

(* A step that bootstraps nothing, with what it may change.                  *)
LEMMA HandlingKeepsInv ==
    ASSUME Inv, UNCHANGED <<sockets, connecting, pings, pingRecord>>,
           NEW sent, net' = net \cup sent,
           \A d \in sent : Typed(d), sent # {} => sockets # <<>>,
           stateRecord' \subseteq {<<a>> : a \in Addresses},
           aliveDue' \in [Addresses -> Nat],
           \A a \in Addresses : aliveDue'[a] > aliveDue[a] => sockets # <<>>,
           nodeRecord' \subseteq Ips, peers' \in Seq(Ips),
           contacted' \subseteq Addresses, pinged' \subseteq Addresses,
           pinged' # pinged => sockets # <<>>,
           handled' \in 0 .. MaxHandled, crashed' \in BOOLEAN
    PROVE  Inv'
<1>1. \A d \in net' : Typed(d)'
  BY DEF Inv, TypeOK, Typed
<1>2. TypeOK'
  BY <1>1 DEF Inv, TypeOK, Typed
<1>3. Bootstraps'
  <2>1. CASE sockets = <<>>
    <3>1. \A a \in Addresses : aliveDue[a] = 0 /\ aliveDue'[a] \in Nat
      BY <2>1 DEF Inv, Bootstraps
    <3> QED
      BY <2>1, <3>1 DEF Inv, TypeOK, Bootstraps
  <2>2. CASE sockets # <<>>
    BY <2>2 DEF Inv, Bootstraps
  <2> QED
    BY <2>1, <2>2
<1> QED
  BY <1>2, <1>3 DEF Inv

LEMMA BootstrapKeepsInv ==
    ASSUME Inv, (\E a \in Addresses : Connect(a)) \/ SendPing
    PROVE  Inv'
<1> USE DEF recordVars, historyVars
<1>1. ASSUME NEW a \in Addresses, Connect(a) PROVE Inv'
  <2>1. /\ sockets \in Seq(Addresses) /\ connecting \in Seq(Addresses)
        /\ sockets' = Append(sockets, a) /\ connecting' = Append(connecting, a)
        /\ Len(sockets) < MaxBootstraps
    BY <1>1 DEF Connect, Inv, TypeOK
  <2>2. /\ sockets' \in Seq(Addresses) /\ Len(sockets') = Len(sockets) + 1
        /\ connecting' \in Seq(Addresses) /\ Len(connecting') = Len(connecting) + 1
    BY <2>1
  <2>3. Len(sockets') <= MaxBootstraps
    BY <2>1, <2>2, DiscoveryAssumption DEF DiscoveryAssumption
  <2>4. \A d \in net : d.sock \in 1 .. Len(sockets')
    BY <2>1, <2>2 DEF Inv, TypeOK
  <2>5. stateRecord' \subseteq {<<b>> : b \in Addresses}
    BY <1>1 DEF Connect, Inv, TypeOK
  <2>6. TypeOK'
    BY <1>1, <2>2, <2>3, <2>4, <2>5 DEF Connect, Inv, TypeOK
  <2>7. Bootstraps'
    <3>1. pings' = pings /\ pings + Len(connecting) = Len(sockets)
      BY <1>1 DEF Connect, Inv, Bootstraps
    <3>2. pings \in Int /\ Len(sockets) \in Nat /\ Len(connecting) \in Nat
      BY <2>1 DEF Inv, TypeOK
    <3>3. sockets' # <<>>
      BY <2>2, <3>2
    <3> QED
      BY <2>2, <3>1, <3>2, <3>3 DEF Bootstraps
  <2> QED
    BY <2>6, <2>7 DEF Inv
<1>2. CASE SendPing
  <2>1. /\ sockets \in Seq(Addresses) /\ connecting \in Seq(Addresses)
        /\ connecting # <<>> /\ connecting' = Tail(connecting) /\ sockets' = sockets
        /\ pings' = pings + 1 /\ net' = net \cup {Out("PING", pings')}
        /\ pingRecord' = [pingRecord EXCEPT ![Head(connecting)] = pings']
    BY <1>2 DEF SendPing, Inv, TypeOK
  <2>2. /\ connecting' \in Seq(Addresses) /\ Len(connecting') = Len(connecting) - 1
        /\ Len(connecting) \in Nat \ {0} /\ Head(connecting) \in Addresses
    BY <2>1
  <2>3. pings' + Len(connecting') = Len(sockets') /\ pings' \in 0 .. MaxBootstraps
    <3>1. /\ pings \in Nat /\ Len(sockets) \in Nat /\ Len(sockets) <= MaxBootstraps
          /\ pings + Len(connecting) = Len(sockets) /\ MaxBootstraps \in Nat
      BY <2>1, DiscoveryAssumption DEF DiscoveryAssumption, Inv, TypeOK, Bootstraps
    <3> QED
      BY <2>1, <2>2, <3>1
  <2>4. sockets # <<>>
    BY <2>1, <2>2, <2>3 DEF Inv, TypeOK
  <2>5. \A d \in net' : Typed(d)'
    <3>1. Typed(Out("PING", pings'))
      BY <2>4, OutTyped DEF Inv
    <3>2. \A d \in net' : Typed(d)
      BY <2>1, <3>1 DEF Inv, TypeOK, Typed
    <3> QED
      BY <2>1, <3>2 DEF Typed
  <2>6. pingRecord' \in [Addresses -> 0 .. MaxBootstraps]
    BY <2>1, <2>2, <2>3 DEF Inv, TypeOK
  <2>7. TypeOK'
    BY <1>2, <2>1, <2>2, <2>3, <2>5, <2>6 DEF SendPing, Inv, TypeOK, Typed
  <2>8. Bootstraps'
    BY <1>2, <2>3, <2>4 DEF SendPing, Inv, Bootstraps
  <2> QED
    BY <2>7, <2>8 DEF Inv
<1> QED
  BY <1>1, <1>2

(* A datagram that is there came through some socket.                        *)
LEMMA NetNeedsSocket ==
    ASSUME Inv, NEW d \in net
    PROVE  sockets # <<>> /\ d.sock \in DOMAIN sockets /\ sockets[d.sock] \in Addresses
  BY DEF Inv, TypeOK

LEMMA HandleKeepsInv ==
    ASSUME Inv, NEW d \in net, HandlePing(d) \/ HandlePong(d) \/ HandleNeighbors(d)
    PROVE  Inv'
<1> USE DEF recordVars, historyVars
<1>a. /\ sockets # <<>> /\ sockets[d.sock] \in Addresses /\ TypeOK /\ Typed(d)
      /\ d.node \in Addresses
  BY NetNeedsSocket DEF Inv, TypeOK, Typed
<1>b. handled' \in 0 .. MaxHandled /\ ~crashed
  <2>1. handled' = handled + 1 /\ handled < MaxHandled /\ ~crashed
    BY DEF HandlePing, HandlePong, HandleNeighbors, Receive
  <2>2. handled \in 0 .. MaxHandled /\ MaxHandled \in Nat
    BY DiscoveryAssumption DEF DiscoveryAssumption, Inv, TypeOK
  <2> QED
    BY <2>1, <2>2
<1>1. CASE HandlePing(d)
  <2>1. PICK sent : sent = {Out("PONG", d.content)}
    OBVIOUS
  <2>2. net' = net \cup sent /\ \A e \in sent : Typed(e)
    BY <1>1, <1>a, <2>1, OutTyped DEF HandlePing
  <2>3. aliveDue' = [aliveDue EXCEPT ![sockets[d.sock]] = @ + 1]
    BY <1>1 DEF HandlePing
  <2>4. aliveDue' \in [Addresses -> Nat]
    BY <1>a, <2>3 DEF TypeOK
  <2>5. contacted' \subseteq Addresses /\ pinged' \subseteq Addresses
    BY <1>1, <1>a DEF HandlePing, TypeOK
  <2>6. /\ UNCHANGED <<sockets, connecting, pings, pingRecord, stateRecord, nodeRecord,
                       peers, crashed>>
    BY <1>1 DEF HandlePing
  <2> QED
    BY <1>a, <1>b, <2>2, <2>4, <2>5, <2>6, HandlingKeepsInv DEF TypeOK
<1>2. CASE HandlePong(d)
  <2>1. /\ UNCHANGED <<sockets, connecting, pings, pingRecord, nodeRecord, aliveDue,
                       peers, pinged>>
        /\ crashed' \in BOOLEAN /\ contacted' \subseteq Addresses
    BY <1>2, <1>a DEF HandlePong, TypeOK
  <2>2. \E sent : /\ net' = net \cup sent /\ \A e \in sent : Typed(e)
                  /\ stateRecord' \subseteq {<<a>> : a \in Addresses}
    <3>1. CASE ~PongMatches(d)
      <4>1. UNCHANGED <<net, stateRecord>>
        BY <1>2, <3>1 DEF HandlePong
      <4>0. PICK none : none = {}
        OBVIOUS
      <4>2. /\ net' = net \cup none /\ \A e \in none : Typed(e)
            /\ stateRecord' \subseteq {<<a>> : a \in Addresses}
        BY <4>0, <4>1, <1>a DEF TypeOK
      <4> QED
        BY <4>2
    <3>2. CASE PongMatches(d)
      <4>1. FindNeighbors(sockets[d.sock], {NoTarget})
        BY <1>2, <1>a, <3>2, NeverFoundSent DEF HandlePong
      <4>2. /\ net' = net \cup {Out("FIND_NODE", t) : t \in {NoTarget}}
            /\ stateRecord' \subseteq {<<a>> : a \in Addresses}
        BY <1>a, <4>1, FindNeighborsSends
      <4>3. \A e \in {Out("FIND_NODE", t) : t \in {NoTarget}} : Typed(e)
        BY <1>a, OutTyped
      <4> QED
        BY <4>2, <4>3
    <3> QED
      BY <3>1, <3>2
  <2> QED
    BY <1>a, <1>b, <2>1, <2>2, HandlingKeepsInv DEF TypeOK
<1>3. CASE HandleNeighbors(d)
  <2>1. d.content \in [1 .. 2 -> Ips]
    BY <1>3, <1>a DEF HandleNeighbors, Receive, Typed
  <2>2. PICK new : new = NewNodes(d.content)
    OBVIOUS
  <2>3. new \in Seq(Ips) /\ Range(new) \subseteq Ips
    <3>1. new \in Seq(Ips)
      BY <1>a, <2>1, <2>2, NewNodesAre
    <3> QED
      BY <3>1 DEF Range
  <2>4. /\ UNCHANGED <<sockets, connecting, pings, pingRecord, aliveDue, contacted,
                       pinged, crashed>>
        /\ nodeRecord' = nodeRecord \cup Range(new) /\ peers' = peers \o new
        /\ FindNeighbors(sockets[d.sock], Range(new))
    BY <1>3, <2>2 DEF HandleNeighbors
  <2>5. PICK sent : sent = {Out("FIND_NODE", t) : t \in Range(new)}
    OBVIOUS
  <2>6. net' = net \cup sent /\ stateRecord' \subseteq {<<a>> : a \in Addresses}
    BY <1>a, <2>4, <2>5, FindNeighborsSends
  <2>7. \A e \in sent : Typed(e)
    BY <1>a, <2>5, OutTyped
  <2>8. nodeRecord' \subseteq Ips /\ peers' \in Seq(Ips)
    BY <1>a, <2>3, <2>4, ConcatProperties DEF TypeOK
  <2> QED
    BY <1>a, <1>b, <2>4, <2>6, <2>7, <2>8, HandlingKeepsInv DEF TypeOK
<1> QED
  BY <1>1, <1>2, <1>3

LEMMA AliveKeepsInv ==
    ASSUME Inv, NEW a \in Addresses, Alive(a)
    PROVE  Inv'
<1> USE DEF recordVars, historyVars
<1>1. TypeOK /\ sockets # <<>>
  BY DEF Alive, Inv, TypeOK, Bootstraps
<1>2. FindNeighbors(a, {NoTarget})
  BY <1>1, NeverFoundSent DEF Alive
<1>3. PICK sent : sent = {Out("FIND_NODE", t) : t \in {NoTarget}}
  OBVIOUS
<1>4. net' = net \cup sent /\ stateRecord' \subseteq {<<b>> : b \in Addresses}
  BY <1>1, <1>2, <1>3, FindNeighborsSends
<1>5. \A e \in sent : Typed(e)
  BY <1>1, <1>3, OutTyped
<1>6. aliveDue' \in [Addresses -> Nat]
  BY <1>1 DEF Alive, TypeOK
<1>7. UNCHANGED <<sockets, connecting, pings, pingRecord, nodeRecord, peers, contacted,
                  pinged, handled, crashed>>
  BY DEF Alive
<1> QED
  BY <1>1, <1>4, <1>5, <1>6, <1>7, HandlingKeepsInv DEF TypeOK

LEMMA NodeKeepsInv ==
    ASSUME Inv, NEW d \in net, NodeAnswersPing(d) \/ NodeAnswersFindNode(d)
    PROVE  Inv'
<1> USE DEF recordVars, historyVars
<1>a. sockets # <<>> /\ TypeOK /\ Typed(d)
  BY NetNeedsSocket DEF Inv, TypeOK, Typed
<1>1. PICK type, content : /\ NodeSends(d, type, content)
                           /\ type = "NEIGHBORS" => content \in [1 .. 2 -> Ips]
  BY DEF NodeAnswersPing, NodeAnswersFindNode
<1>2. PICK sent : sent = {In(d, type, content)}
  OBVIOUS
<1>3. /\ net' = net \cup sent
      /\ UNCHANGED <<sockets, connecting, pings, recordVars, aliveDue, historyVars, crashed>>
  BY <1>1, <1>2 DEF NodeSends
<1>4. \A e \in sent : Typed(e)
  BY <1>1, <1>2, <1>a, InIs DEF Typed
<1> QED
  BY <1>3, <1>4, <1>a, HandlingKeepsInv DEF TypeOK

LEMMA NextKeepsInv == Inv /\ [Next]_vars => Inv'
<1> SUFFICES ASSUME Inv, [Next]_vars PROVE Inv'
  OBVIOUS
<1>1. CASE UNCHANGED vars
  BY <1>1 DEF vars, recordVars, historyVars, Inv, TypeOK, Bootstraps
<1>2. CASE Next
  BY <1>2, BootstrapKeepsInv, AliveKeepsInv, HandleKeepsInv, NodeKeepsInv DEF Next
<1> QED
  BY <1>1, <1>2

LEMMA InvHolds == Spec => []Inv
  BY InitInv, NextKeepsInv, PTL DEF Spec

(* Every variable of node discovery keeps its type.                          *)
THEOREM DiscoveryTyped == Spec => []TypeOK
<1>1. Inv => TypeOK
  BY DEF Inv
<1> QED
  BY <1>1, InvHolds, PTL

----------------------------------------------------------------------------
(* Peers *)

(* Elements that are new and differ go to the end.                           *)
LEMMA InjectiveConcat ==
    ASSUME NEW S, NEW s \in Seq(S), NEW t \in Seq(S), IsInjective(s), IsInjective(t),
           Range(s) \cap Range(t) = {}
    PROVE  IsInjective(s \o t) /\ Range(s \o t) = Range(s) \cup Range(t)
<1>1. /\ s \o t \in Seq(S) /\ Len(s \o t) = Len(s) + Len(t)
      /\ \A i \in 1 .. Len(s) + Len(t) :
            (s \o t)[i] = IF i <= Len(s) THEN s[i] ELSE t[i - Len(s)]
  BY ConcatProperties
<1>2. /\ Len(s) \in Nat /\ Len(t) \in Nat /\ DOMAIN s = 1 .. Len(s) /\ DOMAIN t = 1 .. Len(t)
      /\ DOMAIN (s \o t) = 1 .. Len(s) + Len(t)
  BY <1>1
<1>3. ASSUME NEW i \in 1 .. Len(s) + Len(t)
      PROVE  \/ i \in 1 .. Len(s) /\ (s \o t)[i] = s[i] /\ (s \o t)[i] \in Range(s)
             \/ /\ i - Len(s) \in 1 .. Len(t) /\ (s \o t)[i] = t[i - Len(s)]
                /\ (s \o t)[i] \in Range(t)
  BY <1>1, <1>2 DEF Range
<1>4. IsInjective(s \o t)
  <2> SUFFICES ASSUME NEW i \in 1 .. Len(s) + Len(t), NEW j \in 1 .. Len(s) + Len(t),
                      (s \o t)[i] = (s \o t)[j]
               PROVE  i = j
    BY <1>2 DEF IsInjective
  <2>1. CASE i \in 1 .. Len(s) /\ j \in 1 .. Len(s)
    BY <1>1, <1>2, <2>1 DEF IsInjective
  <2>2. CASE i - Len(s) \in 1 .. Len(t) /\ j - Len(s) \in 1 .. Len(t)
    <3>1. t[i - Len(s)] = t[j - Len(s)]
      BY <1>1, <1>2, <2>2
    <3>2. i - Len(s) = j - Len(s)
      BY <1>2, <2>2, <3>1 DEF IsInjective
    <3> QED
      BY <1>2, <3>2
  <2> QED
    BY <1>3, <1>2, <2>1, <2>2
<1>5. Range(s \o t) \subseteq Range(s) \cup Range(t)
  BY <1>2, <1>3 DEF Range
<1>6. ASSUME NEW x \in Range(s) PROVE x \in Range(s \o t)
  <2>1. PICK i \in 1 .. Len(s) : x = s[i]
    BY <1>2 DEF Range
  <2>2. i \in 1 .. Len(s) + Len(t) /\ (s \o t)[i] = x
    BY <1>1, <1>2, <2>1
  <2> QED
    BY <1>2, <2>2 DEF Range
<1>7. ASSUME NEW x \in Range(t) PROVE x \in Range(s \o t)
  <2>1. PICK i \in 1 .. Len(t) : x = t[i]
    BY <1>2 DEF Range
  <2>2. i + Len(s) \in 1 .. Len(s) + Len(t) /\ (s \o t)[i + Len(s)] = x
    BY <1>1, <1>2, <2>1
  <2> QED
    BY <1>2, <2>2 DEF Range
<1> QED
  BY <1>4, <1>5, <1>6, <1>7

(* However often a neighbour is named, by whom, and in packets however        *)
(* doubled and late, its 'peer' event comes once (nodeRecord in              *)
(* NodeManager.messageHandler).                                              *)
THEOREM PeersOnce == Spec => []PeerOncePerIp
<1>1. Init => PeerOncePerIp
  BY DEF Init, PeerOncePerIp, IsInjective, Range
<1>2. Inv /\ PeerOncePerIp /\ [Next]_vars => PeerOncePerIp'
  <2> SUFFICES ASSUME Inv, PeerOncePerIp, [Next]_vars PROVE PeerOncePerIp'
    OBVIOUS
  <2> USE DEF recordVars, historyVars
  <2>1. ASSUME NEW d \in net, HandleNeighbors(d) PROVE PeerOncePerIp'
    <3>1. d.content \in [1 .. 2 -> Ips]
      BY <2>1 DEF HandleNeighbors, Receive, Inv, TypeOK
    <3>2. PICK new : new = NewNodes(d.content)
      OBVIOUS
    <3>3. /\ new \in Seq(Ips) /\ IsInjective(new)
          /\ Range(new) = Range(d.content) \ nodeRecord
      BY <3>1, <3>2, NewNodesAre DEF Inv
    <3>4. /\ nodeRecord' = nodeRecord \cup Range(new) /\ peers' = peers \o new
          /\ peers \in Seq(Ips)
      BY <2>1, <3>2 DEF HandleNeighbors, Inv, TypeOK
    <3>5. Range(peers) \cap Range(new) = {}
      BY <3>3 DEF PeerOncePerIp
    <3>6. IsInjective(peers') /\ Range(peers') = Range(peers) \cup Range(new)
      BY <3>3, <3>4, <3>5, InjectiveConcat DEF PeerOncePerIp
    <3> QED
      BY <3>4, <3>6 DEF PeerOncePerIp
  <2>2. ASSUME UNCHANGED <<peers, nodeRecord>> PROVE PeerOncePerIp'
    BY <2>2 DEF PeerOncePerIp
  <2> QED
    BY <2>1, <2>2 DEF Next, vars, Connect, Alive, SendPing, HandlePing, HandlePong,
       NodeAnswersPing, NodeAnswersFindNode, NodeSends
<1> QED
  BY <1>1, <1>2, InvHolds, PTL DEF Spec

----------------------------------------------------------------------------
(* Pongs *)

(* Datagrams that are no pings of ours and no pongs to us.                   *)
LEMMA OthersKeepRecorded ==
    ASSUME Inv, PingsRecorded, UNCHANGED <<sockets, connecting, pingRecord>>,
           \A d \in net' \ net : ~IsPingOut(d) /\ ~IsPongIn(d)
    PROVE  PingsRecorded'
  BY DEF PingsRecorded

LEMMA ConnectKeepsRecorded ==
    ASSUME Inv, PingsRecorded, ~Overlapping, ~Repeated, NEW a \in Addresses, Connect(a)
    PROVE  PingsRecorded'
<1> USE DEF recordVars, historyVars
<1>1. /\ sockets \in Seq(Addresses) /\ sockets' = Append(sockets, a)
      /\ connecting = <<>> /\ connecting' = Append(connecting, a)
      /\ a \notin Range(sockets) /\ UNCHANGED <<pingRecord, net>>
  BY DEF Connect, Inv, TypeOK
<1>2. /\ Len(sockets) \in Nat /\ DOMAIN sockets = 1 .. Len(sockets)
      /\ DOMAIN sockets' = 1 .. Len(sockets) + 1 /\ Len(sockets') = Len(sockets) + 1
      /\ sockets'[Len(sockets) + 1] = a
      /\ \A i \in 1 .. Len(sockets) : sockets'[i] = sockets[i]
  BY <1>1
<1>3. \A i \in 1 .. Len(sockets) : sockets[i] # a
  BY <1>1, <1>2 DEF Range
<1>4. IsInjective(sockets')
  BY <1>2, <1>3 DEF PingsRecorded, IsInjective
<1>5. connecting' = <<a>> /\ Last(sockets') = a
  BY <1>1, <1>2 DEF Last
<1>6. ASSUME NEW d \in net', IsPingOut(d) \/ IsPongIn(d)
      PROVE  pingRecord'[sockets'[d.sock]] = d.content /\ d.sock # Len(sockets')
  <2>1. d \in net /\ d.sock \in 1 .. Len(sockets)
    BY <1>1 DEF Inv, TypeOK
  <2>2. pingRecord[sockets[d.sock]] = d.content
    BY <1>6, <2>1 DEF PingsRecorded
  <2> QED
    BY <1>1, <1>2, <2>1, <2>2
<1> QED
  BY <1>4, <1>5, <1>6 DEF PingsRecorded

LEMMA SendPingKeepsRecorded ==
    ASSUME Inv, PingsRecorded, SendPing
    PROVE  PingsRecorded'
<1>1. /\ sockets \in Seq(Addresses) /\ sockets' = sockets
      /\ connecting = <<Last(sockets)>> /\ connecting' = Tail(connecting)
      /\ net' = net \cup {Out("PING", pings')}
      /\ pingRecord' = [pingRecord EXCEPT ![Head(connecting)] = pings']
      /\ pingRecord \in [Addresses -> 0 .. MaxBootstraps] /\ TypeOK
  BY DEF SendPing, Inv, TypeOK, PingsRecorded
<1>2. Head(connecting) = Last(sockets) /\ connecting' = <<>> /\ Len(connecting) = 1
  BY <1>1
<1>3. sockets # <<>>
  BY <1>1, <1>2 DEF Inv, TypeOK, Bootstraps
<1>4. /\ Len(sockets) \in Nat \ {0} /\ DOMAIN sockets = 1 .. Len(sockets)
      /\ sockets[Len(sockets)] \in Addresses /\ Last(sockets) = sockets[Len(sockets)]
  BY <1>1, <1>3 DEF Last
<1>5. ASSUME NEW d \in net', IsPingOut(d) \/ IsPongIn(d)
      PROVE  pingRecord'[sockets'[d.sock]] = d.content
  <2>1. CASE d \in net
    <3>1. d.sock \in 1 .. Len(sockets) /\ d.sock # Len(sockets)
      BY <1>1, <1>5, <1>2, <2>1 DEF PingsRecorded, TypeOK
    <3>2. sockets[d.sock] # sockets[Len(sockets)] /\ sockets[d.sock] \in Addresses
      BY <1>1, <1>4, <3>1 DEF PingsRecorded, IsInjective
    <3>3. pingRecord[sockets[d.sock]] = d.content
      BY <1>5, <2>1 DEF PingsRecorded
    <3> QED
      BY <1>1, <1>2, <1>4, <3>2, <3>3
  <2>2. CASE d = Out("PING", pings')
    <3>1. d.sock = Len(sockets) /\ d.content = pings'
      BY <1>1, <1>3, <2>2, OutIs
    <3> QED
      BY <1>1, <1>2, <1>4, <3>1
  <2> QED
    BY <1>1, <2>1, <2>2
<1> QED
  BY <1>1, <1>2, <1>5 DEF PingsRecorded

(* A node answers a ping with the hash of that ping, on the socket it came   *)
(* through.                                                                  *)
LEMMA AnswerKeepsRecorded ==
    ASSUME Inv, PingsRecorded, NEW d \in net, d.dir = "out", NodeAnswersPing(d)
    PROVE  PingsRecorded'
<1> USE DEF recordVars, historyVars
<1>1. CASE NodeSends(d, "PONG", d.content)
  <2>1. /\ IsPingOut(d) /\ net' = net \cup {In(d, "PONG", d.content)}
        /\ UNCHANGED <<sockets, connecting, pingRecord>>
    BY <1>1 DEF NodeAnswersPing, NodeSends, IsPingOut
  <2>2. ASSUME NEW e \in net', IsPingOut(e) \/ IsPongIn(e)
        PROVE  /\ pingRecord[sockets[e.sock]] = e.content
               /\ connecting # <<>> => e.sock # Len(sockets)
    <3>1. CASE e \in net
      BY <2>2, <3>1 DEF PingsRecorded
    <3>2. CASE e = In(d, "PONG", d.content)
      BY <2>1, <3>2, InIs DEF PingsRecorded
    <3> QED
      BY <2>1, <3>1, <3>2
  <2> QED
    BY <2>1, <2>2 DEF PingsRecorded
<1>2. CASE NodeSends(d, "PING", d.node)
  <2>1. /\ net' = net \cup {In(d, "PING", d.node)}
        /\ UNCHANGED <<sockets, connecting, pingRecord>>
    BY <1>2 DEF NodeSends
  <2>2. ~IsPingOut(In(d, "PING", d.node)) /\ ~IsPongIn(In(d, "PING", d.node))
    BY InIs DEF IsPingOut, IsPongIn
  <2> QED
    BY <2>1, <2>2, OthersKeepRecorded
<1> QED
  BY <1>1, <1>2 DEF NodeAnswersPing

(* What the handlers send is a PONG or a FIND_NODE.                          *)
LEMMA HandlersKeepRecorded ==
    ASSUME Inv, PingsRecorded,
           \/ \E d \in net : HandlePing(d) \/ HandlePong(d) \/ HandleNeighbors(d)
           \/ \E a \in Addresses : Alive(a)
           \/ \E d \in net : NodeAnswersFindNode(d)
    PROVE  PingsRecorded'
<1> USE DEF recordVars, historyVars
<1>0. UNCHANGED <<sockets, connecting, pingRecord>>
  BY DEF HandlePing, HandlePong, HandleNeighbors, Alive, NodeAnswersFindNode, NodeSends
<1>1. ASSUME NEW e \in net' \ net PROVE ~IsPingOut(e) /\ ~IsPongIn(e)
  <2>1. ASSUME NEW address, NEW targets, FindNeighbors(address, targets)
        PROVE  ~IsPingOut(e) /\ ~IsPongIn(e)
    <3>1. PICK t : e = Out("FIND_NODE", t)
      BY <2>1 DEF FindNeighbors
    <3> QED
      BY <3>1 DEF Out, IsPingOut, IsPongIn
  <2>2. ASSUME NEW d \in net, HandlePing(d) PROVE ~IsPingOut(e) /\ ~IsPongIn(e)
    <3>1. e = Out("PONG", d.content)
      BY <2>2 DEF HandlePing
    <3> QED
      BY <3>1 DEF Out, IsPingOut, IsPongIn
  <2>3. ASSUME NEW d \in net, NodeAnswersFindNode(d) PROVE ~IsPingOut(e) /\ ~IsPongIn(e)
    <3>1. PICK content : e = In(d, "NEIGHBORS", content)
      BY <2>3 DEF NodeAnswersFindNode, NodeSends
    <3> QED
      BY <3>1 DEF In, IsPingOut, IsPongIn
  <2> QED
    BY <2>1, <2>2, <2>3 DEF HandlePong, HandleNeighbors, Alive
<1> QED
  BY <1>0, <1>1, OthersKeepRecorded

LEMMA NextKeepsRecorded ==
    ASSUME ~Overlapping, ~Repeated
    PROVE  Inv /\ PingsRecorded /\ [Next]_vars => PingsRecorded'
<1> SUFFICES ASSUME Inv, PingsRecorded, [Next]_vars PROVE PingsRecorded'
  OBVIOUS
<1>1. CASE UNCHANGED vars
  BY <1>1, OthersKeepRecorded DEF vars, recordVars, historyVars
<1>2. CASE Next
  BY <1>2, ConnectKeepsRecorded, SendPingKeepsRecorded, AnswerKeepsRecorded,
     HandlersKeepRecorded DEF Next
<1> QED
  BY <1>1, <1>2

(* One bootstrap at a time and each of another node, as                      *)
(* scripts/connectToPeerWire.ts has it: no honest pong, late, doubled or out *)
(* of order, trips the assertion of NodeManager.messageHandler.              *)
THEOREM PongsMatch ==
    ASSUME ~Overlapping, ~Repeated
    PROVE  Spec => []NoUnmatchedPong
<1>1. Init => PingsRecorded /\ NoUnmatchedPong
  BY DEF Init, PingsRecorded, NoUnmatchedPong, IsInjective
<1>2. Inv /\ PingsRecorded /\ NoUnmatchedPong /\ [Next]_vars => NoUnmatchedPong'
  <2> SUFFICES ASSUME Inv, PingsRecorded, NoUnmatchedPong, [Next]_vars
               PROVE  NoUnmatchedPong'
    OBVIOUS
  <2>1. ASSUME NEW d \in net, HandlePong(d) PROVE NoUnmatchedPong'
    <3>1. IsPongIn(d)
      BY <2>1 DEF HandlePong, Receive, IsPongIn
    <3>2. PongMatches(d)
      BY <3>1 DEF PingsRecorded, PongMatches
    <3> QED
      BY <2>1, <3>2 DEF HandlePong, NoUnmatchedPong
  <2>2. ASSUME UNCHANGED crashed PROVE NoUnmatchedPong'
    BY <2>2 DEF NoUnmatchedPong
  <2> QED
    BY <2>1, <2>2 DEF Next, vars, Connect, Alive, SendPing, HandlePing, HandleNeighbors,
       NodeAnswersPing, NodeAnswersFindNode, NodeSends
<1>3. Inv /\ PingsRecorded /\ [Next]_vars => PingsRecorded'
  BY NextKeepsRecorded
<1> QED
  BY <1>1, <1>2, <1>3, InvHolds, PTL DEF Spec

----------------------------------------------------------------------------
(* One bootstrap *)

LEMMA ConnectKeepsOneNode ==
    ASSUME Inv, OneNode, NEW a \in Addresses, Connect(a)
    PROVE  OneNode'
<1> USE DEF recordVars, historyVars
<1> SUFFICES ASSUME Len(sockets') = 1 PROVE OneNode'
  BY DEF OneNode
<1>1. sockets \in Seq(Addresses) /\ sockets' = Append(sockets, a)
  BY DEF Connect, Inv, TypeOK
<1>2. Len(sockets) = 0 /\ sockets = <<>>
  BY <1>1
<1>3. net = {} /\ pinged = {} /\ \A b \in Addresses : aliveDue[b] = 0
  <2>1. \A d \in net : d.sock \in 1 .. 0
    BY <1>2 DEF Inv, TypeOK
  <2> QED
    BY <1>2, <2>1 DEF Inv, Bootstraps
<1>4. UNCHANGED <<net, pinged, aliveDue>>
  BY DEF Connect
<1> QED
  BY <1>3, <1>4 DEF OneNode, PongReachesPinger

(* The other steps leave the sockets alone; each is asked for what it sends, *)
(* and for what it learns of the node.                                       *)
LEMMA StepKeepsOneNode ==
    ASSUME Inv, OneNode, UNCHANGED sockets, net \subseteq net', contacted \subseteq contacted',
           Len(sockets) = 1 =>
             /\ \A d \in net' \ net :
                  /\ d.node = sockets[1]
                  /\ (d.dir = "in" /\ d.type = "PING") => d.content = d.node
                  /\ d.type \in {"FIND_NODE", "NEIGHBORS"} => sockets[1] \in contacted'
             /\ \A a \in Addresses : aliveDue'[a] > 0 => aliveDue[a] > 0 \/ sockets[1] \in contacted'
             /\ \A a \in pinged' \ pinged : \E d \in net' :
                  d.dir = "out" /\ d.type = "PONG" /\ d.node = a /\ d.content = a
    PROVE  OneNode'
<1> SUFFICES ASSUME Len(sockets) = 1 PROVE OneNode'
  BY DEF OneNode
<1>1. PongReachesPinger'
  <2> SUFFICES ASSUME NEW a \in pinged'
               PROVE  \E d \in net' : d.dir = "out" /\ d.type = "PONG" /\ d.node = a /\ d.content = a
    BY DEF PongReachesPinger
  <2>1. CASE a \in pinged
    BY <2>1 DEF OneNode, PongReachesPinger
  <2>2. CASE a \notin pinged
    BY <2>2
  <2> QED
    BY <2>1, <2>2
<1>2. \A d \in net' : d.node = sockets'[1]
  BY DEF OneNode
<1>3. \A d \in net' : d.dir = "in" /\ d.type = "PING" => d.content = d.node
  BY DEF OneNode
<1>4. \A d \in net' : d.type \in {"FIND_NODE", "NEIGHBORS"} => sockets'[1] \in contacted'
  BY DEF OneNode
<1>5. \A a \in Addresses : aliveDue'[a] > 0 => sockets'[1] \in contacted'
  BY DEF OneNode
<1> QED
  BY <1>1, <1>2, <1>3, <1>4, <1>5 DEF OneNode

LEMMA NextKeepsOneNode == Inv /\ OneNode /\ [Next]_vars => OneNode'
<1> SUFFICES ASSUME Inv, OneNode, [Next]_vars PROVE OneNode'
  OBVIOUS
<1> USE DEF vars, recordVars, historyVars
<1>a. TypeOK
  BY DEF Inv
<1>1. ASSUME NEW a \in Addresses, Connect(a) PROVE OneNode'
  BY <1>1, ConnectKeepsOneNode
<1>2. CASE UNCHANGED vars
  BY <1>2, StepKeepsOneNode
<1>b. ASSUME Len(sockets) = 1, NEW type, NEW content
      PROVE  /\ Out(type, content).dir = "out" /\ Out(type, content).type = type
             /\ Out(type, content).content = content
             /\ Out(type, content).node = sockets[1]
  <2>1. sockets # <<>>
    BY <1>b
  <2> QED
    BY <1>a, <1>b, <2>1, OutIs
<1>3. CASE SendPing
  <2>1. PICK hash : hash = pings'
    OBVIOUS
  <2>2. PICK e : e = Out("PING", hash)
    OBVIOUS
  <2>3. /\ UNCHANGED <<sockets, aliveDue, contacted, pinged>>
        /\ net' = net \cup {e}
    BY <1>3, <2>1, <2>2 DEF SendPing
  <2>4. Len(sockets) = 1 => e.node = sockets[1] /\ e.dir = "out" /\ e.type = "PING"
    BY <1>b, <2>2
  <2> QED
    BY <2>3, <2>4, StepKeepsOneNode
<1>4. ASSUME NEW d \in net, HandlePing(d) PROVE OneNode'
  <2>1. PICK e : e = Out("PONG", d.content)
    OBVIOUS
  <2>2. /\ UNCHANGED sockets /\ net' = net \cup {e}
        /\ contacted' = contacted \cup {d.node} /\ pinged' = pinged \cup {d.node}
        /\ d.dir = "in" /\ d.type = "PING"
    BY <1>4, <2>1 DEF HandlePing, Receive
  <2>3. Len(sockets) = 1 =>
          /\ e.dir = "out" /\ e.type = "PONG" /\ e.content = d.content
          /\ e.node = sockets[1]
    BY <1>b, <2>1
  <2>4. Len(sockets) = 1 => d.node = sockets[1] /\ d.content = d.node
    BY <2>2 DEF OneNode
  <2> HIDE <1>4
  <2>5. Len(sockets) = 1 => \A a \in Addresses : aliveDue'[a] > 0 => sockets[1] \in contacted'
    BY <2>2, <2>4
  <2> QED
    BY <2>2, <2>3, <2>4, <2>5, StepKeepsOneNode
<1>5. ASSUME UNCHANGED <<sockets, pinged>>, contacted \subseteq contacted',
             Len(sockets) = 1 => sockets[1] \in contacted',
             \A a \in Addresses : aliveDue'[a] > 0 => aliveDue[a] > 0,
             NEW address \in Addresses, NEW targets, FindNeighbors(address, targets),
             sockets # <<>>
      PROVE  OneNode'
  <2>1. net' = net \cup {Out("FIND_NODE", t) : t \in targets}
    BY <1>5, <1>a, FindNeighborsSends
  <2>2. ASSUME NEW e \in net' \ net, Len(sockets) = 1
        PROVE  e.node = sockets[1] /\ e.dir = "out"
    <3>1. PICK t : e = Out("FIND_NODE", t)
      BY <2>1
    <3> QED
      BY <1>5, <1>a, <2>2, <3>1, OutIs
  <2> QED
    BY <1>5, <2>1, <2>2, StepKeepsOneNode
<1>6. ASSUME NEW d \in net, HandlePong(d) PROVE OneNode'
  <2>0. /\ sockets # <<>> /\ sockets[d.sock] \in Addresses
        /\ UNCHANGED <<sockets, pinged, aliveDue>>
    BY <1>6, NetNeedsSocket DEF HandlePong
  <2>1. CASE PongMatches(d)
    <3>1. FindNeighbors(sockets[d.sock], {NoTarget}) /\ contacted' = contacted \cup {d.node}
      BY <1>6, <1>a, <2>1, NeverFoundSent DEF HandlePong
    <3>2. Len(sockets) = 1 => sockets[1] \in contacted'
      BY <3>1 DEF OneNode
    <3> QED
      BY <2>0, <3>1, <3>2, <1>5
  <2>2. CASE ~PongMatches(d)
    BY <1>6, <2>0, <2>2, StepKeepsOneNode DEF HandlePong
  <2> QED
    BY <2>1, <2>2
<1>7. ASSUME NEW a \in Addresses, Alive(a) PROVE OneNode'
  <2>1. FindNeighbors(a, {NoTarget}) /\ UNCHANGED <<sockets, pinged, contacted>>
    BY <1>7, <1>a, NeverFoundSent DEF Alive
  <2>2. aliveDue[a] > 0 /\ aliveDue' = [aliveDue EXCEPT ![a] = @ - 1]
    BY <1>7 DEF Alive
  <2>3. Len(sockets) = 1 => sockets[1] \in contacted'
    BY <2>1, <2>2 DEF OneNode
  <2>4. \A b \in Addresses : aliveDue'[b] > 0 => aliveDue[b] > 0
    BY <2>2, <1>a DEF TypeOK
  <2>5. sockets # <<>>
    BY <2>2, <1>a DEF Inv, TypeOK, Bootstraps
  <2> QED
    BY <2>1, <2>3, <2>4, <2>5, <1>5
<1>8. ASSUME NEW d \in net, HandleNeighbors(d) PROVE OneNode'
  <2>1. /\ FindNeighbors(sockets[d.sock], Range(NewNodes(d.content)))
        /\ UNCHANGED <<sockets, pinged, contacted, aliveDue>> /\ d.type = "NEIGHBORS"
    BY <1>8 DEF HandleNeighbors, Receive
  <2>2. Len(sockets) = 1 => sockets[1] \in contacted'
    BY <2>1 DEF OneNode
  <2>3. sockets # <<>> /\ sockets[d.sock] \in Addresses
    BY NetNeedsSocket
  <2> QED
    BY <2>1, <2>2, <2>3, <1>5
<1>9. ASSUME NEW d \in net, NodeAnswersPing(d) \/ NodeAnswersFindNode(d) PROVE OneNode'
  <2>1. PICK type, content :
          /\ NodeSends(d, type, content)
          /\ type = "PING" => content = d.node
          /\ type \in {"FIND_NODE", "NEIGHBORS"} => d.type = "FIND_NODE"
    BY <1>9 DEF NodeAnswersPing, NodeAnswersFindNode
  <2>2. /\ UNCHANGED <<sockets, pinged, contacted, aliveDue>>
        /\ net' = net \cup {In(d, type, content)}
    BY <2>1 DEF NodeSends
  <2>3. PICK e : e = In(d, type, content)
    OBVIOUS
  <2>4. e.type = type /\ e.node = d.node /\ e.content = content
    BY <2>3, InIs
  <2>5. Len(sockets) = 1 =>
          /\ e.node = sockets[1]
          /\ e.type = "PING" => e.content = e.node
          /\ e.type \in {"FIND_NODE", "NEIGHBORS"} => sockets[1] \in contacted'
    BY <2>1, <2>2, <2>4 DEF OneNode
  <2> QED
    BY <2>2, <2>3, <2>5, StepKeepsOneNode
<1> QED
  BY <1>1, <1>2, <1>3, <1>4, <1>6, <1>7, <1>8, <1>9 DEF Next

(* As long as there was one bootstrap, whatever the network does: the node   *)
(* gets the pong to its ping, and FIND_NODE only after it proved its         *)
(* endpoint.                                                                 *)
THEOREM OneNodeServed == Spec => []OneNodeIsServed
<1>1. Init => OneNode
  BY DEF Init, OneNode
<1>2. Inv /\ OneNode => OneNodeIsServed
  BY DEF Inv, TypeOK, OneNode, OneNodeIsServed, FindNodeAfterContact
<1> QED
  BY <1>1, <1>2, NextKeepsOneNode, InvHolds, PTL DEF Spec

=============================================================================
