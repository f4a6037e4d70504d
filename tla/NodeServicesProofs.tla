------------------------- MODULE NodeServicesProofs -------------------------
(***************************************************************************)
(* Proofs about the services of a node, each for any number of what it     *)
(* deals with: the peer connections, the users who log in and sign, the    *)
(* token ledgers and the sales with their escrow.                          *)
(***************************************************************************)
EXTENDS MCNodeServices, Sums
-----------------------------------------------------------------------------
(* The peer connections                                                    *)

\* Without a race a peer id has one socket.
OneSocketEach ==
   ~raced => \A c, d \in Sock : Alive(c) /\ Alive(d) /\ sock[c].peer = sock[d].peer => c = d

AliveHavePeer == \A c \in Sock : Alive(c) => sock[c].peer \in PeerId

\* A PONG comes after a PING on the same socket.
OwedWasPinged == \A c \in Sock : sock[c].owed => sock[c].pinged

PeerInv ==
   /\ PeerTypeOK
   /\ AliveHavePeer
   /\ OneSocketEach
   /\ OwedWasPinged
   /\ TableIsLive
   /\ PeerDataIsOwn

USE DEF Connection, SockState, NoConnection, Alive, AliveHavePeer, Listed

LEMMA InitHolds == PeerInit => PeerInv
<1> SUFFICES ASSUME PeerInit PROVE PeerInv
   OBVIOUS
<1> USE PeerAssumption DEF PeerInit
<1>1. NoConnection \in Connection OBVIOUS
<1>2. PeerTypeOK BY <1>1 DEF PeerTypeOK
<1>3. \A c \in Sock : ~Alive(c) OBVIOUS
<1>4. AliveHavePeer /\ OneSocketEach BY <1>3 DEF OneSocketEach
<1>5. OwedWasPinged BY DEF OwedWasPinged
<1>6. TableIsLive BY DEF TableIsLive
<1>7. PeerDataIsOwn BY DEF PeerDataIsOwn
<1> QED BY <1>2, <1>4, <1>5, <1>6, <1>7 DEF PeerInv

(* A step that only changes what is said on a connection keeps the table and *)
(* whose the sockets are.                                                    *)
LEMMA TalkKeeps ==
   ASSUME PeerInv, UNCHANGED <<peers, raced>>,
          \A c \in Sock : sock'[c].peer = sock[c].peer /\ sock'[c].state = sock[c].state
   PROVE  AliveHavePeer' /\ OneSocketEach' /\ TableIsLive'
<1> USE DEF PeerInv
<1>1. AliveHavePeer' OBVIOUS
<1>2. OneSocketEach' BY DEF OneSocketEach
<1>3. TableIsLive'
   <2>1. \A p \in Listed : peers[p] \in Sock BY DEF PeerTypeOK
   <2> QED BY <2>1 DEF TableIsLive
<1> QED BY <1>1, <1>2, <1>3

(* Dialling adds a socket that no entry holds; it is a race if the peer has  *)
(* another.                                                                  *)
LEMMA ConnectKeeps ==
   ASSUME PeerInv, NEW c \in Sock, NEW p \in PeerId, ConnectToPeer(c, p)
   PROVE  PeerInv'
<1> USE PeerAssumption DEF ConnectToPeer, Start, PeerInv
<1>1. PeerTypeOK' BY DEF PeerTypeOK
<1>2. AliveHavePeer' BY DEF PeerTypeOK
<1>3. OneSocketEach' BY DEF PeerTypeOK, OneSocketEach
<1>4. OwedWasPinged' BY DEF PeerTypeOK, OwedWasPinged
<1>5. TableIsLive' BY DEF PeerTypeOK, TableIsLive
<1>6. PeerDataIsOwn' BY DEF PeerTypeOK, PeerDataIsOwn
<1> QED BY <1>1, <1>2, <1>3, <1>4, <1>5, <1>6

LEMMA AcceptKeeps ==
   ASSUME PeerInv, NEW c \in Sock, NEW p \in PeerId, AcceptPeerConnection(c, p)
   PROVE  PeerInv'
<1> USE PeerAssumption DEF AcceptPeerConnection, Start, PeerInv
<1>1. PeerTypeOK' BY DEF PeerTypeOK
<1>2. AliveHavePeer' BY DEF PeerTypeOK
<1>3. OneSocketEach' BY DEF PeerTypeOK, OneSocketEach
<1>4. OwedWasPinged' BY DEF PeerTypeOK, OwedWasPinged
<1>5. TableIsLive'
   <2>1. /\ sock'[c].peer = p /\ sock'[c].state = "open"
         /\ \A d \in Sock \ {c} : sock'[d] = sock[d]
      BY DEF PeerTypeOK
   <2>2. \A q \in PeerId : peers'[q] = IF q = p THEN c ELSE peers[q]
      BY DEF PeerTypeOK
   <2>3. ASSUME NEW q \in Listed'
         PROVE  sock'[peers'[q]].peer = q /\ sock'[peers'[q]].state = "open"
      <3>1. CASE q = p BY <2>1, <2>2, <3>1
      <3>2. CASE q # p
         <4>1. peers'[q] = peers[q] /\ q \in Listed /\ peers[q] \in Sock
            BY <2>2, <3>2 DEF PeerTypeOK
         <4>2. sock[peers[q]].peer = q /\ sock[peers[q]].state = "open"
            BY <4>1 DEF TableIsLive
         <4> QED BY <2>1, <4>1, <4>2
      <3> QED BY <3>1, <3>2
   <2>4. ASSUME ~raced', NEW d \in Sock, sock'[d].state = "open"
         PROVE  peers'[sock'[d].peer] = d
      <3>1. CASE d = c BY <2>1, <2>2, <3>1
      <3>2. CASE d # c
         <4>1. sock'[d] = sock[d] /\ sock[d].state = "open" BY <2>1, <2>4, <3>2
         <4>2. sock[d].peer # p /\ sock[d].peer \in PeerId BY <2>4, <4>1
         <4>3. peers[sock[d].peer] = d BY <2>4, <4>1 DEF TableIsLive, PeerTypeOK
         <4> QED BY <2>2, <4>1, <4>2, <4>3
      <3> QED BY <3>1, <3>2
   <2> QED BY <2>3, <2>4 DEF TableIsLive
<1>6. PeerDataIsOwn' BY DEF PeerTypeOK, PeerDataIsOwn
<1> QED BY <1>1, <1>2, <1>3, <1>4, <1>5, <1>6

LEMMA OpenedKeeps ==
   ASSUME PeerInv, NEW c \in Sock, Opened(c)
   PROVE  PeerInv'
<1> USE PeerAssumption DEF Opened, Greeted, PeerInv
<1>1. PeerTypeOK'
   <2>1. Greeted([sock[c] EXCEPT !.state = "open"]) \in Connection BY DEF PeerTypeOK
   <2> QED BY <2>1 DEF PeerTypeOK
<1>2. AliveHavePeer' BY DEF PeerTypeOK
<1>3. OneSocketEach' BY DEF PeerTypeOK, OneSocketEach
<1>4. OwedWasPinged' BY DEF PeerTypeOK, OwedWasPinged
<1>5. TableIsLive' BY DEF PeerTypeOK, TableIsLive, OneSocketEach
<1>6. PeerDataIsOwn' BY DEF PeerTypeOK, PeerDataIsOwn
<1> QED BY <1>1, <1>2, <1>3, <1>4, <1>5, <1>6

(* The socket that goes is the only one an entry of its peer can hold, unless *)
(* there was a race; no entry of another peer holds it.                       *)
LEMMA GoneKeeps ==
   ASSUME PeerInv, NEW c \in Sock, Alive(c),
          sock' = [sock EXCEPT ![c] = NoConnection],
          peers' = [peers EXCEPT ![sock[c].peer] = NoSock],
          UNCHANGED raced
   PROVE  PeerInv'
<1> USE PeerAssumption DEF PeerInv
<1>1. PeerTypeOK' BY DEF PeerTypeOK
<1>2. AliveHavePeer' BY DEF PeerTypeOK
<1>3. OneSocketEach' BY DEF PeerTypeOK, OneSocketEach
<1>4. OwedWasPinged' BY DEF PeerTypeOK, OwedWasPinged
<1>5. TableIsLive' BY DEF PeerTypeOK, TableIsLive, OneSocketEach
<1>6. PeerDataIsOwn' BY DEF PeerTypeOK, PeerDataIsOwn
<1> QED BY <1>1, <1>2, <1>3, <1>4, <1>5, <1>6

(* A disconnection closes sockets that entries hold and deletes the entries. *)
LEMMA ClosingKeeps ==
   ASSUME PeerInv, NEW ps \in SUBSET Listed,
          sock' = Closing({peers[p] : p \in ps}),
          peers' = [p \in PeerId |-> IF p \in ps THEN NoSock ELSE peers[p]],
          UNCHANGED raced
   PROVE  PeerInv'
<1> DEFINE shut == {peers[p] : p \in ps}
<1>1. /\ sock \in [Sock -> Connection] /\ peers \in [PeerId -> Sock \cup {NoSock}]
      /\ raced \in BOOLEAN
   BY DEF PeerInv, PeerTypeOK
<1>2. ASSUME NEW d \in Sock
      PROVE  /\ sock'[d] \in Connection
             /\ sock'[d].peer = sock[d].peer
             /\ sock'[d].state = IF d \in shut THEN "closing" ELSE sock[d].state
             /\ sock'[d].owed = sock[d].owed /\ sock'[d].pinged = sock[d].pinged
             /\ sock'[d].greetedBy = sock[d].greetedBy
             /\ sock'[d].latency = sock[d].latency
   <2>1. sock[d] \in Connection BY <1>1
   <2>2. sock'[d] = IF d \in shut THEN [sock[d] EXCEPT !.state = "closing"] ELSE sock[d]
      BY DEF Closing
   <2> HIDE DEF shut
   <2>3. CASE d \in shut BY <2>1, <2>2, <2>3
   <2>4. CASE d \notin shut BY <2>1, <2>2, <2>4
   <2> QED BY <2>3, <2>4
<1>3. sock' \in [Sock -> Connection]
   <2>1. sock' = [d \in Sock |-> sock'[d]] BY DEF Closing
   <2> QED BY <2>1, <1>2
<1>4. PeerTypeOK' BY <1>1, <1>3 DEF PeerTypeOK
<1>5. \A d \in shut : d \in Sock /\ sock[d].state = "open" /\ sock[d].peer \in ps
   BY <1>1 DEF PeerInv, TableIsLive
<1>6. \A d \in Sock : Alive(d)' <=> Alive(d)
   <2> HIDE DEF shut
   <2> QED BY <1>2, <1>5
<1>7. AliveHavePeer' BY <1>2, <1>6 DEF PeerInv
<1>8. OneSocketEach' BY <1>2, <1>6 DEF PeerInv, OneSocketEach
<1>9. OwedWasPinged' BY <1>2 DEF PeerInv, OwedWasPinged
<1>10. PeerDataIsOwn' BY <1>2 DEF PeerInv, PeerDataIsOwn
<1>11. TableIsLive'
   <2>1. ASSUME NEW p \in Listed'
         PROVE  sock'[peers'[p]].peer = p /\ sock'[peers'[p]].state = "open"
      <3>1. p \in Listed /\ p \notin ps /\ peers'[p] = peers[p] /\ peers[p] \in Sock
         BY <1>1
      <3>2. sock[peers[p]].peer = p /\ sock[peers[p]].state = "open"
         BY <3>1 DEF PeerInv, TableIsLive
      <3>3. peers[p] \notin shut BY <1>5, <3>1, <3>2
      <3> HIDE DEF shut
      <3> QED BY <1>2, <3>1, <3>2, <3>3
   <2>2. ASSUME ~raced', NEW d \in Sock, sock'[d].state = "open"
         PROVE  peers'[sock'[d].peer] = d
      <3> HIDE DEF shut
      <3>1. d \notin shut /\ sock[d].state = "open" BY <1>2, <2>2
      <3>2. peers[sock[d].peer] = d /\ sock[d].peer \in PeerId
         BY <2>2, <3>1 DEF PeerInv, TableIsLive
      <3>3. sock[d].peer \notin ps BY <3>1, <3>2 DEF shut
      <3> QED BY <1>2, <3>2, <3>3
   <2> QED BY <2>1, <2>2 DEF TableIsLive
<1> QED BY <1>4, <1>7, <1>8, <1>9, <1>10, <1>11 DEF PeerInv

LEMMA DisconnectKeeps ==
   ASSUME PeerInv, NEW p \in PeerId, DisconnectPeer(p)
   PROVE  PeerInv'
<1>1. {p} \in SUBSET Listed BY DEF DisconnectPeer
<1>2. {peers[p]} = {peers[q] : q \in {p}} OBVIOUS
<1>3. peers' = [q \in PeerId |-> IF q \in {p} THEN NoSock ELSE peers[q]]
   BY DEF DisconnectPeer, PeerInv, PeerTypeOK
<1>4. sock' = Closing({peers[q] : q \in {p}}) BY <1>2 DEF DisconnectPeer
<1> QED BY <1>1, <1>3, <1>4, ClosingKeeps DEF DisconnectPeer

LEMMA DisconnectAllKeeps ==
   ASSUME PeerInv, DisconnectAll
   PROVE  PeerInv'
<1>1. peers' = [q \in PeerId |-> IF q \in Listed THEN NoSock ELSE peers[q]]
   BY DEF DisconnectAll
<1> QED BY <1>1, ClosingKeeps DEF DisconnectAll

(* Without a race the connection that a message on c is taken to come from  *)
(* is c's own.                                                               *)
LEMMA OwnSocket ==
   ASSUME PeerInv, ~raced, NEW c \in Sock, NEW o \in Sock, NEW said, Arrives(c, o, said)
   PROVE  o = c
<1>1. sock[c].peer \in PeerId /\ Alive(c) BY DEF PeerInv, Arrives
<1>2. sock[c].peer \in Listed /\ o = peers[sock[c].peer]
   BY <1>1, PeerAssumption DEF Arrives
<1>3. sock[o].peer = sock[c].peer /\ Alive(o) BY <1>2 DEF PeerInv, TableIsLive
<1> QED BY <1>1, <1>3 DEF PeerInv, OneSocketEach

LEMMA HelloKeeps ==
   ASSUME PeerInv, NEW c \in Sock, HandleHello(c)
   PROVE  PeerInv'
<1> DEFINE heard == [sock EXCEPT ![c].coming = FALSE]
<1>1. sock \in [Sock -> Connection] BY DEF PeerInv, PeerTypeOK
<1>10. \A d \in Sock : /\ sock[d] \in Connection /\ heard[d] \in Connection
                      /\ heard[d] = IF d = c THEN [sock[d] EXCEPT !.coming = FALSE] ELSE sock[d]
   BY <1>1
<1>11. heard = [d \in Sock |-> heard[d]] BY <1>1
<1>2. PICK o \in Sock \cup {NoSock} :
         /\ Arrives(c, o, sock[c].coming)
         /\ sock' = IF o = NoSock THEN heard
                    ELSE [heard EXCEPT ![o] = Greeted([@ EXCEPT !.greetedBy = c])]
         /\ UNCHANGED <<peers, raced>>
   BY DEF HandleHello
<1>3. ASSUME NEW d \in Sock
      PROVE  /\ sock'[d] \in Connection
             /\ sock'[d].peer = sock[d].peer /\ sock'[d].state = sock[d].state
             /\ sock'[d].owed = sock[d].owed /\ sock'[d].pinged = sock[d].pinged
             /\ sock'[d].latency = sock[d].latency
             /\ sock'[d].greetedBy = IF d = o THEN c ELSE sock[d].greetedBy
   <2>1. /\ sock[d] \in Connection /\ heard[d] \in Connection
         /\ heard[d] = IF d = c THEN [sock[d] EXCEPT !.coming = FALSE] ELSE sock[d]
      BY <1>10
   <2> HIDE DEF heard
   <2>2. CASE o = NoSock \/ d # o
      <3>1. sock'[d] = heard[d] BY <1>2, <1>11, <2>1, <2>2
      <3>2. d # o BY <2>2, PeerAssumption
      <3> QED BY <2>1, <3>1, <3>2
   <2>3. CASE o # NoSock /\ d = o
      <3>1. sock'[d] = [heard[d] EXCEPT !.greetedBy = c, !.coming = TRUE]
         BY <1>2, <1>11, <2>1, <2>3 DEF Greeted
      <3>2. /\ heard[d].peer = sock[d].peer /\ heard[d].state = sock[d].state
            /\ heard[d].owed = sock[d].owed /\ heard[d].pinged = sock[d].pinged
            /\ heard[d].latency = sock[d].latency
         BY <2>1
      <3>3. /\ sock'[d].peer = heard[d].peer /\ sock'[d].state = heard[d].state
            /\ sock'[d].owed = heard[d].owed /\ sock'[d].pinged = heard[d].pinged
            /\ sock'[d].latency = heard[d].latency /\ sock'[d].greetedBy = c
         BY <2>1, <3>1
      <3>4. sock'[d] \in Connection BY <2>1, <3>1
      <3> QED BY <2>3, <3>2, <3>3, <3>4
   <2> QED BY <2>2, <2>3
<1>4. sock' \in [Sock -> Connection]
   <2>1. sock' = [d \in Sock |-> sock'[d]] BY <1>1, <1>2
   <2> QED BY <2>1, <1>3
<1>5. PeerTypeOK' BY <1>2, <1>4 DEF PeerInv, PeerTypeOK
<1>6. AliveHavePeer' /\ OneSocketEach' /\ TableIsLive' BY <1>2, <1>3, TalkKeeps
<1>7. OwedWasPinged' BY <1>3 DEF PeerInv, OwedWasPinged
<1>8. PeerDataIsOwn'
   <2>1. ~raced' => o \in {c, NoSock} BY <1>2, OwnSocket
   <2>2. ASSUME ~raced', NEW d \in Sock
         PROVE  sock'[d].greetedBy \in {d, NoSock} /\ sock'[d].latency # "epoch"
      <3>1. sock[d].greetedBy \in {d, NoSock} /\ sock[d].latency # "epoch"
         BY <1>2, <2>2 DEF PeerInv, PeerDataIsOwn
      <3>2. sock'[d].latency = sock[d].latency BY <1>3
      <3>3. sock'[d].greetedBy = IF d = o THEN c ELSE sock[d].greetedBy BY <1>3
      <3> QED BY <2>1, <2>2, <3>1, <3>2, <3>3, PeerAssumption
   <2> QED BY <2>2 DEF PeerDataIsOwn
<1> QED BY <1>5, <1>6, <1>7, <1>8 DEF PeerInv

LEMMA PongKeeps ==
   ASSUME PeerInv, NEW c \in Sock, HandlePong(c)
   PROVE  PeerInv'
<1> DEFINE heard == [sock EXCEPT ![c].owed = FALSE]
<1>1. sock \in [Sock -> Connection] BY DEF PeerInv, PeerTypeOK
<1>10. \A d \in Sock : /\ sock[d] \in Connection /\ heard[d] \in Connection
                      /\ heard[d] = IF d = c THEN [sock[d] EXCEPT !.owed = FALSE] ELSE sock[d]
   BY <1>1
<1>11. heard = [d \in Sock |-> heard[d]] BY <1>1
<1>2. PICK o \in Sock \cup {NoSock} :
         /\ Arrives(c, o, sock[c].owed)
         /\ sock' = IF o = NoSock THEN heard
                    ELSE [heard EXCEPT ![o].latency = IF sock[o].pinged THEN "measured"
                                                                        ELSE "epoch"]
         /\ UNCHANGED <<peers, raced>>
   BY DEF HandlePong
<1>3. ASSUME NEW d \in Sock
      PROVE  /\ sock'[d] \in Connection
             /\ sock'[d].peer = sock[d].peer /\ sock'[d].state = sock[d].state
             /\ sock'[d].owed => sock[d].owed
             /\ sock'[d].pinged = sock[d].pinged
             /\ sock'[d].greetedBy = sock[d].greetedBy
             /\ sock'[d].latency = "epoch" =>
                   sock[d].latency = "epoch" \/ (d = o /\ ~sock[d].pinged)
   <2>1. /\ sock[d] \in Connection /\ heard[d] \in Connection
         /\ heard[d] = IF d = c THEN [sock[d] EXCEPT !.owed = FALSE] ELSE sock[d]
      BY <1>10
   <2> HIDE DEF heard
   <2>2. CASE o = NoSock \/ d # o
      <3>1. sock'[d] = heard[d] BY <1>2, <1>11, <2>1, <2>2
      <3> QED BY <2>1, <2>2, <3>1
   <2>3. CASE o # NoSock /\ d = o
      <3>1. sock'[d] = [heard[d] EXCEPT !.latency = IF sock[d].pinged THEN "measured"
                                                                      ELSE "epoch"]
         BY <1>2, <1>11, <2>1, <2>3
      <3> QED BY <2>1, <2>3, <3>1
   <2> QED BY <2>2, <2>3
<1>4. sock' \in [Sock -> Connection]
   <2>1. sock' = [d \in Sock |-> sock'[d]] BY <1>1, <1>2
   <2> QED BY <2>1, <1>3
<1>5. PeerTypeOK' BY <1>2, <1>4 DEF PeerInv, PeerTypeOK
<1>6. AliveHavePeer' /\ OneSocketEach' /\ TableIsLive' BY <1>2, <1>3, TalkKeeps
<1>7. OwedWasPinged' BY <1>3 DEF PeerInv, OwedWasPinged
<1>8. PeerDataIsOwn'
   <2>1. ~raced' => o \in {c, NoSock} BY <1>2, OwnSocket
   <2>2. sock[c].pinged BY <1>2 DEF Arrives, PeerInv, OwedWasPinged
   <2>3. ASSUME ~raced', NEW d \in Sock
         PROVE  sock'[d].greetedBy \in {d, NoSock} /\ sock'[d].latency # "epoch"
      <3>1. sock[d].greetedBy \in {d, NoSock} /\ sock[d].latency # "epoch"
         BY <1>2, <2>3 DEF PeerInv, PeerDataIsOwn
      <3>2. sock'[d].greetedBy = sock[d].greetedBy BY <1>3
      <3>3. d = o => sock[d].pinged BY <2>1, <2>2, <2>3, PeerAssumption
      <3> QED BY <1>3, <3>1, <3>2, <3>3
   <2> QED BY <2>3 DEF PeerDataIsOwn
<1> QED BY <1>5, <1>6, <1>7, <1>8 DEF PeerInv

LEMMA PingKeeps ==
   ASSUME PeerInv, PingAllPeers
   PROVE  PeerInv'
<1> DEFINE asked == {peers[p] : p \in Listed}
<1>1. sock \in [Sock -> Connection] /\ UNCHANGED <<peers, raced>>
   BY DEF PeerInv, PeerTypeOK, PingAllPeers
<1>2. ASSUME NEW d \in Sock
      PROVE  /\ sock'[d] \in Connection
             /\ sock'[d].peer = sock[d].peer /\ sock'[d].state = sock[d].state
             /\ sock'[d].owed /\ ~sock'[d].pinged => sock[d].owed /\ ~sock[d].pinged
             /\ sock'[d].greetedBy = sock[d].greetedBy
             /\ sock'[d].latency = sock[d].latency
   <2>1. sock[d] \in Connection BY <1>1
   <2>2. sock'[d] = IF d \in asked THEN [sock[d] EXCEPT !.pinged = TRUE, !.owed = TRUE]
                    ELSE sock[d]
      BY DEF PingAllPeers
   <2> HIDE DEF asked
   <2>3. CASE d \in asked BY ZenonT(40), <2>1, <2>2, <2>3
   <2>4. CASE d \notin asked BY <2>1, <2>2, <2>4
   <2> QED BY <2>3, <2>4
<1>3. sock' \in [Sock -> Connection]
   <2>1. sock' = [d \in Sock |-> sock'[d]] BY DEF PingAllPeers
   <2> QED BY <2>1, <1>2
<1>4. PeerTypeOK' BY <1>1, <1>3 DEF PeerInv, PeerTypeOK
<1>5. AliveHavePeer' /\ OneSocketEach' /\ TableIsLive' BY <1>1, <1>2, TalkKeeps
<1>6. OwedWasPinged' BY <1>2 DEF PeerInv, OwedWasPinged
<1>7. PeerDataIsOwn' BY <1>1, <1>2 DEF PeerInv, PeerDataIsOwn
<1> QED BY <1>4, <1>5, <1>6, <1>7 DEF PeerInv

LEMMA StepKeeps == PeerInv /\ [PeerStep]_peerVars => PeerInv'
<1> SUFFICES ASSUME PeerInv, [PeerStep]_peerVars PROVE PeerInv'
   OBVIOUS
<1>1. ASSUME NEW c \in Sock, NEW p \in PeerId, ConnectToPeer(c, p) PROVE PeerInv'
   BY <1>1, ConnectKeeps
<1>2. ASSUME NEW c \in Sock, NEW p \in PeerId, AcceptPeerConnection(c, p) PROVE PeerInv'
   BY <1>2, AcceptKeeps
<1>3. ASSUME NEW c \in Sock, Opened(c) PROVE PeerInv'
   BY <1>3, OpenedKeeps
<1>4. ASSUME NEW c \in Sock, Refused(c) \/ Closed(c) PROVE PeerInv'
   BY <1>4, GoneKeeps DEF Refused, Closed
<1>5. ASSUME NEW c \in Sock, HandleHello(c) PROVE PeerInv'
   BY <1>5, HelloKeeps
<1>6. ASSUME NEW c \in Sock, HandlePong(c) PROVE PeerInv'
   BY <1>6, PongKeeps
<1>7. ASSUME NEW p \in PeerId, DisconnectPeer(p) PROVE PeerInv'
   BY <1>7, DisconnectKeeps
<1>8. CASE DisconnectAll
   BY <1>8, DisconnectAllKeeps
<1>9. CASE PingAllPeers
   BY <1>9, PingKeeps
<1>10. CASE UNCHANGED peerVars
   BY <1>10 DEF peerVars, PeerInv, PeerTypeOK, OneSocketEach, OwedWasPinged,
      TableIsLive, PeerDataIsOwn
<1> QED BY <1>1, <1>2, <1>3, <1>4, <1>5, <1>6, <1>7, <1>8, <1>9, <1>10 DEF PeerStep

(* The table (connectToPeer, acceptPeerConnection, disconnectPeer and the     *)
(* close handlers) and the messages keep the inductive invariant.            *)
THEOREM PeerInvariant == PeerSpec => []PeerInv
BY InitHolds, StepKeeps, PTL DEF PeerSpec

(* Whatever sockets overlap, an entry of the table (connectToPeer,           *)
(* acceptPeerConnection and their close handlers) holds an open socket of    *)
(* its own peer, and without a race no open socket is missing from it.       *)
THEOREM TableAlwaysLive == PeerSpec => []TableIsLive
<1>1. PeerInv => TableIsLive BY DEF PeerInv
<1> QED BY <1>1, PeerInvariant, PTL

(* Without a race of two sockets of one peer, a greeting and a latency       *)
(* (handleHelloMessage, handlePongMessage) are those of the peer's own       *)
(* connection.                                                               *)
THEOREM PeerDataAlwaysOwn == PeerSpec => []PeerDataIsOwn
<1>1. PeerInv => PeerDataIsOwn BY DEF PeerInv
<1> QED BY <1>1, PeerInvariant, PTL

HIDE DEF Connection, SockState, NoConnection, Alive, AliveHavePeer, Listed

-----------------------------------------------------------------------------
(* The users who log in and sign                                           *)

\* What a call at its await has of its arguments.
Knows(c) ==
   /\ c.pc # "idle" => c.key \in Key
   /\ c.pc = "login" => c.challenge \in Challenge
   /\ c.pc = "action" => c.nonce \in Nonce
   /\ c.pc = "setup" => c.secret \in Secret

AuthShape ==
   /\ users \in Users
   /\ saved \in Users \cup {Missing}
   /\ challenges \in [Challenge -> ChallengeRecord \cup {Missing}]
   /\ sessions \in [Session -> SessionRecord \cup {Missing}]
   /\ clock \in 0..MaxTime
   /\ call \in [AuthCall -> CallRecord]
   /\ \A t \in AuthCall : Knows(call[t])
   /\ logins \in [Challenge -> Nat]
   /\ accepted \in [Key -> [Nonce -> Nat]]
   /\ clears \in Nat

\* One call holds a challenge, until it has made a session; then none does,
\* and none can begin.
ChallengeHeldOnce ==
   \A c \in Challenge \ crossed :
      /\ \A t, u \in AuthCall : call[t].challenge = c /\ call[u].challenge = c => t = u
      /\ logins[c] <= 1
      /\ logins[c] = 1 => /\ challenges[c] = Missing \/ challenges[c].used
                          /\ \A t \in AuthCall : call[t].challenge # c

Holds(t, k, n) == call[t].key = k /\ call[t].nonce = n

\* One call holds a nonce that is not used yet, and none one that is.
NonceHeldOnce ==
   \A k \in Key, n \in Nonce : <<k, n>> \notin crossed =>
      /\ \A t, u \in AuthCall : Holds(t, k, n) /\ Holds(u, k, n) => t = u
      /\ IF <<k, n>> \in usedNonces
         THEN accepted[k][n] <= 1 + clears /\ \A t \in AuthCall : ~Holds(t, k, n)
         ELSE accepted[k][n] <= clears

Proven(us, k) == us[k] # Missing /\ us[k].enabled => us[k].proven

\* A record held at an await is in the map, and a set-up that will store its
\* secret is of a user without a second factor.
SetupsAreUnanswered ==
   /\ \A t \in AuthCall : call[t].pc \in {"login", "setup"} /\ call[t].live =>
         users[call[t].key] # Missing
   /\ \A k \in Key \ crossed :
         /\ Proven(users, k)
         /\ saved # Missing => Proven(saved, k)
         /\ \A t \in AuthCall : call[t].pc = "setup" /\ call[t].key = k /\ call[t].live =>
               ~users[k].enabled

\* The record a login holds never loses the second factor it had.
AskedIsHeld ==
   \A t \in AuthCall : call[t].pc = "login" /\ call[t].asked => HeldEnabled(t)

AuthInv ==
   /\ AuthShape
   /\ ChallengeHeldOnce
   /\ NonceHeldOnce
   /\ SetupsAreUnanswered
   /\ AskedIsHeld
   /\ SecondFactorChecked

USE DEF Users, UserRecord, ChallengeRecord, SessionRecord, CallRecord

LEMMA NoCallFits == NoCall \in CallRecord /\ Knows(NoCall)
BY DEF NoCall, Knows

LEMMA AuthInitHolds == AuthInit => AuthInv
<1> SUFFICES ASSUME AuthInit PROVE AuthInv
   OBVIOUS
<1> USE AuthAssumption DEF AuthInit
<1>1. 0 \in 0..MaxTime OBVIOUS
<1>2. AuthShape BY <1>1, NoCallFits DEF AuthShape
<1>3. ChallengeHeldOnce BY DEF ChallengeHeldOnce, NoCall
<1>4. NonceHeldOnce BY DEF NonceHeldOnce, Holds, NoCall
<1>5. SetupsAreUnanswered BY DEF SetupsAreUnanswered, Proven, NoCall
<1>6. SecondFactorChecked BY DEF SecondFactorChecked
<1>7. AskedIsHeld BY DEF AskedIsHeld, NoCall
<1> QED BY <1>2, <1>3, <1>4, <1>5, <1>6, <1>7 DEF AuthInv

\* Which call is changed by one that awaits or has finished.
LEMMA CallChanges ==
   ASSUME AuthShape, NEW t \in AuthCall, NEW c \in CallRecord, Knows(c),
          call' = [call EXCEPT ![t] = c]
   PROVE  /\ call' \in [AuthCall -> CallRecord]
          /\ call'[t] = c
          /\ \A u \in AuthCall \ {t} : call'[u] = call[u]
          /\ \A u \in AuthCall : Knows(call'[u])
BY DEF AuthShape

LEMMA RegisterKeeps ==
   ASSUME AuthInv, NEW k \in Key, RegisterUser(k)
   PROVE  AuthInv'
<1> USE DEF RegisterUser, AuthInv, authHistory
<1>1. AuthShape' BY DEF AuthShape
<1>2. ChallengeHeldOnce' BY DEF ChallengeHeldOnce
<1>3. NonceHeldOnce' BY DEF NonceHeldOnce, Holds
<1>4. SetupsAreUnanswered'
   <2>1. \A j \in Key : users'[j] = users[j] \/ (users'[j] # Missing => ~users'[j].enabled)
      BY DEF AuthShape
   <2>2. \A j \in Key : users[j] # Missing => users'[j] = users[j]
      BY DEF AuthShape
   <2> QED BY <2>1, <2>2 DEF SetupsAreUnanswered, Proven
<1>5. SecondFactorChecked' BY DEF SecondFactorChecked
<1>6. AskedIsHeld'
   <2>1. \A j \in Key : users[j] # Missing => users'[j] = users[j]
      BY DEF AuthShape
   <2>2. \A u \in AuthCall : call[u].pc = "login" => call[u].key \in Key
      BY DEF AuthShape, Knows
   <2> QED BY <2>1, <2>2 DEF AskedIsHeld, HeldEnabled, SetupsAreUnanswered
<1> QED BY <1>1, <1>2, <1>3, <1>4, <1>5, <1>6

LEMMA ChallengeKeeps ==
   ASSUME AuthInv, NEW k \in Key, NEW c \in Challenge, CreateLoginChallenge(k, c)
   PROVE  AuthInv'
<1> USE DEF AuthInv, CreateLoginChallenge, authHistory
<1>1. AuthShape' BY DEF AuthShape
<1>2. ChallengeHeldOnce'
   <2>1. \A d \in Challenge \ {c} : challenges'[d] \in {challenges[d], Missing}
      OBVIOUS
   <2> QED BY <2>1 DEF ChallengeHeldOnce
<1>3. NonceHeldOnce' BY DEF NonceHeldOnce, Holds
<1>4. SetupsAreUnanswered' BY DEF SetupsAreUnanswered, Proven
<1>5. SecondFactorChecked' BY DEF SecondFactorChecked
<1>6. AskedIsHeld' BY DEF AskedIsHeld, HeldEnabled
<1> QED BY <1>1, <1>2, <1>3, <1>4, <1>5, <1>6

LEMMA VerifyLoginKeeps ==
   ASSUME AuthInv, NEW t \in AuthCall, NEW k \in Key, NEW c \in Challenge,
          NEW code \in Secret \cup {Missing}, VerifyLogin(t, k, c, code)
   PROVE  AuthInv'
<1> DEFINE d == [NoCall EXCEPT !.pc = "login", !.key = k, !.challenge = c, !.secret = code,
                               !.enabled = users[k].enabled, !.asked = users[k].enabled]
<1>1. /\ call' = [call EXCEPT ![t] = d]
      /\ UNCHANGED <<users, challenges, sessions, usedNonces, saved, clock, logins, accepted,
                     clears>>
      /\ challenges[c] # Missing /\ ~challenges[c].used
      /\ users[k] # Missing
   BY DEF VerifyLogin, Await, authBook
<1>2. users[k].enabled \in BOOLEAN BY <1>1 DEF AuthInv, AuthShape
<1>3. d \in CallRecord /\ Knows(d) BY <1>2 DEF NoCall, Knows
<1>4. d.challenge = c /\ d.nonce = Missing /\ d.pc = "login" /\ d.key = k BY DEF NoCall
<1> HIDE DEF d
<1>5. /\ call' \in [AuthCall -> CallRecord] /\ call'[t] = d
      /\ \A u \in AuthCall \ {t} : call'[u] = call[u]
      /\ \A u \in AuthCall : Knows(call'[u])
   BY <1>1, <1>3, CallChanges DEF AuthInv
<1>6. crossed \subseteq crossed' BY DEF VerifyLogin
<1>7. c \notin crossed' => \A u \in AuthCall \ {t} : call[u].challenge # c
   BY DEF VerifyLogin, Both
<1>8. AuthShape' BY <1>1, <1>5 DEF AuthInv, AuthShape
<1>9. ChallengeHeldOnce'
   <2> SUFFICES ASSUME NEW e \in Challenge, e \notin crossed'
                PROVE  /\ \A u, v \in AuthCall :
                             call'[u].challenge = e /\ call'[v].challenge = e => u = v
                       /\ logins[e] <= 1
                       /\ logins[e] = 1 => /\ challenges[e] = Missing \/ challenges[e].used
                                           /\ \A u \in AuthCall : call'[u].challenge # e
      BY <1>1 DEF ChallengeHeldOnce
   <2>1. /\ \A u, v \in AuthCall : call[u].challenge = e /\ call[v].challenge = e => u = v
         /\ logins[e] <= 1
         /\ logins[e] = 1 => /\ challenges[e] = Missing \/ challenges[e].used
                             /\ \A u \in AuthCall : call[u].challenge # e
      BY <1>6 DEF AuthInv, ChallengeHeldOnce
   <2>2. CASE e = c BY <1>1, <1>4, <1>5, <1>7, <2>1, <2>2
   <2>3. CASE e # c BY <1>4, <1>5, <2>1, <2>3
   <2> QED BY <2>2, <2>3
<1>10. NonceHeldOnce'
   <2>1. \A j \in Key, n \in Nonce : ~Holds(t, j, n)'
      BY <1>4, <1>5, AuthAssumption DEF Holds
   <2>2. \A u \in AuthCall \ {t}, j \in Key, n \in Nonce : Holds(u, j, n)' <=> Holds(u, j, n)
      BY <1>5 DEF Holds
   <2> QED BY <1>1, <1>6, <2>1, <2>2 DEF AuthInv, NonceHeldOnce
<1>11. SetupsAreUnanswered'
   BY <1>1, <1>4, <1>5, <1>6 DEF AuthInv, SetupsAreUnanswered, Proven
<1>12. SecondFactorChecked' BY <1>1 DEF AuthInv, SecondFactorChecked
<1>13. AskedIsHeld'
   <2>1. d.asked = users[k].enabled /\ d.live BY DEF NoCall, d
   <2> QED BY <1>1, <1>4, <1>5, <2>1 DEF AuthInv, AskedIsHeld, HeldEnabled
<1> QED BY <1>8, <1>9, <1>10, <1>11, <1>12, <1>13 DEF AuthInv

(* A login that succeeds spends its challenge, and no other call holds it;   *)
(* the code was compared with the secret in the map.                         *)
LEMMA LoggedInKeeps ==
   ASSUME AuthInv, NEW t \in AuthCall, LoggedIn(t)
   PROVE  AuthInv'
<1> DEFINE c == call[t].challenge
           k == call[t].key
<1>1. /\ call' = [call EXCEPT ![t] = NoCall]
      /\ UNCHANGED <<users, usedNonces, saved, clock, accepted, clears, crossed>>
      /\ call[t].pc = "login"
   BY DEF LoggedIn
<1>2. /\ call' \in [AuthCall -> CallRecord] /\ call'[t] = NoCall
      /\ \A u \in AuthCall \ {t} : call'[u] = call[u]
      /\ \A u \in AuthCall : Knows(call'[u])
   BY <1>1, NoCallFits, CallChanges DEF AuthInv
<1>3. NoCall.challenge = Missing /\ NoCall.nonce = Missing /\ NoCall.pc = "idle"
   BY DEF NoCall
<1>4. NonceHeldOnce'
   <2>1. \A j \in Key, n \in Nonce : ~Holds(t, j, n)'
      BY <1>2, <1>3, AuthAssumption DEF Holds
   <2>2. \A u \in AuthCall \ {t}, j \in Key, n \in Nonce : Holds(u, j, n)' <=> Holds(u, j, n)
      BY <1>2 DEF Holds
   <2> QED BY <1>1, <2>1, <2>2 DEF AuthInv, NonceHeldOnce
<1>5. SetupsAreUnanswered'
   BY <1>1, <1>2, <1>3 DEF AuthInv, SetupsAreUnanswered, Proven
<1>8. AskedIsHeld' BY <1>1, <1>2, <1>3 DEF AuthInv, AskedIsHeld, HeldEnabled
<1>6. CASE HeldEnabled(t) => VerifyTOTP(k, call[t].secret)
   <2>1. /\ MarkUsed(c) /\ CreateSession(call[t]) /\ logins' = [logins EXCEPT ![c] = @ + 1]
      BY <1>6 DEF LoggedIn
   <2>12. c \in Challenge /\ k \in Key
      BY <1>1 DEF AuthInv, AuthShape, Knows
   <2>2. \A d \in Challenge : challenges'[d] = challenges[d]
                              \/ (challenges[d] # Missing /\ challenges'[d].used)
      BY <2>1 DEF MarkUsed, AuthInv, AuthShape
   <2>3. challenges'[c] = Missing \/ challenges'[c].used
      BY <2>1, <2>12 DEF MarkUsed, AuthInv, AuthShape
   <2>4. challenges' \in [Challenge -> ChallengeRecord \cup {Missing}]
      <3>1. CASE challenges[c] = Missing
         BY <2>1, <3>1 DEF MarkUsed, AuthInv, AuthShape
      <3>2. CASE challenges[c] # Missing
         <4>1. challenges[c] \in ChallengeRecord BY <2>12, <3>2 DEF AuthInv, AuthShape
         <4>2. [challenges[c] EXCEPT !.used = TRUE] \in ChallengeRecord BY <4>1
         <4>3. challenges' = [challenges EXCEPT ![c] = [challenges[c] EXCEPT !.used = TRUE]]
            BY <2>1, <3>2 DEF MarkUsed
         <4> QED BY <4>2, <4>3 DEF AuthInv, AuthShape
      <3> QED BY <3>1, <3>2
   <2>5. logins' \in [Challenge -> Nat] BY <2>1, <2>12 DEF AuthInv, AuthShape
   <2>6. ~Unchecked(call[t])
      BY <1>1, <1>6 DEF AuthInv, AskedIsHeld, HeldEnabled, VerifyTOTP, Unchecked, Asks
   <2>7. PICK s \in Session :
            sessions' = [sessions EXCEPT
               ![s] = [key |-> k, at |-> clock,
                       unchecked |-> Unchecked(call[t])]]
      BY <2>1 DEF CreateSession
   <2>8. SecondFactorChecked'
      BY <2>6, <2>7 DEF AuthInv, AuthShape, SecondFactorChecked
   <2>9. ChallengeHeldOnce'
      <3> SUFFICES ASSUME NEW e \in Challenge \ crossed
                   PROVE  /\ \A u, v \in AuthCall :
                                call'[u].challenge = e /\ call'[v].challenge = e => u = v
                          /\ logins'[e] <= 1
                          /\ logins'[e] = 1 => /\ challenges'[e] = Missing \/ challenges'[e].used
                                               /\ \A u \in AuthCall : call'[u].challenge # e
         BY <1>1 DEF ChallengeHeldOnce
      <3>1. /\ \A u, v \in AuthCall : call[u].challenge = e /\ call[v].challenge = e => u = v
            /\ logins[e] <= 1 /\ logins[e] \in Nat
            /\ logins[e] = 1 => /\ challenges[e] = Missing \/ challenges[e].used
                                /\ \A u \in AuthCall : call[u].challenge # e
         BY DEF AuthInv, AuthShape, ChallengeHeldOnce
      <3>2. \A u \in AuthCall : call'[u].challenge = e => call[u].challenge = e /\ u # t
         BY <1>2, <1>3, AuthAssumption
      <3>3. CASE e = c
         <4>1. logins'[e] = logins[e] + 1 BY <2>1, <3>3 DEF AuthInv, AuthShape
         <4>2. logins[e] = 0 BY <3>1, <3>3
         <4> QED BY <2>3, <3>1, <3>2, <3>3, <4>1, <4>2
      <3>4. CASE e # c
         <4>1. logins'[e] = logins[e] BY <2>1, <3>4 DEF AuthInv, AuthShape
         <4> QED BY <2>2, <3>1, <3>2, <4>1
      <3> QED BY <3>3, <3>4
   <2>10. sessions' \in [Session -> SessionRecord \cup {Missing}]
      <3>1. Unchecked(call[t]) \in BOOLEAN BY DEF Unchecked
      <3>2. clock \in 0..MaxTime BY DEF AuthInv, AuthShape
      <3>3. [key |-> k, at |-> clock, unchecked |-> Unchecked(call[t])]
               \in SessionRecord
         BY <2>12, <3>1, <3>2
      <3> QED BY <2>7, <3>3 DEF AuthInv, AuthShape
   <2>11. AuthShape' BY <1>1, <1>2, <2>4, <2>5, <2>10 DEF AuthInv, AuthShape
   <2> QED BY <1>4, <1>5, <1>8, <2>8, <2>9, <2>11 DEF AuthInv
<1>7. CASE ~(HeldEnabled(t) => VerifyTOTP(k, call[t].secret))
   <2>1. UNCHANGED <<challenges, sessions, logins>> BY <1>7 DEF LoggedIn
   <2>2. AuthShape' BY <1>1, <1>2, <2>1 DEF AuthInv, AuthShape
   <2>3. ChallengeHeldOnce'
      BY <1>1, <1>2, <1>3, <2>1, AuthAssumption DEF AuthInv, ChallengeHeldOnce
   <2>4. SecondFactorChecked' BY <2>1 DEF AuthInv, SecondFactorChecked
   <2> QED BY <1>4, <1>5, <1>8, <2>2, <2>3, <2>4 DEF AuthInv
<1> QED BY <1>6, <1>7

LEMMA SignedActionKeeps ==
   ASSUME AuthInv, NEW t \in AuthCall, NEW k \in Key, NEW n \in Nonce,
          VerifySignedAction(t, k, n)
   PROVE  AuthInv'
<1> DEFINE d == [NoCall EXCEPT !.pc = "action", !.key = k, !.nonce = n]
<1>1. /\ call' = [call EXCEPT ![t] = d]
      /\ UNCHANGED <<users, challenges, sessions, usedNonces, saved, clock, logins, accepted,
                     clears>>
      /\ <<k, n>> \notin usedNonces
   BY DEF VerifySignedAction, Await, authBook
<1>2. d \in CallRecord /\ Knows(d) BY DEF NoCall, Knows
<1>3. d.challenge = Missing /\ d.nonce = n /\ d.key = k /\ d.pc = "action" BY DEF NoCall
<1> HIDE DEF d
<1>4. /\ call' \in [AuthCall -> CallRecord] /\ call'[t] = d
      /\ \A u \in AuthCall \ {t} : call'[u] = call[u]
      /\ \A u \in AuthCall : Knows(call'[u])
   BY <1>1, <1>2, CallChanges DEF AuthInv
<1>5. crossed \subseteq crossed' BY DEF VerifySignedAction
<1>6. <<k, n>> \notin crossed' => \A u \in AuthCall \ {t} : ~Holds(u, k, n)
   BY DEF VerifySignedAction, Both, Holds
<1>7. AuthShape' BY <1>1, <1>4 DEF AuthInv, AuthShape
<1>8. ChallengeHeldOnce'
   BY <1>1, <1>3, <1>4, <1>5, AuthAssumption DEF AuthInv, ChallengeHeldOnce
<1>9. NonceHeldOnce'
   <2> SUFFICES ASSUME NEW j \in Key, NEW m \in Nonce, <<j, m>> \notin crossed'
                PROVE  /\ \A u, v \in AuthCall : Holds(u, j, m)' /\ Holds(v, j, m)' => u = v
                       /\ IF <<j, m>> \in usedNonces
                          THEN /\ accepted[j][m] <= 1 + clears
                               /\ \A u \in AuthCall : ~Holds(u, j, m)'
                          ELSE accepted[j][m] <= clears
      BY <1>1 DEF NonceHeldOnce
   <2>1. /\ \A u, v \in AuthCall : Holds(u, j, m) /\ Holds(v, j, m) => u = v
         /\ IF <<j, m>> \in usedNonces
            THEN accepted[j][m] <= 1 + clears /\ \A u \in AuthCall : ~Holds(u, j, m)
            ELSE accepted[j][m] <= clears
      BY <1>5 DEF AuthInv, NonceHeldOnce
   <2>2. \A u \in AuthCall \ {t} : Holds(u, j, m)' <=> Holds(u, j, m) BY <1>4 DEF Holds
   <2>3. Holds(t, j, m)' <=> j = k /\ m = n BY <1>3, <1>4 DEF Holds
   <2>4. CASE j = k /\ m = n BY <1>1, <1>6, <2>1, <2>2, <2>3, <2>4
   <2>5. CASE ~(j = k /\ m = n) BY <2>1, <2>2, <2>3, <2>5
   <2> QED BY <2>4, <2>5
<1>10. SetupsAreUnanswered'
   BY <1>1, <1>3, <1>4, <1>5 DEF AuthInv, SetupsAreUnanswered, Proven
<1>11. SecondFactorChecked' BY <1>1 DEF AuthInv, SecondFactorChecked
<1>12. AskedIsHeld' BY <1>1, <1>3, <1>4 DEF AuthInv, AskedIsHeld, HeldEnabled
<1> QED BY <1>7, <1>8, <1>9, <1>10, <1>11, <1>12 DEF AuthInv

(* The nonce of an action becomes used as it is accepted, or is forgotten    *)
(* with the others.                                                          *)
LEMMA ActionVerifiedKeeps ==
   ASSUME AuthInv, NEW t \in AuthCall, ActionVerified(t)
   PROVE  AuthInv'
<1> DEFINE k == call[t].key
           n == call[t].nonce
           used == usedNonces \cup {<<k, n>>}
           full == Cardinality(used) > NonceLimit
<1>1. /\ call' = [call EXCEPT ![t] = NoCall]
      /\ UNCHANGED <<users, challenges, sessions, saved, clock, logins, crossed>>
      /\ call[t].pc = "action"
      /\ usedNonces' = IF full THEN {} ELSE used
      /\ clears' = IF full THEN clears + 1 ELSE clears
      /\ accepted' = [accepted EXCEPT ![k][n] = @ + 1]
   BY DEF ActionVerified
<1>2. k \in Key /\ n \in Nonce BY <1>1 DEF AuthInv, AuthShape, Knows
<1>3. /\ call' \in [AuthCall -> CallRecord] /\ call'[t] = NoCall
      /\ \A u \in AuthCall \ {t} : call'[u] = call[u]
      /\ \A u \in AuthCall : Knows(call'[u])
   BY <1>1, NoCallFits, CallChanges DEF AuthInv
<1>4. NoCall.challenge = Missing /\ NoCall.nonce = Missing /\ NoCall.pc = "idle"
   BY DEF NoCall
<1>5. clears \in Nat /\ accepted \in [Key -> [Nonce -> Nat]] BY DEF AuthInv, AuthShape
<1>6. Holds(t, k, n) BY DEF Holds
<1> HIDE DEF k, n, full
<1>7. /\ accepted' \in [Key -> [Nonce -> Nat]] /\ accepted'[k][n] = accepted[k][n] + 1
      /\ \A j \in Key, m \in Nonce : ~(j = k /\ m = n) => accepted'[j][m] = accepted[j][m]
   BY <1>1, <1>2, <1>5
<1>8. AuthShape' BY <1>1, <1>3, <1>5, <1>7 DEF AuthInv, AuthShape
<1>9. ChallengeHeldOnce'
   BY <1>1, <1>3, <1>4, AuthAssumption DEF AuthInv, ChallengeHeldOnce
<1>10. NonceHeldOnce'
   <2> SUFFICES ASSUME NEW j \in Key, NEW m \in Nonce, <<j, m>> \notin crossed
                PROVE  /\ \A u, v \in AuthCall : Holds(u, j, m)' /\ Holds(v, j, m)' => u = v
                       /\ IF <<j, m>> \in usedNonces'
                          THEN /\ accepted'[j][m] <= 1 + clears'
                               /\ \A u \in AuthCall : ~Holds(u, j, m)'
                          ELSE accepted'[j][m] <= clears'
      BY <1>1 DEF NonceHeldOnce
   <2>1. /\ \A u, v \in AuthCall : Holds(u, j, m) /\ Holds(v, j, m) => u = v
         /\ IF <<j, m>> \in usedNonces
            THEN accepted[j][m] <= 1 + clears /\ \A u \in AuthCall : ~Holds(u, j, m)
            ELSE accepted[j][m] <= clears
      BY DEF AuthInv, NonceHeldOnce
   <2>2. \A u \in AuthCall : Holds(u, j, m)' => Holds(u, j, m) /\ u # t
      BY <1>3, <1>4, AuthAssumption DEF Holds
   <2>3. accepted[j][m] \in Nat BY <1>5
   <2>4. CASE j = k /\ m = n
      <3>1. accepted[j][m] <= clears /\ accepted'[j][m] = accepted[j][m] + 1
         BY <1>6, <1>7, <2>1, <2>4
      <3>2. \A u \in AuthCall : ~Holds(u, j, m)' BY <1>6, <2>1, <2>2, <2>4
      <3>3. clears' \in Nat /\ (full => clears' = clears + 1) /\ (~full => clears' = clears)
         BY <1>1, <1>5
      <3>4. full => usedNonces' = {} BY <1>1
      <3>5. ~full => <<j, m>> \in usedNonces' BY <1>1, <2>4
      <3>6. CASE full BY <1>5, <2>3, <3>1, <3>2, <3>3, <3>4, <3>6
      <3>7. CASE ~full BY <1>5, <2>3, <3>1, <3>2, <3>3, <3>5, <3>7
      <3> QED BY <3>6, <3>7
   <2>5. CASE ~(j = k /\ m = n)
      <3>1. accepted'[j][m] = accepted[j][m] BY <1>7, <2>5
      <3>2. <<j, m>> \in usedNonces' => <<j, m>> \in usedNonces
         BY <1>1, <2>5
      <3>3. CASE full
         <4>1. usedNonces' = {} /\ clears' = clears + 1 BY <1>1, <3>3
         <4>2. accepted[j][m] <= clears + 1 BY <1>5, <2>1, <2>3
         <4> QED BY <2>1, <2>2, <3>1, <4>1, <4>2
      <3>4. CASE ~full
         <4>1. usedNonces' = used /\ clears' = clears BY <1>1, <3>4
         <4>2. <<j, m>> \in usedNonces' <=> <<j, m>> \in usedNonces
            BY <2>5, <4>1
         <4> QED BY <2>1, <2>2, <3>1, <4>1, <4>2
      <3> QED BY <3>3, <3>4
   <2> QED BY <2>4, <2>5
<1>11. SetupsAreUnanswered'
   BY <1>1, <1>3, <1>4 DEF AuthInv, SetupsAreUnanswered, Proven
<1>12. SecondFactorChecked' BY <1>1 DEF AuthInv, SecondFactorChecked
<1>13. AskedIsHeld' BY <1>1, <1>3, <1>4 DEF AuthInv, AskedIsHeld, HeldEnabled
<1> QED BY <1>8, <1>9, <1>10, <1>11, <1>12, <1>13 DEF AuthInv

LEMMA SetupKeeps ==
   ASSUME AuthInv, NEW t \in AuthCall, NEW k \in Key, NEW s \in Secret, SetupTOTP(t, k, s)
   PROVE  AuthInv'
<1> DEFINE d == [NoCall EXCEPT !.pc = "setup", !.key = k, !.secret = s]
<1>1. /\ call' = [call EXCEPT ![t] = d]
      /\ UNCHANGED <<users, challenges, sessions, usedNonces, saved, clock, logins, accepted,
                     clears, crossed>>
      /\ users[k] # Missing /\ ~users[k].enabled
   BY DEF SetupTOTP, Await, authBook, authHistory
<1>2. d \in CallRecord /\ Knows(d) BY DEF NoCall, Knows
<1>3. d.challenge = Missing /\ d.nonce = Missing /\ d.key = k /\ d.pc = "setup" BY DEF NoCall
<1> HIDE DEF d
<1>4. /\ call' \in [AuthCall -> CallRecord] /\ call'[t] = d
      /\ \A u \in AuthCall \ {t} : call'[u] = call[u]
      /\ \A u \in AuthCall : Knows(call'[u])
   BY <1>1, <1>2, CallChanges DEF AuthInv
<1>5. AuthShape' BY <1>1, <1>4 DEF AuthInv, AuthShape
<1>6. ChallengeHeldOnce'
   BY <1>1, <1>3, <1>4, AuthAssumption DEF AuthInv, ChallengeHeldOnce
<1>7. NonceHeldOnce'
   <2>1. \A u \in AuthCall, j \in Key, m \in Nonce : Holds(u, j, m)' => Holds(u, j, m)
      BY <1>3, <1>4, AuthAssumption DEF Holds
   <2> QED BY <1>1, <2>1 DEF AuthInv, NonceHeldOnce
<1>8. SetupsAreUnanswered'
   <2>1. \A u \in AuthCall : u # t => call'[u] = call[u] BY <1>4
   <2> QED BY <1>1, <1>3, <1>4, <2>1 DEF AuthInv, SetupsAreUnanswered, Proven
<1>9. SecondFactorChecked' BY <1>1 DEF AuthInv, SecondFactorChecked
<1>10. AskedIsHeld' BY <1>1, <1>3, <1>4 DEF AuthInv, AskedIsHeld, HeldEnabled
<1> QED BY <1>5, <1>6, <1>7, <1>8, <1>9, <1>10 DEF AuthInv

(* The secret is stored for a user whose second factor is not enabled, or    *)
(* was enabled meanwhile.                                                    *)
LEMMA SecretDrawnKeeps ==
   ASSUME AuthInv, NEW t \in AuthCall, SecretDrawn(t)
   PROVE  AuthInv'
<1> DEFINE k == call[t].key
           s == call[t].secret
<1>1. /\ call' = [call EXCEPT ![t] = NoCall]
      /\ UNCHANGED <<challenges, sessions, usedNonces, saved, clock, logins, accepted,
                     clears, crossed>>
      /\ call[t].pc = "setup"
      /\ users' = IF call[t].live
                  THEN [users EXCEPT ![k] = [@ EXCEPT !.secret = s, !.proven = FALSE]]
                  ELSE users
   BY DEF SecretDrawn, authHistory
<1>2. k \in Key /\ s \in Secret BY <1>1 DEF AuthInv, AuthShape, Knows
<1>3. /\ call' \in [AuthCall -> CallRecord] /\ call'[t] = NoCall
      /\ \A u \in AuthCall \ {t} : call'[u] = call[u]
      /\ \A u \in AuthCall : Knows(call'[u])
   BY <1>1, NoCallFits, CallChanges DEF AuthInv
<1>4. NoCall.challenge = Missing /\ NoCall.nonce = Missing /\ NoCall.pc = "idle"
   BY DEF NoCall
<1>10. /\ users \in [Key -> UserRecord \cup {Missing}]
       /\ call[t].live => users[k] \in UserRecord
       /\ call[t].live /\ k \notin crossed => ~users[k].enabled
   BY <1>1, <1>2 DEF AuthInv, AuthShape, SetupsAreUnanswered
<1>5. ChallengeHeldOnce'
   BY <1>1, <1>3, <1>4, AuthAssumption DEF AuthInv, ChallengeHeldOnce
<1>6. NonceHeldOnce'
   <2>1. \A u \in AuthCall, j \in Key, m \in Nonce : Holds(u, j, m)' => Holds(u, j, m)
      BY <1>3, <1>4, AuthAssumption DEF Holds
   <2> QED BY <1>1, <2>1 DEF AuthInv, NonceHeldOnce
<1>7. \A j \in Key \ {k} : users'[j] = users[j] BY <1>1, <1>10
<1>8. /\ users' \in Users
      /\ users'[k] = users[k] \/ users'[k] \in UserRecord
      /\ k \notin crossed /\ users'[k] # users[k] => ~users'[k].enabled
   <2>1. CASE call[t].live
      <3>1. users[k] \in UserRecord BY <1>10, <2>1
      <3>2. [users[k] EXCEPT !.secret = s, !.proven = FALSE] \in UserRecord BY <1>2, <3>1
      <3>3. users'[k] = [users[k] EXCEPT !.secret = s, !.proven = FALSE]
         BY <1>1, <1>2, <1>10, <2>1
      <3>4. users'[k].enabled = users[k].enabled BY <3>1, <3>3
      <3>5. users' \in Users
         <4>1. users' = [users EXCEPT ![k] = [users[k] EXCEPT !.secret = s, !.proven = FALSE]]
            BY <1>1, <2>1
         <4> QED BY <1>10, <3>2, <4>1
      <3> QED BY <1>10, <2>1, <3>2, <3>3, <3>4, <3>5
   <2>2. CASE ~call[t].live BY <1>1, <1>10, <2>2
   <2> QED BY <2>1, <2>2
<1>9. AuthShape' BY <1>1, <1>3, <1>8 DEF AuthInv, AuthShape
<1>11. SetupsAreUnanswered'
   <2>1. \A u \in AuthCall : call'[u].pc \in {"login", "setup"} => u # t /\ call'[u] = call[u]
      BY <1>3, <1>4
   <2>2. ASSUME NEW u \in AuthCall, call'[u].pc \in {"login", "setup"}, call'[u].live
         PROVE  users'[call'[u].key] # Missing
      <3>1. call'[u] = call[u] /\ call[u].key \in Key /\ users[call[u].key] # Missing
         BY <2>1, <2>2 DEF AuthInv, AuthShape, Knows, SetupsAreUnanswered
      <3> QED BY <1>7, <1>8, <3>1, AuthAssumption
   <2>3. ASSUME NEW j \in Key \ crossed
         PROVE  /\ Proven(users', j)
                /\ saved # Missing => Proven(saved, j)
                /\ \A u \in AuthCall : call'[u].pc = "setup" /\ call'[u].key = j /\ call'[u].live =>
                      ~users'[j].enabled
      <3>1. /\ Proven(users, j)
            /\ saved # Missing => Proven(saved, j)
            /\ \A u \in AuthCall : call[u].pc = "setup" /\ call[u].key = j /\ call[u].live =>
                  ~users[j].enabled
         BY DEF AuthInv, SetupsAreUnanswered
      <3>2. users'[j] = users[j] \/ ~users'[j].enabled BY <1>7, <1>8
      <3> QED BY <2>1, <3>1, <3>2 DEF Proven
   <2> QED BY <1>1, <2>2, <2>3 DEF SetupsAreUnanswered, Proven
<1>12. SecondFactorChecked' BY <1>1 DEF AuthInv, SecondFactorChecked
<1>13. AskedIsHeld'
   <2>1. call[t].live => users'[k].enabled = users[k].enabled
      <3> SUFFICES ASSUME call[t].live PROVE users'[k].enabled = users[k].enabled
         OBVIOUS
      <3>1. users[k] \in UserRecord BY <1>10
      <3>2. users'[k] = [users[k] EXCEPT !.secret = s, !.proven = FALSE] BY <1>1, <1>2, <1>10
      <3> QED BY <3>1, <3>2
   <2>2. users'[k].enabled = users[k].enabled BY <1>1, <2>1
   <2>3. \A u \in AuthCall : call[u].pc = "login" => call[u].key \in Key
      BY DEF AuthInv, AuthShape, Knows
   <2> QED BY <1>3, <1>4, <1>7, <2>2, <2>3 DEF AuthInv, AskedIsHeld, HeldEnabled
<1> QED BY <1>5, <1>6, <1>9, <1>11, <1>12, <1>13 DEF AuthInv

(* A user who enables the factor while a set-up is at its await is counted   *)
(* as crossed.                                                               *)
LEMMA EnableKeeps ==
   ASSUME AuthInv, NEW k \in Key, EnableTOTP(k)
   PROVE  AuthInv'
<1>1. /\ users' = [users EXCEPT ![k] = [users[k] EXCEPT !.enabled = TRUE, !.proven = TRUE]]
      /\ UNCHANGED <<challenges, sessions, usedNonces, saved, clock, call, logins, accepted,
                     clears>>
      /\ users[k] # Missing /\ crossed \subseteq crossed'
   BY DEF EnableTOTP
<1>2. k \notin crossed' => \A t \in AuthCall : ~(call[t].pc = "setup" /\ call[t].key = k)
   BY DEF EnableTOTP
<1>3. users \in [Key -> UserRecord \cup {Missing}] BY DEF AuthInv, AuthShape
<1>4. /\ \A j \in Key \ {k} : users'[j] = users[j]
      /\ users'[k] \in UserRecord /\ users'[k].proven
      /\ users' \in Users
   <2>1. users[k] \in UserRecord BY <1>1, <1>3
   <2>2. [users[k] EXCEPT !.enabled = TRUE, !.proven = TRUE] \in UserRecord BY <2>1
   <2>3. users'[k] = [users[k] EXCEPT !.enabled = TRUE, !.proven = TRUE] BY <1>1, <1>3
   <2>4. users'[k].proven BY <2>1, <2>3
   <2>5. users' \in Users BY <1>1, <1>3, <2>2
   <2> QED BY <1>1, <1>3, <2>2, <2>3, <2>4, <2>5
<1>5. AuthShape' BY <1>1, <1>4 DEF AuthInv, AuthShape
<1>6. ChallengeHeldOnce' BY <1>1 DEF AuthInv, ChallengeHeldOnce
<1>7. NonceHeldOnce' BY <1>1 DEF AuthInv, NonceHeldOnce, Holds
<1>8. SetupsAreUnanswered'
   <2>1. ASSUME NEW t \in AuthCall, call[t].pc \in {"login", "setup"}, call[t].live
         PROVE  users'[call[t].key] # Missing
      <3>1. call[t].key \in Key /\ users[call[t].key] # Missing
         BY <2>1 DEF AuthInv, AuthShape, Knows, SetupsAreUnanswered
      <3> QED BY <1>4, <3>1, AuthAssumption
   <2>2. ASSUME NEW j \in Key \ crossed'
         PROVE  /\ Proven(users', j)
                /\ saved # Missing => Proven(saved, j)
                /\ \A u \in AuthCall : call[u].pc = "setup" /\ call[u].key = j /\ call[u].live =>
                      ~users'[j].enabled
      <3>1. /\ Proven(users, j)
            /\ saved # Missing => Proven(saved, j)
            /\ \A u \in AuthCall : call[u].pc = "setup" /\ call[u].key = j /\ call[u].live =>
                  ~users[j].enabled
         BY <1>1 DEF AuthInv, SetupsAreUnanswered
      <3>2. CASE j = k BY <1>2, <1>4, <3>1, <3>2 DEF Proven
      <3>3. CASE j # k BY <1>4, <3>1, <3>3 DEF Proven
      <3> QED BY <3>2, <3>3
   <2> QED BY <1>1, <2>1, <2>2 DEF SetupsAreUnanswered, Proven
<1>9. SecondFactorChecked' BY <1>1 DEF AuthInv, SecondFactorChecked
<1>10. AskedIsHeld'
   <2>1. users'[k].enabled
      <3>1. users[k] \in UserRecord BY <1>1, <1>3
      <3>2. users'[k] = [users[k] EXCEPT !.enabled = TRUE, !.proven = TRUE] BY <1>1, <1>3
      <3> QED BY <3>1, <3>2
   <2>2. \A u \in AuthCall : call[u].pc = "login" => call[u].key \in Key
      BY DEF AuthInv, AuthShape, Knows
   <2> QED BY <1>1, <1>4, <2>1, <2>2 DEF AuthInv, AskedIsHeld, HeldEnabled
<1> QED BY <1>5, <1>6, <1>7, <1>8, <1>9, <1>10 DEF AuthInv

LEMMA EndSessionKeeps ==
   ASSUME AuthInv, NEW s \in Session, EndSession(s)
   PROVE  AuthInv'
<1> USE DEF AuthInv, EndSession, authHistory
<1>1. AuthShape' BY DEF AuthShape
<1>2. ChallengeHeldOnce' BY DEF ChallengeHeldOnce
<1>3. NonceHeldOnce' BY DEF NonceHeldOnce, Holds
<1>4. SetupsAreUnanswered' BY DEF SetupsAreUnanswered, Proven
<1>5. SecondFactorChecked' BY DEF SecondFactorChecked, AuthShape
<1>6. AskedIsHeld' BY DEF AskedIsHeld, HeldEnabled
<1> QED BY <1>1, <1>2, <1>3, <1>4, <1>5, <1>6

LEMMA ExportKeeps ==
   ASSUME AuthInv, ExportUsers
   PROVE  AuthInv'
<1> USE DEF AuthInv, ExportUsers, authHistory
<1>1. AuthShape' BY DEF AuthShape
<1>2. ChallengeHeldOnce' BY DEF ChallengeHeldOnce
<1>3. NonceHeldOnce' BY DEF NonceHeldOnce, Holds
<1>4. SetupsAreUnanswered' BY DEF SetupsAreUnanswered, Proven
<1>5. SecondFactorChecked' BY DEF SecondFactorChecked
<1>6. AskedIsHeld' BY DEF AskedIsHeld, HeldEnabled
<1> QED BY <1>1, <1>2, <1>3, <1>4, <1>5, <1>6

(* The records of an export satisfy what they did when it was made, and no   *)
(* set-up at its await stores into them.                                     *)
LEMMA ImportKeeps ==
   ASSUME AuthInv, ImportUsers
   PROVE  AuthInv'
<1>1. /\ saved # Missing /\ users' = saved
      /\ UNCHANGED <<challenges, sessions, usedNonces, saved, clock, logins, accepted, clears,
                     crossed>>
   BY DEF ImportUsers, authHistory
<1>2. ASSUME NEW t \in AuthCall, call[t].pc \in {"login", "setup"}
      PROVE  HeldEnabled(t) \in BOOLEAN
   <2>1. call[t] \in CallRecord /\ call[t].key \in Key
      BY <1>2 DEF AuthInv, AuthShape, Knows
   <2>2. call[t].live => users[call[t].key] \in UserRecord
      BY <1>2, <2>1 DEF AuthInv, AuthShape, SetupsAreUnanswered
   <2> QED BY <2>1, <2>2 DEF HeldEnabled
<1>3. call' \in [AuthCall -> CallRecord]
   <2>1. ASSUME NEW t \in AuthCall PROVE call'[t] \in CallRecord
      <3>1. call[t] \in CallRecord BY DEF AuthInv, AuthShape
      <3>2. CASE call[t].pc \in {"login", "setup"}
         <4>1. call'[t] = [call[t] EXCEPT !.live = FALSE, !.enabled = HeldEnabled(t)]
            BY <3>2 DEF ImportUsers
         <4>2. HeldEnabled(t) \in BOOLEAN BY <1>2, <3>2
         <4> QED BY <3>1, <4>1, <4>2
      <3>3. CASE call[t].pc \notin {"login", "setup"} BY <3>1, <3>3 DEF ImportUsers
      <3> QED BY <3>2, <3>3
   <2>2. call' = [t \in AuthCall |-> call'[t]] BY DEF ImportUsers
   <2> QED BY <2>1, <2>2
<1>4. ASSUME NEW t \in AuthCall
      PROVE  /\ call'[t].pc = call[t].pc /\ call'[t].key = call[t].key
             /\ call'[t].challenge = call[t].challenge /\ call'[t].nonce = call[t].nonce
             /\ call'[t].secret = call[t].secret
             /\ call'[t].pc \in {"login", "setup"} => ~call'[t].live
   <2>1. call[t] \in CallRecord BY DEF AuthInv, AuthShape
   <2>2. call'[t] = IF call[t].pc \notin {"login", "setup"} THEN call[t]
                    ELSE [call[t] EXCEPT !.live = FALSE, !.enabled = HeldEnabled(t)]
      BY DEF ImportUsers
   <2> QED BY <2>1, <2>2
<1>5. AuthShape' BY <1>1, <1>3, <1>4 DEF AuthInv, AuthShape, Knows
<1>6. ChallengeHeldOnce' BY <1>1, <1>4 DEF AuthInv, ChallengeHeldOnce
<1>7. NonceHeldOnce' BY <1>1, <1>4 DEF AuthInv, NonceHeldOnce, Holds
<1>8. SetupsAreUnanswered' BY <1>1, <1>4 DEF AuthInv, SetupsAreUnanswered, Proven
<1>9. SecondFactorChecked' BY <1>1 DEF AuthInv, SecondFactorChecked
<1>10. AskedIsHeld'
   <2> SUFFICES ASSUME NEW t \in AuthCall, call'[t].pc = "login", call'[t].asked
                PROVE  HeldEnabled(t)'
      BY DEF AskedIsHeld
   <2>1. call[t] \in CallRecord /\ call[t].pc = "login"
      BY <1>4 DEF AuthInv, AuthShape
   <2>2. call'[t] = [call[t] EXCEPT !.live = FALSE, !.enabled = HeldEnabled(t)]
      BY <2>1 DEF ImportUsers
   <2>3. call[t].asked /\ ~call'[t].live /\ call'[t].enabled = HeldEnabled(t) BY <2>1, <2>2
   <2> QED BY <2>1, <2>3 DEF AuthInv, AskedIsHeld, HeldEnabled
<1> QED BY <1>5, <1>6, <1>7, <1>8, <1>9, <1>10 DEF AuthInv

LEMMA AuthTickKeeps ==
   ASSUME AuthInv, AuthTick
   PROVE  AuthInv'
<1> USE DEF AuthInv, AuthTick, authBook, authHistory
<1>1. AuthShape' BY AuthAssumption DEF AuthShape
<1>2. ChallengeHeldOnce' BY DEF ChallengeHeldOnce
<1>3. NonceHeldOnce' BY DEF NonceHeldOnce, Holds
<1>4. SetupsAreUnanswered' BY DEF SetupsAreUnanswered, Proven
<1>5. SecondFactorChecked' BY DEF SecondFactorChecked
<1>6. AskedIsHeld' BY DEF AskedIsHeld, HeldEnabled
<1> QED BY <1>1, <1>2, <1>3, <1>4, <1>5, <1>6

LEMMA AuthStepKeeps == AuthInv /\ [AuthStep]_authVars => AuthInv'
<1> SUFFICES ASSUME AuthInv, [AuthStep]_authVars PROVE AuthInv'
   OBVIOUS
<1>1. ASSUME NEW k \in Key, RegisterUser(k) \/ EnableTOTP(k) PROVE AuthInv'
   BY <1>1, RegisterKeeps, EnableKeeps
<1>2. ASSUME NEW k \in Key, NEW c \in Challenge, CreateLoginChallenge(k, c) PROVE AuthInv'
   BY <1>2, ChallengeKeeps
<1>3. ASSUME NEW t \in AuthCall, NEW k \in Key, NEW c \in Challenge,
             NEW code \in Secret \cup {Missing}, VerifyLogin(t, k, c, code)
      PROVE  AuthInv'
   BY <1>3, VerifyLoginKeeps
<1>4. ASSUME NEW t \in AuthCall, NEW k \in Key, NEW n \in Nonce, VerifySignedAction(t, k, n)
      PROVE  AuthInv'
   BY <1>4, SignedActionKeeps
<1>5. ASSUME NEW t \in AuthCall, NEW k \in Key, NEW s \in Secret, SetupTOTP(t, k, s)
      PROVE  AuthInv'
   BY <1>5, SetupKeeps
<1>6. ASSUME NEW t \in AuthCall, LoggedIn(t) \/ ActionVerified(t) \/ SecretDrawn(t)
      PROVE  AuthInv'
   BY <1>6, LoggedInKeeps, ActionVerifiedKeeps, SecretDrawnKeeps
<1>7. ASSUME NEW s \in Session, ValidateSession(s) \/ Logout(s) PROVE AuthInv'
   BY <1>7, EndSessionKeeps DEF ValidateSession, Logout
<1>8. CASE ExportUsers \/ ImportUsers
   BY <1>8, ExportKeeps, ImportKeeps
<1>9. CASE AuthTick
   BY <1>9, AuthTickKeeps
<1>10. CASE UNCHANGED authVars
   <2>1. UNCHANGED <<users, challenges, sessions, usedNonces, saved, clock, call, logins, accepted,
                     clears, crossed>>
      BY <1>10 DEF authVars, authBook, authHistory
   <2> QED BY <2>1 DEF AuthInv, AuthShape, ChallengeHeldOnce, NonceHeldOnce, Holds,
      SetupsAreUnanswered, Proven, AskedIsHeld, HeldEnabled, SecondFactorChecked
<1> QED BY <1>1, <1>2, <1>3, <1>4, <1>5, <1>6, <1>7, <1>8, <1>9, <1>10 DEF AuthStep

(* Every step of the calls and their awaits keeps the inductive invariant.   *)
LEMMA AuthInvariant == AuthSpec => []AuthInv
BY AuthInitHolds, AuthStepKeeps, PTL DEF AuthSpec

(* However logins interleave with expiry, clean-up, imports and logouts at   *)
(* the await of verifyLogin, a challenge makes one session unless two logins *)
(* with it overlapped.                                                       *)
THEOREM OneLoginAlways == AuthSpec => []OneLoginPerChallenge
<1>1. AuthInv => OneLoginPerChallenge
   BY DEF AuthInv, ChallengeHeldOnce, OneLoginPerChallenge
<1> QED BY <1>1, AuthInvariant, PTL

(* A user who had a second factor when verifyLogin took the record, or got   *)
(* one at its await, is let in only with the code of the secret in the map,  *)
(* also when an import has replaced the record; a login that began without   *)
(* it is excepted if its record was replaced.                                *)
THEOREM SecondFactorAlwaysChecked == AuthSpec => []SecondFactorChecked
<1>1. AuthInv => SecondFactorChecked BY DEF AuthInv
<1> QED BY <1>1, AuthInvariant, PTL

(* verifySignedAction accepts a nonce once, and once more for each time it   *)
(* forgot the used ones, unless two actions with it overlapped.              *)
THEOREM NonceAlwaysSpentOnce == AuthSpec => []NonceSpentOnce
<1>1. AuthInv => NonceSpentOnce
   <2> SUFFICES ASSUME AuthInv, NEW k \in Key, NEW n \in Nonce, <<k, n>> \notin crossed
                PROVE  accepted[k][n] <= 1 + clears
      BY DEF NonceSpentOnce
   <2>1. accepted[k][n] \in Nat /\ clears \in Nat BY DEF AuthInv, AuthShape
   <2>2. accepted[k][n] <= 1 + clears \/ accepted[k][n] <= clears
      BY DEF AuthInv, NonceHeldOnce
   <2> QED BY <2>1, <2>2
<1> QED BY <1>1, AuthInvariant, PTL

(* Across set-ups, exports and imports, an enabled second factor is one its  *)
(* user has answered (setupTOTP, enableTOTP), unless it was enabled while a  *)
(* set-up was at its await.                                                  *)
THEOREM EnabledSecretAlwaysProven == AuthSpec => []EnabledSecretWasProven
<1>1. AuthInv => EnabledSecretWasProven
   BY DEF AuthInv, SetupsAreUnanswered, Proven, EnabledSecretWasProven
<1> QED BY <1>1, AuthInvariant, PTL

(* How often a challenge and the nonces are used: the calls at their await   *)
(* count as if they had succeeded.                                           *)

LoggingIn(c) == {t \in AuthCall : call[t].pc = "login" /\ call[t].challenge = c}
Acting == {t \in AuthCall : call[t].pc = "action"}

Actions == SumFunction([k \in Key |-> SumFunction(accepted[k])])

\* A challenge that has made a session begins no login.
SpentIsUsed(c) == logins[c] > 0 => challenges[c] = Missing \/ challenges[c].used

CountsInv ==
   /\ usedNonces \subseteq Key \X Nonce
   /\ crossed \subseteq Challenge \cup (Key \X Nonce) \cup Key
   /\ \A c \in Challenge :
         /\ SpentIsUsed(c)
         /\ logins[c] + Cardinality(LoggingIn(c)) <= Cardinality(AuthCall)
   /\ Actions + Cardinality(Acting) <= MaxActions + Cardinality(AuthCall)

\* What is counted is a number.
LEMMA CountsAreNat ==
   ASSUME AuthShape
   PROVE  /\ Cardinality(AuthCall) \in Nat /\ MaxActions \in Nat
          /\ IsFiniteSet(Acting) /\ Cardinality(Acting) \in 0..Cardinality(AuthCall)
          /\ \A c \in Challenge : /\ IsFiniteSet(LoggingIn(c))
                                  /\ Cardinality(LoggingIn(c)) \in 0..Cardinality(AuthCall)
          /\ \A k \in Key : SumFunction(accepted[k]) \in Nat
          /\ Actions \in Nat
<1>1. ASSUME NEW s \in SUBSET AuthCall
      PROVE  /\ IsFiniteSet(s) /\ Cardinality(s) \in Nat
             /\ Cardinality(s) <= Cardinality(AuthCall)
  BY AuthBounds, FS_Subset, FS_CardinalityType
<1>2. Cardinality(AuthCall) \in Nat /\ MaxActions \in Nat BY AuthAssumption, <1>1
<1>3. Acting \in SUBSET AuthCall BY DEF Acting
<1>4. \A c \in Challenge : LoggingIn(c) \in SUBSET AuthCall BY DEF LoggingIn
<1>5. ASSUME NEW k \in Key PROVE SumFunction(accepted[k]) \in Nat
  <2>1. accepted[k] \in [Nonce -> Nat] BY DEF AuthShape
  <2>2. accepted[k] \in [Nonce -> Int] /\ \A n \in Nonce : accepted[k][n] >= 0 BY <2>1
  <2> QED BY <2>2, AuthBounds, SumType, SumSign
<1>6. Actions \in Nat
  <2> DEFINE f == [k \in Key |-> SumFunction(accepted[k])]
  <2>1. f \in [Key -> Int] /\ \A k \in Key : f[k] >= 0 BY <1>5
  <2> HIDE DEF f
  <2>2. SumFunction(f) \in Int /\ SumFunction(f) >= 0 BY <2>1, AuthBounds, SumType, SumSign
  <2> QED BY <2>2 DEF f, Actions
<1> QED BY <1>1, <1>2, <1>3, <1>4, <1>5, <1>6

\* What is counted is within its bound.
LEMMA CountsBounded == AuthShape /\ CountsInv => AuthTypeOK
<1> SUFFICES ASSUME AuthShape, CountsInv PROVE AuthTypeOK
  OBVIOUS
<1>1. ASSUME NEW c \in Challenge PROVE logins[c] \in 0..Cardinality(AuthCall)
  <2>1. logins[c] \in Nat /\ Cardinality(LoggingIn(c)) \in Nat /\ Cardinality(AuthCall) \in Nat
    BY CountsAreNat DEF AuthShape
  <2> QED BY <2>1 DEF CountsInv
<1>2. logins \in [Challenge -> 0..Cardinality(AuthCall)] BY <1>1 DEF AuthShape
<1> DEFINE most == MaxActions + Cardinality(AuthCall)
<1>3. Actions <= most /\ most \in Nat /\ Actions \in Nat
  <2>1. Cardinality(Acting) \in Nat /\ most \in Nat /\ Actions \in Nat BY CountsAreNat
  <2> HIDE DEF most
  <2>2. Actions + Cardinality(Acting) <= most BY DEF CountsInv, most
  <2> QED BY <2>1, <2>2
<1> HIDE DEF most
<1>4. ASSUME NEW k \in Key, NEW n \in Nonce PROVE accepted[k][n] \in 0..most
  <2>1. accepted[k] \in [Nonce -> Int] /\ \A m \in Nonce : accepted[k][m] >= 0
    <3>1. accepted[k] \in [Nonce -> Nat] BY DEF AuthShape
    <3> QED BY <3>1
  <2>2. accepted[k][n] <= SumFunction(accepted[k]) BY <2>1, AuthBounds, SumSign
  <2> DEFINE f == [j \in Key |-> SumFunction(accepted[j])]
  <2>3. f \in [Key -> Int] /\ (\A j \in Key : f[j] >= 0) /\ f[k] = SumFunction(accepted[k])
    BY CountsAreNat
  <2> HIDE DEF f
  <2>4. f[k] <= SumFunction(f) BY <2>3, AuthBounds, SumSign
  <2>5. SumFunction(f) = Actions BY DEF f, Actions
  <2>6. accepted[k][n] \in Nat /\ f[k] \in Int BY <2>3 DEF AuthShape
  <2> QED BY <1>3, <2>2, <2>3, <2>4, <2>5, <2>6
<1>5. accepted \in [Key -> [Nonce -> 0..most]]
  <2>1. accepted \in [Key -> [Nonce -> Nat]] BY DEF AuthShape
  <2> QED BY <1>4, <2>1
<1> QED BY <1>2, <1>5 DEF AuthTypeOK, AuthShape, CountsInv, most

\* Calls that only end, or are not counted, and a book that spends nothing.
LEMMA NothingCounted ==
   ASSUME AuthShape, CountsInv, UNCHANGED <<usedNonces, accepted, logins>>,
          crossed' \subseteq Challenge \cup (Key \X Nonce) \cup Key,
          \A c \in Challenge : SpentIsUsed(c)',
          \A t \in AuthCall : call'[t].pc \in {"login", "action"} =>
             call'[t].pc = call[t].pc /\ call'[t].challenge = call[t].challenge
   PROVE  CountsInv'
<1>1. Acting' \in SUBSET Acting BY DEF Acting
<1>2. \A c \in Challenge : LoggingIn(c)' \in SUBSET LoggingIn(c) BY DEF LoggingIn
<1>3. /\ Cardinality(Acting') \in Nat /\ Cardinality(Acting') <= Cardinality(Acting)
  BY <1>1, CountsAreNat, FS_Subset, FS_CardinalityType
<1>4. ASSUME NEW c \in Challenge
      PROVE  /\ Cardinality(LoggingIn(c)') \in Nat
             /\ Cardinality(LoggingIn(c)') <= Cardinality(LoggingIn(c))
  BY <1>2, CountsAreNat, FS_Subset, FS_CardinalityType
<1>5. Actions' = Actions BY DEF Actions
<1>6. ASSUME NEW c \in Challenge
      PROVE  logins'[c] + Cardinality(LoggingIn(c)') <= Cardinality(AuthCall)
  <2>1. logins[c] \in Nat BY DEF AuthShape
  <2>2. logins[c] + Cardinality(LoggingIn(c)) <= Cardinality(AuthCall) BY DEF CountsInv
  <2> QED BY <1>4, <2>1, <2>2, CountsAreNat
<1>7. Actions' + Cardinality(Acting') <= MaxActions + Cardinality(AuthCall)
  <2>1. Actions + Cardinality(Acting) <= MaxActions + Cardinality(AuthCall) BY DEF CountsInv
  <2> QED BY <1>3, <1>5, <2>1, CountsAreNat
<1> QED BY <1>6, <1>7 DEF CountsInv

\* A login begins with a challenge that has made no session.
LEMMA LoginCounted ==
   ASSUME AuthShape, CountsInv, NEW t \in AuthCall, NEW k \in Key, NEW c \in Challenge,
          NEW code \in Secret \cup {Missing}, VerifyLogin(t, k, c, code)
   PROVE  CountsInv'
<1> DEFINE d == [NoCall EXCEPT !.pc = "login", !.key = k, !.challenge = c, !.secret = code,
                               !.enabled = users[k].enabled, !.asked = users[k].enabled]
<1>1. /\ call' = [call EXCEPT ![t] = d] /\ call[t].pc = "idle"
      /\ UNCHANGED <<challenges, usedNonces, logins, accepted>>
      /\ challenges[c] # Missing /\ ~challenges[c].used
   BY DEF VerifyLogin, Await, authBook
<1>2. d.challenge = c /\ d.pc = "login" BY DEF NoCall
<1> HIDE DEF d
<1>3. call'[t] = d /\ \A u \in AuthCall \ {t} : call'[u] = call[u] BY <1>1 DEF AuthShape
<1>4. crossed' \subseteq Challenge \cup (Key \X Nonce) \cup Key
  BY DEF VerifyLogin, Both, CountsInv
<1>5. \A e \in Challenge : SpentIsUsed(e)' BY <1>1 DEF CountsInv, SpentIsUsed
<1>6. Acting' = Acting BY <1>1, <1>2, <1>3 DEF Acting
<1>7. Actions' = Actions BY <1>1 DEF Actions
<1>8. ASSUME NEW e \in Challenge
      PROVE  logins'[e] + Cardinality(LoggingIn(e)') <= Cardinality(AuthCall)
  <2>1. CASE e = c
    <3>1. logins[e] = 0
      <4>1. ~ (logins[e] > 0) BY <1>1, <2>1 DEF CountsInv, SpentIsUsed
      <4> QED BY <4>1 DEF AuthShape
    <3>2. LoggingIn(e)' \in SUBSET AuthCall BY DEF LoggingIn
    <3>3. Cardinality(LoggingIn(e)') \in Nat /\ Cardinality(LoggingIn(e)') <= Cardinality(AuthCall)
      BY <3>2, AuthBounds, FS_Subset, FS_CardinalityType
    <3> QED BY <1>1, <3>1, <3>3, CountsAreNat
  <2>2. CASE e # c
    <3>1. LoggingIn(e)' = LoggingIn(e) BY <1>1, <1>2, <1>3, <2>2 DEF LoggingIn
    <3> QED BY <1>1, <3>1 DEF CountsInv
  <2> QED BY <2>1, <2>2
<1> QED BY <1>1, <1>4, <1>5, <1>6, <1>7, <1>8 DEF CountsInv

\* A login ends, with a session or without.
LEMMA LoggedInCounted ==
   ASSUME AuthShape, CountsInv, NEW t \in AuthCall, LoggedIn(t)
   PROVE  CountsInv'
<1>1. /\ call' = [call EXCEPT ![t] = NoCall] /\ call[t].pc = "login"
      /\ UNCHANGED <<usedNonces, accepted, crossed>>
      /\ call[t].challenge \in Challenge
  BY DEF LoggedIn, AuthShape, Knows
<1> DEFINE c == call[t].challenge
<1>2. /\ call'[t].pc = "idle" /\ \A u \in AuthCall \ {t} : call'[u] = call[u]
  BY <1>1 DEF AuthShape, NoCall
<1>3. CASE UNCHANGED <<challenges, logins>>
  <2>1. \A e \in Challenge : SpentIsUsed(e)' BY <1>3 DEF CountsInv, SpentIsUsed
  <2>2. \A u \in AuthCall : call'[u].pc \in {"login", "action"} => call'[u] = call[u]
    BY <1>2
  <2>3. crossed' \subseteq Challenge \cup (Key \X Nonce) \cup Key BY <1>1 DEF CountsInv
  <2> QED BY <1>1, <1>3, <2>1, <2>2, <2>3, NothingCounted
<1>4. CASE MarkUsed(c) /\ logins' = [logins EXCEPT ![c] = @ + 1]
  <2> HIDE DEF c
  <2>0. c \in Challenge BY <1>1 DEF c
  <2>1. ASSUME NEW e \in Challenge PROVE SpentIsUsed(e)'
    <3>1. CASE e = c
      BY <1>4, <2>0, <3>1 DEF AuthShape, MarkUsed, SpentIsUsed
    <3>2. CASE e # c
      <4>1. logins'[e] = logins[e] /\ challenges'[e] = challenges[e]
        BY <1>4, <2>0, <3>2 DEF AuthShape, MarkUsed
      <4> QED BY <4>1 DEF CountsInv, SpentIsUsed
    <3> QED BY <3>1, <3>2
  <2>2. Acting' = Acting BY <1>1, <1>2 DEF Acting
  <2>3. Actions' = Actions BY <1>1 DEF Actions
  <2>4. ASSUME NEW e \in Challenge
        PROVE  logins'[e] + Cardinality(LoggingIn(e)') <= Cardinality(AuthCall)
    <3>1. CASE e = c
      <4>1. LoggingIn(e)' = LoggingIn(e) \ {t} /\ t \in LoggingIn(e)
        BY <1>1, <1>2, <3>1 DEF LoggingIn, c
      <4>2. Cardinality(LoggingIn(e)') = Cardinality(LoggingIn(e)) - 1
        BY <4>1, CountsAreNat, FS_RemoveElement
      <4>3. logins'[e] = logins[e] + 1 /\ logins[e] \in Nat
        BY <1>4, <2>0, <3>1 DEF AuthShape
      <4>4. logins[e] + Cardinality(LoggingIn(e)) <= Cardinality(AuthCall) BY DEF CountsInv
      <4> QED BY <4>2, <4>3, <4>4, CountsAreNat
    <3>2. CASE e # c
      <4>1. LoggingIn(e)' = LoggingIn(e) BY <1>1, <1>2, <3>2 DEF LoggingIn, c
      <4>2. logins'[e] = logins[e] BY <1>4, <2>0, <3>2 DEF AuthShape
      <4> QED BY <4>1, <4>2 DEF CountsInv
    <3> QED BY <3>1, <3>2
  <2> QED BY <1>1, <2>1, <2>2, <2>3, <2>4 DEF CountsInv
<1> QED BY <1>3, <1>4 DEF LoggedIn

\* A signed action begins while the bound of a run is not reached.
LEMMA ActionCounted ==
   ASSUME AuthShape, CountsInv, NEW t \in AuthCall, NEW k \in Key, NEW n \in Nonce,
          VerifySignedAction(t, k, n)
   PROVE  CountsInv'
<1> DEFINE d == [NoCall EXCEPT !.pc = "action", !.key = k, !.nonce = n]
<1>1. /\ call' = [call EXCEPT ![t] = d] /\ call[t].pc = "idle"
      /\ UNCHANGED <<challenges, usedNonces, logins, accepted>>
      /\ Actions < MaxActions
   BY DEF VerifySignedAction, Await, authBook, Actions
<1>2. d.pc = "action" BY DEF NoCall
<1> HIDE DEF d
<1>3. call'[t] = d /\ \A u \in AuthCall \ {t} : call'[u] = call[u] BY <1>1 DEF AuthShape
<1>4. crossed' \subseteq Challenge \cup (Key \X Nonce) \cup Key
  BY DEF VerifySignedAction, Both, CountsInv
<1>5. \A e \in Challenge : SpentIsUsed(e)' /\ LoggingIn(e)' = LoggingIn(e)
  BY <1>1, <1>2, <1>3 DEF CountsInv, SpentIsUsed, LoggingIn
<1>6. Actions' = Actions BY <1>1 DEF Actions
<1>7. Actions' + Cardinality(Acting') <= MaxActions + Cardinality(AuthCall)
  <2>1. Acting' \in SUBSET AuthCall BY DEF Acting
  <2>2. Cardinality(Acting') \in Nat /\ Cardinality(Acting') <= Cardinality(AuthCall)
    BY <2>1, AuthBounds, FS_Subset, FS_CardinalityType
  <2> QED BY <1>1, <1>6, <2>2, CountsAreNat
<1> QED BY <1>1, <1>4, <1>5, <1>7 DEF CountsInv

\* A signed action ends: what was at its await has been accepted.
LEMMA AcceptedCounted ==
   ASSUME AuthShape, CountsInv, NEW t \in AuthCall, ActionVerified(t)
   PROVE  CountsInv'
<1>1. /\ call' = [call EXCEPT ![t] = NoCall] /\ call[t].pc = "action"
      /\ UNCHANGED <<challenges, logins, crossed>>
      /\ accepted' = [accepted EXCEPT ![call[t].key][call[t].nonce] = @ + 1]
      /\ usedNonces' \subseteq usedNonces \cup {<<call[t].key, call[t].nonce>>}
  BY DEF ActionVerified
<1>2. PICK k \in Key, n \in Nonce : k = call[t].key /\ n = call[t].nonce
  BY <1>1 DEF AuthShape, Knows
<1>3. /\ call'[t].pc = "idle" /\ \A u \in AuthCall \ {t} : call'[u] = call[u]
  BY <1>1 DEF AuthShape, NoCall
<1>4. usedNonces' \subseteq Key \X Nonce BY <1>1, <1>2 DEF CountsInv
<1>5. \A e \in Challenge : SpentIsUsed(e)' /\ LoggingIn(e)' = LoggingIn(e)
  BY <1>1, <1>3 DEF CountsInv, SpentIsUsed, LoggingIn
<1>6. Actions' = Actions + 1
  <2> DEFINE f == [j \in Key |-> SumFunction(accepted[j])]
             g == [j \in Key |-> SumFunction(accepted'[j])]
  <2>1. accepted \in [Key -> [Nonce -> Nat]] BY DEF AuthShape
  <2>2. /\ accepted' = [accepted EXCEPT ![k] = [accepted[k] EXCEPT ![n] = accepted[k][n] + 1]]
    BY <1>1, <1>2
  <2>3. /\ accepted'[k] = [accepted[k] EXCEPT ![n] = accepted[k][n] + 1]
        /\ \A j \in Key \ {k} : accepted'[j] = accepted[j]
    BY <2>1, <2>2
  <2>4. /\ accepted[k] \in [Nonce -> Int] /\ accepted'[k] \in [Nonce -> Int]
        /\ accepted'[k][n] = accepted[k][n] + 1 /\ accepted[k][n] \in Int
        /\ \A m \in Nonce : m # n => accepted'[k][m] = accepted[k][m]
    BY <2>1, <2>3
  <2>5. SumFunction(accepted'[k]) = SumFunction(accepted[k]) + (accepted'[k][n] - accepted[k][n])
    BY <2>4, AuthBounds, SumChange
  <2>6. SumFunction(accepted'[k]) = SumFunction(accepted[k]) + 1
    BY <2>4, <2>5, AuthBounds, SumType
  <2>7. \A j \in Key : SumFunction(accepted[j]) \in Nat BY CountsAreNat
  <2>8. /\ f \in [Key -> Int] /\ g \in [Key -> Int]
        /\ \A j \in Key : j # k => g[j] = f[j]
        /\ g[k] = f[k] + 1
    BY <2>3, <2>6, <2>7
  <2> HIDE DEF f, g
  <2>9. SumFunction(g) = SumFunction(f) + (g[k] - f[k]) BY <2>8, AuthBounds, SumChange
  <2>10. SumFunction(f) \in Int /\ f[k] \in Int BY <2>8, AuthBounds, SumType
  <2>11. SumFunction(g) = SumFunction(f) + 1 BY <2>8, <2>9, <2>10
  <2> QED BY <2>11 DEF f, g, Actions
<1>7. Cardinality(Acting') = Cardinality(Acting) - 1
  <2>1. Acting' = Acting \ {t} /\ t \in Acting BY <1>1, <1>3 DEF Acting
  <2> QED BY <2>1, CountsAreNat, FS_RemoveElement
<1>8. Actions' + Cardinality(Acting') <= MaxActions + Cardinality(AuthCall)
  <2>1. Actions + Cardinality(Acting) <= MaxActions + Cardinality(AuthCall) BY DEF CountsInv
  <2> QED BY <1>6, <1>7, <2>1, CountsAreNat
<1> QED BY <1>1, <1>4, <1>5, <1>8 DEF CountsInv

\* Nothing is counted at first.
LEMMA InitCounted == AuthInit => CountsInv
<1> SUFFICES ASSUME AuthInit PROVE CountsInv
  OBVIOUS
<1>1. AuthShape BY AuthInitHolds DEF AuthInv
<1>2. Acting = {} BY DEF AuthInit, NoCall, Acting
<1>3. \A c \in Challenge : LoggingIn(c) = {} /\ logins[c] = 0
  BY DEF AuthInit, NoCall, LoggingIn
<1>4. Actions = 0
  <2>1. \A k \in Key : accepted[k] \in [Nonce -> Int] /\ \A n \in Nonce : accepted[k][n] = 0
    BY DEF AuthInit
  <2>2. \A k \in Key : SumFunction(accepted[k]) = 0 BY <2>1, AuthBounds, SumSign
  <2> DEFINE f == [k \in Key |-> SumFunction(accepted[k])]
  <2>3. f \in [Key -> Int] /\ \A k \in Key : f[k] = 0 BY <2>2
  <2> HIDE DEF f
  <2>4. SumFunction(f) = 0 BY <2>3, AuthBounds, SumSign
  <2> QED BY <2>4 DEF f, Actions
<1>5. Cardinality({}) = 0 BY FS_EmptySet
<1>6. /\ usedNonces = {} /\ crossed = {} BY DEF AuthInit
<1>7. Actions + Cardinality(Acting) <= MaxActions + Cardinality(AuthCall)
  BY <1>1, <1>2, <1>4, <1>5, CountsAreNat
<1>8. \A c \in Challenge : logins[c] + Cardinality(LoggingIn(c)) <= Cardinality(AuthCall)
  BY <1>1, <1>3, <1>5, CountsAreNat
<1> QED BY <1>3, <1>6, <1>7, <1>8 DEF CountsInv, SpentIsUsed

\* Every step keeps the counts.
LEMMA StepCounted == AuthInv /\ CountsInv /\ [AuthStep]_authVars => CountsInv'
<1> SUFFICES ASSUME AuthInv, CountsInv, [AuthStep]_authVars PROVE CountsInv'
  OBVIOUS
<1>0. AuthShape BY DEF AuthInv
<1>1. ASSUME UNCHANGED <<usedNonces, accepted, logins, crossed, call>>,
             \A c \in Challenge : challenges'[c] \in {challenges[c], Missing}
                                   \/ logins[c] = 0
      PROVE  CountsInv'
  <2>1. \A c \in Challenge : SpentIsUsed(c)' BY <1>1 DEF CountsInv, SpentIsUsed
  <2>2. crossed' \subseteq Challenge \cup (Key \X Nonce) \cup Key BY <1>1 DEF CountsInv
  <2> QED BY <1>0, <1>1, <2>1, <2>2, NothingCounted
<1>2. ASSUME NEW k \in Key, RegisterUser(k) PROVE CountsInv'
  BY <1>1, <1>2 DEF RegisterUser, authHistory
<1>3. ASSUME NEW k \in Key, EnableTOTP(k) PROVE CountsInv'
  <2>1. \A c \in Challenge : SpentIsUsed(c)' BY <1>3 DEF EnableTOTP, CountsInv, SpentIsUsed
  <2>2. crossed' \subseteq Challenge \cup (Key \X Nonce) \cup Key
    BY <1>3 DEF EnableTOTP, CountsInv
  <2>3. UNCHANGED <<usedNonces, accepted, logins, call>> BY <1>3 DEF EnableTOTP
  <2> QED BY <1>0, <2>1, <2>2, <2>3, NothingCounted
<1>4. ASSUME NEW k \in Key, NEW c \in Challenge, CreateLoginChallenge(k, c) PROVE CountsInv'
  BY <1>1, <1>4 DEF CreateLoginChallenge, authHistory
<1>5. ASSUME NEW t \in AuthCall, NEW k \in Key, NEW s \in Secret, SetupTOTP(t, k, s)
      PROVE  CountsInv'
  <2> DEFINE d == [NoCall EXCEPT !.pc = "setup", !.key = k, !.secret = s]
  <2>1. /\ call' = [call EXCEPT ![t] = d]
        /\ UNCHANGED <<challenges, usedNonces, accepted, logins, crossed>>
    BY <1>5 DEF SetupTOTP, Await, authBook, authHistory
  <2>2. d.pc = "setup" BY DEF NoCall
  <2> HIDE DEF d
  <2>3. \A u \in AuthCall : call'[u].pc \in {"login", "action"} => call'[u] = call[u]
    BY <1>0, <2>1, <2>2 DEF AuthShape
  <2>4. \A c \in Challenge : SpentIsUsed(c)' BY <2>1 DEF CountsInv, SpentIsUsed
  <2>5. crossed' \subseteq Challenge \cup (Key \X Nonce) \cup Key BY <2>1 DEF CountsInv
  <2> QED BY <1>0, <2>1, <2>3, <2>4, <2>5, NothingCounted
<1>6. ASSUME NEW t \in AuthCall, SecretDrawn(t) PROVE CountsInv'
  <2>1. /\ call' = [call EXCEPT ![t] = NoCall]
        /\ UNCHANGED <<challenges, usedNonces, accepted, logins, crossed>>
    BY <1>6 DEF SecretDrawn, authHistory
  <2>2. NoCall.pc = "idle" BY DEF NoCall
  <2>3. \A u \in AuthCall : call'[u].pc \in {"login", "action"} => call'[u] = call[u]
    BY <1>0, <2>1, <2>2 DEF AuthShape
  <2>4. \A c \in Challenge : SpentIsUsed(c)' BY <2>1 DEF CountsInv, SpentIsUsed
  <2>5. crossed' \subseteq Challenge \cup (Key \X Nonce) \cup Key BY <2>1 DEF CountsInv
  <2> QED BY <1>0, <2>1, <2>3, <2>4, <2>5, NothingCounted
<1>7. ASSUME NEW s \in Session, ValidateSession(s) \/ Logout(s) PROVE CountsInv'
  BY <1>1, <1>7 DEF ValidateSession, Logout, EndSession, authHistory
<1>8. CASE ExportUsers
  BY <1>1, <1>8 DEF ExportUsers, authHistory
<1>9. CASE ImportUsers
  <2>1. UNCHANGED <<challenges, usedNonces, accepted, logins, crossed>>
    BY <1>9 DEF ImportUsers, authHistory
  <2>2. \A u \in AuthCall : call'[u].pc = call[u].pc /\ call'[u].challenge = call[u].challenge
    BY <1>0, <1>9 DEF ImportUsers, AuthShape
  <2>4. \A c \in Challenge : SpentIsUsed(c)' BY <2>1 DEF CountsInv, SpentIsUsed
  <2>5. crossed' \subseteq Challenge \cup (Key \X Nonce) \cup Key BY <2>1 DEF CountsInv
  <2> QED BY <1>0, <2>1, <2>2, <2>4, <2>5, NothingCounted
<1>10. CASE AuthTick
  BY <1>1, <1>10 DEF AuthTick, authBook, authHistory
<1>11. CASE UNCHANGED authVars
  BY <1>1, <1>11 DEF authVars, authBook, authHistory
<1> QED BY <1>0, <1>2, <1>3, <1>4, <1>5, <1>6, <1>7, <1>8, <1>9, <1>10, <1>11,
           LoginCounted, LoggedInCounted, ActionCounted, AcceptedCounted DEF AuthStep

\* The type of the users, challenges, sessions and nonces; with it, that a
\* challenge makes at most as many sessions as calls can overlap, and that no
\* more signed actions are accepted than were begun.
THEOREM AuthTypeCorrect == AuthSpec => []AuthTypeOK
<1>1. AuthInit => AuthInv /\ CountsInv BY AuthInitHolds, InitCounted
<1>2. AuthInv /\ CountsInv /\ [AuthStep]_authVars => (AuthInv /\ CountsInv)'
  BY AuthStepKeeps, StepCounted
<1>3. AuthInv /\ CountsInv => AuthTypeOK BY CountsBounded DEF AuthInv
<1> QED BY <1>1, <1>2, <1>3, PTL DEF AuthSpec

HIDE DEF Users, UserRecord, ChallengeRecord, SessionRecord, CallRecord

-----------------------------------------------------------------------------
(* The token ledgers                                                       *)


USE DEF Move, TokenRecord, Transaction, TokenBook

LEMMA OwnerType == Main \in Owner /\ Main \in Node
BY TokenAssumption DEF Owner

\* What the transactions owe to a token, one after the other.
IsUpTo(g, e, n) == g = [k \in 0..n |-> IF k = 0 THEN <<>> ELSE g[k - 1] \o e[k]]

LEMMA UpToExists ==
   ASSUME NEW e, NEW n \in Nat
   PROVE  \E g : IsUpTo(g, e, n)
<1> DEFINE N == {k \in Nat : \E g : IsUpTo(g, e, k)}
<1>1. 0 \in N
  <2> DEFINE g == [k \in 0..0 |-> <<>>]
  <2>1. IsUpTo(g, e, 0)
    <3>1. \A k \in 0..0 : g[k] = IF k = 0 THEN <<>> ELSE g[k - 1] \o e[k] OBVIOUS
    <3> QED BY <3>1 DEF IsUpTo
  <2> QED BY <2>1
<1>2. ASSUME NEW m \in Nat, m \in N PROVE m + 1 \in N
  <2>1. PICK g : IsUpTo(g, e, m) BY <1>2
  <2> DEFINE h == [k \in 0..(m + 1) |-> IF k = 0 THEN <<>> ELSE g[k - 1] \o e[k]]
  <2>2. \A k \in 0..m : h[k] = g[k]
    <3>1. \A k \in 0..m : g[k] = IF k = 0 THEN <<>> ELSE g[k - 1] \o e[k]
      BY <2>1 DEF IsUpTo
    <3> QED BY <3>1
  <2>3. \A k \in 0..(m + 1) : k # 0 => k - 1 \in 0..m OBVIOUS
  <2>4. h = [k \in 0..(m + 1) |-> IF k = 0 THEN <<>> ELSE h[k - 1] \o e[k]]
    <3>1. \A k \in 0..(m + 1) : h[k] = IF k = 0 THEN <<>> ELSE h[k - 1] \o e[k]
      BY <2>2, <2>3
    <3> QED BY <3>1
  <2> HIDE DEF h
  <2>5. IsUpTo(h, e, m + 1) BY <2>4 DEF IsUpTo
  <2> QED BY <2>5
<1>3. Nat \subseteq N
  <2> HIDE DEF N
  <2> QED BY <1>1, <1>2, SetOfNatInduction
<1> QED BY <1>3

\* (The provers expand an equation with \o where they meet it, so lemmas name it.)
Joined(a, b, c) == a = b \o c

LEMMA UpToTakes ==
   ASSUME NEW e, NEW n \in Nat, NEW g, IsUpTo(g, e, n)
   PROVE  /\ g[0] = <<>>
          /\ \A k \in 0..n : k # 0 => Joined(g[k], g[k - 1], e[k])
<1>1. \A k \in 0..n : g[k] = IF k = 0 THEN <<>> ELSE g[k - 1] \o e[k] BY DEF IsUpTo
<1>2. 0 \in 0..n OBVIOUS
<1> QED BY <1>1, <1>2 DEF Joined

\* It depends on nothing but what has been taken so far.
LEMMA UpToAgree ==
   ASSUME NEW e, NEW n \in Nat, NEW g, IsUpTo(g, e, n),
          NEW d, NEW m \in Nat, NEW h, IsUpTo(h, d, m),
          NEW z \in Nat, z <= n, z <= m, \A k \in 1..z : e[k] = d[k]
   PROVE  g[z] = h[z]
<1> DEFINE N == {k \in Nat : k <= z => g[k] = h[k]}
<1>1. /\ g[0] = <<>> /\ \A k \in 0..n : k # 0 => Joined(g[k], g[k - 1], e[k])
      /\ h[0] = <<>> /\ \A k \in 0..m : k # 0 => Joined(h[k], h[k - 1], d[k])
  BY UpToTakes
<1>2. 0 \in N BY <1>1
<1>3. ASSUME NEW k \in Nat, k \in N PROVE k + 1 \in N
  <2>1. SUFFICES ASSUME k + 1 <= z PROVE g[k + 1] = h[k + 1]
    OBVIOUS
  <2>2. g[k] = h[k] BY <1>3, <2>1
  <2>3. k + 1 \in 0..n /\ k + 1 \in 0..m /\ k + 1 \in 1..z /\ k + 1 # 0 /\ (k + 1) - 1 = k
    BY <2>1
  <2>4. Joined(g[k + 1], g[k], e[k + 1]) /\ Joined(h[k + 1], h[k], d[k + 1])
    BY <1>1, <2>3
  <2> QED BY <2>2, <2>3, <2>4 DEF Joined
<1>4. Nat \subseteq N
  <2> HIDE DEF N
  <2> QED BY <1>2, <1>3, SetOfNatInduction
<1> QED BY <1>4

LEMMA UpToOneMore ==
   ASSUME NEW e, NEW n \in Nat, NEW g, IsUpTo(g, e, n),
          NEW d, NEW m \in Nat, m = n + 1, NEW h, IsUpTo(h, d, m), \A k \in 1..n : e[k] = d[k]
   PROVE  Joined(h[m], g[n], d[m])
<1>1. n <= n /\ n <= m /\ m \in 0..m /\ m # 0 /\ m - 1 = n OBVIOUS
<1>2. g[n] = h[n] BY <1>1, UpToAgree
<1>3. \A k \in 0..m : k # 0 => Joined(h[k], h[k - 1], d[k]) BY UpToTakes
<1> QED BY <1>1, <1>2, <1>3

EntriesOf(txs, t) == [k \in 1..Len(txs) |-> Entries(txs[k], t)]

LEMMA EntriesToIsUpTo ==
   ASSUME NEW txs \in Seq(Transaction), NEW t
   PROVE  \E g : IsUpTo(g, EntriesOf(txs, t), Len(txs)) /\ EntriesTo(txs, t) = g[Len(txs)]
<1> DEFINE P(g) == g = [k \in 0..Len(txs) |->
                          IF k = 0 THEN <<>> ELSE g[k - 1] \o Entries(txs[k], t)]
           c == CHOOSE g : P(g)
<1>1. \A g : P(g) <=> IsUpTo(g, EntriesOf(txs, t), Len(txs))
  <2> TAKE g
  <2>1. \A k \in 0..Len(txs) : k # 0 => EntriesOf(txs, t)[k] = Entries(txs[k], t)
    BY DEF EntriesOf
  <2>2. [k \in 0..Len(txs) |-> IF k = 0 THEN <<>> ELSE g[k - 1] \o Entries(txs[k], t)]
           = [k \in 0..Len(txs) |-> IF k = 0 THEN <<>> ELSE g[k - 1] \o EntriesOf(txs, t)[k]]
    BY <2>1
  <2> QED BY <2>2 DEF IsUpTo
<1>2. \E g : P(g)
  <2>0. Len(txs) \in Nat OBVIOUS
  <2>1. \E g : IsUpTo(g, EntriesOf(txs, t), Len(txs)) BY <2>0, UpToExists
  <2> HIDE DEF P
  <2> QED BY <1>1, <2>1
<1>3. P(c)
  <2> HIDE DEF P
  <2> QED BY <1>2
<1>4. EntriesTo(txs, t) = c[Len(txs)] BY DEF EntriesTo
<1> HIDE DEF P, c
<1> QED BY <1>1, <1>3, <1>4

\* One more transaction adds its own entries.
LEMMA EntriesToAppend ==
   ASSUME NEW txs \in Seq(Transaction), NEW tx \in Transaction, NEW t
   PROVE  Joined(EntriesTo(Append(txs, tx), t), EntriesTo(txs, t), Entries(tx, t))
<1>1. PICK more : more = Append(txs, tx) OBVIOUS
<1>2. PICK n \in Nat, m \in Nat : n = Len(txs) /\ m = Len(more) /\ m = n + 1
  BY <1>1
<1>3. PICK e, d : e = EntriesOf(txs, t) /\ d = EntriesOf(more, t) OBVIOUS
<1>4. more \in Seq(Transaction) /\ more[m] = tx /\ \A k \in 1..n : more[k] = txs[k]
  BY <1>1, <1>2
<1>5. PICK g : IsUpTo(g, e, n) /\ EntriesTo(txs, t) = g[n]
  BY <1>2, <1>3, EntriesToIsUpTo
<1>6. PICK h : IsUpTo(h, d, m) /\ EntriesTo(more, t) = h[m]
  <2>1. \E h : IsUpTo(h, EntriesOf(more, t), Len(more)) /\ EntriesTo(more, t) = h[Len(more)]
    BY <1>4, EntriesToIsUpTo
  <2> QED BY <1>2, <1>3, <2>1
<1>7. (\A k \in 1..n : e[k] = d[k]) /\ d[m] = Entries(tx, t)
  <2>1. e = [k \in 1..n |-> Entries(txs[k], t)] /\ d = [k \in 1..m |-> Entries(more[k], t)]
    BY <1>2, <1>3 DEF EntriesOf
  <2>2. (\A k \in 1..n : k \in 1..m) /\ m \in 1..m BY <1>2
  <2> QED BY <1>4, <2>1, <2>2
<1>8. Joined(h[m], g[n], d[m])
  <2> HIDE <1>1, <1>2, <1>3
  <2> QED BY <1>2, <1>5, <1>6, <1>7, UpToOneMore
<1> QED BY <1>1, <1>5, <1>6, <1>7, <1>8

\* Who has validated makes no difference.
LEMMA EntriesToSame ==
   ASSUME NEW txs \in Seq(Transaction), NEW other \in Seq(Transaction), NEW t,
          Len(other) = Len(txs),
          \A k \in 1..Len(txs) : Entries(other[k], t) = Entries(txs[k], t)
   PROVE  EntriesTo(other, t) = EntriesTo(txs, t)
<1> DEFINE n == Len(txs)
           e == EntriesOf(txs, t)
           d == EntriesOf(other, t)
<1>1. n \in Nat OBVIOUS
<1>2. PICK g : IsUpTo(g, e, n) /\ EntriesTo(txs, t) = g[n] BY EntriesToIsUpTo
<1>3. PICK h : IsUpTo(h, d, n) /\ EntriesTo(other, t) = h[n]
  <2>1. \E h : IsUpTo(h, d, Len(other)) /\ EntriesTo(other, t) = h[Len(other)]
    BY EntriesToIsUpTo
  <2> QED BY <2>1
<1>4. \A k \in 1..n : e[k] = d[k] BY DEF EntriesOf
<1> HIDE DEF n, e, d
<1>5. g[n] = h[n] BY <1>1, <1>2, <1>3, <1>4, UpToAgree
<1> QED BY <1>2, <1>3, <1>5

LEMMA NoTransactions ==
   ASSUME NEW t
   PROVE  EntriesTo(<<>>, t) = <<>>
<1>1. <<>> \in Seq(Transaction) /\ Len(<<>>) = 0 OBVIOUS
<1>2. PICK g : IsUpTo(g, EntriesOf(<<>>, t), 0) /\ EntriesTo(<<>>, t) = g[0]
  <2>1. \E g : IsUpTo(g, EntriesOf(<<>>, t), Len(<<>>)) /\ EntriesTo(<<>>, t) = g[Len(<<>>)]
    BY <1>1, EntriesToIsUpTo
  <2> QED BY <1>1, <2>1
<1>3. g[0] = <<>> BY <1>2, UpToTakes
<1> QED BY <1>2, <1>3

Embeds(rec) == {i \in DOMAIN rec.history : rec.history[i].type = "embed"}

StatusShown(rec) ==
   \E i \in DOMAIN rec.history :
      /\ rec.history[i].type # "sale"
      /\ \A j \in DOMAIN rec.history : j > i => rec.history[j].type = "sale"
      /\ rec.status = StatusAfter(rec.history[i])

\* A token's record agrees with the entries e its ledger's transactions owe it.
Audited(rec, e) ==
   /\ rec.history # <<>> /\ rec.history[1].type = "mint"
   /\ Tail(rec.history) = e
   /\ rec.owner = rec.history[Len(rec.history)].to
   /\ StatusShown(rec)
   /\ rec.data = NoToken => Embeds(rec) = {}
   /\ rec.data # NoToken => \E i : Embeds(rec) = {i}

\* A ledger owes nothing to a token it does not hold.
BookFits(b) ==
   /\ b \in TokenBook
   /\ \A t \in Token : IF b.tokens[t] = NoToken THEN EntriesTo(b.txs, t) = <<>>
                        ELSE Audited(b.tokens[t], EntriesTo(b.txs, t))

TokenInv ==
   /\ TokenTypeOK
   /\ \A n \in Node : BookFits(book[n])
   /\ exported # NoToken => BookFits(exported)

LEMMA TimesIsNat ==
   ASSUME NEW ids \in Seq(Token), NEW t
   PROVE  /\ Times(ids, t) \in Nat
          /\ Times(ids, t) = 0 <=> \A i \in DOMAIN ids : ids[i] # t
<1> DEFINE at == {i \in DOMAIN ids : ids[i] = t}
<1>1. Len(ids) \in Nat /\ at \subseteq 1..Len(ids) OBVIOUS
<1>2. IsFiniteSet(at) BY <1>1, FS_Interval, FS_Subset
<1>3. Cardinality(at) \in Nat /\ (Cardinality(at) = 0 <=> at = {})
  BY <1>2, FS_CardinalityType, FS_EmptySet
<1> QED BY <1>3 DEF Times

LEMMA TimesOfOne ==
   ASSUME NEW t, NEW u
   PROVE  Times(<<t>>, u) = IF u = t THEN 1 ELSE 0
<1>1. {i \in DOMAIN <<t>> : <<t>>[i] = u} = IF u = t THEN {1} ELSE {} OBVIOUS
<1>2. Cardinality({1}) = 1 /\ Cardinality({}) = 0 BY FS_Singleton, FS_EmptySet
<1> QED BY <1>1, <1>2 DEF Times

LEMMA BlankAudited ==
   ASSUME NEW by \in Owner
   PROVE  Blank(by) \in TokenRecord /\ Audited(Blank(by), <<>>)
<1> DEFINE b == Blank(by)
           m == [to |-> by, type |-> "mint"]
<1>1. b \in TokenRecord BY DEF Blank
<1>2. b.history = <<m>> /\ b.owner = by /\ b.status = "minted" /\ b.data = NoToken
  BY DEF Blank
<1> HIDE DEF b
<1>3. DOMAIN b.history = {1} /\ b.history[1] = m /\ Len(b.history) = 1 BY <1>2
<1>4. Tail(b.history) = <<>> BY <1>2
<1>5. StatusShown(b) BY <1>2, <1>3 DEF StatusShown, StatusAfter
<1>6. Embeds(b) = {} BY <1>3 DEF Embeds
<1>7. b.history # <<>> BY <1>2
<1> QED BY <1>1, <1>2, <1>3, <1>4, <1>5, <1>6, <1>7 DEF Audited, b

LEMMA TailJoined ==
   ASSUME NEW h \in Seq(Move), h # <<>>, NEW x \in Seq(Move), NEW k, Joined(k, h, x)
   PROVE  /\ Joined(Tail(k), Tail(h), x)
          /\ k \in Seq(Move) /\ k # <<>>
          /\ Len(k) = Len(h) + Len(x)
          /\ DOMAIN k = 1..(Len(h) + Len(x))
          /\ \A i \in 1..Len(h) : k[i] = h[i]
          /\ \A i \in 1..Len(x) : k[Len(h) + i] = x[i]
<1> USE DEF Joined
<1> HIDE DEF Move
<1>1. Len(h) \in Nat /\ Len(h) > 0 /\ Len(x) \in Nat OBVIOUS
<1>2. /\ k \in Seq(Move) /\ Len(k) = Len(h) + Len(x)
      /\ DOMAIN k = 1..(Len(h) + Len(x))
      /\ \A i \in 1..Len(h) : k[i] = h[i]
      /\ \A i \in 1..Len(x) : k[Len(h) + i] = x[i]
  BY <1>1
<1>3. k # <<>> BY <1>1, <1>2
<1>4. Tail(k) = Tail(h) \o x
  <2>1. Tail(h \o x) = Tail(h) \o x BY <1>1, <1>2, <1>3
  <2> QED BY <2>1
<1> QED BY <1>2, <1>3, <1>4

\* A sale adds entries that are all of the buyer.
LEMMA AuditedSold ==
   ASSUME NEW rec \in TokenRecord, NEW e, Audited(rec, e), NEW buyer \in Owner,
          NEW times \in Nat, times # 0,
          NEW x, x = [i \in 1..times |-> [to |-> buyer, type |-> "sale"]],
          NEW new, new = [rec EXCEPT !.owner = buyer, !.history = rec.history \o x],
          NEW f, Joined(f, e, x)
   PROVE  new \in TokenRecord /\ Audited(new, f)
<1> DEFINE h == rec.history
           k == new.history
<1>0. x \in Seq(Move) /\ Len(x) = times
  <2>1. [to |-> buyer, type |-> "sale"] \in Move OBVIOUS
  <2> HIDE DEF Move
  <2> QED BY <2>1
<1>1. /\ h \in Seq(Move) /\ h # <<>> /\ x \in Seq(Move) /\ Len(x) = times
      /\ Len(h) \in Nat /\ Len(h) > 0
      /\ \A i \in 1..times : x[i].to = buyer /\ x[i].type = "sale"
  BY <1>0 DEF Audited
<1>2. /\ Joined(k, h, x) /\ new.owner = buyer /\ new.status = rec.status
      /\ new.data = rec.data
  BY DEF Joined
<1>3. /\ Joined(Tail(k), Tail(h), x) /\ k \in Seq(Move) /\ k # <<>>
      /\ Len(k) = Len(h) + times /\ DOMAIN k = 1..(Len(h) + times)
      /\ \A i \in 1..Len(h) : k[i] = h[i]
      /\ \A i \in 1..times : k[Len(h) + i] = x[i]
  <2>1. /\ Joined(Tail(k), Tail(h), x) /\ k \in Seq(Move) /\ k # <<>>
        /\ Len(k) = Len(h) + Len(x) /\ DOMAIN k = 1..(Len(h) + Len(x))
        /\ \A i \in 1..Len(h) : k[i] = h[i]
        /\ \A i \in 1..Len(x) : k[Len(h) + i] = x[i]
    <3> HIDE DEF h, k, Move
    <3> QED BY <1>1, <1>2, TailJoined
  <2> QED BY <1>1, <2>1
<1>4. new \in TokenRecord BY <1>2, <1>3
<1> HIDE DEF h, k
<1>5. Tail(k) = f
  <2>1. Tail(h) = e BY DEF Audited, h
  <2> QED BY <1>3, <2>1 DEF Joined
<1>6. DOMAIN h = 1..Len(h) /\ \A j \in DOMAIN k \ DOMAIN h : k[j].to = buyer /\ k[j].type = "sale"
  <2>1. ASSUME NEW j \in DOMAIN k \ DOMAIN h
        PROVE  k[j].to = buyer /\ k[j].type = "sale"
    <3>1. j - Len(h) \in 1..times /\ Len(h) + (j - Len(h)) = j BY <1>1, <1>3, <2>1
    <3> QED BY <1>1, <1>3, <3>1
  <2> QED BY <1>1, <2>1
<1>7. k[1].type = "mint" /\ k[Len(k)].to = buyer
  <2>1. 1 \in 1..Len(h) /\ Len(k) \in DOMAIN k \ DOMAIN h BY <1>1, <1>3, <1>6
  <2> QED BY <1>3, <1>6, <2>1 DEF Audited, h
<1>8. StatusShown(new)
  <2>1. PICK i \in DOMAIN h : /\ h[i].type # "sale"
                              /\ \A j \in DOMAIN h : j > i => h[j].type = "sale"
                              /\ rec.status = StatusAfter(h[i])
    BY DEF Audited, StatusShown, h
  <2>2. i \in DOMAIN k /\ k[i] = h[i] BY <1>1, <1>3, <1>6
  <2>3. \A j \in DOMAIN k : j > i => k[j].type = "sale" BY <1>3, <1>6, <2>1
  <2> QED BY <1>2, <2>1, <2>2, <2>3 DEF StatusShown, k
<1>9. Embeds(new) = Embeds(rec)
  <2>1. ASSUME NEW i \in DOMAIN k, k[i].type = "embed"
        PROVE  i \in DOMAIN h /\ h[i].type = "embed"
    BY <1>3, <1>6, <2>1
  <2>2. ASSUME NEW i \in DOMAIN h, h[i].type = "embed"
        PROVE  i \in DOMAIN k /\ k[i].type = "embed"
    BY <1>1, <1>3, <1>6, <2>2
  <2> QED BY <2>1, <2>2 DEF Embeds, h, k
<1> QED BY <1>2, <1>3, <1>4, <1>5, <1>7, <1>8, <1>9 DEF Audited, k

\* Embedding and a transfer add one entry, which gives the status.
LEMMA AuditedMoved ==
   ASSUME NEW rec \in TokenRecord, NEW e, Audited(rec, e),
          NEW m \in Move, m.type \in {"embed", "transfer"},
          NEW new \in TokenRecord, new.history = Append(rec.history, m), new.owner = m.to,
          new.status = StatusAfter(m),
          IF m.type = "embed" THEN rec.data = NoToken /\ new.data # NoToken
          ELSE new.data = rec.data,
          NEW x, x = <<m>>, NEW f, Joined(f, e, x)
   PROVE  Audited(new, f)
<1> DEFINE h == rec.history
           k == new.history
           n == Len(h) + 1
<1>1. /\ h \in Seq(Move) /\ h # <<>> /\ x \in Seq(Move) /\ Len(x) = 1
      /\ Len(h) \in Nat /\ Len(h) > 0 /\ DOMAIN h = 1..Len(h) /\ x[1] = m
  BY DEF Audited
<1>2. Joined(k, h, x) BY <1>1 DEF Joined
<1>3. /\ Joined(Tail(k), Tail(h), x) /\ k # <<>>
      /\ Len(k) = n /\ DOMAIN k = 1..n
      /\ \A i \in 1..Len(h) : k[i] = h[i]
      /\ k[n] = m
  <2>1. /\ Joined(Tail(k), Tail(h), x) /\ k \in Seq(Move) /\ k # <<>>
        /\ Len(k) = Len(h) + Len(x) /\ DOMAIN k = 1..(Len(h) + Len(x))
        /\ \A i \in 1..Len(h) : k[i] = h[i]
        /\ \A i \in 1..Len(x) : k[Len(h) + i] = x[i]
    <3> HIDE DEF h, k, Move
    <3>1. h \in Seq(Move) /\ h # <<>> /\ x \in Seq(Move) BY <1>1
    <3> QED BY ONLY <1>2, <3>1, TailJoined
  <2> QED BY <1>1, <2>1
<1>4. DOMAIN k = DOMAIN h \cup {n} /\ n \notin DOMAIN h /\ n \in Nat BY <1>1, <1>3
<1>5. \A i \in DOMAIN h : k[i] = h[i] BY <1>1, <1>3
<1> HIDE DEF h, k, n
<1>6. Tail(k) = f
  <2>1. Tail(h) = e BY DEF Audited, h
  <2> QED BY <1>3, <2>1 DEF Joined
<1>7. k[1].type = "mint" /\ k[Len(k)].to = new.owner
  <2>1. 1 \in DOMAIN h BY <1>1
  <2> QED BY <1>3, <1>5, <2>1 DEF Audited, h
<1>8. StatusShown(new)
  <2>1. n \in DOMAIN k /\ k[n].type # "sale" /\ new.status = StatusAfter(k[n]) BY <1>3, <1>4
  <2>2. \A j \in DOMAIN k : ~(j > n) BY <1>3, <1>4
  <2> QED BY <2>1, <2>2 DEF StatusShown, k
<1>9. Embeds(new) = Embeds(rec) \cup (IF m.type = "embed" THEN {n} ELSE {})
  BY <1>3, <1>4, <1>5 DEF Embeds, h, k
<1>10. /\ new.data = NoToken => Embeds(new) = {}
       /\ new.data # NoToken => \E i : Embeds(new) = {i}
  <2>1. CASE m.type = "embed"
    <3>1. Embeds(rec) = {} BY <2>1 DEF Audited
    <3> QED BY <1>9, <2>1, <3>1
  <2>2. CASE m.type # "embed"
    <3>1. Embeds(new) = Embeds(rec) BY <1>9, <2>2
    <3> QED BY <2>2, <3>1 DEF Audited
  <2> QED BY <2>1, <2>2
<1> QED BY <1>3, <1>6, <1>7, <1>8, <1>10 DEF Audited, k

\* What the transaction tx says of t is what the new map toks says.
Continues(n, t, toks, tx) ==
   \/ toks[t] = book[n].tokens[t] /\ Times(tx.tokens, t) = 0
   \/ /\ toks[t] # NoToken
      /\ \A f : Joined(f, EntriesTo(book[n].txs, t), Entries(tx, t)) => Audited(toks[t], f)

LEMMA NothingTwice == Joined(<<>>, <<>>, <<>>) /\ \A f : Joined(f, <<>>, <<>>) => f = <<>>
BY DEF Joined

LEMMA NoEntries ==
   ASSUME NEW tx, NEW t, Times(tx.tokens, t) = 0
   PROVE  Entries(tx, t) = <<>>
BY DEF Entries

LEMMA RecordFits ==
   ASSUME TokenInv, NEW n \in Node, NEW tx \in Transaction,
          NEW toks \in [Token -> TokenRecord \cup {NoToken}],
          Record(n, toks, tx), \A t \in Token : Continues(n, t, toks, tx)
   PROVE  TokenInv'
<1> DEFINE b == [tokens |-> toks, txs |-> Append(book[n].txs, tx)]
<1>1. /\ book \in [Node -> TokenBook] /\ BookFits(book[n]) /\ exported' = exported
      /\ book' = [book EXCEPT ![n] = b]
  BY DEF TokenInv, TokenTypeOK, Record
<1>2. book[n].txs \in Seq(Transaction) BY <1>1
<1>3. b \in TokenBook
  <2> HIDE DEF Transaction
  <2>1. Append(book[n].txs, tx) \in Seq(Transaction) BY <1>2
  <2> QED BY <2>1
<1>4. ASSUME NEW t \in Token
      PROVE  IF b.tokens[t] = NoToken THEN EntriesTo(b.txs, t) = <<>>
             ELSE Audited(b.tokens[t], EntriesTo(b.txs, t))
  <2>1. Joined(EntriesTo(b.txs, t), EntriesTo(book[n].txs, t), Entries(tx, t))
    BY <1>2, EntriesToAppend
  <2>2. b.tokens[t] = toks[t] OBVIOUS
  <2> HIDE DEF b
  <2>3. CASE toks[t] = book[n].tokens[t] /\ Times(tx.tokens, t) = 0
    <3>1. Entries(tx, t) = <<>> BY <2>3, NoEntries
    <3>2. EntriesTo(book[n].txs, t) \in Seq(Move)
      <4>1. CASE toks[t] = NoToken
        <5>1. EntriesTo(book[n].txs, t) = <<>> BY <1>1, <2>3, <4>1 DEF BookFits
        <5> QED BY <5>1
      <4>2. CASE toks[t] # NoToken
        <5>1. toks[t] \in TokenRecord BY <4>2
        <5>2. Audited(toks[t], EntriesTo(book[n].txs, t)) BY <1>1, <2>3, <4>2 DEF BookFits
        <5>3. toks[t].history \in Seq(Move) /\ toks[t].history # <<>>
          BY <5>1, <5>2 DEF Audited
        <5>4. Tail(toks[t].history) \in Seq(Move) BY <5>3
        <5> QED BY <5>2, <5>4 DEF Audited
      <4> QED BY <4>1, <4>2
    <3>3. EntriesTo(b.txs, t) = EntriesTo(book[n].txs, t)
      <4>1. \A f, a : Joined(f, a, <<>>) /\ a \in Seq(Move) => f = a BY DEF Joined
      <4> QED BY <2>1, <3>1, <3>2, <4>1
    <3> QED BY <1>1, <2>2, <2>3, <3>3 DEF BookFits
  <2>4. CASE ~(toks[t] = book[n].tokens[t] /\ Times(tx.tokens, t) = 0)
    BY <2>1, <2>2, <2>4 DEF Continues
  <2> QED BY <2>3, <2>4
<1>5. BookFits(b)
  <2> HIDE DEF b
  <2> QED BY <1>3, <1>4 DEF BookFits
<1> HIDE DEF b
<1>6. \A m \in Node : BookFits(book'[m]) BY <1>1, <1>5 DEF TokenInv
<1>7. book' \in [Node -> TokenBook] BY <1>1, <1>3
<1> QED BY <1>1, <1>6, <1>7 DEF TokenInv, TokenTypeOK

LEMMA BookType ==
   ASSUME TokenInv, NEW n \in Node
   PROVE  /\ book \in [Node -> TokenBook] /\ book[n] \in TokenBook /\ BookFits(book[n])
          /\ book[n].tokens \in [Token -> TokenRecord \cup {NoToken}]
          /\ book[n].txs \in Seq(Transaction)
          /\ \A t \in Held(n) : book[n].tokens[t] \in TokenRecord
                               /\ Audited(book[n].tokens[t], EntriesTo(book[n].txs, t))
<1>1. book \in [Node -> TokenBook] /\ BookFits(book[n]) BY DEF TokenInv, TokenTypeOK
<1>2. /\ book[n] \in TokenBook /\ book[n].tokens \in [Token -> TokenRecord \cup {NoToken}]
      /\ book[n].txs \in Seq(Transaction)
  BY <1>1
<1>3. \A t \in Held(n) : book[n].tokens[t] \in TokenRecord
                         /\ Audited(book[n].tokens[t], EntriesTo(book[n].txs, t))
  BY <1>1, <1>2 DEF BookFits, Held
<1> QED BY <1>1, <1>2, <1>3

LEMMA PendingType ==
   ASSUME NEW type \in {"mint", "sell", "embed", "transfer"}, NEW toks \in Seq(Token),
          NEW from \in Owner \cup {NoToken}, NEW to \in Owner, NEW n \in Node
   PROVE  /\ Pending(type, toks, from, to) \in Transaction
          /\ Pending(type, toks, from, to).tokens = toks
          /\ Pending(type, toks, from, to).type = type
          /\ Pending(type, toks, from, to).to = to
          /\ Settled(type, toks, from, to, n) \in Transaction
          /\ Settled(type, toks, from, to, n).tokens = toks
          /\ Settled(type, toks, from, to, n).type = type
          /\ Settled(type, toks, from, to, n).to = to
<1>1. <<>> \in Seq(Node) /\ <<n>> \in Seq(Node) OBVIOUS
<1> QED BY <1>1 DEF Pending, Settled

LEMMA MintFits ==
   ASSUME TokenInv, NEW n \in Node, NEW minted \in SUBSET Token, NEW by \in Owner,
          PostMint(n, minted, by)
   PROVE  TokenInv'
<1> DEFINE toks == [t \in Token |-> IF t \in minted THEN Blank(by) ELSE book[n].tokens[t]]
           tx == Settled("mint", <<>>, NoToken, by, n)
<1>1. Record(n, toks, tx) /\ minted \subseteq FreshTokens BY DEF PostMint, MintTokens
<1>2. /\ BookFits(book[n]) /\ book[n].tokens \in [Token -> TokenRecord \cup {NoToken}]
  BY BookType
<1>3. Blank(by) \in TokenRecord /\ Audited(Blank(by), <<>>) BY BlankAudited
<1>4. Blank(by) # NoToken BY <1>3, TokenAssumption
<1>5. toks \in [Token -> TokenRecord \cup {NoToken}] BY <1>2, <1>3
<1>6. tx \in Transaction /\ tx.tokens = <<>>
  <2>1. <<>> \in Seq(Token) /\ <<n>> \in Seq(Node) OBVIOUS
  <2> QED BY <2>1 DEF Settled, Pending
<1>7. \A t \in Token : Times(tx.tokens, t) = 0
  <2>1. <<>> \in Seq(Token) /\ \A t : \A i \in DOMAIN <<>> : <<>>[i] # t OBVIOUS
  <2> QED BY <1>6, <2>1, TimesIsNat
<1>8. ASSUME NEW t \in Token PROVE Continues(n, t, toks, tx)
  <2>1. CASE t \in minted
    <3>1. book[n].tokens[t] = NoToken BY <1>1, <2>1 DEF FreshTokens, Held
    <3>2. EntriesTo(book[n].txs, t) = <<>> BY <1>2, <3>1 DEF BookFits
    <3>3. Entries(tx, t) = <<>> BY <1>7, NoEntries
    <3>4. toks[t] = Blank(by) BY <2>1
    <3> HIDE DEF tx, toks
    <3> QED BY <1>3, <1>4, <3>2, <3>3, <3>4, NothingTwice DEF Continues
  <2>2. CASE t \notin minted BY <1>7, <2>2 DEF Continues
  <2> QED BY <2>1, <2>2
<1> HIDE DEF tx, toks
<1> QED BY <1>1, <1>5, <1>6, <1>8, RecordFits

LEMMA SellFits ==
   ASSUME TokenInv, NEW n \in Node, NEW ids \in Seq(Token), NEW buyer \in Owner,
          PostSell(n, ids, buyer)
   PROVE  TokenInv'
<1> DEFINE toks == [t \in Token |-> Sold(book[n].tokens[t], buyer, Times(ids, t))]
           tx == Settled("sell", ids, Main, buyer, n)
<1>1. Record(n, toks, tx) /\ \A i \in DOMAIN ids : Sellable(n, ids[i])
  BY DEF PostSell, SellTokens
<1>2. /\ book[n].tokens \in [Token -> TokenRecord \cup {NoToken}]
      /\ \A t \in Held(n) : book[n].tokens[t] \in TokenRecord
                            /\ Audited(book[n].tokens[t], EntriesTo(book[n].txs, t))
  BY BookType
<1>3. tx \in Transaction /\ tx.tokens = ids /\ tx.type = "sell" /\ tx.to = buyer
  BY OwnerType, PendingType
<1> HIDE DEF tx
<1>4. ASSUME NEW t \in Token
      PROVE  toks[t] \in TokenRecord \cup {NoToken} /\ Continues(n, t, toks, tx)
  <2>1. Times(ids, t) \in Nat /\ (Times(ids, t) = 0 <=> \A i \in DOMAIN ids : ids[i] # t)
    BY TimesIsNat
  <2>2. CASE Times(ids, t) = 0
    BY <1>2, <1>3, <2>2 DEF Sold, Continues
  <2>3. CASE Times(ids, t) # 0
    <3>1. t \in Held(n) BY <1>1, <2>1, <2>3 DEF Sellable
    <3> DEFINE rec == book[n].tokens[t]
    <3>2. PICK x : x = [i \in 1..Times(ids, t) |-> [to |-> buyer, type |-> "sale"]] OBVIOUS
    <3>3. x = Entries(tx, t) BY <1>3, <3>2 DEF Entries
    <3>4. PICK new : new = [rec EXCEPT !.owner = buyer, !.history = rec.history \o x] OBVIOUS
    <3>5. toks[t] = new BY <2>3, <3>2, <3>4 DEF Sold
    <3>6. new \in TokenRecord
          /\ \A f : Joined(f, EntriesTo(book[n].txs, t), x) => Audited(new, f)
      <4>1. rec \in TokenRecord /\ Audited(rec, EntriesTo(book[n].txs, t)) BY <1>2, <3>1
      <4>2. PICK e : e = EntriesTo(book[n].txs, t) OBVIOUS
      <4>3. PICK times \in Nat : times # 0 /\ times = Times(ids, t) BY <2>1, <2>3
      <4> HIDE DEF rec
      <4>4. \A f : Joined(f, e, x) => new \in TokenRecord /\ Audited(new, f)
        BY <3>2, <3>4, <4>1, <4>2, <4>3, AuditedSold
      <4>5. \E f : Joined(f, e, x) BY DEF Joined
      <4> QED BY <4>2, <4>4, <4>5
    <3>7. new # NoToken BY <3>6, TokenAssumption
    <3> HIDE DEF toks, rec
    <3> QED BY <3>3, <3>5, <3>6, <3>7 DEF Continues
  <2> QED BY <2>2, <2>3
<1>5. toks \in [Token -> TokenRecord \cup {NoToken}] BY <1>4
<1> HIDE DEF toks
<1> QED BY <1>1, <1>3, <1>4, <1>5, RecordFits

\* Embedding and a transfer record one token's move.
LEMMA MoveFits ==
   ASSUME TokenInv, NEW n \in Node, NEW t \in Held(n), NEW m \in Move,
          m.type \in {"embed", "transfer"}, NEW from \in Owner, NEW new \in TokenRecord,
          new.history = Append(book[n].tokens[t].history, m), new.owner = m.to,
          new.status = StatusAfter(m),
          IF m.type = "embed" THEN book[n].tokens[t].data = NoToken /\ new.data # NoToken
          ELSE new.data = book[n].tokens[t].data,
          Record(n, [book[n].tokens EXCEPT ![t] = new], Pending(m.type, <<t>>, from, m.to))
   PROVE  TokenInv'
<1> DEFINE toks == [book[n].tokens EXCEPT ![t] = new]
           tx == Pending(m.type, <<t>>, from, m.to)
<1>1. t \in Token BY DEF Held
<1>2. /\ book[n].tokens \in [Token -> TokenRecord \cup {NoToken}]
      /\ book[n].tokens[t] \in TokenRecord
      /\ Audited(book[n].tokens[t], EntriesTo(book[n].txs, t))
  BY BookType
<1>3. tx \in Transaction /\ tx.tokens = <<t>> /\ tx.type = m.type /\ tx.to = m.to
  <2>1. PICK list \in Seq(Token) : list = <<t>>
    <3>1. <<t>> \in Seq(Token) BY <1>1
    <3> QED BY <3>1
  <2>2. tx = Pending(m.type, list, from, m.to) /\ m.to \in Owner BY <2>1
  <2> HIDE DEF tx
  <2>3. tx \in Transaction /\ tx.tokens = list /\ tx.type = m.type /\ tx.to = m.to
    BY <2>2, PendingType
  <2> QED BY <2>1, <2>3
<1>4. toks \in [Token -> TokenRecord \cup {NoToken}] BY <1>2
<1> HIDE DEF tx
<1>5. ASSUME NEW u \in Token PROVE Continues(n, u, toks, tx)
  <2>1. CASE u # t
    <3>1. Times(tx.tokens, u) = 0 BY <1>3, <2>1, TimesOfOne
    <3> QED BY <1>2, <2>1, <3>1 DEF Continues
  <2>2. CASE u = t
    <3>1. Times(tx.tokens, u) = 1 BY <1>3, <2>2, TimesOfOne
    <3>2. PICK x : x = <<m>> OBVIOUS
    <3>3. Entries(tx, u) = x
      <4>1. [to |-> tx.to, type |-> IF tx.type = "sell" THEN "sale" ELSE tx.type] = m
        BY <1>3
      <4>2. Entries(tx, u) = [i \in 1..1 |-> m] BY <3>1, <4>1 DEF Entries
      <4> QED BY <3>2, <4>2
    <3>4. toks[u] = new BY <1>2, <2>2
    <3>5. new # NoToken BY TokenAssumption
    <3>6. \A f : Joined(f, EntriesTo(book[n].txs, t), x) => Audited(new, f)
      <4>1. PICK e, rec : e = EntriesTo(book[n].txs, t) /\ rec = book[n].tokens[t] OBVIOUS
      <4> QED BY <1>2, <3>2, <4>1, AuditedMoved
    <3> HIDE DEF toks
    <3> QED BY <2>2, <3>3, <3>4, <3>5, <3>6 DEF Continues
  <2> QED BY <2>1, <2>2
<1>6. Record(n, toks, tx) BY DEF tx
<1> HIDE DEF toks
<1> QED BY <1>3, <1>4, <1>5, <1>6, RecordFits

LEMMA EmbedFits ==
   ASSUME TokenInv, NEW n \in Node, NEW t \in Token, NEW data \in ItemData, NEW owner \in Owner,
          PostEmbed(n, t, data, owner)
   PROVE  TokenInv'
<1> DEFINE rec == book[n].tokens[t]
           m == [to |-> owner, type |-> "embed"]
           new == [rec EXCEPT !.data = data, !.status = "embedded",
                              !.history = Append(rec.history, m)]
<1>1. /\ t \in Held(n) /\ rec.owner = owner /\ rec.data = NoToken
      /\ Record(n, [book[n].tokens EXCEPT ![t] = new], Pending("embed", <<t>>, owner, owner))
  <2>1. t \in Held(n) /\ rec.owner = owner /\ rec.data = NoToken
    BY DEF PostEmbed, EmbedItemData
  <2>2. [rec EXCEPT !.data = data, !.status = "embedded",
                    !.history = Append(@, [to |-> owner, type |-> "embed"])] = new
    OBVIOUS
  <2> HIDE DEF new
  <2>3. Record(n, [book[n].tokens EXCEPT ![t] = new], Pending("embed", <<t>>, owner, owner))
    BY <2>2 DEF PostEmbed, EmbedItemData
  <2> QED BY <2>1, <2>3
<1>2. rec \in TokenRecord BY <1>1, BookType
<1>3. m \in Move /\ m.type = "embed" /\ m.to = owner OBVIOUS
<1>4. Append(rec.history, m) \in Seq(Move)
  <2>1. rec.history \in Seq(Move) BY <1>2
  <2> HIDE DEF Move, m, rec
  <2> QED BY <1>3, <2>1
<1> HIDE DEF m, rec
<1>5. /\ new \in TokenRecord /\ new.history = Append(rec.history, m) /\ new.owner = owner
      /\ new.status = "embedded" /\ new.data = data
  BY <1>1, <1>2, <1>4
<1>6. new.status = StatusAfter(m) /\ data # NoToken
  BY <1>3, <1>5, TokenAssumption DEF StatusAfter
<1> HIDE DEF new
<1> QED BY <1>1, <1>3, <1>5, <1>6, MoveFits DEF rec

LEMMA TransferFits ==
   ASSUME TokenInv, NEW n \in Node, NEW t \in Token, NEW from \in Owner, NEW to \in Owner,
          NEW signer, PostTransfer(n, t, from, to, signer)
   PROVE  TokenInv'
<1> DEFINE rec == book[n].tokens[t]
           m == [to |-> to, type |-> "transfer"]
           new == [rec EXCEPT !.owner = to, !.status = "transferred",
                              !.history = Append(rec.history, m)]
<1>1. /\ t \in Held(n)
      /\ Record(n, [book[n].tokens EXCEPT ![t] = new], Pending("transfer", <<t>>, from, to))
  <2>1. t \in Held(n) BY DEF PostTransfer, TransferToken
  <2>2. [rec EXCEPT !.owner = to, !.status = "transferred",
                    !.history = Append(@, [to |-> to, type |-> "transfer"])] = new
    OBVIOUS
  <2> HIDE DEF new
  <2>3. Record(n, [book[n].tokens EXCEPT ![t] = new], Pending("transfer", <<t>>, from, to))
    BY <2>2 DEF PostTransfer, TransferToken
  <2> QED BY <2>1, <2>3
<1>2. rec \in TokenRecord BY <1>1, BookType
<1>3. m \in Move /\ m.type = "transfer" /\ m.to = to OBVIOUS
<1>4. Append(rec.history, m) \in Seq(Move)
  <2>1. rec.history \in Seq(Move) BY <1>2
  <2> HIDE DEF Move, m, rec
  <2> QED BY <1>3, <2>1
<1> HIDE DEF m, rec
<1>5. /\ new \in TokenRecord /\ new.history = Append(rec.history, m) /\ new.owner = to
      /\ new.status = "transferred" /\ new.data = rec.data
  BY <1>2, <1>4
<1>6. new.status = StatusAfter(m) BY <1>3, <1>5 DEF StatusAfter
<1> HIDE DEF new
<1> QED BY ZenonT(40), <1>1, <1>3, <1>5, <1>6, MoveFits DEF rec

\* A validation changes nothing that an audit looks at.
LEMMA ValidateFits ==
   ASSUME TokenInv, NEW n \in Node, NEW i \in DOMAIN book[n].txs, ValidateTransaction(n, i)
   PROVE  TokenInv'
<1> DEFINE tx == book[n].txs[i]
           new == [tx EXCEPT !.validatedBy = Append(tx.validatedBy, n),
                             !.validated = tx.validated \/ Len(tx.validatedBy) + 1 >= QuorumM]
           txs == [book[n].txs EXCEPT ![i] = new]
           b == [book[n] EXCEPT !.txs = txs]
<1>1. /\ book \in [Node -> TokenBook] /\ book[n] \in TokenBook /\ BookFits(book[n])
      /\ book[n].txs \in Seq(Transaction)
  BY BookType
<1>2. tx \in Transaction
  <2> HIDE DEF Transaction
  <2> QED BY <1>1
<1>3. book' = [book EXCEPT ![n] = b] /\ exported' = exported
  <2>1. new = [tx EXCEPT !.validatedBy = Append(@, n),
                         !.validated = @ \/ Len(tx.validatedBy) + 1 >= QuorumM]
    OBVIOUS
  <2>2. book' = [book EXCEPT ![n].txs[i] =
                   [tx EXCEPT !.validatedBy = Append(@, n),
                              !.validated = @ \/ Len(tx.validatedBy) + 1 >= QuorumM]]
    BY DEF ValidateTransaction
  <2> HIDE DEF new
  <2>3. book' = [book EXCEPT ![n].txs[i] = new] BY <2>1, <2>2
  <2>4. [book EXCEPT ![n].txs[i] = new] = [book EXCEPT ![n] = b] OBVIOUS
  <2> QED BY <2>3, <2>4 DEF ValidateTransaction
<1>4. new \in Transaction /\ new.type = tx.type /\ new.tokens = tx.tokens /\ new.to = tx.to
  <2>1. Append(tx.validatedBy, n) \in Seq(Node) BY <1>2
  <2>2. (tx.validated \/ Len(tx.validatedBy) + 1 >= QuorumM) \in BOOLEAN OBVIOUS
  <2> QED BY <1>2, <2>1, <2>2
<1> HIDE DEF new
<1>5. txs \in Seq(Transaction) /\ Len(txs) = Len(book[n].txs)
  <2> HIDE DEF Transaction
  <2> QED BY <1>1, <1>4
<1>6. \A t : \A k \in 1..Len(book[n].txs) : Entries(txs[k], t) = Entries(book[n].txs[k], t)
  BY <1>1, <1>4 DEF Entries
<1> HIDE DEF txs
<1>7. \A t : EntriesTo(txs, t) = EntriesTo(book[n].txs, t) BY <1>1, <1>5, <1>6, EntriesToSame
<1>8. b \in TokenBook /\ b.tokens = book[n].tokens /\ b.txs = txs BY <1>1, <1>5
<1> HIDE DEF b
<1>9. BookFits(b) BY <1>1, <1>7, <1>8 DEF BookFits
<1>10. book' \in [Node -> TokenBook] /\ \A m \in Node : BookFits(book'[m])
  BY <1>1, <1>3, <1>8, <1>9 DEF TokenInv
<1> QED BY <1>3, <1>10 DEF TokenInv, TokenTypeOK

LEMMA TokenInitFits == TokenInit => TokenInv
<1> SUFFICES ASSUME TokenInit PROVE TokenInv
  OBVIOUS
<1> DEFINE b == [tokens |-> [t \in Token |-> NoToken], txs |-> <<>>]
<1>1. b \in TokenBook /\ \A t \in Token : b.tokens[t] = NoToken /\ b.txs = <<>>
  <2>1. <<>> \in Seq(Transaction) OBVIOUS
  <2> QED BY <2>1
<1>2. BookFits(b) BY <1>1, NoTransactions DEF BookFits
<1>3. \A n \in Node : book[n] = b BY DEF TokenInit
<1> HIDE DEF b
<1>4. book \in [Node -> TokenBook] BY <1>1, <1>3 DEF TokenInit, b
<1> QED BY <1>2, <1>3, <1>4 DEF TokenInit, TokenInv, TokenTypeOK

LEMMA TokenStepFits == TokenInv /\ [TokenStep]_tokenVars => TokenInv'
<1> SUFFICES ASSUME TokenInv, [TokenStep]_tokenVars PROVE TokenInv'
  OBVIOUS
<1>1. ASSUME NEW n \in Node, NEW ids \in (Token \X Token) \cup (Token \X {NoToken}),
             NEW buyer \in Owner,
             PostSell(n, IF ids[2] = NoToken THEN <<ids[1]>> ELSE <<ids[1], ids[2]>>, buyer)
      PROVE  TokenInv'
  <2>1. PICK list \in Seq(Token) :
           list = IF ids[2] = NoToken THEN <<ids[1]>> ELSE <<ids[1], ids[2]>>
    <3>1. CASE ids[2] = NoToken
      <4>1. <<ids[1]>> \in Seq(Token) OBVIOUS
      <4> QED BY <3>1, <4>1
    <3>2. CASE ids[2] # NoToken
      <4>1. <<ids[1], ids[2]>> \in Seq(Token) BY <3>2
      <4> QED BY <3>2, <4>1
    <3> QED BY <3>1, <3>2
  <2>2. PostSell(n, list, buyer) BY <1>1, <2>1
  <2> QED BY <2>1, <2>2, SellFits
<1>2. ASSUME NEW n \in Node, ExportLedger(n) PROVE TokenInv'
  <2>1. book' = book /\ exported' = book[n] /\ book[n] \in TokenBook /\ BookFits(book[n])
    BY <1>2, BookType DEF ExportLedger
  <2> QED BY <2>1 DEF TokenInv, TokenTypeOK
<1>3. ASSUME NEW n \in Node, ImportLedger(n) PROVE TokenInv'
  <2>1. /\ book' = [book EXCEPT ![n] = exported] /\ exported' = exported
        /\ BookFits(exported) /\ exported \in TokenBook /\ book \in [Node -> TokenBook]
    BY <1>3 DEF ImportLedger, TokenInv, TokenTypeOK
  <2>2. \A m \in Node : BookFits(book'[m]) BY <2>1 DEF TokenInv
  <2>3. book' \in [Node -> TokenBook] BY <2>1
  <2> QED BY <2>1, <2>2, <2>3 DEF TokenInv, TokenTypeOK
<1>4. CASE UNCHANGED tokenVars BY <1>4 DEF tokenVars, TokenInv, TokenTypeOK
<1> QED BY <1>1, <1>2, <1>3, <1>4, MintFits, EmbedFits, TransferFits, ValidateFits DEF TokenStep

(* For any number of nodes, tokens and transactions, with exports imported   *)
(* at any time: every token's history after its minting is what the          *)
(* transactions of its ledger say, in order, and its owner, status and data  *)
(* follow from it.                                                           *)
THEOREM LedgerAlwaysAuditable == TokenSpec => []LedgerIsAuditable
<1>1. ASSUME TokenInv PROVE LedgerIsAuditable
  <2>1. ASSUME NEW n \in Node, NEW t \in Held(n)
        PROVE  LET rec == book[n].tokens[t]
               IN  Cardinality({i \in DOMAIN rec.history : rec.history[i].type = "embed"})
                      = (IF rec.data = NoToken THEN 0 ELSE 1)
    <3>1. Audited(book[n].tokens[t], EntriesTo(book[n].txs, t)) BY <1>1, BookType
    <3> DEFINE rec == book[n].tokens[t]
    <3>2. CASE rec.data = NoToken
      <4>1. Embeds(rec) = {} BY <3>1, <3>2 DEF Audited
      <4> QED BY <3>2, <4>1, FS_EmptySet DEF Embeds
    <3>3. CASE rec.data # NoToken
      <4>1. PICK i : Embeds(rec) = {i} BY <3>1, <3>3 DEF Audited
      <4>2. Cardinality({i}) = 1 BY FS_Singleton
      <4> QED BY <3>3, <4>1, <4>2 DEF Embeds
    <3> QED BY <3>2, <3>3
  <2>2. \A n \in Node : \A t \in Held(n) :
           Audited(book[n].tokens[t], EntriesTo(book[n].txs, t))
    BY <1>1, BookType
  <2> QED BY SMTT(30), <2>1, <2>2 DEF LedgerIsAuditable, Audited, StatusShown
<1> QED BY <1>1, TokenInitFits, TokenStepFits, PTL DEF TokenSpec

\* One call on the ledger of n, which gives it the tokens toks.
LEMMA DataKept ==
   ASSUME TokenInv, NEW n \in Node, NEW toks, NEW txs,
          book' = [book EXCEPT ![n] = [tokens |-> toks, txs |-> txs]],
          \A t \in Held(n) : book[n].tokens[t].data \in {NoToken, toks[t].data}
   PROVE  \A m \in Node : \A t \in Held(m) :
             book[m].tokens[t].data \in {NoToken, book'[m].tokens[t].data}
<1>1. book \in [Node -> TokenBook] BY DEF TokenInv, TokenTypeOK
<1>2. TAKE m \in Node
<1>3. TAKE t \in Held(m)
<1>4. CASE m = n BY <1>1, <1>4
<1>5. CASE m # n BY <1>1, <1>5
<1> QED BY <1>4, <1>5

(* Item data is embedded for good, for any number of nodes, tokens and calls *)
(* on their ledgers.                                                         *)
THEOREM DataAlwaysPermanent == TokenSpec => EmbeddedDataIsPermanent
<1>1. ASSUME TokenInv, TokenStep PROVE DataStays
  <2>1. \A n \in Node : /\ book \in [Node -> TokenBook]
                        /\ book[n].tokens \in [Token -> TokenRecord \cup {NoToken}]
                        /\ \A t \in Held(n) : t \in Token /\ book[n].tokens[t] \in TokenRecord
    BY <1>1, BookType DEF Held
  <2>2. ASSUME NEW n \in Node, NEW toks, NEW tx, Record(n, toks, tx),
               \A t \in Held(n) : book[n].tokens[t].data \in {NoToken, toks[t].data}
        PROVE  DataStays
    BY <1>1, <2>2, DataKept DEF Record, DataStays
  <2>3. ASSUME NEW n \in Node, NEW minted \in SUBSET Token, NEW by \in Owner,
               PostMint(n, minted, by)
        PROVE  DataStays
    <3> DEFINE toks == [t \in Token |-> IF t \in minted THEN Blank(by) ELSE book[n].tokens[t]]
    <3>1. Record(n, toks, Settled("mint", <<>>, NoToken, by, n)) /\ minted \subseteq FreshTokens
      BY <2>3 DEF PostMint, MintTokens
    <3>2. \A t \in Held(n) : toks[t] = book[n].tokens[t] BY <2>1, <3>1 DEF FreshTokens
    <3> HIDE DEF toks
    <3> QED BY <2>2, <3>1, <3>2
  <2>4. ASSUME NEW n \in Node, NEW ids, NEW buyer \in Owner, PostSell(n, ids, buyer)
        PROVE  DataStays
    <3> DEFINE toks == [t \in Token |-> Sold(book[n].tokens[t], buyer, Times(ids, t))]
    <3>1. Record(n, toks, Settled("sell", ids, Main, buyer, n))
      BY <2>4 DEF PostSell, SellTokens
    <3>2. ASSUME NEW t \in Held(n) PROVE toks[t].data = book[n].tokens[t].data
      <4>1. toks[t] = Sold(book[n].tokens[t], buyer, Times(ids, t)) BY <2>1
      <4> HIDE DEF toks
      <4> QED BY <2>1, <4>1 DEF Sold
    <3> HIDE DEF toks
    <3> QED BY <2>2, <3>1, <3>2
  <2>5. ASSUME NEW n \in Node, NEW t \in Token, NEW data \in ItemData, NEW owner \in Owner,
               PostEmbed(n, t, data, owner)
        PROVE  DataStays
    <3> DEFINE rec == book[n].tokens[t]
    <3>1. PICK new, tx : Record(n, [book[n].tokens EXCEPT ![t] = new], tx)
      BY <2>5 DEF PostEmbed, EmbedItemData
    <3>2. rec.data = NoToken BY <2>5 DEF PostEmbed, EmbedItemData
    <3>3. PICK toks : toks = [book[n].tokens EXCEPT ![t] = new] OBVIOUS
    <3>4. \A u \in Held(n) : book[n].tokens[u].data \in {NoToken, toks[u].data}
      BY <2>1, <3>2, <3>3
    <3> QED BY <2>2, <3>1, <3>3, <3>4
  <2>6. ASSUME NEW n \in Node, NEW t \in Token, NEW from \in Owner, NEW to \in Owner,
               NEW signer, PostTransfer(n, t, from, to, signer)
        PROVE  DataStays
    <3> DEFINE rec == book[n].tokens[t]
               new == [rec EXCEPT !.owner = to, !.status = "transferred",
                                  !.history = Append(rec.history, [to |-> to, type |-> "transfer"])]
    <3>1. Record(n, [book[n].tokens EXCEPT ![t] = new], Pending("transfer", <<t>>, from, to))
      <4>1. [rec EXCEPT !.owner = to, !.status = "transferred",
                        !.history = Append(@, [to |-> to, type |-> "transfer"])] = new
        OBVIOUS
      <4> HIDE DEF new
      <4> QED BY <2>6, <4>1 DEF PostTransfer, TransferToken
    <3>2. t \in Held(n) BY <2>6 DEF PostTransfer, TransferToken
    <3>3. new.data = rec.data BY <2>1, <3>2
    <3>4. PICK toks : toks = [book[n].tokens EXCEPT ![t] = new] OBVIOUS
    <3> HIDE DEF new
    <3>5. \A u \in Held(n) : book[n].tokens[u].data \in {NoToken, toks[u].data}
      BY <2>1, <3>3, <3>4
    <3> HIDE DEF rec
    <3> QED BY <2>2, <3>1, <3>4, <3>5
  <2>7. ASSUME NEW n \in Node, NEW i \in DOMAIN book[n].txs, ValidateTransaction(n, i)
        PROVE  DataStays
    <3>1. PICK new : book' = [book EXCEPT ![n].txs[i] = new] BY <2>7 DEF ValidateTransaction
    <3>2. \A m \in Node : book'[m].tokens = book[m].tokens
      <4>1. book[n] \in TokenBook BY <2>1
      <4> QED BY <2>1, <3>1, <4>1
    <3> QED BY <3>2 DEF DataStays
  <2>8. ASSUME NEW n \in Node, ImportLedger(n) PROVE DataStays
    <3>1. book' = [book EXCEPT ![n] = exported] BY <2>8 DEF ImportLedger
    <3> QED BY <2>1, <3>1 DEF DataStays
  <2>9. ASSUME NEW n \in Node, ExportLedger(n) PROVE DataStays BY <2>9 DEF ExportLedger, DataStays
  <2> QED BY <1>1, <2>3, <2>4, <2>5, <2>6, <2>7, <2>8, <2>9 DEF TokenStep
<1>2. TokenInv /\ [TokenStep]_tokenVars => [DataStays]_tokenVars BY <1>1
<1> QED BY <1>2, TokenInitFits, TokenStepFits, PTL DEF TokenSpec, EmbeddedDataIsPermanent

HIDE DEF Move, TokenRecord, Transaction, TokenBook

-----------------------------------------------------------------------------
(* The sales and their escrow                                              *)

EscrowType == [state : ItemState, owner : Wallet, height : Nat]

\* The stages at which the sale's next event follows the item's height `seen'.
Underway == {"lockBuilt", "lockSent", "invoiced", "settleBuilt"}

(* What holds of the record s of a sale when e is the item: as long as the   *)
(* item is where the sale saw it, its owner is the sale's seller; whatever   *)
(* has happened to it since has raised its height.                           *)
Fits(s, e) ==
   /\ s.stage # "none" => s.buyer \in Wallet
   /\ s.seen <= e.height
   /\ s.stage \in Underway /\ s.seen = e.height => e.owner = s.seller
   /\ s.stage = "settleBuilt" => s.paid >= s.price
   /\ s.soldBy # NoWallet => /\ s.stage \in {"settleSent", "released", "failed"}
                             /\ s.soldBy = s.seller
                             /\ s.paid >= s.price

SaleInv ==
   /\ escrowed \in EscrowType
   /\ sale \in [Sale -> SaleRecord]
   /\ \A f \in Sale : Fits(sale[f], escrowed)

USE DEF SaleRecord, SaleStage, EscrowType, Underway, NoHeight

LEMMA InitFits == SaleInit => SaleInv
<1> SUFFICES ASSUME SaleInit PROVE SaleInv
   OBVIOUS
<1>1. NoSale \in SaleRecord BY SaleAssumption DEF NoSale
<1>2. escrowed \in EscrowType BY SaleAssumption DEF SaleInit, ItemState
<1>3. Fits(NoSale, escrowed) BY DEF Fits, NoSale, SaleInit
<1> QED BY <1>1, <1>2, <1>3 DEF SaleInv, SaleInit

(* A step of one sale leaves the others fitting: the item stays as it is, or *)
(* it is one event higher.                                                   *)
LEMMA OneSaleChanges ==
   ASSUME SaleInv, NEW f \in Sale, NEW r \in SaleRecord,
          sale' = [sale EXCEPT ![f] = r], Fits(r, escrowed'),
          escrowed' \in EscrowType,
          escrowed' = escrowed \/ escrowed'.height = escrowed.height + 1
   PROVE  SaleInv'
<1>1. sale' \in [Sale -> SaleRecord] BY DEF SaleInv
<1>2. ASSUME NEW g \in Sale PROVE Fits(sale'[g], escrowed')
   <2>1. CASE g = f BY <2>1 DEF SaleInv
   <2>2. CASE g # f
      <3>1. sale'[g] = sale[g] /\ Fits(sale[g], escrowed) /\ sale[g] \in SaleRecord
         BY <2>2 DEF SaleInv
      <3>2. CASE escrowed' = escrowed BY <3>1, <3>2
      <3>3. CASE escrowed'.height = escrowed.height + 1
         <4>1. sale[g].seen \in Int /\ escrowed.height \in Nat BY <3>1 DEF SaleInv
         <4> QED BY <3>1, <3>3, <4>1 DEF Fits
      <3> QED BY <3>2, <3>3
   <2> QED BY <2>1, <2>2
<1> QED BY <1>1, <1>2 DEF SaleInv

\* Advanced gives an item one event higher, with the owner it is given.
LEMMA AdvancedIsHigher ==
   ASSUME escrowed \in EscrowType, NEW type \in ChainType, NEW owner \in Wallet
   PROVE  /\ Advanced(type, owner) \in EscrowType
          /\ Advanced(type, owner).height = escrowed.height + 1
          /\ Advanced(type, owner).owner = owner
BY DEF Advanced, ChainType, NextState, ItemState

LEMMA FeesAreNat ==
   \A price \in Prices \cup {0} : price + CalculateEscrowFee(price) \in Nat
<1> TAKE price \in Prices \cup {0}
<1>1. Prices \subseteq Nat BY SaleAssumption
<1>2. price \in Nat BY <1>1
<1>3. CalculateEscrowFee(price) \in Nat BY <1>2 DEF CalculateEscrowFee, AtLeast
<1> QED BY <1>2, <1>3

(* The steps that leave the item alone and only move the sale on, or change  *)
(* a part of its record that no other sale looks at.                         *)
LEMMA QuietSaleSteps ==
   ASSUME SaleInv, NEW f \in Sale,
          \/ \E buyer \in Wallet, price \in Prices : CreateOffer(f, buyer, price)
          \/ \E seller \in Wallet : AcceptOffer(f, seller)
          \/ CreateEscrowLock(f) \/ CreatePaymentInvoice(f) \/ MockPayInvoice(f)
          \/ CreateSettlement(f) \/ ReleasePayment(f) \/ DistributeFees(f) \/ Expire(f)
   PROVE  SaleInv'
<1> DEFINE s == sale[f]
<1>1. s \in SaleRecord /\ Fits(s, escrowed) /\ escrowed \in EscrowType BY DEF SaleInv
<1>2. ASSUME NEW r \in SaleRecord, Fits(r, escrowed), sale' = [sale EXCEPT ![f] = r],
             escrowed' = escrowed
      PROVE  SaleInv'
   BY <1>1, <1>2, OneSaleChanges
<1>3. ASSUME NEW buyer \in Wallet, NEW price \in Prices, CreateOffer(f, buyer, price)
      PROVE  SaleInv'
   <2> DEFINE r == [s EXCEPT !.buyer = buyer, !.price = price, !.stage = "offered"]
   <2>1. sale' = [sale EXCEPT ![f] = r] /\ s.stage = "none" /\ escrowed' = escrowed
      BY <1>3 DEF CreateOffer, Goes
   <2>2. r \in SaleRecord BY <1>1
   <2>3. Fits(r, escrowed) BY <1>1, <2>1 DEF Fits
   <2> QED BY <1>2, <2>1, <2>2, <2>3
<1>4. ASSUME NEW seller \in Wallet, AcceptOffer(f, seller)
      PROVE  SaleInv'
   <2> DEFINE r == [s EXCEPT !.seller = seller, !.stage = "accepted"]
   <2>1. sale' = [sale EXCEPT ![f] = r] /\ s.stage = "offered" /\ escrowed' = escrowed
      BY <1>4 DEF AcceptOffer, Goes
   <2>2. r \in SaleRecord BY <1>1
   <2>3. Fits(r, escrowed) BY <1>1, <2>1 DEF Fits
   <2> QED BY <1>2, <2>1, <2>2, <2>3
<1>5. CASE CreateEscrowLock(f)
   <2> DEFINE valid == /\ escrowed.state = "ACTIVE_HELD" /\ escrowed.owner = s.seller
                       /\ ~s.expired
              to == IF valid THEN "lockBuilt" ELSE "failed"
              r == [s EXCEPT !.seen = escrowed.height, !.stage = to]
   <2>1. sale' = [sale EXCEPT ![f] = r] /\ s.stage = "accepted" /\ escrowed' = escrowed
      BY <1>5 DEF CreateEscrowLock, Goes
   <2>2. r \in SaleRecord BY <1>1
   <2>3. to = "lockBuilt" => escrowed.owner = s.seller OBVIOUS
   <2>4. to \in {"lockBuilt", "failed"} OBVIOUS
   <2> HIDE DEF to
   <2>5. Fits(r, escrowed) BY <1>1, <2>1, <2>3, <2>4 DEF Fits
   <2> QED BY <1>2, <2>1, <2>2, <2>5
<1>6. CASE CreatePaymentInvoice(f)
   <2> DEFINE due == s.price + CalculateEscrowFee(s.price)
              r == [s EXCEPT !.invoice = due, !.stage = "invoiced"]
   <2>1. sale' = [sale EXCEPT ![f] = r] /\ s.stage = "lockSent" /\ escrowed' = escrowed
      BY <1>6 DEF CreatePaymentInvoice, Goes
   <2>2. due \in Nat
      <3>1. s.price \in Prices \cup {0} BY <1>1
      <3> QED BY <3>1, FeesAreNat
   <2> HIDE DEF due
   <2>3. r \in SaleRecord BY <1>1, <2>2
   <2>4. Fits(r, escrowed) BY <1>1, <2>1 DEF Fits
   <2> QED BY <1>2, <2>1, <2>3, <2>4
<1>7. CASE MockPayInvoice(f)
   <2> DEFINE r == [s EXCEPT !.paid = s.invoice]
   <2>1. sale' = [sale EXCEPT ![f] = r] /\ s.stage = "invoiced" /\ escrowed' = escrowed
      BY <1>7 DEF MockPayInvoice, SaleInv
   <2>2. r \in SaleRecord BY <1>1
   <2>3. Fits(r, escrowed) BY <1>1, <2>1 DEF Fits
   <2> QED BY <1>2, <2>1, <2>2, <2>3
<1>8. CASE CreateSettlement(f)
   <2> DEFINE to == IF s.paid > 0 /\ s.paid >= s.price THEN "settleBuilt" ELSE "failed"
              r == [s EXCEPT !.stage = to]
   <2>1. sale' = [sale EXCEPT ![f] = r] /\ s.stage = "invoiced" /\ escrowed' = escrowed
      BY <1>8 DEF CreateSettlement, Goes
   <2>2. r \in SaleRecord BY <1>1
   <2>3. to = "settleBuilt" => s.paid >= s.price OBVIOUS
   <2>4. to \in {"settleBuilt", "failed"} OBVIOUS
   <2> HIDE DEF to
   <2>5. Fits(r, escrowed) BY <1>1, <2>1, <2>3, <2>4 DEF Fits
   <2> QED BY <1>2, <2>1, <2>2, <2>5
<1>9. ASSUME NEW from \in {"settleSent", "released"}, NEW q \in {s, [s EXCEPT !.shares = @ + 1]},
             q \in SaleRecord, NEW amount, ReleaseFunds(f, from, q, "released", amount),
             escrowed' = escrowed
      PROVE  SaleInv'
   <2>1. PICK to \in {"released", "failed"}, r \in {s, q} :
            sale' = [sale EXCEPT ![f] = [r EXCEPT !.stage = to]]
      BY <1>9 DEF ReleaseFunds, Goes
   <2>2. s.stage \in {"settleSent", "released"} BY <1>9 DEF ReleaseFunds, Goes
   <2>3. [r EXCEPT !.stage = to] \in SaleRecord BY <1>1, <1>9, <2>1
   <2>4. /\ r \in SaleRecord /\ r.buyer = s.buyer /\ r.seen = s.seen /\ r.seller = s.seller
         /\ r.paid = s.paid /\ r.price = s.price /\ r.soldBy = s.soldBy
      BY <1>1, <1>9, <2>1
   <2>5. Fits([r EXCEPT !.stage = to], escrowed) BY <1>1, <2>1, <2>2, <2>4 DEF Fits
   <2> QED BY <1>2, <1>9, <2>1, <2>3, <2>5
<1>10. CASE ReleasePayment(f)
   BY <1>1, <1>9, <1>10 DEF ReleasePayment
<1>11. CASE DistributeFees(f)
   <2>1. s.shares <= Seats /\ [s EXCEPT !.shares = @ + 1] \in SaleRecord
      BY <1>1, <1>11, SaleAssumption DEF DistributeFees
   <2> QED BY <1>9, <1>11, <2>1 DEF DistributeFees
<1>12. CASE Expire(f)
   <2> DEFINE r == [s EXCEPT !.expired = TRUE]
   <2>1. sale' = [sale EXCEPT ![f] = r] /\ escrowed' = escrowed
      BY <1>12 DEF Expire, SaleInv
   <2>2. r \in SaleRecord BY <1>1
   <2>3. Fits(r, escrowed) BY <1>1 DEF Fits
   <2> QED BY <1>2, <2>1, <2>2, <2>3
<1> QED BY <1>3, <1>4, <1>5, <1>6, <1>7, <1>8, <1>10, <1>11, <1>12

(* An accepted lock follows the item the sale saw, so its owner is still the *)
(* seller, and no other event has the height it took.                        *)
LEMMA SubmitLockFits ==
   ASSUME SaleInv, NEW f \in Sale, SubmitLock(f)
   PROVE  SaleInv'
<1> DEFINE s == sale[f]
<1>1. s \in SaleRecord /\ Fits(s, escrowed) /\ escrowed \in EscrowType /\ s.stage = "lockBuilt"
   BY DEF SaleInv, SubmitLock, Goes
<1>2. CASE Accepts("ITEM_LOCKED", s.seen)
   <2> DEFINE r == [s EXCEPT !.seen = escrowed.height + 1, !.stage = "lockSent"]
   <2>1. sale' = [sale EXCEPT ![f] = r] /\ escrowed' = Advanced("ITEM_LOCKED", escrowed.owner)
      BY <1>2 DEF SubmitLock, Goes
   <2>2. /\ escrowed' \in EscrowType /\ escrowed'.height = escrowed.height + 1
         /\ escrowed'.owner = escrowed.owner
      BY <1>1, <2>1, AdvancedIsHigher DEF ChainType
   <2>3. escrowed.owner = s.seller BY <1>1, <1>2 DEF Fits, Accepts
   <2>4. r \in SaleRecord
      <3>1. escrowed.height + 1 \in Nat BY <1>1
      <3> QED BY <1>1, <3>1
   <2>5. Fits(r, escrowed') BY <1>1, <2>2, <2>3 DEF Fits
   <2> QED BY <2>1, <2>2, <2>4, <2>5, OneSaleChanges
<1>3. CASE ~Accepts("ITEM_LOCKED", s.seen)
   <2> DEFINE r == [s EXCEPT !.seen = NoHeight, !.stage = "lockSent"]
   <2>1. sale' = [sale EXCEPT ![f] = r] /\ escrowed' = escrowed
      BY <1>3 DEF SubmitLock, Goes
   <2>2. r \in SaleRecord BY <1>1
   <2>3. r.seen = -1 /\ r.stage = "lockSent" /\ r.buyer = s.buyer /\ r.soldBy = s.soldBy
      BY <1>1
   <2> HIDE DEF r
   <2>4. escrowed.height \in Nat BY <1>1
   <2>5. s.soldBy = NoWallet /\ s.buyer \in Wallet BY <1>1 DEF Fits
   <2>6. Fits(r, escrowed') BY <2>1, <2>3, <2>4, <2>5 DEF Fits
   <2> QED BY <1>1, <2>1, <2>2, <2>6, OneSaleChanges
<1> QED BY <1>2, <1>3

(* An accepted settlement follows the sale's own lock, so the item is still  *)
(* the seller's.                                                             *)
LEMMA SubmitSettlementFits ==
   ASSUME SaleInv, NEW f \in Sale, SubmitSettlement(f)
   PROVE  SaleInv'
<1> DEFINE s == sale[f]
<1>1. s \in SaleRecord /\ Fits(s, escrowed) /\ escrowed \in EscrowType /\ s.stage = "settleBuilt"
   BY DEF SaleInv, SubmitSettlement, Goes
<1>2. CASE Accepts("ITEM_SETTLED", s.seen)
   <2> DEFINE r == [s EXCEPT !.soldBy = escrowed.owner, !.stage = "settleSent"]
   <2>1. sale' = [sale EXCEPT ![f] = r] /\ escrowed' = Advanced("ITEM_SETTLED", s.buyer)
      BY <1>2 DEF SubmitSettlement, Goes
   <2>2. s.buyer \in Wallet /\ escrowed.owner = s.seller /\ s.paid >= s.price
      BY <1>1, <1>2 DEF Fits, Accepts
   <2>3. escrowed' \in EscrowType /\ escrowed'.height = escrowed.height + 1
      BY <1>1, <2>1, <2>2, AdvancedIsHigher DEF ChainType
   <2>4. r \in SaleRecord BY <1>1
   <2>5. Fits(r, escrowed') BY <1>1, <2>2, <2>3 DEF Fits
   <2> QED BY <2>1, <2>3, <2>4, <2>5, OneSaleChanges
<1>3. CASE ~Accepts("ITEM_SETTLED", s.seen)
   <2> DEFINE r == [s EXCEPT !.stage = "settleSent"]
   <2>1. sale' = [sale EXCEPT ![f] = r] /\ escrowed' = escrowed
      BY <1>3 DEF SubmitSettlement, Goes
   <2>2. r \in SaleRecord /\ Fits(r, escrowed') BY <1>1, <2>1 DEF Fits
   <2> QED BY <1>1, <2>1, <2>2, OneSaleChanges
<1> QED BY <1>2, <1>3

\* An unlock or a burn by somebody else raises the height under every sale.
LEMMA EndLockFits ==
   ASSUME SaleInv, NEW type \in {"ITEM_UNLOCKED_EXPIRED", "ITEM_BURNED"}, EndLock(type)
   PROVE  SaleInv'
<1>1. escrowed \in EscrowType /\ sale' = sale /\ escrowed' = Advanced(type, escrowed.owner)
   BY DEF SaleInv, EndLock
<1>2. escrowed' \in EscrowType /\ escrowed'.height = escrowed.height + 1
   BY <1>1, AdvancedIsHigher DEF ChainType
<1>3. ASSUME NEW f \in Sale PROVE Fits(sale[f], escrowed')
   <2>1. sale[f].seen \in Int /\ escrowed.height \in Nat /\ Fits(sale[f], escrowed)
      BY <1>1 DEF SaleInv
   <2> QED BY <1>2, <2>1 DEF Fits
<1> QED BY <1>1, <1>2, <1>3 DEF SaleInv

LEMMA SaleStepFits == SaleInv /\ [SaleStep]_saleVars => SaleInv'
<1> SUFFICES ASSUME SaleInv, [SaleStep]_saleVars PROVE SaleInv'
   OBVIOUS
<1>1. ASSUME NEW f \in Sale, SubmitLock(f) PROVE SaleInv'
   BY <1>1, SubmitLockFits
<1>2. ASSUME NEW f \in Sale, SubmitSettlement(f) PROVE SaleInv'
   BY <1>2, SubmitSettlementFits
<1>3. ASSUME NEW type \in {"ITEM_UNLOCKED_EXPIRED", "ITEM_BURNED"}, EndLock(type)
      PROVE  SaleInv'
   BY <1>3, EndLockFits
<1>4. CASE UNCHANGED saleVars
   BY <1>4 DEF saleVars, SaleInv
<1> QED BY <1>1, <1>2, <1>3, <1>4, QuietSaleSteps DEF SaleStep

(* Whatever other sales, unlocks and burns of the item come between the      *)
(* awaits of SaleManager and MockPaymentAdapter, a sale that settles sold    *)
(* what its seller owned, and its buyer had paid the price.                  *)
THEOREM SoldByOwnerAlways == SaleSpec => []SoldByOwnerAndPaid
<1>1. SaleInv => SoldByOwnerAndPaid BY DEF SaleInv, Fits, SoldByOwnerAndPaid
<1> QED BY <1>1, InitFits, SaleStepFits, PTL DEF SaleSpec


\* What is due of the price of a sale: to the operators in shares, to the treasury.
FeesOf(price) == CalculateEscrowFee(price) + CalculateSettlementFee(price)

OperatorShare(price) == ((FeesOf(price) * 80) \div 100) \div Seats

TreasuryShare(price) == (FeesOf(price) * 15) \div 100

\* What the balance holds for the sale with record s: what was paid, and once the
\* seller has his part the payments of fees that are left.
Reserve(s) ==
   IF s.stage = "failed" THEN 0
   ELSE IF s.stage # "released" THEN s.paid
   ELSE IF s.shares > Seats THEN 0
   ELSE (Seats - s.shares) * OperatorShare(s.price) + TreasuryShare(s.price)

\* A sale is paid with its price and the escrow fee, from its invoice on.
Funded(s) ==
   /\ s.stage \in {"none", "offered", "accepted", "lockBuilt", "lockSent"} => s.paid = 0
   /\ s.stage = "invoiced" => s.invoice = s.price + CalculateEscrowFee(s.price)
   /\ s.paid # 0 => s.paid = s.price + CalculateEscrowFee(s.price)
   /\ s.stage \in {"settleBuilt", "settleSent", "released"} => s.paid # 0
   /\ s.soldBy # NoWallet => s.stage \in {"settleSent", "released"}

Reserves(r) == [f \in Sale |-> Reserve(r[f])]

EscrowInv ==
   /\ balance \in Int
   /\ \A f \in Sale : Funded(sale[f])
   /\ balance >= SumFunction(Reserves(sale))

LEMMA PriceFacts ==
   ASSUME NEW price \in Prices \cup {0}
   PROVE  /\ price \in Nat
          /\ CalculateEscrowFee(price) \in Nat /\ CalculateEscrowFee(price) > 0
          /\ CalculateSettlementFee(price) \in Nat
          /\ SellerAmount(price) \in Int /\ SellerAmount(price) <= price
          /\ FeesOf(price) \in Nat
          /\ price + CalculateEscrowFee(price) = SellerAmount(price) + FeesOf(price)
<1>1. price \in Nat
  <2>1. Prices \subseteq Nat BY SaleAssumption
  <2> QED BY <2>1
<1>2. CalculateEscrowFee(price) \in Nat /\ CalculateEscrowFee(price) > 0
  BY <1>1 DEF CalculateEscrowFee, AtLeast
<1>3. CalculateSettlementFee(price) \in Nat
  BY <1>1 DEF CalculateSettlementFee, AtLeast
<1> QED BY <1>1, <1>2, <1>3 DEF SellerAmount, FeesOf

\* The shares of the fees, all together, are covered by them.
LEMMA SharesCovered ==
   ASSUME NEW price \in Prices \cup {0}
   PROVE  /\ OperatorShare(price) \in Nat /\ TreasuryShare(price) \in Nat
          /\ Seats * OperatorShare(price) + TreasuryShare(price) <= FeesOf(price)
<1> DEFINE total == FeesOf(price)
           some == (total * 80) \div 100
           one == some \div Seats
<1>1. total \in Nat BY PriceFacts
<1>2. Seats \in Nat /\ Seats > 0 BY SaleAssumption
<1> HIDE DEF total
<1>3. some \in Nat /\ 100 * some <= total * 80 BY <1>1
<1> HIDE DEF some
<1>4. one \in Nat /\ Seats * one <= some
  <2>1. \A a \in Nat, b \in Nat : b > 0 => a \div b \in Nat /\ b * (a \div b) <= a
    OBVIOUS
  <2> QED BY <1>2, <1>3, <2>1
<1>5. TreasuryShare(price) \in Nat /\ 100 * TreasuryShare(price) <= total * 15
  BY <1>1 DEF TreasuryShare, total
<1>6. OperatorShare(price) = one BY DEF OperatorShare, one, some, total
<1> HIDE DEF one
<1>7. Seats * one \in Nat
  <2>1. \A a \in Nat, b \in Nat : a * b \in Nat OBVIOUS
  <2> QED BY <1>2, <1>4, <2>1
<1>8. \A a, b, c, d \in Nat :
         a <= b /\ 100 * b <= d * 80 /\ 100 * c <= d * 15 => a + c <= d
  OBVIOUS
<1>9. Seats * one + TreasuryShare(price) <= total BY <1>1, <1>3, <1>4, <1>5, <1>7, <1>8
<1> QED BY <1>4, <1>5, <1>6, <1>9 DEF total

LEMMA ReserveIsNat ==
   ASSUME NEW s \in SaleRecord
   PROVE  Reserve(s) \in Nat
<1>1. s.paid \in Nat /\ s.price \in Prices \cup {0} /\ s.shares \in 0..(Seats + 1)
  OBVIOUS
<1>2. Seats \in Nat BY SaleAssumption
<1>3. OperatorShare(s.price) \in Nat /\ TreasuryShare(s.price) \in Nat BY <1>1, SharesCovered
<1>4. \A a \in Nat, b \in Nat, c \in Nat : a * b + c \in Nat OBVIOUS
<1>5. s.shares <= Seats => Seats - s.shares \in Nat BY <1>1, <1>2
<1> QED BY <1>1, <1>2, <1>3, <1>4, <1>5 DEF Reserve

LEMMA ReservesType ==
   ASSUME NEW r \in [Sale -> SaleRecord]
   PROVE  /\ Reserves(r) \in [Sale -> Int]
          /\ \A f \in Sale : Reserves(r)[f] = Reserve(r[f]) /\ Reserves(r)[f] >= 0
          /\ SumFunction(Reserves(r)) \in Int
<1>1. \A f \in Sale : Reserve(r[f]) \in Nat BY ReserveIsNat
<1>2. Reserves(r) \in [Sale -> Int] BY <1>1 DEF Reserves
<1>3. SumFunction(Reserves(r)) \in Int BY <1>2, SaleAssumption, SumType
<1> QED BY <1>1, <1>2, <1>3 DEF Reserves

\* A step of one sale keeps the reserves covered when the balance changes by no
\* less than the sale's own reserve.
LEMMA OneReserveChanges ==
   ASSUME SaleInv, EscrowInv, NEW f \in Sale, NEW r \in SaleRecord,
          sale' = [sale EXCEPT ![f] = r], Funded(r), balance' \in Int,
          balance' - balance >= Reserve(r) - Reserve(sale[f])
   PROVE  EscrowInv'
<1>1. sale \in [Sale -> SaleRecord] /\ sale' \in [Sale -> SaleRecord] BY DEF SaleInv
<1>2. \A g \in Sale : g # f => Reserves(sale')[g] = Reserves(sale)[g]
  <2>1. \A g \in Sale : g # f => sale'[g] = sale[g] BY <1>1
  <2> QED BY <2>1 DEF Reserves
<1>3. SumFunction(Reserves(sale')) =
         SumFunction(Reserves(sale)) + (Reserves(sale')[f] - Reserves(sale)[f])
  <2>1. Reserves(sale) \in [Sale -> Int] /\ Reserves(sale') \in [Sale -> Int]
    BY <1>1, ReservesType
  <2>2. \A p, q \in [Sale -> Int] :
           (\A g \in Sale : g # f => q[g] = p[g])
              => SumFunction(q) = SumFunction(p) + (q[f] - p[f])
    BY SaleAssumption, SumChange
  <2> QED BY <1>2, <2>1, <2>2
<1>4. Reserves(sale')[f] = Reserve(r) /\ Reserves(sale)[f] = Reserve(sale[f])
  BY <1>1 DEF Reserves
<1>5. /\ SumFunction(Reserves(sale)) \in Int /\ Reserve(r) \in Int /\ Reserve(sale[f]) \in Int
      /\ balance \in Int /\ balance >= SumFunction(Reserves(sale))
  <2>1. Reserve(r) \in Nat /\ Reserve(sale[f]) \in Nat BY <1>1, ReserveIsNat
  <2> QED BY <1>1, <2>1, ReservesType DEF EscrowInv
<1>6. balance' >= SumFunction(Reserves(sale')) BY <1>3, <1>4, <1>5
<1>7. \A g \in Sale : Funded(sale'[g]) BY <1>1 DEF EscrowInv
<1> QED BY <1>6, <1>7 DEF EscrowInv

LEMMA InitFunded == SaleInit => EscrowInv
<1> SUFFICES ASSUME SaleInit PROVE EscrowInv
  OBVIOUS
<1>1. SaleInv BY InitFits
<1>2. \A f \in Sale : sale[f] = NoSale /\ Funded(sale[f]) /\ Reserve(sale[f]) = 0
  BY DEF SaleInit, NoSale, Funded, Reserve
<1>3. SumFunction(Reserves(sale)) = 0
  <2>1. Reserves(sale) \in [Sale -> Int] BY <1>1, ReservesType DEF SaleInv
  <2>2. \A f \in Sale : Reserves(sale)[f] = 0 BY <1>2 DEF Reserves
  <2> QED BY <2>1, <2>2, SaleAssumption, SumSign
<1> QED BY <1>2, <1>3 DEF EscrowInv, SaleInit

\* What a payment takes is no more than is reserved for its sale: none fails.
LEMMA ReleaseCovered ==
   ASSUME SaleInv, EscrowInv, NEW f \in Sale, NEW from, NEW r \in SaleRecord, NEW amount \in Int,
          from # "failed",
          ReleaseFunds(f, from, r, "released", amount),
          Funded([r EXCEPT !.stage = "released"]),
          amount <= Reserve(sale[f]) - Reserve([r EXCEPT !.stage = "released"])
   PROVE  EscrowInv'
<1> DEFINE q == [r EXCEPT !.stage = "released"]
<1>1. sale \in [Sale -> SaleRecord] /\ balance \in Int /\ balance >= SumFunction(Reserves(sale))
  BY DEF SaleInv, EscrowInv
<1>2. q \in SaleRecord OBVIOUS
<1>3. Reserve(q) \in Nat /\ Reserve(sale[f]) \in Nat BY <1>1, <1>2, ReserveIsNat
<1> HIDE DEF q
<1>4. Reserve(sale[f]) <= SumFunction(Reserves(sale)) /\ SumFunction(Reserves(sale)) \in Int
  <2>1. /\ Reserves(sale) \in [Sale -> Int]
        /\ \A g \in Sale : Reserves(sale)[g] = Reserve(sale[g]) /\ Reserves(sale)[g] >= 0
        /\ SumFunction(Reserves(sale)) \in Int
    BY <1>1, ReservesType
  <2>2. \A g \in Sale : Reserves(sale)[g] <= SumFunction(Reserves(sale))
    BY <2>1, SaleAssumption, SumSign
  <2> QED BY <2>1, <2>2
<1>5. amount <= Reserve(sale[f]) - Reserve(q) BY DEF q
<1>6. ~(balance < amount) BY <1>1, <1>3, <1>4, <1>5
<1>7. sale' = [sale EXCEPT ![f] = q] /\ balance' = balance - amount
  BY <1>6 DEF ReleaseFunds, Goes, q
<1>8. balance' \in Int /\ balance' - balance >= Reserve(q) - Reserve(sale[f])
  BY <1>1, <1>3, <1>5, <1>7
<1>9. Funded(q) BY DEF q
<1> QED BY <1>2, <1>7, <1>8, <1>9, OneReserveChanges

LEMMA ReleasePaymentFunded ==
   ASSUME SaleInv, EscrowInv, NEW f \in Sale, ReleasePayment(f)
   PROVE  EscrowInv'
<1> DEFINE s == sale[f]
           q == [s EXCEPT !.stage = "released"]
<1>1. s \in SaleRecord /\ Funded(s) BY DEF SaleInv, EscrowInv
<1>2. s.stage = "settleSent" BY DEF ReleasePayment, ReleaseFunds, Goes
<1>3. /\ q.stage = "released" /\ q.paid = s.paid /\ q.price = s.price /\ q.shares = s.shares
      /\ q.invoice = s.invoice /\ q.soldBy = s.soldBy
  BY <1>1
<1>4. /\ s.price \in Prices \cup {0} /\ s.shares \in 0..(Seats + 1)
      /\ Seats \in Nat
  BY <1>1, SaleAssumption
<1>5. s.paid = s.price + CalculateEscrowFee(s.price) /\ Reserve(s) = s.paid
  BY <1>1, <1>2 DEF Funded, Reserve
<1>6. SellerAmount(s.price) \in Int /\ s.paid = SellerAmount(s.price) + FeesOf(s.price)
      /\ FeesOf(s.price) \in Nat
  BY <1>4, <1>5, PriceFacts
<1>7. /\ OperatorShare(s.price) \in Nat /\ TreasuryShare(s.price) \in Nat
      /\ Seats * OperatorShare(s.price) + TreasuryShare(s.price) <= FeesOf(s.price)
  BY <1>4, SharesCovered
<1>8. Reserve(q) <= FeesOf(s.price) /\ Reserve(q) \in Nat
  <2>1. \A k \in 0..Seats, a \in Nat, b \in Nat, c \in Nat :
           Seats * a + b <= c => (Seats - k) * a + b <= c
    <3> SUFFICES ASSUME NEW k \in 0..Seats, NEW a \in Nat, NEW b \in Nat, NEW c \in Nat,
                        Seats * a + b <= c
                 PROVE  (Seats - k) * a + b <= c
      OBVIOUS
    <3>1. (Seats - k) * a = Seats * a - k * a BY <1>4
    <3>2. k * a \in Nat /\ Seats * a \in Nat BY <1>4
    <3> QED BY <3>1, <3>2
  <2>2. Reserve(q) \in Nat
    <3>1. q \in SaleRecord BY <1>1
    <3> QED BY <3>1, ReserveIsNat
  <2>3. CASE s.shares > Seats BY <1>3, <1>6, <2>2, <2>3 DEF Reserve
  <2>4. CASE ~(s.shares > Seats)
    <3>1. s.shares \in 0..Seats BY <1>4, <2>4
    <3>2. Reserve(q) = (Seats - s.shares) * OperatorShare(s.price) + TreasuryShare(s.price)
      BY <1>3, <2>4 DEF Reserve
    <3> QED BY <1>6, <1>7, <2>1, <2>2, <3>1, <3>2
  <2> QED BY <2>3, <2>4
<1>9. Funded(q) BY <1>1, <1>2, <1>3 DEF Funded
<1> HIDE DEF q
<1>10. SellerAmount(s.price) <= Reserve(s) - Reserve(q) BY <1>5, <1>6, <1>8
<1> QED BY <1>1, <1>6, <1>9, <1>10, ReleaseCovered DEF ReleasePayment, q

LEMMA DistributeFeesFunded ==
   ASSUME SaleInv, EscrowInv, NEW f \in Sale, DistributeFees(f)
   PROVE  EscrowInv'
<1> DEFINE s == sale[f]
           r == [s EXCEPT !.shares = s.shares + 1]
           q == [r EXCEPT !.stage = "released"]
           amount == IF s.shares < Seats THEN OperatorShare(s.price) ELSE TreasuryShare(s.price)
<1>1. s \in SaleRecord /\ Funded(s) BY DEF SaleInv, EscrowInv
<1>2. s.stage = "released" /\ s.shares <= Seats
  BY DEF DistributeFees, ReleaseFunds, Goes
<1>3. /\ s.price \in Prices \cup {0} /\ s.shares \in 0..(Seats + 1) /\ Seats \in Nat
  BY <1>1, SaleAssumption
<1>4. r \in SaleRecord
  <2>1. s.shares + 1 \in 0..(Seats + 1) BY <1>2, <1>3
  <2> QED BY <1>1, <2>1
<1>5. /\ q.stage = "released" /\ q.paid = s.paid /\ q.price = s.price
      /\ q.shares = s.shares + 1 /\ q.invoice = s.invoice /\ q.soldBy = s.soldBy
  BY <1>1
<1>6. OperatorShare(s.price) \in Nat /\ TreasuryShare(s.price) \in Nat
  BY <1>3, SharesCovered
<1>7. amount \in Int BY <1>6
<1>8. ReleaseFunds(f, "released", r, "released", amount)
  BY DEF DistributeFees, OperatorShare, TreasuryShare, FeesOf
<1>9. Funded(q) BY <1>1, <1>2, <1>5 DEF Funded
<1>10. amount <= Reserve(s) - Reserve(q)
  <2> DEFINE a == OperatorShare(s.price)
  <2>1. Reserve(s) = (Seats - s.shares) * a + TreasuryShare(s.price)
    BY <1>2, <1>3 DEF Reserve
  <2>2. CASE s.shares < Seats
    <3>1. Reserve(q) = (Seats - (s.shares + 1)) * a + TreasuryShare(s.price)
      BY <1>3, <1>5, <2>2 DEF Reserve
    <3>2. \A k \in Nat, x \in Nat, y \in Nat :
             k > 0 => (k * x + y) - ((k - 1) * x + y) = x
      OBVIOUS
    <3>3. Seats - s.shares \in Nat /\ Seats - s.shares > 0
          /\ Seats - (s.shares + 1) = (Seats - s.shares) - 1
      BY <1>3, <2>2
    <3> HIDE DEF a
    <3>4. Reserve(s) - Reserve(q) = a BY <1>6, <2>1, <3>1, <3>2, <3>3 DEF a
    <3> QED BY <1>6, <2>2, <3>4 DEF a
  <2>3. CASE ~(s.shares < Seats)
    <3>1. s.shares = Seats BY <1>2, <1>3, <2>3
    <3>2. Reserve(q) = 0 BY <1>3, <1>5, <3>1 DEF Reserve
    <3>3. \A k \in Nat : 0 * k = 0 OBVIOUS
    <3>4. Reserve(s) = TreasuryShare(s.price) BY <1>3, <1>6, <2>1, <3>1, <3>3
    <3> QED BY <1>6, <2>3, <3>2, <3>4
  <2> QED BY <2>2, <2>3
<1> HIDE DEF q, r, amount
<1> QED BY <1>4, <1>7, <1>8, <1>9, <1>10, ReleaseCovered DEF q

LEMMA SaleStepFunded == SaleInv /\ EscrowInv /\ [SaleStep]_saleVars => EscrowInv'
<1> SUFFICES ASSUME SaleInv, EscrowInv, [SaleStep]_saleVars PROVE EscrowInv'
  OBVIOUS
<1>1. sale \in [Sale -> SaleRecord] /\ balance \in Int BY DEF SaleInv, EscrowInv
\* The steps that leave the balance alone.
<1>2. ASSUME NEW f \in Sale, NEW r \in SaleRecord, sale' = [sale EXCEPT ![f] = r],
             balance' = balance, Funded(r), Reserve(r) <= Reserve(sale[f])
      PROVE  EscrowInv'
  <2>1. Reserve(r) \in Nat /\ Reserve(sale[f]) \in Nat BY <1>1, ReserveIsNat
  <2>2. balance' \in Int /\ balance' - balance >= Reserve(r) - Reserve(sale[f])
    BY <1>1, <1>2, <2>1
  <2> QED BY <1>2, <2>2, OneReserveChanges
<1>3. ASSUME NEW f \in Sale, NEW buyer \in Wallet, NEW price \in Prices,
             CreateOffer(f, buyer, price)
      PROVE  EscrowInv'
  <2> DEFINE s == sale[f]
             r == [s EXCEPT !.buyer = buyer, !.price = price, !.stage = "offered"]
  <2>1. s \in SaleRecord /\ Funded(s) BY <1>1 DEF EscrowInv
  <2>2. sale' = [sale EXCEPT ![f] = r] /\ s.stage = "none" /\ balance' = balance
    BY <1>3 DEF CreateOffer, Goes
  <2>3. r \in SaleRecord BY <2>1
  <2>4. /\ r.stage = "offered" /\ r.paid = s.paid /\ r.soldBy = s.soldBy BY <2>1
  <2> HIDE DEF r
  <2>5. Funded(r) /\ Reserve(r) <= Reserve(s) BY <2>1, <2>2, <2>4 DEF Funded, Reserve
  <2> QED BY <1>2, <2>2, <2>3, <2>5
<1>4. ASSUME NEW f \in Sale, NEW r \in SaleRecord, sale' = [sale EXCEPT ![f] = r],
             balance' = balance, r.paid = sale[f].paid, r.price = sale[f].price,
             r.shares = sale[f].shares, r.soldBy = sale[f].soldBy,
             \/ r.stage = sale[f].stage /\ r.invoice = sale[f].invoice
             \/ r.stage = "failed" /\ r.soldBy = NoWallet
             \/ sale[f].stage = "offered" /\ r.stage = "accepted"
             \/ sale[f].stage = "accepted" /\ r.stage = "lockBuilt"
             \/ sale[f].stage = "lockBuilt" /\ r.stage = "lockSent"
             \/ sale[f].stage = "lockSent" /\ r.stage = "invoiced"
                /\ r.invoice = r.price + CalculateEscrowFee(r.price)
             \/ sale[f].stage = "invoiced" /\ r.stage = "settleBuilt" /\ r.paid > 0
             \/ sale[f].stage = "settleBuilt" /\ r.stage = "settleSent"
      PROVE  EscrowInv'
  <2>1. sale[f] \in SaleRecord /\ Funded(sale[f]) BY <1>1 DEF EscrowInv
  <2>2. Funded(r) BY <1>4, <2>1 DEF Funded
  <2>3. Reserve(sale[f]) \in Nat BY <2>1, ReserveIsNat
  <2>4. Reserve(r) <= Reserve(sale[f])
    <3>1. CASE r.stage = "failed" BY <2>3, <3>1 DEF Reserve
    <3>2. CASE r.stage # "failed"
      <4>1. Reserve(r) = Reserve(sale[f]) BY <1>4, <3>2 DEF Reserve
      <4> QED BY <2>3, <4>1
    <3> QED BY <3>1, <3>2
  <2> QED BY <1>2, <1>4, <2>2, <2>4
<1>5. \A f \in Sale : sale[f].stage \notin {"settleSent", "released"} => sale[f].soldBy = NoWallet
  BY DEF EscrowInv, Funded
<1>6. ASSUME NEW f \in Sale, NEW seller \in Wallet, AcceptOffer(f, seller) PROVE EscrowInv'
  <2> DEFINE r == [sale[f] EXCEPT !.seller = seller, !.stage = "accepted"]
  <2>1. sale' = [sale EXCEPT ![f] = r] /\ sale[f].stage = "offered" /\ balance' = balance
    BY <1>6 DEF AcceptOffer, Goes
  <2>2. r \in SaleRecord /\ sale[f] \in SaleRecord BY ZenonT(40), <1>1
  <2> QED BY <1>4, <2>1, <2>2
<1>7. ASSUME NEW f \in Sale, CreateEscrowLock(f) PROVE EscrowInv'
  <2>1. PICK to \in {"lockBuilt", "failed"} :
           sale' = [sale EXCEPT ![f] = [sale[f] EXCEPT !.seen = escrowed.height, !.stage = to]]
    BY <1>7 DEF CreateEscrowLock, Goes
  <2> DEFINE r == [sale[f] EXCEPT !.seen = escrowed.height, !.stage = to]
  <2>2. sale[f].stage = "accepted" /\ balance' = balance
    BY <1>7 DEF CreateEscrowLock, Goes
  <2>3. sale[f] \in SaleRecord /\ escrowed.height \in Nat BY <1>1 DEF SaleInv
  <2>4. r \in SaleRecord /\ r.stage = to BY <2>3
  <2> QED BY <1>4, <1>5, <2>1, <2>2, <2>3, <2>4
<1>8. ASSUME NEW f \in Sale, SubmitLock(f) PROVE EscrowInv'
  <2>1. PICK n \in Nat \cup {NoHeight} :
           sale' = [sale EXCEPT ![f] = [sale[f] EXCEPT !.seen = n, !.stage = "lockSent"]]
    <3>1. escrowed.height + 1 \in Nat BY <1>1 DEF SaleInv
    <3>2. CASE Accepts("ITEM_LOCKED", sale[f].seen) BY <1>8, <3>1, <3>2 DEF SubmitLock, Goes
    <3>3. CASE ~Accepts("ITEM_LOCKED", sale[f].seen) BY <1>8, <3>3 DEF SubmitLock, Goes
    <3> QED BY <3>2, <3>3
  <2> DEFINE r == [sale[f] EXCEPT !.seen = n, !.stage = "lockSent"]
  <2>2. sale[f].stage = "lockBuilt" /\ balance' = balance
    BY <1>8 DEF SubmitLock, Goes
  <2>3. r \in SaleRecord /\ r.stage = "lockSent" /\ sale[f] \in SaleRecord BY ZenonT(40), <1>1
  <2> QED BY <1>4, <2>1, <2>2, <2>3
<1>9. ASSUME NEW f \in Sale, CreatePaymentInvoice(f) PROVE EscrowInv'
  <2> DEFINE due == sale[f].price + CalculateEscrowFee(sale[f].price)
             r == [sale[f] EXCEPT !.invoice = due, !.stage = "invoiced"]
  <2>1. sale' = [sale EXCEPT ![f] = r] /\ sale[f].stage = "lockSent" /\ balance' = balance
    BY <1>9 DEF CreatePaymentInvoice, Goes
  <2>2. sale[f] \in SaleRecord /\ sale[f].price \in Prices \cup {0} BY <1>1
  <2>3. due \in Nat BY <2>2, FeesAreNat
  <2>4. due = sale[f].price + CalculateEscrowFee(sale[f].price) OBVIOUS
  <2> HIDE DEF due
  <2>5. r \in SaleRecord /\ r.stage = "invoiced" /\ r.invoice = due BY <2>2, <2>3
  <2> QED BY <1>4, <2>1, <2>2, <2>4, <2>5
<1>10. ASSUME NEW f \in Sale, MockPayInvoice(f) PROVE EscrowInv'
  <2> DEFINE s == sale[f]
             r == [s EXCEPT !.paid = s.invoice]
  <2>1. /\ sale' = [sale EXCEPT ![f] = r] /\ s.stage = "invoiced" /\ s.paid = 0
        /\ balance' = balance + s.invoice
    BY <1>1, <1>10 DEF MockPayInvoice
  <2>2. s \in SaleRecord /\ Funded(s) BY <1>1 DEF EscrowInv
  <2>3. r \in SaleRecord BY <2>2
  <2>4. /\ r.stage = s.stage /\ r.paid = s.invoice /\ r.price = s.price
        /\ r.soldBy = s.soldBy /\ r.invoice = s.invoice
    BY <2>2
  <2> HIDE DEF r
  <2>5. Funded(r) BY <2>1, <2>2, <2>4 DEF Funded
  <2>6. Reserve(r) = s.invoice /\ Reserve(s) = 0 BY <2>1, <2>4 DEF Reserve
  <2>7. s.invoice \in Nat BY <2>2
  <2>8. balance' \in Int /\ balance' - balance >= Reserve(r) - Reserve(s)
    BY <1>1, <2>1, <2>6, <2>7
  <2> QED BY <2>1, <2>3, <2>5, <2>8, OneReserveChanges
<1>11. ASSUME NEW f \in Sale, CreateSettlement(f) PROVE EscrowInv'
  <2>1. PICK to \in {"settleBuilt", "failed"} :
           /\ sale' = [sale EXCEPT ![f] = [sale[f] EXCEPT !.stage = to]]
           /\ to = "settleBuilt" => sale[f].paid > 0
    BY <1>11 DEF CreateSettlement, Goes
  <2> DEFINE r == [sale[f] EXCEPT !.stage = to]
  <2>2. sale[f].stage = "invoiced" /\ balance' = balance
    BY <1>11 DEF CreateSettlement, Goes
  <2>3. r \in SaleRecord /\ r.stage = to /\ sale[f] \in SaleRecord BY <1>1
  <2> QED BY <1>4, <1>5, <2>1, <2>2, <2>3
<1>12. ASSUME NEW f \in Sale, SubmitSettlement(f) PROVE EscrowInv'
  <2> DEFINE s == sale[f]
  <2>1. s.stage = "settleBuilt" /\ balance' = balance /\ s \in SaleRecord /\ Funded(s)
    BY <1>1, <1>12 DEF SubmitSettlement, Goes, EscrowInv
  <2>2. CASE Accepts("ITEM_SETTLED", s.seen)
    <3> DEFINE r == [s EXCEPT !.soldBy = escrowed.owner, !.stage = "settleSent"]
    <3>1. sale' = [sale EXCEPT ![f] = r] BY <1>12, <2>2 DEF SubmitSettlement, Goes
    <3>2. r \in SaleRecord BY <2>1 DEF SaleInv
    <3>3. r.stage = "settleSent" /\ r.paid = s.paid /\ r.price = s.price /\ r.soldBy = escrowed.owner
      BY <2>1
    <3> HIDE DEF r
    <3>4. Funded(r) BY <2>1, <3>3 DEF Funded
    <3>5. Reserve(r) = Reserve(s) BY <2>1, <3>3 DEF Reserve
    <3>6. Reserve(s) \in Nat BY <2>1, ReserveIsNat
    <3>7. Reserve(r) <= Reserve(sale[f]) BY <3>5, <3>6
    <3> QED BY <1>2, <2>1, <3>1, <3>2, <3>4, <3>7
  <2>3. CASE ~Accepts("ITEM_SETTLED", s.seen)
    <3> DEFINE r == [s EXCEPT !.stage = "settleSent"]
    <3>1. sale' = [sale EXCEPT ![f] = r] BY <1>12, <2>3 DEF SubmitSettlement, Goes
    <3>2. r \in SaleRecord /\ r.stage = "settleSent" BY <2>1
    <3> QED BY <1>4, <1>5, <2>1, <3>1, <3>2
  <2> QED BY <2>2, <2>3
<1>13. ASSUME NEW f \in Sale, Expire(f) PROVE EscrowInv'
  <2> DEFINE r == [sale[f] EXCEPT !.expired = TRUE]
  <2>1. sale' = [sale EXCEPT ![f] = r] /\ balance' = balance
    BY <1>1, <1>13 DEF Expire
  <2>2. r \in SaleRecord /\ sale[f] \in SaleRecord BY ZenonT(40), <1>1
  <2> QED BY <1>4, <2>1, <2>2
<1>14. CASE UNCHANGED <<sale, balance>>
  <2>1. sale' = sale /\ balance' = balance BY <1>14
  <2> QED BY <2>1 DEF EscrowInv, Reserves
<1>15. CASE UNCHANGED saleVars BY <1>14, <1>15 DEF saleVars
<1>16. ASSUME NEW type, EndLock(type) PROVE EscrowInv' BY <1>14, <1>16 DEF EndLock
<1> QED BY <1>3, <1>6, <1>7, <1>8, <1>9, <1>10, <1>11, <1>12, <1>13, <1>15, <1>16,
           ReleasePaymentFunded, DistributeFeesFunded DEF SaleStep

(* For any number of sales that share the balance of MockPaymentAdapter and  *)
(* any order of their payments: it covers what the sellers of paid sales are *)
(* due, and no payment of a sold one fails for want of money.                *)
THEOREM EscrowAlwaysSolvent == SaleSpec => []EscrowIsSolvent
<1>1. ASSUME SaleInv, EscrowInv PROVE EscrowIsSolvent
  <2> DEFINE d == [f \in Sale |-> IF sale[f].paid > 0 /\ sale[f].stage \notin {"released", "failed"}
                                  THEN SellerAmount(sale[f].price) ELSE 0]
  <2>1. sale \in [Sale -> SaleRecord] /\ balance \in Int BY <1>1 DEF SaleInv, EscrowInv
  <2>2. ASSUME NEW f \in Sale PROVE d[f] \in Int /\ d[f] <= Reserves(sale)[f]
    <3>1. sale[f] \in SaleRecord /\ Funded(sale[f]) BY <1>1, <2>1 DEF EscrowInv
    <3>2. sale[f].price \in Prices \cup {0} BY <3>1
    <3>3. /\ SellerAmount(sale[f].price) \in Int /\ SellerAmount(sale[f].price) <= sale[f].price
          /\ sale[f].price \in Nat /\ CalculateEscrowFee(sale[f].price) \in Nat
      BY <3>2, PriceFacts
    <3>4. Reserve(sale[f]) \in Nat BY <3>1, ReserveIsNat
    <3>5. CASE sale[f].paid > 0 /\ sale[f].stage \notin {"released", "failed"}
      <4>1. Reserve(sale[f]) = sale[f].price + CalculateEscrowFee(sale[f].price)
        BY <3>1, <3>5 DEF Reserve, Funded
      <4> QED BY <3>3, <3>5, <4>1 DEF Reserves
    <3>6. CASE ~(sale[f].paid > 0 /\ sale[f].stage \notin {"released", "failed"})
      BY <3>4, <3>6 DEF Reserves
    <3> QED BY <3>5, <3>6
  <2>3. d \in [Sale -> Int] BY <2>2
  <2> HIDE DEF d
  <2>4. Reserves(sale) \in [Sale -> Int] /\ SumFunction(Reserves(sale)) \in Int
    BY <2>1, ReservesType
  <2>5. SumFunction(d) <= SumFunction(Reserves(sale)) BY <2>2, <2>3, <2>4, SaleAssumption, SumLe
  <2>6. SumFunction(d) \in Int BY <2>3, SaleAssumption, SumType
  <2>7. balance >= SumFunction(d) BY <1>1, <2>1, <2>4, <2>5, <2>6 DEF EscrowInv
  <2>8. \A f \in Sale : sale[f].stage = "failed" => sale[f].soldBy = NoWallet
    BY <1>1 DEF EscrowInv, Funded
  <2> QED BY <2>7, <2>8 DEF EscrowIsSolvent, d
<1> QED BY <1>1, InitFits, SaleStepFits, InitFunded, SaleStepFunded, PTL DEF SaleSpec

(* The item keeps a state, an owner and a height, and every sale its stage.  *)
THEOREM SaleTypeCorrect == SaleSpec => []SaleTypeOK
<1>1. SaleInv /\ EscrowInv => SaleTypeOK BY DEF SaleInv, EscrowInv, SaleTypeOK
<1> QED BY <1>1, InitFits, SaleStepFits, InitFunded, SaleStepFunded, PTL DEF SaleSpec

HIDE DEF SaleRecord, SaleStage, EscrowType, Underway
-----------------------------------------------------------------------------
(* All of them together                                                    *)

\* They share nothing, so each keeps to its own specification.
LEMMA ServicesApart == ServicesSpec => PeerSpec /\ AuthSpec /\ TokenSpec /\ SaleSpec
<1>1. ServicesInit => PeerInit /\ AuthInit /\ TokenInit /\ SaleInit
  BY DEF ServicesInit
<1>2. [ServicesNext]_servicesVars => /\ [PeerStep]_peerVars /\ [AuthStep]_authVars
                                     /\ [TokenStep]_tokenVars /\ [SaleStep]_saleVars
  BY DEF ServicesNext, servicesVars
<1> QED BY <1>1, <1>2, PTL DEF ServicesSpec, PeerSpec, AuthSpec, TokenSpec, SaleSpec

(* Every variable of the services keeps its type, whatever they are asked;   *)
(* with it, no challenge makes more sessions than calls of verifyLogin can   *)
(* overlap, and no more signed actions are accepted than were begun.         *)
THEOREM ServicesTypeCorrect == ServicesSpec => []ServicesTypeOK
<1>1. PeerInv => PeerTypeOK BY DEF PeerInv
<1>2. TokenInv => TokenTypeOK BY DEF TokenInv
<1>3. TokenSpec => []TokenInv BY TokenInitFits, TokenStepFits, PTL DEF TokenSpec
<1>4. PeerTypeOK /\ AuthTypeOK /\ TokenTypeOK /\ SaleTypeOK => ServicesTypeOK
  BY DEF ServicesTypeOK
<1> QED BY <1>1, <1>2, <1>3, <1>4, ServicesApart, PeerInvariant, AuthTypeCorrect,
           SaleTypeCorrect, PTL

(* What is proved of each service holds of the specification the run of all  *)
(* of them checks.                                                           *)
THEOREM ServicesCorrect ==
   ServicesSpec =>
      /\ [](/\ TableIsLive /\ PeerDataIsOwn
            /\ EnabledSecretWasProven /\ OneLoginPerChallenge /\ SecondFactorChecked
            /\ NonceSpentOnce /\ LedgerIsAuditable /\ SoldByOwnerAndPaid /\ EscrowIsSolvent)
      /\ EmbeddedDataIsPermanent
BY ServicesApart, TableAlwaysLive, PeerDataAlwaysOwn, EnabledSecretAlwaysProven, OneLoginAlways,
   SecondFactorAlwaysChecked, NonceAlwaysSpentOnce, LedgerAlwaysAuditable, SoldByOwnerAlways,
   EscrowAlwaysSolvent, DataAlwaysPermanent, PTL
=============================================================================
