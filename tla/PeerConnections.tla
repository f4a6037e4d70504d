-------------------------- MODULE PeerConnections --------------------------
(***************************************************************************)
(* The peer-to-peer connections of one node (network/p2p-handler.ts).  A   *)
(* connection belongs to a peer id, address and port, and the node keeps   *)
(* one entry for a peer id.  What a socket reports, that it opened, heard  *)
(* something, failed or closed, is looked up by the peer id, whichever     *)
(* socket of that peer reports it.                                         *)
(*                                                                         *)
(* The peers run the same program: the one that dials greets first, every  *)
(* greeting is answered, and a PONG comes only after a PING.  A socket the *)
(* peer is closing counts as open until its close event.  Messages that    *)
(* are only passed on to listeners are left out.                           *)
(***************************************************************************)
EXTENDS Naturals, FiniteSets

CONSTANTS
   PeerId,
   Sock,        \* bound: the sockets alive together
   NoSock,      \* no entry in a map
   MaxPeers,
   CanDial      \* whether the imported WebSocket can be constructed: FALSE in
                \* a build with esModuleInterop, as tsconfig.json has it

ASSUME PeerAssumption ==
   /\ NoSock \notin PeerId \cup Sock
   /\ MaxPeers \in Nat
   /\ CanDial \in BOOLEAN

SockState == {"unused", "dialing", "open", "closing"}

\* coming: a greeting of the peer is on its way; greetedBy: the socket whose HELLO gave the peer's key, version and role;
\* owed: a PONG is due; pinged: lastPingSent is set.
Connection == [peer : PeerId \cup {NoSock}, state : SockState, coming : BOOLEAN,
               greetedBy : Sock \cup {NoSock}, pinged : BOOLEAN,
               owed : BOOLEAN, latency : {"none", "measured", "epoch"}]

VARIABLES
   sock,    \* [Sock -> Connection]
   peers,   \* [PeerId -> Sock or NoSock]: this.peers
   raced    \* history: two sockets of one peer id have been alive together

peerVars == <<sock, peers, raced>>

NoConnection == [peer |-> NoSock, state |-> "unused", coming |-> FALSE,
                 greetedBy |-> NoSock, pinged |-> FALSE, owed |-> FALSE, latency |-> "none"]

PeerInit ==
   /\ sock = [c \in Sock |-> NoConnection]
   /\ peers = [p \in PeerId |-> NoSock]
   /\ raced = FALSE

PeerTypeOK ==
   /\ sock \in [Sock -> Connection]
   /\ peers \in [PeerId -> Sock \cup {NoSock}]
   /\ raced \in BOOLEAN
-----------------------------------------------------------------------------
Listed == {p \in PeerId : peers[p] # NoSock}

Alive(c) == sock[c].state # "unused"

\* A new socket for the peer p.
Start(c, p, conn) ==
   /\ sock[c].state = "unused"
   /\ sock' = [sock EXCEPT ![c] = [conn EXCEPT !.peer = p]]
   /\ raced' = (raced \/ \E d \in Sock : sock[d].peer = p /\ Alive(d))

\* A greeting is sent, and the peer will answer it.
Greeted(conn) == [conn EXCEPT !.coming = TRUE]

\* The limit is checked when the dialling begins, not when the socket opens.
ConnectToPeer(c, p) ==
   /\ CanDial
   /\ p \notin Listed
   /\ Cardinality(Listed) < MaxPeers
   /\ Start(c, p, [NoConnection EXCEPT !.state = "dialing"])
   /\ UNCHANGED peers

Opened(c) ==
   /\ sock[c].state = "dialing"
   /\ sock' = [sock EXCEPT ![c] = Greeted([@ EXCEPT !.state = "open"])]
   /\ peers' = [peers EXCEPT ![sock[c].peer] = c]
   /\ UNCHANGED raced

\* A dial that fails emits an error and then a close, which deletes the entry
\* of its peer, should another socket have made one.
Refused(c) ==
   /\ sock[c].state = "dialing"
   /\ sock' = [sock EXCEPT ![c] = NoConnection]
   /\ peers' = [peers EXCEPT ![sock[c].peer] = NoSock]
   /\ UNCHANGED raced

\* No limit is checked, and an entry of the same peer is replaced.
AcceptPeerConnection(c, p) ==
   /\ Start(c, p, [NoConnection EXCEPT !.state = "open", !.coming = TRUE])
   /\ peers' = [peers EXCEPT ![p] = c]

(* The close event is only reported (a seeded bug). *)
ClosedQuietly(c) ==
   /\ sock[c].state \in {"open", "closing"}
   /\ sock' = [sock EXCEPT ![c] = NoConnection]
   /\ UNCHANGED <<peers, raced>>

\* The close event: whichever socket the peer's entry holds, it is deleted.
Closed(c) ==
   /\ sock[c].state \in {"open", "closing"}
   /\ sock' = [sock EXCEPT ![c] = NoConnection]
   /\ peers' = [peers EXCEPT ![sock[c].peer] = NoSock]
   /\ UNCHANGED raced

Closing(s) == [c \in Sock |-> IF c \in s THEN [sock[c] EXCEPT !.state = "closing"] ELSE sock[c]]

DisconnectPeer(p) ==
   /\ p \in Listed
   /\ sock' = Closing({peers[p]})
   /\ peers' = [peers EXCEPT ![p] = NoSock]
   /\ UNCHANGED raced

DisconnectAll ==
   /\ Listed # {}
   /\ sock' = Closing({peers[p] : p \in Listed})
   /\ peers' = [p \in PeerId |-> NoSock]
   /\ UNCHANGED raced

\* A message arrives on the socket c; o is the connection it is taken to
\* come from, or NoSock: a message from an unknown peer is dropped.
Arrives(c, o, consumed) ==
   /\ sock[c].state \in {"open", "closing"}
   /\ o = peers[sock[c].peer]
   /\ consumed

\* Every greeting is answered, whatever was sent on the connection before: two
\* nodes go on greeting each other.
HandleHello(c) ==
   \E o \in Sock \cup {NoSock} :
      /\ Arrives(c, o, sock[c].coming)
      /\ LET heard == [sock EXCEPT ![c].coming = FALSE]
         IN  sock' = IF o = NoSock THEN heard
                     ELSE [heard EXCEPT ![o] = Greeted([@ EXCEPT !.greetedBy = c])]
      /\ UNCHANGED <<peers, raced>>

\* The time since the last ping, or since the epoch if there was none.
HandlePong(c) ==
   \E o \in Sock \cup {NoSock} :
      /\ Arrives(c, o, sock[c].owed)
      /\ LET heard == [sock EXCEPT ![c].owed = FALSE]
         IN  sock' = IF o = NoSock THEN heard
                     ELSE [heard EXCEPT ![o].latency = IF sock[o].pinged THEN "measured"
                                                                         ELSE "epoch"]
      /\ UNCHANGED <<peers, raced>>

(* The time of the ping is not kept (a seeded bug). *)
PingUntimed ==
   /\ Listed # {}
   /\ sock' = [c \in Sock |-> IF c \in {peers[p] : p \in Listed}
                              THEN [sock[c] EXCEPT !.owed = TRUE] ELSE sock[c]]
   /\ UNCHANGED <<peers, raced>>

PingAllPeers ==
   /\ Listed # {}
   /\ sock' = [c \in Sock |-> IF c \in {peers[p] : p \in Listed}
                              THEN [sock[c] EXCEPT !.pinged = TRUE, !.owed = TRUE]
                              ELSE sock[c]]
   /\ UNCHANGED <<peers, raced>>

PeerStep ==
   \/ \E c \in Sock, p \in PeerId : ConnectToPeer(c, p) \/ AcceptPeerConnection(c, p)
   \/ \E c \in Sock : Opened(c) \/ Refused(c) \/ Closed(c) \/ HandleHello(c) \/ HandlePong(c)
   \/ \E p \in PeerId : DisconnectPeer(p)
   \/ DisconnectAll
   \/ PingAllPeers

PeerSpec == PeerInit /\ [][PeerStep]_peerVars
-----------------------------------------------------------------------------
(* Whatever overlaps, a listed peer is one the node can still talk to: its   *)
(* entry holds a socket of that peer which the node has not closed and       *)
(* whose close event has not come.  Entries are made and deleted by peer id  *)
(* from four event handlers.  Unless two sockets of one peer were alive      *)
(* together, the table is also complete: no open socket is left that neither *)
(* a broadcast nor a disconnection reaches.  (With two of them, the close of *)
(* the older deletes the entry of the newer.)                                *)
TableIsLive ==
   /\ \A p \in Listed : sock[peers[p]].peer = p /\ sock[peers[p]].state = "open"
   /\ ~raced => \A c \in Sock : sock[c].state = "open" => peers[sock[c].peer] = c

(* Unless two sockets of one peer were alive together, what the node knows   *)
(* of a peer was said on that peer's own connection, and a latency is the    *)
(* time since a ping.  (With two of them, a PONG on the older gives the      *)
(* newer the time since the epoch.)                                          *)
PeerDataIsOwn ==
   ~raced => \A c \in Sock : /\ sock[c].greetedBy \in {c, NoSock}
                             /\ sock[c].latency # "epoch"
=============================================================================
