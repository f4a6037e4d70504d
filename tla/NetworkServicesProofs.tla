------------------------ MODULE NetworkServicesProofs -----------------------
(***************************************************************************)
(* Proofs about what the operators' network does beside the item log, each *)
(* for any number of what it deals with: finding peers, anchoring          *)
(* checkpoints, admitting operators and drawing committees, and the fees   *)
(* and books of what operators earn.                                       *)
(***************************************************************************)
EXTENDS MCNetworkServices, Sums, SequenceTheorems
-----------------------------------------------------------------------------
(* Finding peers                                                           *)

\* What a call has done so far says what it is; peers yet to be tried are in table.
CallFits(c, table) ==
   /\ c.kind = "refresh" => c.pc \in {"manifest", "done"} /\ ~c.connected
   /\ c.connected => c.pc \in {"connect", "done"}
   /\ c.kind = "bootstrap" /\ c.pc = "done" => c.success = c.connected
   /\ \A a \in c.todo : table[a] # NoPeer

\* A connected peer is one some call under way, or over, has connected.
ConnectedByCall ==
   (\E a \in Known : known[a].connected) <=> (\E b \in BootCall : boot[b].connected)

PhaseAtTheEnd == Begun # {} /\ (\A b \in Begun : Finished(b)) => phase \in {"ready", "failed"}

BootInv ==
   /\ BootTypeOK
   /\ \A b \in BootCall : CallFits(boot[b], known)
   /\ ConnectedByCall
   /\ PhaseAtTheEnd

LEMMA BootInitHolds == BootInit => BootInv
<1> SUFFICES ASSUME BootInit PROVE BootInv
  OBVIOUS
<1>1. Urls \in Nat BY BootstrapAssumption
<1>2. NotCalled \in BootRecord BY <1>1 DEF NotCalled, BootRecord
<1>3. known \in [Addr -> Peer \cup {NoPeer}] /\ boot \in [BootCall -> BootRecord]
  BY <1>2 DEF BootInit
<1>4. \A b \in BootCall : boot[b] = NotCalled BY DEF BootInit
<1>5. Known = {} /\ Begun = {} BY <1>4 DEF BootInit, Known, Begun, NotCalled
<1>6. \A b \in BootCall : CallFits(boot[b], known) BY <1>4 DEF CallFits, NotCalled
<1>7. ConnectedByCall BY <1>4, <1>5 DEF ConnectedByCall, NotCalled
<1>8. QED BY <1>3, <1>5, <1>6, <1>7 DEF BootInv, BootTypeOK, BootInit, PhaseAtTheEnd

\* The new table has what the old one has; what is new is not connected.
Enters(table, new) ==
   \A a \in Addr : \/ new[a] = table[a]
                   \/ table[a] = NoPeer /\ new[a] # NoPeer /\ ~new[a].connected

\* A source enters the peers that are not there yet.
LEMMA AddedEnters ==
   ASSUME NEW table \in [Addr -> Peer \cup {NoPeer}], NEW addrs, NEW via \in Source
   PROVE  /\ Added(table, addrs, via) \in [Addr -> Peer \cup {NoPeer}]
          /\ Enters(table, Added(table, addrs, via))
<1> DEFINE p == [via |-> via, connected |-> FALSE]
<1>1. p \in Peer /\ ~p.connected BY DEF Peer
<1> HIDE DEF p
<1>0. p # NoPeer BY <1>1, BootstrapAssumption
<1>2. Added(table, addrs, via) = [a \in Addr |-> IF a \in addrs /\ table[a] = NoPeer THEN p ELSE table[a]]
  BY DEF Added, p
<1>3. QED BY <1>0, <1>1, <1>2 DEF Enters

\* A step of one call that connects nobody keeps the invariant, if it leaves the
\* phase to say how the last bootstrap ended.
LEMMA OneCallChanges ==
   ASSUME BootInv, NEW b \in BootCall, NEW c \in BootRecord,
          boot' = [boot EXCEPT ![b] = c], CallFits(c, known'),
          known' \in [Addr -> Peer \cup {NoPeer}], Enters(known, known'),
          phase' \in {"initializing", "fetching-seeds", "connecting", "ready", "failed"},
          c.connected = boot[b].connected,
          c.pc # "unused",
          c.kind = "bootstrap" => c.pc # "done" \/ phase' \in {"ready", "failed"},
          c.kind = "refresh" => /\ phase' = phase
                                /\ boot[b].kind = "refresh" \/ boot[b].pc = "unused"
   PROVE  BootInv'
<1>1. boot \in [BootCall -> BootRecord] /\ known \in [Addr -> Peer \cup {NoPeer}] BY DEF BootInv, BootTypeOK
<1>2. \A d \in BootCall : boot'[d] = IF d = b THEN c ELSE boot[d] BY <1>1
<1>3. \A a \in Addr : known[a] # NoPeer => known'[a] = known[a]
  BY DEF Enters
<1>4. \A d \in BootCall : CallFits(boot'[d], known')
  <2>1. ASSUME NEW d \in BootCall, d # b PROVE CallFits(boot[d], known')
    <3>1. CallFits(boot[d], known) /\ boot[d].todo \subseteq Addr
      BY <1>1 DEF BootInv, BootTypeOK, BootRecord
    <3>2. QED BY <1>3, <3>1 DEF CallFits
  <2>2. QED BY <1>2, <2>1
<1>5. ConnectedByCall'
  <2>1. (\E a \in Known' : known'[a].connected) <=> (\E a \in Known : known[a].connected)
    BY <1>3 DEF Enters, Known
  <2>2. (\E d \in BootCall : boot'[d].connected) <=> (\E d \in BootCall : boot[d].connected)
    BY <1>2
  <2>3. QED BY <2>1, <2>2 DEF BootInv, BootTypeOK, ConnectedByCall
<1>6. PhaseAtTheEnd'
  <2>1. CASE c.kind = "bootstrap"
    <3>1. b \in Begun' BY <1>2, <2>1 DEF Begun
    <3>2. CASE c.pc # "done" BY <1>2, <3>1, <3>2 DEF PhaseAtTheEnd, Finished
    <3>3. CASE c.pc = "done" BY <2>1, <3>3 DEF PhaseAtTheEnd
    <3>4. QED BY <3>2, <3>3
  <2>2. CASE c.kind = "refresh"
    <3>1. Begun' = Begun BY <1>2, <2>2 DEF Begun
    <3>2. \A d \in Begun : d # b BY <2>2 DEF Begun
    <3>3. \A d \in Begun : Finished(d)' <=> Finished(d)
      BY <1>2, <3>2 DEF Finished, Begun
    <3>4. QED BY <2>2, <3>1, <3>3 DEF BootInv, BootTypeOK, PhaseAtTheEnd
  <2>3. QED BY <2>1, <2>2 DEF BootRecord
<1>7. QED BY <1>1, <1>4, <1>5, <1>6 DEF BootInv, BootTypeOK

\* The search for a manifest ends with some of the known peers to be tried.
LEMMA SearchedHolds ==
   ASSUME BootInv, NEW b \in BootCall, NEW found \in BOOLEAN,
          NEW table \in [Addr -> Peer \cup {NoPeer}], Enters(known, table),
          boot[b].pc = "manifest", Searched(b, found, table)
   PROVE  BootInv'
<1> DEFINE s == boot[b]
<1>1. /\ s \in BootRecord /\ CallFits(s, known) /\ boot \in [BootCall -> BootRecord]
      /\ known \in [Addr -> Peer \cup {NoPeer}]
      /\ phase \in {"initializing", "fetching-seeds", "connecting", "ready", "failed"}
  BY DEF BootInv, BootTypeOK
<1>2. known' = table BY DEF Searched
<1>3. CASE s.kind = "refresh"
  <2> DEFINE c == [s EXCEPT !.pc = "done", !.success = found]
  <2>1. boot' = [boot EXCEPT ![b] = c] /\ phase' = phase BY <1>1, <1>3 DEF Searched
  <2>2. c \in BootRecord BY <1>1 DEF BootRecord
  <2>3. /\ c.pc = "done" /\ c.kind = "refresh" /\ c.connected = s.connected /\ c.todo = s.todo
        /\ s.todo \subseteq Addr
    BY <1>1, <1>3 DEF BootRecord
  <2> HIDE DEF c
  <2>4. CallFits(c, table) BY <1>1, <1>3, <2>3 DEF CallFits, Enters
  <2>5. QED BY <1>1, <1>2, <1>3, <2>1, <2>2, <2>3, <2>4, OneCallChanges
<1>4. CASE s.kind = "bootstrap"
  <2>1. PICK subset \in SUBSET {a \in Addr : table[a] # NoPeer} :
           /\ boot' = [boot EXCEPT ![b].pc = "connect", ![b].todo = subset]
           /\ phase' = "connecting"
    BY <1>4 DEF Searched
  <2> DEFINE c == [s EXCEPT !.pc = "connect", !.todo = subset]
  <2>2. boot' = [boot EXCEPT ![b] = c] BY <1>1, <2>1
  <2>3. c \in BootRecord BY <1>1, <2>1 DEF BootRecord
  <2>4. c.pc = "connect" /\ c.kind = "bootstrap" /\ c.connected = s.connected /\ c.todo = subset
    BY <1>1, <1>4 DEF BootRecord
  <2> HIDE DEF c
  <2>5. CallFits(c, table) BY <2>1, <2>4 DEF CallFits
  <2>6. QED BY <1>2, <2>1, <2>2, <2>3, <2>4, <2>5, OneCallChanges
<1>5. QED BY <1>1, <1>3, <1>4 DEF BootRecord

\* A call begins, is answered by DNS, or goes on to the next address.
LEMMA LookupHolds ==
   ASSUME BootInv, NEW b \in BootCall,
          \/ \E config \in {NoPeer, ServedConfig} : StartBootstrap(b, config)
          \/ RefreshManifest(b)
          \/ \E addrs \in {{}, DnsAddrs} : DnsAnswered(b, addrs)
          \/ NextUrl(b)
   PROVE  BootInv'
<1> DEFINE s == boot[b]
<1>1. /\ s \in BootRecord /\ CallFits(s, known) /\ boot \in [BootCall -> BootRecord]
      /\ known \in [Addr -> Peer \cup {NoPeer}] /\ s.todo \subseteq Addr
      /\ phase \in {"initializing", "fetching-seeds", "connecting", "ready", "failed"}
  BY DEF BootInv, BootTypeOK, BootRecord
<1>2. Enters(known, known) BY DEF Enters
<1>3. ASSUME NEW pc \in {"dns", "manifest"}, s.pc \in {"unused", "dns"}, s.kind = "bootstrap",
             boot' = [boot EXCEPT ![b].pc = pc], phase' = "fetching-seeds",
             known' \in [Addr -> Peer \cup {NoPeer}], Enters(known, known')
      PROVE  BootInv'
  <2> DEFINE c == [s EXCEPT !.pc = pc]
  <2>1. boot' = [boot EXCEPT ![b] = c] BY <1>1, <1>3
  <2>2. c \in BootRecord BY <1>1 DEF BootRecord
  <2>3. /\ c.pc = pc /\ c.kind = "bootstrap" /\ c.connected = s.connected /\ c.todo = s.todo
    BY <1>1, <1>3 DEF BootRecord
  <2> HIDE DEF c
  <2>4. CallFits(c, known') BY <1>1, <1>3, <2>3 DEF CallFits, Enters
  <2>5. QED BY <1>3, <2>1, <2>2, <2>3, <2>4, OneCallChanges
<1>4. s.pc \in {"unused", "dns"} => s.kind = "bootstrap" BY <1>1 DEF CallFits, BootRecord
<1>5. ASSUME NEW config, StartBootstrap(b, config) PROVE BootInv'
  <2> DEFINE first == Added(known, IF config = NoPeer THEN {} ELSE config, "bootstrap-config")
  <2>1. known' = Added(first, Seeds, "hardcoded") BY <1>5 DEF StartBootstrap
  <2>2. first \in [Addr -> Peer \cup {NoPeer}] /\ Enters(known, first)
    BY <1>1, AddedEnters DEF Source
  <2> HIDE DEF first
  <2>3. known' \in [Addr -> Peer \cup {NoPeer}] /\ Enters(first, known')
    BY <2>1, <2>2, AddedEnters DEF Source
  <2>4. Enters(known, known') BY <2>2, <2>3 DEF Enters
  <2>5. QED BY <1>3, <1>4, <1>5, <2>3, <2>4 DEF StartBootstrap
<1>6. ASSUME NEW addrs, DnsAnswered(b, addrs) PROVE BootInv'
  <2>1. known' \in [Addr -> Peer \cup {NoPeer}] /\ Enters(known, known')
    BY <1>1, <1>6, AddedEnters DEF DnsAnswered, Source
  <2>2. QED BY <1>3, <1>4, <1>6, <2>1 DEF DnsAnswered
<1>7. CASE RefreshManifest(b)
  <2> DEFINE c == [s EXCEPT !.pc = "manifest", !.kind = "refresh"]
  <2>1. boot' = [boot EXCEPT ![b] = c] /\ known' = known /\ phase' = phase /\ s.pc = "unused"
    BY <1>1, <1>7 DEF RefreshManifest
  <2>2. c \in BootRecord BY <1>1 DEF BootRecord
  <2>3. /\ c.pc = "manifest" /\ c.kind = "refresh" /\ c.connected = s.connected /\ c.todo = s.todo
    BY <1>1 DEF BootRecord
  <2> HIDE DEF c
  <2>4. CallFits(c, known') BY <1>1, <2>1, <2>3 DEF CallFits
  <2>5. QED BY <1>1, <1>2, <2>1, <2>2, <2>3, <2>4, OneCallChanges
<1>8. CASE NextUrl(b)
  <2>1. CASE s.url < Urls
    <3> DEFINE c == [s EXCEPT !.url = s.url + 1]
    <3>1. boot' = [boot EXCEPT ![b] = c] /\ known' = known /\ phase' = phase /\ s.pc = "manifest"
      BY <1>1, <1>8, <2>1 DEF NextUrl
    <3>2. s.url + 1 \in 1..(Urls + 1) /\ s.url \in 1..(Urls + 1)
      <4>1. Urls \in Nat BY BootstrapAssumption
      <4>2. s.url \in 1..(Urls + 1) BY <1>1 DEF BootRecord
      <4>3. QED BY <2>1, <4>1, <4>2
    <3>3. c \in BootRecord BY <1>1, <3>2 DEF BootRecord
    <3>4. c.pc = s.pc /\ c.kind = s.kind /\ c.connected = s.connected /\ c.todo = s.todo
      BY <1>1 DEF BootRecord
    <3> HIDE DEF c
    <3>5. CallFits(c, known') BY <1>1, <3>1, <3>4 DEF CallFits
    <3>6. QED BY <1>1, <1>2, <3>1, <3>3, <3>4, <3>5, OneCallChanges
  <2>2. CASE ~(s.url < Urls)
    BY <1>1, <1>2, <1>8, <2>2, SearchedHolds DEF NextUrl
  <2>3. QED BY <2>1, <2>2
<1>9. QED BY <1>5, <1>6, <1>7, <1>8

\* An attempt that succeeds connects the peer for the call and in the table.
LEMMA AttemptHolds ==
   ASSUME BootInv, NEW b \in BootCall, NEW a \in Addr, NEW success \in BOOLEAN,
          AttemptConnection(b, a, success)
   PROVE  BootInv'
<1> DEFINE s == boot[b]
           c == [s EXCEPT !.todo = s.todo \ {a}, !.connected = s.connected \/ success]
<1>1. /\ s \in BootRecord /\ CallFits(s, known) /\ boot \in [BootCall -> BootRecord]
      /\ known \in [Addr -> Peer \cup {NoPeer}] /\ s.todo \subseteq Addr
  BY DEF BootInv, BootTypeOK, BootRecord
<1>2. boot' = [boot EXCEPT ![b] = c] /\ s.pc = "connect" /\ a \in s.todo /\ phase' = phase
  BY <1>1 DEF AttemptConnection
<1>3. /\ c.pc = s.pc /\ c.kind = s.kind /\ c.connected = (s.connected \/ success)
      /\ c.todo = s.todo \ {a} /\ c.success = s.success
  BY <1>1 DEF BootRecord
<1>4. c \in BootRecord BY <1>1, <1>3 DEF BootRecord
<1> HIDE DEF c
<1>5. known[a] # NoPeer /\ known[a] \in Peer BY <1>1, <1>2 DEF CallFits
<1>6. known' = [known EXCEPT ![a] = [known[a] EXCEPT !.connected = @ \/ success]]
  <2>1. CASE success BY <1>1, <1>5, <2>1 DEF AttemptConnection, Peer
  <2>2. CASE ~success
    <3>1. known[a] = [known[a] EXCEPT !.connected = @ \/ success] BY <1>5, <2>2 DEF Peer
    <3>2. QED BY <1>1, <2>2, <3>1 DEF AttemptConnection
  <2>3. QED BY <2>1, <2>2
<1> DEFINE p == [known[a] EXCEPT !.connected = @ \/ success]
<1>7. p \in Peer /\ p # NoPeer /\ p.connected = (known[a].connected \/ success)
  BY <1>5, BootstrapAssumption DEF Peer
<1> HIDE DEF p
<1>8. /\ \A q \in Addr : known'[q] = IF q = a THEN p ELSE known[q]
      /\ known' \in [Addr -> Peer \cup {NoPeer}]
  BY <1>1, <1>6, <1>7 DEF p
<1>9. /\ \A d \in BootCall : boot'[d] = IF d = b THEN c ELSE boot[d]
      /\ boot' \in [BootCall -> BootRecord]
  BY <1>1, <1>2, <1>4
<1>10. \A d \in BootCall : CallFits(boot'[d], known')
  <2>1. CallFits(c, known') BY <1>1, <1>2, <1>3, <1>7, <1>8 DEF CallFits
  <2>2. ASSUME NEW d \in BootCall PROVE CallFits(boot[d], known')
    <3>1. CallFits(boot[d], known) /\ boot[d].todo \subseteq Addr BY <1>1 DEF BootInv, BootTypeOK, BootRecord
    <3>2. QED BY <1>7, <1>8, <3>1 DEF CallFits
  <2>3. QED BY <1>9, <2>1, <2>2
<1>11. ConnectedByCall'
  <2>1. CASE success BY <1>3, <1>7, <1>8, <1>9, <2>1 DEF ConnectedByCall, Known
  <2>2. CASE ~success
    <3>1. \A d \in BootCall : boot'[d].connected = boot[d].connected
      <4>1. s.connected \in BOOLEAN BY <1>1 DEF BootRecord
      <4>2. QED BY <1>3, <1>9, <2>2, <4>1
    <3>2. /\ Known' = Known
          /\ \A q \in Known : known'[q].connected = known[q].connected
      <4>1. known[a].connected \in BOOLEAN BY <1>5 DEF Peer
      <4>2. QED BY <1>5, <1>7, <1>8, <2>2, <4>1 DEF Known
    <3>3. QED BY <3>1, <3>2 DEF BootInv, BootTypeOK, ConnectedByCall
  <2>3. QED BY <2>1, <2>2
<1>12. PhaseAtTheEnd'
  <2>1. Begun' = Begun /\ \A d \in BootCall : Finished(d)' <=> Finished(d)
    BY <1>3, <1>9 DEF Begun, Finished
  <2>2. QED BY <1>2, <2>1 DEF BootInv, BootTypeOK, PhaseAtTheEnd, Begun
<1>13. QED BY <1>2, <1>8, <1>9, <1>10, <1>11, <1>12 DEF BootInv, BootTypeOK

\* A bootstrap is over when it has tried its peers.
LEMMA CompletedHolds ==
   ASSUME BootInv, NEW b \in BootCall, Completed(b)
   PROVE  BootInv'
<1> DEFINE s == boot[b]
           c == [s EXCEPT !.pc = "done", !.success = s.connected]
<1>1. /\ s \in BootRecord /\ CallFits(s, known) /\ boot \in [BootCall -> BootRecord]
      /\ known \in [Addr -> Peer \cup {NoPeer}]
  BY DEF BootInv, BootTypeOK
<1>2. /\ boot' = [boot EXCEPT ![b] = c] /\ s.pc = "connect" /\ known' = known
      /\ phase' \in {"ready", "failed"}
  BY <1>1 DEF Completed
<1>3. c \in BootRecord BY <1>1 DEF BootRecord
<1>4. /\ c.pc = "done" /\ c.kind = s.kind /\ c.connected = s.connected /\ c.todo = s.todo
      /\ c.success = s.connected
  BY <1>1 DEF BootRecord
<1>5. s.kind = "bootstrap" BY <1>1, <1>2 DEF CallFits, BootRecord
<1> HIDE DEF c
<1>6. CallFits(c, known') /\ Enters(known, known') BY <1>1, <1>2, <1>4, <1>5 DEF CallFits, Enters
<1>7. QED BY <1>1, <1>2, <1>3, <1>4, <1>5, <1>6, OneCallChanges

\* Every step keeps the invariant.
LEMMA BootStepHolds == BootInv /\ [BootStep]_bootVars => BootInv'
<1> SUFFICES ASSUME BootInv, [BootStep]_bootVars PROVE BootInv'
  OBVIOUS
<1>1. ASSUME NEW b \in BootCall, NEW m, ManifestFetched(b, m) PROVE BootInv'
  <2>1. known \in [Addr -> Peer \cup {NoPeer}] BY DEF BootInv, BootTypeOK
  <2>2. QED BY <1>1, <2>1, AddedEnters, SearchedHolds DEF ManifestFetched, Source
<1>2. CASE UNCHANGED bootVars
  <2>1. UNCHANGED <<known, phase, boot>> BY <1>2 DEF bootVars
  <2>2. QED BY <2>1 DEF BootInv, BootTypeOK, CallFits, ConnectedByCall, PhaseAtTheEnd, Known, Begun, Finished
<1>3. QED BY <1>1, <1>2, LookupHolds, AttemptHolds, CompletedHolds DEF BootStep, CallStep

\* For any number of calls, peers and addresses of manifests, whatever the network
\* answers: a bootstrap that reports success leaves a connected peer, the only one
\* reports a failure only without one, and the last one to end sets the phase.
THEOREM OutcomeAlwaysTrue == BootSpec => []OutcomeIsTrue
<1>1. ASSUME BootInv PROVE OutcomeIsTrue
  <2>1. ASSUME NEW b \in BootCall, Finished(b)
        PROVE  IF boot[b].success THEN \E a \in Known : known[a].connected
               ELSE Begun = {b} => \A a \in Known : ~known[a].connected
    <3>1. boot[b].success = boot[b].connected BY <1>1, <2>1 DEF BootInv, BootTypeOK, CallFits, Finished
    <3>2. CASE boot[b].success BY <1>1, <3>1, <3>2 DEF BootInv, BootTypeOK, ConnectedByCall
    <3>3. CASE ~boot[b].success
      <4>1. SUFFICES ASSUME Begun = {b}, NEW a \in Known, known[a].connected PROVE FALSE
        BY <3>3
      <4>2. PICK d \in BootCall : boot[d].connected BY <1>1, <4>1 DEF BootInv, BootTypeOK, ConnectedByCall
      <4>3. boot[d] \in BootRecord /\ CallFits(boot[d], known) BY <1>1 DEF BootInv, BootTypeOK
      <4>4. d \in Begun BY <4>2, <4>3 DEF Begun, CallFits, BootRecord
      <4>5. QED BY <3>1, <3>3, <4>1, <4>2, <4>4
    <3>4. QED BY <3>2, <3>3
  <2>2. QED BY <1>1, <2>1 DEF BootInv, BootTypeOK, PhaseAtTheEnd, OutcomeIsTrue
<1>2. QED BY <1>1, BootInitHolds, BootStepHolds, PTL DEF BootSpec

\* A known peer stays known as it was first found, and stays connected.
THEOREM RediscoveryAlwaysKeeps == BootSpec => RediscoveryKeepsPeers
<1> DEFINE Kept == \A a \in Known : /\ known'[a] # NoPeer
                                    /\ known'[a].via = known[a].via
                                    /\ known[a].connected => known'[a].connected
<1>1. ASSUME BootInv, BootStep PROVE Kept
  <2>1. known \in [Addr -> Peer \cup {NoPeer}] BY <1>1 DEF BootInv, BootTypeOK
  <2>2. ASSUME Enters(known, known') PROVE Kept BY <2>2 DEF Enters, Known
  <2>3. known' = known => Kept BY DEF Known
  <2>4. ASSUME NEW b \in BootCall, NEW config, StartBootstrap(b, config) PROVE Kept
    <3> DEFINE first == Added(known, IF config = NoPeer THEN {} ELSE config, "bootstrap-config")
    <3>1. known' = Added(first, Seeds, "hardcoded") BY <2>4 DEF StartBootstrap
    <3>2. first \in [Addr -> Peer \cup {NoPeer}] /\ Enters(known, first)
      BY <2>1, AddedEnters DEF Source
    <3> HIDE DEF first
    <3>3. Enters(first, known') BY <3>1, <3>2, AddedEnters DEF Source
    <3>4. Enters(known, known') BY <3>2, <3>3 DEF Enters
    <3>5. QED BY <2>2, <3>4
  <2>5. ASSUME NEW b \in BootCall, NEW addrs, DnsAnswered(b, addrs) PROVE Kept
    BY <2>1, <2>2, <2>5, AddedEnters DEF DnsAnswered, Source
  <2>6. ASSUME NEW b \in BootCall, NEW m, ManifestFetched(b, m) PROVE Kept
    BY <2>1, <2>2, <2>6, AddedEnters DEF ManifestFetched, Searched, Source
  <2>7. ASSUME NEW b \in BootCall, NextUrl(b) \/ RefreshManifest(b) \/ Completed(b) PROVE Kept
    BY <2>3, <2>7 DEF NextUrl, Searched, RefreshManifest, Completed
  <2>8. ASSUME NEW b \in BootCall, NEW a \in Addr, NEW success \in BOOLEAN,
               AttemptConnection(b, a, success)
        PROVE  Kept
    <3>1. CASE ~success BY <2>3, <2>8, <3>1 DEF AttemptConnection
    <3>2. CASE success
      <4> DEFINE p == [known[a] EXCEPT !.connected = TRUE]
      <4>1. known' = [known EXCEPT ![a] = p] BY <2>8, <3>2 DEF AttemptConnection
      <4>2. ASSUME a \in Known
            PROVE  p \in Peer /\ p.via = known[a].via /\ p.connected
        BY <2>1, <4>2 DEF Known, Peer
      <4>3. a \in Known => p # NoPeer BY <4>2, BootstrapAssumption
      <4> HIDE DEF p
      <4>4. \A q \in Known : known'[q] = IF q = a THEN p ELSE known[q] BY <2>1, <4>1 DEF Known
      <4>5. QED BY <4>2, <4>3, <4>4 DEF Known
    <3>3. QED BY <3>1, <3>2
  <2>9. QED BY <1>1, <2>4, <2>5, <2>6, <2>7, <2>8 DEF BootStep, CallStep
<1>2. BootInv /\ [BootStep]_bootVars => [Kept]_bootVars BY <1>1
<1>3. QED BY <1>2, BootInitHolds, BootStepHolds, PTL DEF BootSpec, RediscoveryKeepsPeers

-----------------------------------------------------------------------------
(* Calls of bootstrap and refreshManifest run out of steps                 *)

\* The most steps a call has still to take.
Left(c) ==
   IF c.pc = "dns" THEN Urls + MaxAttempts + 3
   ELSE IF c.pc = "manifest" THEN (Urls + 1 - c.url) + MaxAttempts + 2
   ELSE IF c.pc = "connect" THEN Cardinality(c.todo) + 1
   ELSE 0

\* What the number of steps depends on: the address a call has come to, and how
\* many peers it was given to try.
Counted(c) ==
   /\ c.pc \in {"unused", "dns"} => c.url = 1
   /\ c.pc = "connect" => IsFiniteSet(c.todo) /\ Cardinality(c.todo) <= MaxAttempts

StepsInv ==
   /\ IsFiniteSet(Known)
   /\ \A b \in BootCall : Counted(boot[b])

\* A call has a number of steps left.
LEMMA LeftIsNat ==
   ASSUME NEW c \in BootRecord, Counted(c)
   PROVE  Left(c) \in Nat /\ Left(c) <= Urls + MaxAttempts + 3
<1>1. Urls \in Nat /\ MaxAttempts \in Nat BY BootstrapAssumption
<1>2. c.url \in 1..(Urls + 1) BY DEF BootRecord
<1>3. CASE c.pc = "connect"
  <2>1. Cardinality(c.todo) \in Nat /\ Cardinality(c.todo) <= MaxAttempts
    BY <1>3, FS_CardinalityType DEF Counted
  <2>2. QED BY <1>1, <1>3, <2>1 DEF Left
<1>4. CASE c.pc # "connect" BY <1>1, <1>2, <1>4 DEF Left
<1>5. QED BY <1>3, <1>4

\* A source adds finitely many peers.
LEMMA AddedFinite ==
   ASSUME NEW table, NEW addrs, NEW via, IsFiniteSet({a \in Addr : table[a] # NoPeer}),
          IsFiniteSet(addrs)
   PROVE  IsFiniteSet({a \in Addr : Added(table, addrs, via)[a] # NoPeer})
<1>1. {a \in Addr : Added(table, addrs, via)[a] # NoPeer}
         \subseteq {a \in Addr : table[a] # NoPeer} \cup addrs
  BY DEF Added
<1>2. IsFiniteSet({a \in Addr : table[a] # NoPeer} \cup addrs) BY FS_Union
<1>3. QED BY <1>1, <1>2, FS_Subset

\* What a step of the call b has to do: end its present one.
Shortens(b) ==
   /\ IsFiniteSet(Known')
   /\ Counted(boot'[b])
   /\ boot[b].pc # "unused" => Left(boot'[b]) < Left(boot[b])
   /\ \A d \in BootCall \ {b} : boot'[d] = boot[d]

\* The search for a manifest ends with at most MaxAttempts peers to try.
LEMMA SearchedShortens ==
   ASSUME BootInv, StepsInv, NEW b \in BootCall, NEW found, NEW table,
          IsFiniteSet({a \in Addr : table[a] # NoPeer}), boot[b].pc = "manifest",
          Searched(b, found, table)
   PROVE  Shortens(b)
<1>1. Urls \in Nat /\ MaxAttempts \in Nat BY BootstrapAssumption
<1>2. boot \in [BootCall -> BootRecord] /\ boot[b].url \in 1..(Urls + 1)
  BY DEF BootInv, BootTypeOK, BootRecord
<1>3. IsFiniteSet(Known') BY DEF Searched, Known
<1>4. Left(boot[b]) = (Urls + 1 - boot[b].url) + MaxAttempts + 2 BY DEF Left
<1>5. CASE boot[b].kind = "refresh"
  <2>1. boot' = [boot EXCEPT ![b].pc = "done", ![b].success = found]
    BY <1>5 DEF Searched
  <2>2. boot'[b].pc = "done" /\ \A d \in BootCall \ {b} : boot'[d] = boot[d]
    BY <1>2, <2>1 DEF BootRecord
  <2>3. Left(boot'[b]) = 0 BY <2>2 DEF Left
  <2>4. QED BY <1>1, <1>2, <1>3, <1>4, <2>2, <2>3 DEF Shortens, Counted
<1>6. CASE boot[b].kind # "refresh"
  <2>1. PICK subset \in SUBSET {a \in Addr : table[a] # NoPeer} :
           /\ Cardinality(subset) <= MaxAttempts
           /\ boot' = [boot EXCEPT ![b].pc = "connect", ![b].todo = subset]
    BY <1>6 DEF Searched
  <2>2. /\ boot'[b].pc = "connect" /\ boot'[b].todo = subset
        /\ \A d \in BootCall \ {b} : boot'[d] = boot[d]
    BY <1>2, <2>1 DEF BootRecord
  <2>3. IsFiniteSet(subset) BY FS_Subset
  <2>4. Cardinality(subset) \in Nat BY <2>3, FS_CardinalityType
  <2>5. Left(boot'[b]) = Cardinality(subset) + 1 BY <2>2 DEF Left
  <2>6. QED BY <1>1, <1>2, <1>3, <1>4, <2>1, <2>2, <2>3, <2>4, <2>5 DEF Shortens, Counted
<1>7. QED BY <1>5, <1>6

\* Every step of a call.
LEMMA CallShortens ==
   ASSUME BootInv, StepsInv, NEW b \in BootCall,
          \/ \E config \in {NoPeer, ServedConfig} : StartBootstrap(b, config)
          \/ RefreshManifest(b)
          \/ CallStep(b)
   PROVE  Shortens(b)
<1>1. Urls \in Nat /\ MaxAttempts \in Nat BY BootstrapAssumption
<1>2. /\ boot \in [BootCall -> BootRecord] /\ boot[b] \in BootRecord
      /\ boot[b].url \in 1..(Urls + 1) /\ Counted(boot[b])
  BY DEF BootInv, BootTypeOK, BootRecord, StepsInv
<1>3. IsFiniteSet({a \in Addr : known[a] # NoPeer}) BY DEF StepsInv, Known
<1>4. ASSUME NEW config \in {NoPeer, ServedConfig}, StartBootstrap(b, config)
      PROVE  Shortens(b)
  <2> DEFINE first == Added(known, IF config = NoPeer THEN {} ELSE config, "bootstrap-config")
  <2>1. IsFiniteSet(Seeds \cup {Gateway}) /\ IsFiniteSet({})
    BY BootstrapAssumption, FS_AddElement, FS_EmptySet
  <2>2. IsFiniteSet({a \in Addr : first[a] # NoPeer})
    BY <1>3, <2>1, AddedFinite DEF ServedConfig
  <2>3. known' = Added(first, Seeds, "hardcoded") BY <1>4 DEF StartBootstrap
  <2> HIDE DEF first
  <2>4. IsFiniteSet(Known') BY <2>2, <2>3, AddedFinite, BootstrapAssumption DEF Known
  <2>5. /\ boot[b].pc = "unused" /\ boot'[b].pc = "dns" /\ boot'[b].url = boot[b].url
        /\ \A d \in BootCall \ {b} : boot'[d] = boot[d]
    BY <1>2, <1>4 DEF StartBootstrap, BootRecord
  <2>6. QED BY <1>2, <2>4, <2>5 DEF Shortens, Counted
<1>5. CASE RefreshManifest(b)
  <2>1. /\ boot[b].pc = "unused" /\ boot'[b].pc = "manifest" /\ known' = known
        /\ \A d \in BootCall \ {b} : boot'[d] = boot[d]
    BY <1>2, <1>5 DEF RefreshManifest, BootRecord
  <2>2. QED BY <1>3, <2>1 DEF Shortens, Counted, Known
<1>6. ASSUME NEW addrs \in {{}, DnsAddrs}, DnsAnswered(b, addrs) PROVE Shortens(b)
  <2>1. IsFiniteSet(addrs) BY BootstrapAssumption, FS_EmptySet
  <2>2. IsFiniteSet(Known') BY <1>3, <1>6, <2>1, AddedFinite DEF DnsAnswered, Known
  <2>3. /\ boot[b].pc = "dns" /\ boot'[b].pc = "manifest" /\ boot'[b].url = boot[b].url
        /\ \A d \in BootCall \ {b} : boot'[d] = boot[d]
    BY <1>2, <1>6 DEF DnsAnswered, BootRecord
  <2>4. boot[b].url = 1 BY <1>2, <2>3 DEF Counted
  <2>5. Left(boot'[b]) < Left(boot[b]) BY <1>1, <2>3, <2>4 DEF Left
  <2>6. QED BY <2>2, <2>3, <2>5 DEF Shortens, Counted
<1>7. CASE NextUrl(b)
  <2>1. CASE boot[b].url < Urls
    <3>1. /\ boot[b].pc = "manifest" /\ boot'[b].pc = "manifest" /\ known' = known
          /\ boot'[b].url = boot[b].url + 1
          /\ \A d \in BootCall \ {b} : boot'[d] = boot[d]
      BY <1>2, <1>7, <2>1 DEF NextUrl, BootRecord
    <3>2. Left(boot'[b]) < Left(boot[b]) BY <1>1, <1>2, <3>1 DEF Left
    <3>3. QED BY <1>3, <3>1, <3>2 DEF Shortens, Counted, Known
  <2>2. CASE ~(boot[b].url < Urls) BY <1>3, <1>7, <2>2, SearchedShortens DEF NextUrl
  <2>3. QED BY <2>1, <2>2
<1>8. ASSUME NEW m \in Manifests, ManifestFetched(b, m) PROVE Shortens(b)
  <2>1. IsFiniteSet(m.seeds)
    <3>1. m.seeds = Seeds \/ m.seeds = DnsAddrs
      <4>1. CASE m = ServedManifest BY <4>1 DEF ServedManifest
      <4>2. CASE m \in [seeds : {DnsAddrs}, sponsor : {FALSE}, ops : 0..Operators]
        BY <4>2
      <4>3. QED BY <4>1, <4>2 DEF Manifests
    <3>2. QED BY <3>1, BootstrapAssumption
  <2>2. IsFiniteSet({a \in Addr : Added(known, m.seeds, "manifest")[a] # NoPeer})
    BY <1>3, <2>1, AddedFinite
  <2>3. QED BY <1>8, <2>2, SearchedShortens DEF ManifestFetched
<1>9. ASSUME NEW a \in Addr, NEW success \in BOOLEAN, AttemptConnection(b, a, success)
      PROVE  Shortens(b)
  <2>1. /\ boot[b].pc = "connect" /\ a \in boot[b].todo /\ boot'[b].pc = "connect"
        /\ boot'[b].todo = boot[b].todo \ {a}
        /\ \A d \in BootCall \ {b} : boot'[d] = boot[d]
    BY <1>2, <1>9 DEF AttemptConnection, BootRecord
  <2>2. IsFiniteSet(boot[b].todo) /\ Cardinality(boot[b].todo) <= MaxAttempts
    BY <1>2, <2>1 DEF Counted
  <2>3. /\ IsFiniteSet(boot'[b].todo) /\ Cardinality(boot'[b].todo) \in Nat
        /\ Cardinality(boot'[b].todo) = Cardinality(boot[b].todo) - 1
    BY <2>1, <2>2, FS_RemoveElement, FS_CardinalityType
  <2>4. Cardinality(boot[b].todo) \in Nat BY <2>2, FS_CardinalityType
  <2>5. Left(boot'[b]) < Left(boot[b]) /\ Counted(boot'[b])
    BY <1>1, <2>1, <2>2, <2>3, <2>4 DEF Left, Counted
  <2>6. IsFiniteSet(Known')
    <3>1. CASE success
      <4>1. Known' \subseteq Known \cup {a} BY <1>9, <3>1 DEF AttemptConnection, Known
      <4>2. QED BY <4>1, FS_AddElement, FS_Subset DEF StepsInv
    <3>2. CASE ~success BY <3>2, <1>9 DEF AttemptConnection, StepsInv, Known
    <3>3. QED BY <3>1, <3>2
  <2>7. QED BY <2>1, <2>5, <2>6 DEF Shortens
<1>10. CASE Completed(b)
  <2>1. /\ boot[b].pc = "connect" /\ boot[b].todo = {} /\ boot'[b].pc = "done" /\ known' = known
        /\ \A d \in BootCall \ {b} : boot'[d] = boot[d]
    BY <1>2, <1>10 DEF Completed, BootRecord
  <2>2. Left(boot'[b]) < Left(boot[b]) BY <2>1, FS_EmptySet DEF Left
  <2>3. QED BY <1>3, <2>1, <2>2 DEF Shortens, Counted, Known
<1>11. QED BY <1>4, <1>5, <1>6, <1>7, <1>8, <1>9, <1>10 DEF CallStep

\* A call that has begun takes at most Urls + MaxAttempts + 3 steps: each of its
\* steps leaves it fewer, and no step of another call gives it more.  This is what
\* CallsEnd rests on beside the fairness of the calls.
THEOREM CallsRunOut ==
   BootSpec =>
      /\ [](\A b \in BootCall : Left(boot[b]) \in 0..(Urls + MaxAttempts + 3))
      /\ [][\A b \in BootCall : boot[b].pc # "unused" /\ boot'[b] # boot[b] =>
               Left(boot'[b]) < Left(boot[b])]_bootVars
<1> DEFINE Bound == \A b \in BootCall : Left(boot[b]) \in 0..(Urls + MaxAttempts + 3)
           Runs == \A b \in BootCall : boot[b].pc # "unused" /\ boot'[b] # boot[b] =>
                      Left(boot'[b]) < Left(boot[b])
<1>1. BootInit => StepsInv
  <2>1. ASSUME BootInit PROVE StepsInv
    <3>1. Known = {} BY <2>1 DEF BootInit, Known
    <3>2. \A b \in BootCall : Counted(boot[b]) BY <2>1 DEF BootInit, NotCalled, Counted
    <3>3. QED BY <3>1, <3>2, FS_EmptySet DEF StepsInv
  <2>2. QED BY <2>1
<1>2. BootInv /\ StepsInv /\ [BootStep]_bootVars => StepsInv'
  <2>1. ASSUME BootInv, StepsInv, UNCHANGED bootVars PROVE StepsInv'
    BY <2>1 DEF StepsInv, Counted, bootVars, Known
  <2>2. ASSUME BootInv, StepsInv, NEW b \in BootCall, Shortens(b) PROVE StepsInv'
    BY <2>2 DEF StepsInv, Shortens
  <2>3. QED BY <2>1, <2>2, CallShortens DEF BootStep
<1>3. BootInv /\ StepsInv => Bound
  <2>1. ASSUME BootInv, StepsInv, NEW b \in BootCall
        PROVE  Left(boot[b]) \in 0..(Urls + MaxAttempts + 3)
    <3>1. boot[b] \in BootRecord /\ Counted(boot[b])
      BY <2>1 DEF BootInv, BootTypeOK, StepsInv
    <3>2. Urls + MaxAttempts + 3 \in Nat BY BootstrapAssumption
    <3>3. QED BY <3>1, <3>2, LeftIsNat
  <2>2. QED BY <2>1
<1>4. BootInv /\ StepsInv /\ [BootStep]_bootVars => [Runs]_bootVars
  <2>1. ASSUME BootInv, StepsInv, NEW b \in BootCall, Shortens(b) PROVE Runs
    BY <2>1 DEF Shortens
  <2>2. QED BY <2>1, CallShortens DEF BootStep
<1> HIDE DEF Bound, Runs
<1>5. BootSpec => []Bound /\ [][Runs]_bootVars
  BY <1>1, <1>2, <1>3, <1>4, BootInitHolds, BootStepHolds, PTL DEF BootSpec
<1>6. QED BY <1>5 DEF Bound, Runs
-----------------------------------------------------------------------------
(* Anchoring checkpoints                                                   *)

\* A list of n things, of whatever kind: hashes are not in a set.
IsList(l, n) == l = [i \in 1..n |-> l[i]]

LEMMA ListFacts ==
   ASSUME NEW n \in Nat, NEW l, IsList(l, n)
   PROVE  Len(l) = n /\ DOMAIN l = 1..n /\ l \in Seq({l[i] : i \in 1..n})
<1> DEFINE S == {l[i] : i \in 1..n}
<1>1. l \in [1..n -> S] BY DEF IsList
<1> HIDE DEF S
<1>2. l \in Seq(S) BY <1>1
<1>3. DOMAIN l = 1..n BY <1>1
<1>4. Len(l) = n BY <1>2, <1>3
<1>5. QED BY <1>2, <1>3, <1>4 DEF S

LEMMA SameLists ==
   ASSUME NEW n \in Nat, NEW l, IsList(l, n), NEW k, IsList(k, n), \A i \in 1..n : l[i] = k[i]
   PROVE  l = k
BY DEF IsList

Half(n) == (n + 1) \div 2

LEMMA HalfFacts ==
   ASSUME NEW n \in Nat, n >= 1
   PROVE  Half(n) \in Nat /\ Half(n) >= 1 /\ (n > 1 => Half(n) < n)
BY DEF Half

LEMMA PairedList ==
   ASSUME NEW n \in Nat, NEW l, IsList(l, n)
   PROVE  IsList(Paired(l), Half(n))
BY ListFacts DEF IsList, Paired, Half

\* Two levels of the same length that pair to the same are the same.
LEMMA PairedBinds ==
   ASSUME NEW n \in Nat, NEW l, IsList(l, n), NEW k, IsList(k, n), Paired(l) = Paired(k)
   PROVE  l = k
<1> DEFINE first(i) == 2 * i - 1
           second(i) == IF 2 * i <= n THEN 2 * i ELSE 2 * i - 1
<1>1. Len(l) = n /\ Len(k) = n BY ListFacts
<1>2. \A i \in 1..Half(n) : <<l[first(i)], l[second(i)]>> = <<k[first(i)], k[second(i)]>>
  <2>1. Paired(l) = [i \in 1..Half(n) |-> <<l[first(i)], l[second(i)]>>]
    BY <1>1 DEF Paired, Half
  <2>2. Paired(k) = [i \in 1..Half(n) |-> <<k[first(i)], k[second(i)]>>]
    BY <1>1 DEF Paired, Half
  <2> HIDE DEF first, second
  <2>3. ASSUME NEW i \in 1..Half(n)
        PROVE  <<l[first(i)], l[second(i)]>> = <<k[first(i)], k[second(i)]>>
    <3>1. Paired(l)[i] = <<l[first(i)], l[second(i)]>> BY <2>1
    <3>2. Paired(k)[i] = <<k[first(i)], k[second(i)]>> BY <2>2
    <3>3. QED BY <3>1, <3>2
  <2>4. QED BY <2>3
<1>3. \A i \in 1..Half(n) : l[first(i)] = k[first(i)] /\ l[second(i)] = k[second(i)]
  <2> HIDE DEF first, second
  <2>1. QED BY <1>2
<1>4. ASSUME NEW j \in 1..n PROVE l[j] = k[j]
  <2>1. \E i \in 1..Half(n) : j = first(i) \/ j = second(i)
    <3>1. PICK i \in Nat : i = Half(j) BY DEF Half
    <3>2. i \in 1..Half(n) BY <3>1 DEF Half
    <3>3. j = first(i) \/ j = second(i) BY <3>1 DEF Half
    <3>4. QED BY <3>2, <3>3
  <2> HIDE DEF first, second
  <2>2. QED BY <1>3, <2>1
<1>5. QED BY <1>4, SameLists
-----------------------------------------------------------------------------
\* g is the tree over the hashes h, level by level.
NextLevel(l) == IF Len(l) = 1 THEN l ELSE Paired(l)

IsTree(g, h, n) == g = [d \in 0..n |-> IF d = 0 THEN h ELSE NextLevel(g[d - 1])]

LEMMA TreeExists ==
   ASSUME NEW h, NEW n \in Nat
   PROVE  \E g : IsTree(g, h, n)
<1> DEFINE N == {k \in Nat : \E g : IsTree(g, h, k)}
<1>1. 0 \in N
  <2>1. PICK g : g = [d \in 0..0 |-> h] OBVIOUS
  <2>2. IsTree(g, h, 0)
    <3>1. \A d \in 0..0 : d = 0 OBVIOUS
    <3>2. [d \in 0..0 |-> IF d = 0 THEN h ELSE NextLevel(g[d - 1])] = [d \in 0..0 |-> h]
      BY <3>1
    <3>3. QED BY <2>1, <3>2 DEF IsTree
  <2>3. QED BY <2>2
<1>2. ASSUME NEW m \in Nat, m \in N PROVE m + 1 \in N
  <2>1. PICK g : IsTree(g, h, m) BY <1>2
  <2>2. PICK e : e = [d \in 0..(m + 1) |-> IF d = 0 THEN h ELSE NextLevel(g[d - 1])] OBVIOUS
  <2>3. \A d \in 0..m : e[d] = g[d]
    <3>1. \A d \in 0..m : g[d] = IF d = 0 THEN h ELSE NextLevel(g[d - 1]) BY <2>1 DEF IsTree
    <3>2. \A d \in 0..m : d \in 0..(m + 1) OBVIOUS
    <3>3. QED BY <2>2, <3>1, <3>2
  <2>4. \A d \in 0..(m + 1) : d # 0 => d - 1 \in 0..m OBVIOUS
  <2>5. \A d \in 0..(m + 1) : d # 0 => e[d - 1] = g[d - 1] BY <2>3, <2>4
  <2>6. e = [d \in 0..(m + 1) |-> IF d = 0 THEN h ELSE NextLevel(e[d - 1])] BY <2>2, <2>5
  <2>7. IsTree(e, h, m + 1) BY <2>6 DEF IsTree
  <2>8. QED BY <2>7
<1>3. Nat \subseteq N
  <2> HIDE DEF N
  <2>1. QED BY <1>1, <1>2, SetOfNatInduction
<1>4. QED BY <1>3

Grows(g, h, n) == g[0] = h /\ \A d \in 1..n : g[d] = NextLevel(g[d - 1])

LEMMA TreeTakes ==
   ASSUME NEW h, NEW n \in Nat, NEW g, IsTree(g, h, n)
   PROVE  Grows(g, h, n)
<1>1. \A d \in 0..n : g[d] = IF d = 0 THEN h ELSE NextLevel(g[d - 1]) BY DEF IsTree
<1>2. 0 \in 0..n /\ \A d \in 1..n : d \in 0..n /\ d # 0 OBVIOUS
<1>3. QED BY <1>1, <1>2 DEF Grows

LEMMA RootIsTreeTop ==
   ASSUME NEW h, NEW n \in Nat, n >= 1, IsList(h, n)
   PROVE  \E g : IsTree(g, h, n) /\ BuildMerkleRoot(h) = g[n][1]
<1>1. Len(h) = n /\ DOMAIN h = 1..n BY ListFacts
<1>2. h # <<>>
  <2>1. 1 \in DOMAIN h /\ DOMAIN <<>> = {} BY <1>1
  <2>2. QED BY <2>1
<1> DEFINE P(g) == g = [d \in 0..Len(h) |->
                          IF d = 0 THEN h
                          ELSE IF Len(g[d - 1]) = 1 THEN g[d - 1] ELSE Paired(g[d - 1])]
<1>3. \A g : P(g) <=> IsTree(g, h, n) BY <1>1 DEF IsTree, NextLevel
<1>4. BuildMerkleRoot(h) = (CHOOSE g : P(g))[n][1]
  BY <1>1, <1>2 DEF BuildMerkleRoot
<1>5. \E g : P(g) BY <1>3, TreeExists
<1> HIDE DEF P
<1>6. P(CHOOSE g : P(g)) BY <1>5
<1>7. QED BY <1>3, <1>4, <1>6

\* Trees over as many hashes have levels of the same lengths, which fall to 1.
LEMMA LevelLengths ==
   ASSUME NEW n \in Nat, n >= 1, NEW h, IsList(h, n), NEW e, IsList(e, n),
          NEW g, IsTree(g, h, n), NEW k, IsTree(k, e, n)
   PROVE  \A d \in 0..n : \E m \in Nat :
             /\ IsList(g[d], m) /\ IsList(k[d], m)
             /\ m >= 1 /\ (m = 1 \/ m <= n - d)
<1> DEFINE Good(d, m) == /\ IsList(g[d], m) /\ IsList(k[d], m)
                         /\ m >= 1 /\ (m = 1 \/ m <= n - d)
           N == {d \in Nat : d <= n => \E m \in Nat : Good(d, m)}
<1>0. Grows(g, h, n) /\ Grows(k, e, n) BY TreeTakes
<1>1. 0 \in N
  <2>1. Good(0, n) BY <1>0 DEF Grows
  <2>2. QED BY <2>1
<1>2. ASSUME NEW d \in Nat, d \in N PROVE d + 1 \in N
  <2>1. SUFFICES ASSUME d + 1 <= n PROVE \E m \in Nat : Good(d + 1, m)
    OBVIOUS
  <2>2. PICK m \in Nat : Good(d, m) BY <1>2, <2>1
  <2>3. d + 1 \in 1..n /\ (d + 1) - 1 = d BY <2>1
  <2>4. g[d + 1] = NextLevel(g[d]) /\ k[d + 1] = NextLevel(k[d]) BY <1>0, <2>3 DEF Grows
  <2>5. Len(g[d]) = m /\ Len(k[d]) = m BY <2>2, ListFacts
  <2>6. CASE m = 1
    <3>1. g[d + 1] = g[d] /\ k[d + 1] = k[d] BY <2>4, <2>5, <2>6 DEF NextLevel
    <3>2. QED BY <2>2, <2>6, <3>1
  <2>7. CASE m # 1
    <3>1. g[d + 1] = Paired(g[d]) /\ k[d + 1] = Paired(k[d]) BY <2>4, <2>5, <2>7 DEF NextLevel
    <3>2. IsList(g[d + 1], Half(m)) /\ IsList(k[d + 1], Half(m)) BY <2>2, <3>1, PairedList
    <3>3. Half(m) \in Nat /\ Half(m) >= 1 /\ Half(m) < m BY <2>2, <2>7, HalfFacts
    <3>4. Half(m) <= n - (d + 1) BY <2>2, <2>7, <3>3
    <3>5. Good(d + 1, Half(m)) BY <3>2, <3>3, <3>4
    <3>6. QED BY <3>3, <3>5
  <2>8. QED BY <2>6, <2>7
<1>3. Nat \subseteq N
  <2> HIDE DEF N
  <2>1. QED BY <1>1, <1>2, SetOfNatInduction
<1>4. QED BY <1>3

\* A Merkle root binds the hashes: lists of the same length with the same root
\* are the same.
LEMMA RootBinds ==
   ASSUME NEW n \in Nat, n >= 1, NEW h, IsList(h, n), NEW e, IsList(e, n),
          BuildMerkleRoot(h) = BuildMerkleRoot(e)
   PROVE  h = e
<1>1. PICK g : IsTree(g, h, n) /\ BuildMerkleRoot(h) = g[n][1] BY RootIsTreeTop
<1>2. PICK k : IsTree(k, e, n) /\ BuildMerkleRoot(e) = k[n][1] BY RootIsTreeTop
<1>0. Grows(g, h, n) /\ Grows(k, e, n) BY <1>1, <1>2, TreeTakes
<1>3. \A d \in 0..n : \E m \in Nat : /\ IsList(g[d], m) /\ IsList(k[d], m)
                                     /\ m >= 1 /\ (m = 1 \/ m <= n - d)
  BY <1>1, <1>2, LevelLengths
<1> DEFINE N == {d \in Nat : d <= n => g[n - d] = k[n - d]}
<1>4. 0 \in N
  <2>1. n \in 0..n /\ n - 0 = n OBVIOUS
  <2>2. PICK m \in Nat : IsList(g[n], m) /\ IsList(k[n], m) /\ m >= 1 /\ (m = 1 \/ m <= n - n)
    BY <1>3, <2>1
  <2>3. m = 1 BY <2>2
  <2>4. \A i \in 1..1 : i = 1 OBVIOUS
  <2>5. g[n][1] = k[n][1] BY <1>1, <1>2
  <2>6. g[n] = k[n] BY <2>2, <2>3, <2>4, <2>5, SameLists
  <2>7. QED BY <2>1, <2>6
<1>5. ASSUME NEW d \in Nat, d \in N PROVE d + 1 \in N
  <2>1. SUFFICES ASSUME d + 1 <= n PROVE g[n - (d + 1)] = k[n - (d + 1)]
    OBVIOUS
  <2>2. PICK c \in 0..n : c = n - (d + 1) BY <2>1
  <2>3. c + 1 \in 1..n /\ (c + 1) - 1 = c /\ n - d = c + 1 BY <2>1, <2>2
  <2>4. g[c + 1] = k[c + 1] BY <1>5, <2>1, <2>3
  <2>5. NextLevel(g[c]) = NextLevel(k[c])
    <3>1. g[c + 1] = NextLevel(g[c]) BY <1>0, <2>3 DEF Grows
    <3>2. k[c + 1] = NextLevel(k[c]) BY <1>0, <2>3 DEF Grows
    <3>3. QED BY <2>4, <3>1, <3>2
  <2>6. PICK m \in Nat : IsList(g[c], m) /\ IsList(k[c], m) BY <1>3
  <2>7. Len(g[c]) = m /\ Len(k[c]) = m BY <2>6, ListFacts
  <2>8. g[c] = k[c]
    <3>1. CASE m = 1 BY <2>5, <2>7, <3>1 DEF NextLevel
    <3>2. CASE m # 1
      <4>1. Paired(g[c]) = Paired(k[c]) BY <2>5, <2>7, <3>2 DEF NextLevel
      <4>2. QED BY <2>6, <4>1, PairedBinds
    <3>3. QED BY <3>1, <3>2
  <2>9. QED BY <2>2, <2>8
<1>6. Nat \subseteq N
  <2> HIDE DEF N
  <2>1. QED BY <1>4, <1>5, SetOfNatInduction
<1>7. g[0] = k[0]
  <2>1. n \in N /\ n - n = 0 /\ n <= n BY <1>6
  <2>2. QED BY <2>1
<1>8. QED BY <1>0, <1>7 DEF Grows

HashesOf(events) == [i \in DOMAIN events |-> HashEvent(events[i])]

\* So the fields a commitment is made from bind what the hashes keep of the events.
LEMMA CommitmentBinds ==
   ASSUME NEW events \in EventLists, NEW other \in EventLists, NEW id, NEW prev, NEW at,
          NEW prev2, NEW at2,
          HashCheckpoint(Checkpoint(id, events, prev, at))
             = HashCheckpoint(Checkpoint(id, other, prev2, at2))
   PROVE  HashedParts(events) = HashedParts(other)
<1>1. PICK n \in Nat : events \in [1..n -> Event] BY DEF EventLists
<1>2. PICK m \in Nat : other \in [1..m -> Event] BY DEF EventLists
<1>3. IsList(events, n) /\ IsList(other, m) BY <1>1, <1>2 DEF IsList
<1>4. Len(events) = n /\ Len(other) = m BY <1>3, ListFacts
<1>5. n = m /\ BuildMerkleRoot(HashesOf(events)) = BuildMerkleRoot(HashesOf(other))
  <2>1. PICK x, y : x = Checkpoint(id, events, prev, at) /\ y = Checkpoint(id, other, prev2, at2)
    OBVIOUS
  <2>2. /\ x.count = n /\ x.root = BuildMerkleRoot(HashesOf(events))
        /\ y.count = m /\ y.root = BuildMerkleRoot(HashesOf(other))
    BY <1>4, <2>1 DEF Checkpoint, HashesOf
  <2>3. HashCheckpoint(x) = HashCheckpoint(y) BY <2>1
  <2>4. x.count = y.count /\ x.root = y.root BY <2>3 DEF HashCheckpoint
  <2>5. QED BY <2>2, <2>4
<1>6. CASE n = 0
  <2>1. \A i \in 1..n : events[i] = other[i] BY <1>6
  <2>2. events = other BY <1>3, <1>5, <2>1, SameLists
  <2>3. QED BY <2>2
<1>7. CASE n # 0
  <2>1. PICK h, e : h = HashesOf(events) /\ e = HashesOf(other) OBVIOUS
  <2>2. /\ h = [i \in 1..n |-> HashEvent(events[i])]
        /\ e = [i \in 1..n |-> HashEvent(other[i])]
    BY <1>1, <1>2, <1>5, <2>1 DEF HashesOf
  <2>3. IsList(h, n) /\ IsList(e, n) BY <2>2 DEF IsList
  <2>4. h = e BY <1>5, <1>7, <2>1, <2>3, RootBinds
  <2>5. ASSUME NEW i \in 1..n PROVE events[i].top = other[i].top
    <3>1. HashEvent(events[i]) = HashEvent(other[i]) BY <2>2, <2>4
    <3>2. QED BY <3>1 DEF HashEvent
  <2>6. DOMAIN events = 1..n /\ DOMAIN other = 1..n BY <1>1, <1>2, <1>5
  <2>7. QED BY <2>5, <2>6 DEF HashedParts
<1>8. QED BY <1>6, <1>7

\* And they bind nothing else of them.
LEMMA CommitmentKeeps ==
   ASSUME NEW events \in EventLists, NEW other \in EventLists, NEW id, NEW prev, NEW at,
          HashedParts(events) = HashedParts(other)
   PROVE  Checkpoint(id, events, prev, at) = Checkpoint(id, other, prev, at)
<1>1. PICK n \in Nat : events \in [1..n -> Event] BY DEF EventLists
<1>2. PICK m \in Nat : other \in [1..m -> Event] BY DEF EventLists
<1>3. DOMAIN events = DOMAIN other
  <2>1. DOMAIN HashedParts(events) = DOMAIN events /\ DOMAIN HashedParts(other) = DOMAIN other BY DEF HashedParts
  <2>2. QED BY <2>1
<1>4. IsList(events, n) /\ IsList(other, m) BY <1>1, <1>2 DEF IsList
<1>5. Len(events) = Len(other)
  <2>1. Len(events) = n /\ Len(other) = m BY <1>4, ListFacts
  <2>2. 1..n = 1..m BY <1>1, <1>2, <1>3
  <2>3. n = m
    <3>1. n >= 1 => n \in 1..m BY <2>2
    <3>2. m >= 1 => m \in 1..n BY <2>2
    <3>3. QED BY <3>1, <3>2
  <2>4. QED BY <2>1, <2>3
<1>6. [i \in DOMAIN events |-> HashEvent(events[i])] = [i \in DOMAIN other |-> HashEvent(other[i])]
  <2>1. ASSUME NEW i \in DOMAIN events PROVE HashEvent(events[i]) = HashEvent(other[i])
    <3>1. HashedParts(events)[i] = events[i].top /\ HashedParts(other)[i] = other[i].top BY <1>3 DEF HashedParts
    <3>2. QED BY <3>1 DEF HashEvent
  <2>2. QED BY <1>3, <2>1
<1>7. QED BY <1>5, <1>6 DEF Checkpoint
-----------------------------------------------------------------------------
\* The checkpoint i was made of its events; what is noted in it since is the
\* anchoring.
IsCheckpoint(c, i) ==
   /\ c = [cp |-> c.cp, events |-> c.events]
   /\ c.events \in EventLists
   /\ c.cp = [Checkpoint(i, c.events, c.cp.prev, c.cp.at) EXCEPT !.anchored = c.cp.anchored]

CheckpointInv ==
   \E n \in Nat :
      /\ IsList(checkpoints, n) /\ IsList(chain, n)
      /\ \A i \in 1..n :
            /\ IsCheckpoint(checkpoints[i], i)
            /\ chain[i] # NoHash => chain[i] = HashCheckpoint(checkpoints[i].cp)

LEMMA HashIsOfEvents ==
   ASSUME NEW c, NEW i, IsCheckpoint(c, i)
   PROVE  HashCheckpoint(c.cp) = HashCheckpoint(Checkpoint(i, c.events, c.cp.prev, c.cp.at))
<1>1. PICK r : r = Checkpoint(i, c.events, c.cp.prev, c.cp.at) OBVIOUS
<1>2. /\ c.cp.id = r.id /\ c.cp.at = r.at /\ c.cp.count = r.count
      /\ c.cp.root = r.root /\ c.cp.prev = r.prev
  BY <1>1 DEF IsCheckpoint, Checkpoint
<1>3. QED BY <1>1, <1>2 DEF HashCheckpoint

IsAppended(a, l, x, n) ==
   IsList(a, n + 1) /\ a[n + 1] = x /\ \A i \in 1..n : a[i] = l[i]

LEMMA AppendList ==
   ASSUME NEW n \in Nat, NEW l, IsList(l, n), NEW x
   PROVE  IsAppended(Append(l, x), l, x, n)
<1>1. PICK S : S = {l[i] : i \in 1..n} \cup {x} OBVIOUS
<1>2. l \in Seq(S) /\ Len(l) = n
  <2>1. l \in Seq({l[i] : i \in 1..n}) /\ Len(l) = n BY ListFacts
  <2>2. \A i \in 1..n : l[i] \in S BY <1>1
  <2>3. l \in [1..n -> S] BY <2>2 DEF IsList
  <2>4. QED BY <2>1, <2>3
<1>3. Append(l, x) \in Seq(S) /\ Len(Append(l, x)) = n + 1 BY <1>1, <1>2
<1>4. IsList(Append(l, x), n + 1)
  <2>1. PICK a \in Seq(S) : a = Append(l, x) BY <1>3
  <2>2. a = [i \in 1..Len(a) |-> a[i]] /\ Len(a) = n + 1 BY <1>3, <2>1, LenProperties
  <2>3. QED BY <2>1, <2>2 DEF IsList
<1>5. QED BY <1>1, <1>2, <1>4 DEF IsAppended

LEMMA CheckpointInitHolds == CheckpointInit => CheckpointInv
<1> SUFFICES ASSUME CheckpointInit PROVE CheckpointInv
  OBVIOUS
<1>1. IsList(checkpoints, 0) /\ IsList(chain, 0) BY DEF CheckpointInit, IsList
<1>2. \A i \in 1..0 : FALSE OBVIOUS
<1>3. QED BY <1>1, <1>2 DEF CheckpointInv

LEMMA CreateHolds ==
   ASSUME CheckpointInv, NEW events \in EventLists, NEW prev, CreateCheckpoint(events, prev)
   PROVE  CheckpointInv'
<1>1. PICK n \in Nat :
         /\ IsList(checkpoints, n) /\ IsList(chain, n)
         /\ \A i \in 1..n :
               /\ IsCheckpoint(checkpoints[i], i)
               /\ chain[i] # NoHash => chain[i] = HashCheckpoint(checkpoints[i].cp)
  BY DEF CheckpointInv
<1>2. Len(checkpoints) = n BY <1>1, ListFacts
<1>3. PICK r : r = Checkpoint(n + 1, events, prev, millis) OBVIOUS
<1>4. PICK c : c = [cp |-> r, events |-> events] OBVIOUS
<1>5. checkpoints' = Append(checkpoints, c) /\ chain' = Append(chain, NoHash)
  BY <1>2, <1>3, <1>4 DEF CreateCheckpoint
<1>6. IsCheckpoint(c, n + 1)
  <2>1. r.prev = prev /\ r.at = millis /\ r = [r EXCEPT !.anchored = r.anchored]
    BY <1>3 DEF Checkpoint
  <2>2. QED BY <1>3, <1>4, <2>1 DEF IsCheckpoint
<1>7. /\ IsList(checkpoints', n + 1) /\ IsList(chain', n + 1)
      /\ checkpoints'[n + 1] = c /\ chain'[n + 1] = NoHash
      /\ \A i \in 1..n : checkpoints'[i] = checkpoints[i] /\ chain'[i] = chain[i]
  <2>1. IsAppended(Append(checkpoints, c), checkpoints, c, n)
        /\ IsAppended(Append(chain, NoHash), chain, NoHash, n)
    BY <1>1, AppendList
  <2>2. QED BY <1>5, <2>1 DEF IsAppended
<1>8. ASSUME NEW i \in 1..(n + 1)
      PROVE  /\ IsCheckpoint(checkpoints'[i], i)
             /\ chain'[i] # NoHash => chain'[i] = HashCheckpoint(checkpoints'[i].cp)
  <2>1. CASE i = n + 1 BY <1>6, <1>7, <2>1
  <2>2. CASE i \in 1..n BY <1>1, <1>7, <2>2
  <2>3. QED BY <2>1, <2>2
<1>9. n + 1 \in Nat OBVIOUS
<1>10. QED BY <1>7, <1>8, <1>9 DEF CheckpointInv

LEMMA AnchorHolds ==
   ASSUME CheckpointInv, NEW id \in DOMAIN checkpoints,
          WalletAnchors(id) \/ MarkCheckpointAnchored(id)
   PROVE  CheckpointInv'
<1>1. PICK n \in Nat :
         /\ IsList(checkpoints, n) /\ IsList(chain, n)
         /\ \A i \in 1..n :
               /\ IsCheckpoint(checkpoints[i], i)
               /\ chain[i] # NoHash => chain[i] = HashCheckpoint(checkpoints[i].cp)
  BY DEF CheckpointInv
<1>2. id \in 1..n /\ DOMAIN chain = 1..n BY <1>1, ListFacts
<1>3. CASE WalletAnchors(id)
  <2>1. /\ chain' = [chain EXCEPT ![id] = HashCheckpoint(checkpoints[id].cp)]
        /\ checkpoints' = checkpoints
    BY <1>3 DEF WalletAnchors, BuildCommitmentData
  <2>2. IsList(chain', n) BY <1>1, <1>2, <2>1 DEF IsList
  <2>3. \A i \in 1..n : chain'[i] = IF i = id THEN HashCheckpoint(checkpoints[id].cp)
                                    ELSE chain[i]
    BY <1>2, <2>1
  <2>4. \A i \in 1..n : chain'[i] # NoHash => chain'[i] = HashCheckpoint(checkpoints[i].cp)
    BY <1>1, <2>3
  <2>5. QED BY <1>1, <2>1, <2>2, <2>4 DEF CheckpointInv
<1>4. CASE MarkCheckpointAnchored(id)
  <2>1. PICK c : c = checkpoints[id] OBVIOUS
  <2>2. IsCheckpoint(c, id) BY <1>1, <1>2, <2>1
  <2>3. PICK r : r = Checkpoint(id, c.events, c.cp.prev, c.cp.at) OBVIOUS
  <2>4. PICK q : q = [r EXCEPT !.anchored = TRUE] OBVIOUS
  <2>5. PICK d : d = [cp |-> q, events |-> c.events] OBVIOUS
  <2>6. checkpoints' = [checkpoints EXCEPT ![id] = d] /\ chain' = chain
    <3>1. checkpoints' = [checkpoints EXCEPT ![id] = [c EXCEPT !.cp = [c.cp EXCEPT !.anchored = TRUE]]]
      BY <1>4, <2>1 DEF MarkCheckpointAnchored
    <3>2. [c.cp EXCEPT !.anchored = TRUE] = q
      <4>1. c.cp = [r EXCEPT !.anchored = c.cp.anchored] BY <2>2, <2>3 DEF IsCheckpoint
      <4>2. QED BY <2>3, <2>4, <4>1 DEF Checkpoint
    <3>3. [c EXCEPT !.cp = q] = d BY <2>2, <2>5 DEF IsCheckpoint
    <3>4. QED BY <1>4, <3>1, <3>2, <3>3 DEF MarkCheckpointAnchored
  <2>7. IsCheckpoint(d, id) /\ HashCheckpoint(d.cp) = HashCheckpoint(c.cp)
    <3>1. d.cp = q /\ d.events = c.events BY <2>5
    <3>2. q.prev = c.cp.prev /\ q.at = c.cp.at /\ q.anchored = TRUE
      BY <2>3, <2>4 DEF Checkpoint
    <3>3. c.events \in EventLists BY <2>2 DEF IsCheckpoint
    <3>4. IsCheckpoint(d, id) BY <2>3, <2>4, <2>5, <3>1, <3>2, <3>3 DEF IsCheckpoint
    <3>5. HashCheckpoint(d.cp) = HashCheckpoint(r)
      BY <2>3, <3>1, <3>2, <3>4, HashIsOfEvents
    <3>6. HashCheckpoint(c.cp) = HashCheckpoint(r) BY <2>2, <2>3, HashIsOfEvents
    <3>7. QED BY <3>4, <3>5, <3>6
  <2>8. IsList(checkpoints', n) BY <1>1, <1>2, <2>6 DEF IsList
  <2>9. \A i \in 1..n : checkpoints'[i] = IF i = id THEN d ELSE checkpoints[i]
    BY <1>1, <2>6 DEF IsList
  <2>10. ASSUME NEW i \in 1..n
         PROVE  /\ IsCheckpoint(checkpoints'[i], i)
                /\ chain'[i] # NoHash => chain'[i] = HashCheckpoint(checkpoints'[i].cp)
    <3>1. CASE i = id BY <1>1, <1>2, <2>1, <2>6, <2>7, <2>9, <3>1
    <3>2. CASE i # id BY <1>1, <2>6, <2>9, <3>2
    <3>3. QED BY <3>1, <3>2
  <2>11. QED BY <1>1, <2>6, <2>8, <2>10 DEF CheckpointInv
<1>5. QED BY <1>3, <1>4

(* Whatever is checkpointed, anchored and noted, and for trees of every      *)
(* size: the transaction binds what the hashes keep of the events of its     *)
(* checkpoint.                                                               *)
THEOREM AnchorAlwaysBinds == CheckpointSpec => []AnchorBindsEvents
<1>1. CheckpointInit => CheckpointInv BY CheckpointInitHolds
<1>2. CheckpointInv /\ [CheckpointStep]_checkpointVars => CheckpointInv'
  <2> SUFFICES ASSUME CheckpointInv, [CheckpointStep]_checkpointVars PROVE CheckpointInv'
    OBVIOUS
  <2>1. CASE MillisTick \/ UNCHANGED checkpointVars
    <3>1. checkpoints' = checkpoints /\ chain' = chain
      BY <2>1 DEF MillisTick, checkpointVars
    <3>2. QED BY <3>1 DEF CheckpointInv
  <2>2. QED BY <2>1, CreateHolds, AnchorHolds DEF CheckpointStep
<1>3. ASSUME CheckpointInv PROVE AnchorBindsEvents
  <2>1. PICK n \in Nat :
           /\ IsList(checkpoints, n)
           /\ \A i \in 1..n :
                 /\ IsCheckpoint(checkpoints[i], i)
                 /\ chain[i] # NoHash => chain[i] = HashCheckpoint(checkpoints[i].cp)
    BY <1>3 DEF CheckpointInv
  <2>2. DOMAIN checkpoints = 1..n BY <2>1, ListFacts
  <2>3. ASSUME NEW id \in DOMAIN checkpoints, chain[id] # NoHash, NEW events \in EventLists
        PROVE  HashCheckpoint(Checkpoint(id, events, checkpoints[id].cp.prev,
                                         checkpoints[id].cp.at)) = chain[id]
                  <=> HashedParts(events) = HashedParts(checkpoints[id].events)
    <3>1. PICK c : c = checkpoints[id] OBVIOUS
    <3>2. IsCheckpoint(c, id) /\ chain[id] = HashCheckpoint(c.cp) BY <2>1, <2>2, <2>3, <3>1
    <3>3. HashCheckpoint(c.cp) = HashCheckpoint(Checkpoint(id, c.events, c.cp.prev, c.cp.at))
      BY <3>2, HashIsOfEvents
    <3>4. c.events \in EventLists BY <3>2 DEF IsCheckpoint
    <3>5. HashCheckpoint(Checkpoint(id, events, c.cp.prev, c.cp.at)) = chain[id]
             => HashedParts(events) = HashedParts(c.events)
      BY <2>3, <3>2, <3>3, <3>4, CommitmentBinds
    <3>6. HashedParts(events) = HashedParts(c.events)
             => HashCheckpoint(Checkpoint(id, events, c.cp.prev, c.cp.at)) = chain[id]
      BY <2>3, <3>2, <3>3, <3>4, CommitmentKeeps
    <3>7. QED BY <3>1, <3>5, <3>6
  <2>4. \A id \in DOMAIN checkpoints :
           chain[id] # NoHash => chain[id] = HashCheckpoint(checkpoints[id].cp)
    BY <2>1, <2>2
  <2>5. QED BY <2>3, <2>4 DEF AnchorBindsEvents, VerifyCheckpointAnchor
<1>4. QED BY <1>1, <1>2, <1>3, PTL DEF CheckpointSpec

-----------------------------------------------------------------------------
(* Admitting operators and drawing committees                              *)

\* A candidate has votes only after the sponsor's days, and one whom the sponsor
\* has refused has none.
VotesFollowTheSponsor ==
   \A o \in Operator :
      /\ registry[o].status = "none" => registry[o].sponsor = "none" /\ registry[o].votes = NoVotes
      /\ \A v \in Operator : registry[o].votes[v] # "none" =>
            /\ day >= registry[o].requested + SponsorDays
            /\ registry[o].sponsor # "no"

CommitteeInv == CommitteeTypeOK /\ RefusedStayOut /\ VotesFollowTheSponsor

LEMMA CommitteeInitHolds == CommitteeInit => CommitteeInv
<1> SUFFICES ASSUME CommitteeInit PROVE CommitteeInv
  OBVIOUS
<1>1. CommitteeTypeOK
  <2>0. MaxDay \in Nat /\ MinSignatures \in Nat BY CommitteeAssumption
  <2>1. 0 \in 0..MaxDay /\ 0 \in 0..MinSignatures /\ MinSignatures \in 0..MinSignatures
    BY <2>0
  <2>2. NoVotes \in [Operator -> Decision] BY DEF NoVotes, Decision
  <2>3. \A o \in Operator : registry[o] \in Entry
    BY <2>1, <2>2 DEF CommitteeInit, Entry, Decision
  <2>4. QED BY <2>1, <2>3 DEF CommitteeInit, CommitteeTypeOK
<1>2. RefusedStayOut /\ VotesFollowTheSponsor
  BY DEF CommitteeInit, RefusedStayOut, VotesFollowTheSponsor, NoVotes
<1>3. QED BY <1>1, <1>2 DEF CommitteeInv

\* A step that changes the entry of one operator keeps the invariant if the new
\* entry keeps it.
LEMMA OneEntryChanges ==
   ASSUME CommitteeInv, NEW o \in Operator, NEW e \in Entry,
          registry' = [registry EXCEPT ![o] = e], UNCHANGED day,
          e.sponsor = "no" => e.status = "candidate",
          e.status = "none" => e.sponsor = "none" /\ e.votes = NoVotes,
          \A v \in Operator : e.votes[v] # "none" =>
             day >= e.requested + SponsorDays /\ e.sponsor # "no"
   PROVE  CommitteeInv'
<1>1. registry \in [Operator -> Entry] BY DEF CommitteeInv, CommitteeTypeOK
<1>2. \A p \in Operator : registry'[p] = IF p = o THEN e ELSE registry[p] BY <1>1
<1>3. CommitteeTypeOK' BY <1>1 DEF CommitteeInv, CommitteeTypeOK
<1>4. RefusedStayOut' BY <1>2 DEF CommitteeInv, RefusedStayOut
<1>5. VotesFollowTheSponsor'
  BY <1>2 DEF CommitteeInv, VotesFollowTheSponsor
<1>6. QED BY <1>3, <1>4, <1>5 DEF CommitteeInv

\* Every step keeps the invariant.
LEMMA CommitteeStepHolds == CommitteeInv /\ [CommitteeStep]_committeeVars => CommitteeInv'
<1> SUFFICES ASSUME CommitteeInv, [CommitteeStep]_committeeVars PROVE CommitteeInv'
  OBVIOUS
<1>1. /\ registry \in [Operator -> Entry] /\ day \in 0..MaxDay
      /\ SponsorDays \in Nat /\ MaxDay \in Nat /\ MinSignatures \in Nat
  BY CommitteeAssumption DEF CommitteeInv, CommitteeTypeOK
<1>2. ASSUME NEW o \in Operator
      PROVE  /\ registry[o].sponsor = "no" => registry[o].status = "candidate"
             /\ registry[o].status = "none" => registry[o].sponsor = "none" /\ registry[o].votes = NoVotes
             /\ \A v \in Operator : registry[o].votes[v] # "none" =>
                   day >= registry[o].requested + SponsorDays /\ registry[o].sponsor # "no"
  BY DEF CommitteeInv, RefusedStayOut, VotesFollowTheSponsor
<1>3. ASSUME NEW o \in Operator, NEW evidence \in BOOLEAN, RequestAdmission(o, evidence)
      PROVE  CommitteeInv'
  <2> DEFINE e == [registry[o] EXCEPT !.status = "candidate", !.requested = day]
  <2>1. registry' = [registry EXCEPT ![o] = e] /\ registry[o].status = "none" /\ day' = day
    BY <1>1, <1>3 DEF RequestAdmission
  <2>2. e \in Entry BY <1>1 DEF Entry
  <2>3. e.sponsor = "none" /\ e.votes = NoVotes /\ e.status = "candidate"
    BY <1>1, <1>2, <2>1 DEF Entry
  <2> HIDE DEF e
  <2>4. QED BY <2>1, <2>2, <2>3, OneEntryChanges DEF NoVotes
<1>4. ASSUME NEW o \in Operator, NEW decision \in {"yes", "no"}, SponsorDecides(o, decision)
      PROVE  CommitteeInv'
  <2> DEFINE e == [registry[o] EXCEPT
                     !.sponsor = decision,
                     !.status = IF decision = "yes" THEN "active" ELSE registry[o].status]
  <2>1. /\ registry' = [registry EXCEPT ![o] = e] /\ day' = day
        /\ registry[o].status = "candidate" /\ day < registry[o].requested + SponsorDays
    BY <1>1, <1>4 DEF SponsorDecides, IsSponsorWindowOpen
  <2>2. e \in Entry BY <1>1 DEF Entry, Decision
  <2>3. registry[o].requested \in 0..MaxDay BY <1>1 DEF Entry
  <2>4. \A v \in Operator : registry[o].votes[v] = "none" BY <1>1, <1>2, <2>1, <2>3
  <2>5. /\ e.votes = registry[o].votes /\ e.sponsor = decision
        /\ e.status = IF decision = "yes" THEN "active" ELSE "candidate"
    BY <1>1, <2>1 DEF Entry
  <2> HIDE DEF e
  <2>6. QED BY <2>1, <2>2, <2>4, <2>5, OneEntryChanges
<1>5. ASSUME NEW o \in Operator, NEW voter \in Operator, NEW vote \in {"yes", "no"},
             Vote(o, voter, vote)
      PROVE  CommitteeInv'
  <2> DEFINE e == [registry[o] EXCEPT !.votes[voter] = vote]
  <2>1. /\ registry' = [registry EXCEPT ![o] = e] /\ day' = day
        /\ registry[o].status = "candidate" /\ registry[o].sponsor = "none"
        /\ day >= registry[o].requested + SponsorDays
    BY <1>1, <1>5 DEF Vote, IsVotingWindowOpen
  <2>2. e \in Entry BY ZenonT(40), <1>1 DEF Entry, Decision
  <2>3. /\ e.status = registry[o].status /\ e.sponsor = registry[o].sponsor
        /\ e.requested = registry[o].requested
    BY <1>1 DEF Entry
  <2> HIDE DEF e
  <2>4. QED BY <2>1, <2>2, <2>3, OneEntryChanges
<1>6. ASSUME NEW o \in Operator, AdmitByVote(o) PROVE CommitteeInv'
  <2> DEFINE e == [registry[o] EXCEPT !.status = "active"]
  <2>1. /\ registry' = [registry EXCEPT ![o] = e] /\ day' = day
        /\ Cardinality(Voters(o, "yes")) > 0
    BY <1>1, <1>6 DEF AdmitByVote, CalculateVoteResult
  <2>2. Voters(o, "yes") # {} BY <2>1, FS_EmptySet
  <2>3. registry[o].sponsor # "no" BY <1>2, <2>2 DEF Voters
  <2>4. e \in Entry BY <1>1 DEF Entry
  <2>5. /\ e.status = "active" /\ e.sponsor = registry[o].sponsor
        /\ e.requested = registry[o].requested /\ e.votes = registry[o].votes
    BY <1>1 DEF Entry
  <2> HIDE DEF e
  <2>6. \A v \in Operator : e.votes[v] # "none" => day >= e.requested + SponsorDays
    BY <1>2, <2>5
  <2>7. QED BY <2>1, <2>3, <2>4, <2>5, <2>6, OneEntryChanges
<1>7. ASSUME NEW o \in Operator, SignCheckpoint(o) PROVE CommitteeInv'
  <2> DEFINE n == IF registry[o].signed < MinSignatures THEN registry[o].signed + 1
                  ELSE registry[o].signed
             e == [registry[o] EXCEPT !.signed = n, !.lastActive = day]
  <2>1. /\ registry' = [registry EXCEPT ![o] = e] /\ day' = day
        /\ registry[o].status = "active"
    BY <1>1, <1>7 DEF SignCheckpoint
  <2>2. n \in 0..MinSignatures BY <1>1 DEF Entry
  <2> HIDE DEF n
  <2>3. e \in Entry BY <1>1, <2>2 DEF Entry
  <2>4. /\ e.status = registry[o].status /\ e.sponsor = registry[o].sponsor
        /\ e.requested = registry[o].requested /\ e.votes = registry[o].votes
    BY <1>1 DEF Entry
  <2> HIDE DEF e
  <2>5. \A v \in Operator : e.votes[v] # "none" =>
           day >= e.requested + SponsorDays /\ e.sponsor # "no"
    BY <1>2, <2>4
  <2>6. e.sponsor # "no" /\ e.status = "active" BY <1>2, <2>1, <2>4
  <2>7. QED BY <2>1, <2>3, <2>5, <2>6, OneEntryChanges
<1>8. CASE NextDay \/ UNCHANGED committeeVars
  <2>1. registry' = registry /\ day' \in 0..MaxDay /\ day' >= day
    BY <1>1, <1>8 DEF NextDay, committeeVars
  <2>2. \A o \in Operator : registry[o].requested \in 0..MaxDay BY <1>1 DEF Entry
  <2>3. CommitteeTypeOK' BY <1>1, <2>1 DEF CommitteeTypeOK
  <2>4. RefusedStayOut' BY <2>1 DEF CommitteeInv, RefusedStayOut
  <2>5. VotesFollowTheSponsor' BY <1>1, <2>1, <2>2 DEF CommitteeInv, VotesFollowTheSponsor
  <2>6. QED BY <2>3, <2>4, <2>5 DEF CommitteeInv
<1>9. QED BY <1>3, <1>4, <1>5, <1>6, <1>7, <1>8 DEF CommitteeStep

\* For any number of operators, an operator the sponsor has refused stays a
\* candidate: the vote opens only without a decision of the sponsor.
THEOREM RefusedNeverOperate == CommitteeSpec => []RefusedStayOut
<1>1. CommitteeInv => RefusedStayOut BY DEF CommitteeInv
<1>2. QED BY <1>1, CommitteeInitHolds, CommitteeStepHolds, PTL DEF CommitteeSpec

\* Fewer operators rank an operator no lower.
LEMMA RankGrows ==
   ASSUME NEW offer, NEW ops, NEW more, IsFiniteSet(more), ops \subseteq more, NEW o
   PROVE  /\ Rank(offer, ops, o) \in Nat /\ Rank(offer, more, o) \in Nat
          /\ Rank(offer, ops, o) <= Rank(offer, more, o)
<1> DEFINE few == {p \in ops : Score[offer, p] < Score[offer, o]}
           many == {p \in more : Score[offer, p] < Score[offer, o]}
<1>1. few \subseteq many OBVIOUS
<1>2. IsFiniteSet(many) BY FS_Subset
<1>3. Cardinality(few) <= Cardinality(many) /\ Cardinality(few) \in Nat /\ Cardinality(many) \in Nat
  BY <1>1, <1>2, FS_Subset, FS_CardinalityType
<1>4. Rank(offer, ops, o) = Cardinality(few) + 1 /\ Rank(offer, more, o) = Cardinality(many) + 1
  BY DEF Rank
<1> HIDE DEF few, many
<1>5. QED BY <1>3, <1>4

\* Of a larger set of operators, a committee takes from the smaller one nobody
\* whom the committee of the smaller one does not have.
LEMMA CommitteeOfFewer ==
   ASSUME NEW offer, NEW ops, NEW more, IsFiniteSet(more), ops \subseteq more,
          SelectCommittee(offer, ops) # {}
   PROVE  SelectCommittee(offer, more) \cap ops \subseteq SelectCommittee(offer, ops)
<1> SUFFICES ASSUME NEW o \in ops, o \in SelectCommittee(offer, more)
             PROVE  o \in SelectCommittee(offer, ops)
  OBVIOUS
<1>1. Rank(offer, more, o) <= CommitteeSize BY DEF SelectCommittee
<1>2. /\ Rank(offer, ops, o) \in Nat /\ Rank(offer, more, o) \in Nat
      /\ Rank(offer, ops, o) <= Rank(offer, more, o)
  BY RankGrows
<1>3. CommitteeSize \in Nat BY CommitteeAssumption
<1>4. Rank(offer, ops, o) <= CommitteeSize BY <1>1, <1>2, <1>3
<1>5. QED BY <1>4 DEF SelectCommittee

\* Every node that knows the same active operators draws the same committee, and
\* for any number of operators a change of the active ones changes it no more than
\* it must.
THEOREM CommitteesAlwaysStable == CommitteeSpec => CommitteesAreStable
<1> DEFINE Stable ==
       Active' # Active =>
          \A offer \in Offer :
             LET old == SelectCommittee(offer, Active)
                 new == SelectCommittee(offer, Active')
             IN  (old # {} /\ new # {}) =>
                   /\ Active \subseteq Active' => new \cap Active \subseteq old
                   /\ Active' \subseteq Active => old \cap Active' \subseteq new
<1>1. IsFiniteSet(Active) /\ IsFiniteSet(Active')
  BY CommitteeAssumption, FS_Subset DEF Active
<1>2. [CommitteeStep]_committeeVars => [Stable]_committeeVars
  BY <1>1, CommitteeOfFewer
<1>3. QED BY <1>2, PTL DEF CommitteeSpec, CommitteesAreStable

-----------------------------------------------------------------------------
(* What operators earn                                                     *)

LEMMA FeesFit ==
   ASSUME NEW amount \in Amounts
   PROVE  /\ amount \in Nat
          /\ TotalOperatorFees(amount) \in Nat /\ TotalOperatorFees(amount) <= amount
          /\ FeePerOperator(amount) \in Nat
          /\ QuorumSize * FeePerOperator(amount) \in Nat
          /\ QuorumSize * FeePerOperator(amount) <= TotalOperatorFees(amount)
          /\ TotalOperatorFees(amount) - QuorumSize * FeePerOperator(amount) < QuorumSize
<1>1. amount \in Nat /\ QuorumSize \in Nat /\ QuorumSize > 0 BY EarningsAssumption
<1> DEFINE total == TotalOperatorFees(amount)
<1>2. total \in Nat /\ total <= amount BY <1>1 DEF TotalOperatorFees
<1>3. FeePerOperator(amount) = total \div QuorumSize BY DEF FeePerOperator
<1> HIDE DEF total
<1>4. \A a, q \in Nat : q > 0 =>
         /\ a \div q \in Nat /\ a % q \in 0..(q - 1)
         /\ a = q * (a \div q) + (a % q)
  OBVIOUS
<1> DEFINE each == total \div QuorumSize
           rest == total % QuorumSize
           all == QuorumSize * each
<1>5. each \in Nat /\ rest \in 0..(QuorumSize - 1) /\ total = all + rest
  BY <1>1, <1>2, <1>4
<1>6. all \in Nat
  <2>1. \A a, b \in Nat : a * b \in Nat OBVIOUS
  <2>2. each \in Nat BY <1>5
  <2> HIDE DEF each
  <2>3. QED BY <1>1, <2>1, <2>2
<1> HIDE DEF all, rest
<1>7. all <= total /\ total - all < QuorumSize BY <1>1, <1>2, <1>5, <1>6
<1>8. QED BY <1>1, <1>2, <1>3, <1>5, <1>6, <1>7 DEF all, total

\* The percentage of a sum is no more than the sum, and a share for each of
\* those counted no more than what is left.
LEMMA SplitFits ==
   ASSUME NEW total \in Nat, NEW count \in Nat
   PROVE  GetMainNodeShare(total) + count * GetOperatorShare(total, count) <= total
<1> DEFINE main == GetMainNodeShare(total)
           rest == total - main
<1>1. MainNodePercentage \in 0..100 BY EarningsAssumption
<1>2. main \in Nat /\ main <= total
  <2>1. \A a \in Nat, k \in 0..100 : a * k \in Nat /\ a * k <= a * 100 OBVIOUS
  <2>2. PICK part \in Nat : part = total * MainNodePercentage /\ part <= total * 100
    BY <1>1, <2>1
  <2>3. main = part \div 100 BY <2>2 DEF GetMainNodeShare
  <2>4. \A a, b \in Nat : a <= b * 100 => a \div 100 \in Nat /\ a \div 100 <= b OBVIOUS
  <2>5. QED BY <2>2, <2>3, <2>4
<1>3. GetOperatorShare(total, count) = IF count > 0 THEN rest \div count ELSE 0
  BY DEF GetOperatorShare
<1> HIDE DEF main
<1>4. rest \in Nat BY <1>2
<1>5. CASE count > 0
  <2>1. \A a, b \in Nat : b > 0 => a \div b \in Nat /\ b * (a \div b) <= a OBVIOUS
  <2>2. PICK one \in Nat : one = rest \div count /\ count * one <= rest
    BY <1>4, <1>5, <2>1
  <2>3. GetOperatorShare(total, count) = one BY <1>3, <1>5, <2>2
  <2>4. PICK all \in Nat : all = count * one
    <3>1. \A a, b \in Nat : a * b \in Nat OBVIOUS
    <3>2. QED BY <3>1, <2>2
  <2>5. main + all <= total BY <1>2, <2>2, <2>4
  <2>6. QED BY <2>3, <2>4, <2>5 DEF main
<1>6. CASE ~(count > 0)
  <2>1. count * GetOperatorShare(total, count) = 0 BY <1>3, <1>6
  <2>2. QED BY <1>2, <2>1 DEF main
<1>7. QED BY <1>5, <1>6

LEMMA PairsFinite == IsFiniteSet(Pairs)
BY EarningsAssumption, FS_Product DEF Pairs

LEMMA NoPaymentApart ==
   /\ NoPayment \notin SettlementFees /\ NoPayment \notin PendingPayment
   /\ NoPayment \notin WatchedAddress /\ NoPayment \notin SentPayment
BY EarningsAssumption

LEMMA EarningsInitTypeOK == EarningsInit => EarningsTypeOK
<1> SUFFICES ASSUME EarningsInit PROVE EarningsTypeOK
  OBVIOUS
<1>1. 0 \in Months /\ 0 \in 0..MaxRecords /\ 0 \in 0..MaxReports
  BY EarningsAssumption DEF Months
<1>2. NoEarnings \in OperatorEarnings BY <1>1 DEF NoEarnings, OperatorEarnings
<1>3. QED BY <1>1, <1>2 DEF EarningsInit, EarningsTypeOK

LEMMA CommitteeRecorded ==
   ASSUME EarningsTypeOK, NEW s \in Settlement, NEW amount \in Amounts,
          NEW members \in SUBSET Member, RecordCommitteeSelection(s, amount, members)
   PROVE  \E f \in SettlementFees :
             /\ f.amount = amount /\ f.members = members
             /\ fees' = [fees EXCEPT ![s] = f]
<1>1. PICK f : f = [amount |-> amount, members |-> members] OBVIOUS
<1>2. f \in SettlementFees BY <1>1 DEF SettlementFees
<1>3. fees' = [fees EXCEPT ![s] = f] BY <1>1 DEF RecordCommitteeSelection
<1>4. QED BY <1>1, <1>2, <1>3

LEMMA RecordTyped ==
   ASSUME EarningsTypeOK, NEW s \in Settlement, NEW amount \in Amounts,
          NEW members \in SUBSET Member, RecordCommitteeSelection(s, amount, members)
   PROVE  EarningsTypeOK'
<1>1. PICK each \in Nat : each = FeePerOperator(amount) BY FeesFit
<1>3. fees' \in [Settlement -> SettlementFees \cup {NoPayment}]
  BY CommitteeRecorded DEF EarningsTypeOK
<1>4. pay' \in [Pairs -> PendingPayment \cup {NoPayment}]
  <2>1. PICK q : q = [expected |-> each, status |-> "pending", actual |-> 0,
                      created |-> month, from |-> NoPayment] OBVIOUS
  <2>2. q \in PendingPayment BY <2>1 DEF PendingPayment, EarningsTypeOK
  <2>3. pay' = [p \in Pairs |-> IF p[1] = s /\ p[2] \in members THEN q ELSE pay[p]]
    BY <1>1, <2>1 DEF RecordCommitteeSelection
  <2>4. QED BY <2>2, <2>3 DEF EarningsTypeOK
<1>5. earned' \in [Member -> OperatorEarnings]
  <2>1. ASSUME NEW m \in Member
        PROVE  [earned[m] EXCEPT !.pending = @ + each] \in OperatorEarnings
    <3>1. earned[m] \in OperatorEarnings BY DEF EarningsTypeOK
    <3>2. QED BY <3>1 DEF OperatorEarnings
  <2>2. earned' = [m \in Member |-> IF m \in members
                                    THEN [earned[m] EXCEPT !.pending = @ + each]
                                    ELSE earned[m]]
    BY <1>1 DEF RecordCommitteeSelection
  <2>3. \A m \in Member : earned[m] \in OperatorEarnings BY DEF EarningsTypeOK
  <2>4. QED BY <2>1, <2>2, <2>3
<1>6. irregular' \subseteq Member /\ mixed' \subseteq Member
  BY DEF RecordCommitteeSelection, EarningsTypeOK
<1>7. records' \in 0..MaxRecords
  BY EarningsAssumption DEF RecordCommitteeSelection, EarningsTypeOK
<1>8. QED BY <1>3, <1>4, <1>5, <1>6, <1>7 DEF RecordCommitteeSelection, EarningsTypeOK

LEMMA MinedTyped ==
   ASSUME EarningsTypeOK, NEW s \in Settlement, SettlementMined(s)
   PROVE  EarningsTypeOK'
<1>1. PICK d \in Deviations :
         LET each == FeePerOperator(fees[s].amount)
         IN  /\ Recorded(s) /\ each + d >= 0
             /\ sent' = [p \in Pairs |-> IF p[1] = s /\ p[2] \in fees[s].members
                            THEN [amount |-> each + d, arrived |-> FALSE] ELSE sent[p]]
             /\ UNCHANGED <<fees, pay, earned, watch, received, month,
                            records, reports, irregular, mixed>>
  BY DEF SettlementMined
<1>2. fees[s] \in SettlementFees BY <1>1 DEF EarningsTypeOK, Recorded
<1>3. PICK each \in Nat : each = FeePerOperator(fees[s].amount)
  BY <1>2, FeesFit DEF SettlementFees
<1>4. each + d \in Nat
  <2>1. d \in Int BY EarningsAssumption
  <2>2. QED BY <1>1, <1>3, <2>1
<1>5. PICK q : q = [amount |-> each + d, arrived |-> FALSE] OBVIOUS
<1>6. q \in SentPayment BY <1>4, <1>5 DEF SentPayment
<1>7. sent' = [p \in Pairs |-> IF p[1] = s /\ p[2] \in fees[s].members THEN q ELSE sent[p]]
  BY <1>1, <1>3, <1>5
<1>8. QED BY <1>1, <1>6, <1>7 DEF EarningsTypeOK

LEMMA PaymentTyped ==
   ASSUME EarningsTypeOK, NEW s \in Settlement, NEW m \in Member, RecordPayment(s, m)
   PROVE  EarningsTypeOK'
<1>1. <<s, m>> \in Pairs BY DEF Pairs
<1>2. PICK q : q = sent[<<s, m>>] OBVIOUS
<1>3. q \in SentPayment BY <1>1, <1>2 DEF EarningsTypeOK, RecordPayment
<1>4. q.amount \in Nat BY <1>3 DEF SentPayment
<1>5. sent' \in [Pairs -> SentPayment \cup {NoPayment}]
  <2>1. PICK r : r = [q EXCEPT !.arrived = TRUE] OBVIOUS
  <2>2. r \in SentPayment BY <1>3, <2>1 DEF SentPayment
  <2>3. sent' = [sent EXCEPT ![<<s, m>>] = r]
    BY <1>1, <1>2, <2>1 DEF RecordPayment, EarningsTypeOK
  <2>4. QED BY <2>2, <2>3 DEF EarningsTypeOK
<1>6. received' \subseteq ReceivedPayment
  <2>1. CASE watch[m] = NoPayment BY <2>1 DEF RecordPayment, EarningsTypeOK
  <2>2. CASE watch[m] # NoPayment
    <3>1. watch[m] \in WatchedAddress BY <2>2 DEF EarningsTypeOK
    <3>2. watch[m].settlement \in Settlement BY <3>1 DEF WatchedAddress
    <3>3. [settlement |-> watch[m].settlement, member |-> m, amount |-> q.amount, from |-> s]
             \in ReceivedPayment
      BY <1>4, <3>2 DEF ReceivedPayment
    <3>4. QED BY <1>2, <2>2, <3>3 DEF RecordPayment, EarningsTypeOK
  <2>3. QED BY <2>1, <2>2
<1>7. watch' \in [Member -> WatchedAddress \cup {NoPayment}]
  BY DEF RecordPayment, EarningsTypeOK
<1>8. mixed' \subseteq Member BY DEF RecordPayment, ReportedAgain, EarningsTypeOK
<1>9. reports' \in 0..MaxReports BY EarningsAssumption DEF RecordPayment, EarningsTypeOK
<1>10. QED BY <1>5, <1>6, <1>7, <1>8, <1>9 DEF RecordPayment, EarningsTypeOK

\* What booking the payment r for p leaves of the record of p and of the books
\* of its member.
Confirmed(x, y, r) ==
   /\ x.expected = y.expected /\ x.status = "confirmed" /\ x.actual = r.amount
   /\ x.created = y.created /\ x.from = r.from

Credited(a, b, r, due, now) ==
   /\ a.total = b.total + r.amount /\ a.participated = b.participated + 1
   /\ a.pending = b.pending - due
   /\ a.byMonth = [b.byMonth EXCEPT ![now] = @ + r.amount]

LEMMA ConfirmChanges ==
   ASSUME EarningsTypeOK, NEW r \in ReceivedPayment, NEW p \in Pairs, Booked(p),
          ConfirmPayment(p, r)
   PROVE  \E x \in PendingPayment, a \in OperatorEarnings :
             /\ pay' = [pay EXCEPT ![p] = x] /\ earned' = [earned EXCEPT ![p[2]] = a]
             /\ Confirmed(x, pay[p], r)
             /\ Credited(a, earned[p[2]], r, pay[p].expected, month)
<1>1. p[2] \in Member BY DEF Pairs
<1>2. PICK y \in PendingPayment : y = pay[p] BY DEF Booked, EarningsTypeOK
<1>3. PICK b \in OperatorEarnings : b = earned[p[2]] BY <1>1 DEF EarningsTypeOK
<1>4. /\ r.amount \in Nat /\ r.from \in Settlement /\ y.expected \in Nat
      /\ y.created \in Months /\ month \in Months
  BY <1>2 DEF ReceivedPayment, PendingPayment, EarningsTypeOK
<1>5. b.total \in Nat /\ b.participated \in Nat /\ b.pending \in Int
      /\ b.byMonth \in [Months -> Nat]
  BY <1>3 DEF OperatorEarnings
<1>6. PICK x : x = [y EXCEPT !.status = "confirmed", !.actual = r.amount, !.from = r.from]
  OBVIOUS
<1>7. x \in PendingPayment /\ Confirmed(x, y, r)
  BY <1>2, <1>4, <1>6 DEF PendingPayment, Confirmed
<1>8. PICK books : books = [b.byMonth EXCEPT ![month] = @ + r.amount] OBVIOUS
<1>9. books \in [Months -> Nat]
  <2>1. b.byMonth[month] + r.amount \in Nat BY <1>4, <1>5
  <2>2. QED BY <1>5, <1>8, <2>1
<1>10. PICK a : a = [b EXCEPT !.total = @ + r.amount, !.participated = @ + 1,
                              !.pending = @ - y.expected, !.byMonth = books]
  OBVIOUS
<1>11. a \in OperatorEarnings /\ Credited(a, b, r, y.expected, month)
  <2>1. /\ b.total + r.amount \in Nat /\ b.participated + 1 \in Nat
        /\ b.pending - y.expected \in Int
    BY <1>4, <1>5
  <2>2. QED BY <1>3, <1>8, <1>9, <1>10, <2>1 DEF OperatorEarnings, Credited
<1>12. pay' = [pay EXCEPT ![p] = x] BY <1>2, <1>6 DEF ConfirmPayment, EarningsTypeOK
<1>13. earned' = [earned EXCEPT ![p[2]] = a]
  <2>1. a = [b EXCEPT !.total = @ + r.amount, !.participated = @ + 1,
                      !.pending = @ - y.expected, !.byMonth[month] = @ + r.amount]
    BY <1>3, <1>8, <1>10 DEF OperatorEarnings
  <2>2. QED BY <1>1, <1>2, <1>3, <2>1 DEF ConfirmPayment, EarningsTypeOK
<1>14. QED BY <1>2, <1>3, <1>7, <1>11, <1>12, <1>13

LEMMA FailChanges ==
   ASSUME EarningsTypeOK, NEW p \in Pairs, Booked(p), MarkPaymentFailed(p)
   PROVE  \E x \in PendingPayment, a \in OperatorEarnings :
             /\ pay' = [pay EXCEPT ![p] = x] /\ earned' = [earned EXCEPT ![p[2]] = a]
             /\ x.status = "failed"
             /\ a = [earned[p[2]] EXCEPT !.pending = @ - pay[p].expected]
<1>1. p[2] \in Member BY DEF Pairs
<1>2. PICK y \in PendingPayment : y = pay[p] BY DEF Booked, EarningsTypeOK
<1>3. PICK b \in OperatorEarnings : b = earned[p[2]] BY <1>1 DEF EarningsTypeOK
<1>4. PICK x : x = [y EXCEPT !.status = "failed"] OBVIOUS
<1>5. x \in PendingPayment /\ x.status = "failed" BY <1>2, <1>4 DEF PendingPayment
<1>6. PICK a : a = [b EXCEPT !.pending = @ - y.expected] OBVIOUS
<1>7. a \in OperatorEarnings
  <2>1. y.expected \in Nat BY <1>2 DEF PendingPayment
  <2>2. b.pending - y.expected \in Int BY <1>3, <2>1 DEF OperatorEarnings
  <2>3. QED BY <1>3, <1>6, <2>2 DEF OperatorEarnings
<1>8. pay' = [pay EXCEPT ![p] = x] BY <1>2, <1>4 DEF MarkPaymentFailed, EarningsTypeOK
<1>9. earned' = [earned EXCEPT ![p[2]] = a]
  BY <1>1, <1>2, <1>3, <1>6 DEF MarkPaymentFailed, EarningsTypeOK
<1>10. QED BY <1>2, <1>3, <1>5, <1>6, <1>7, <1>8, <1>9

LEMMA BookTyped ==
   ASSUME EarningsTypeOK, NEW r \in received, BookPayment(r)
   PROVE  EarningsTypeOK'
<1>1. r \in ReceivedPayment BY DEF EarningsTypeOK
<1>2. PICK p \in Pairs : p = <<r.settlement, r.member>>
  BY <1>1 DEF ReceivedPayment, Pairs
<1>3. p[2] \in Member BY <1>2 DEF Pairs
<1>4. /\ pay' \in [Pairs -> PendingPayment \cup {NoPayment}]
      /\ earned' \in [Member -> OperatorEarnings]
  <2>1. CASE ~Booked(p) BY <1>2, <2>1 DEF BookPayment, EarningsTypeOK
  <2>2. CASE Booked(p) /\ ConfirmPayment(p, r)
    <3>1. QED BY <1>1, <1>3, <2>2, ConfirmChanges DEF EarningsTypeOK
  <2>3. CASE Booked(p) /\ MarkPaymentFailed(p)
    <3>1. QED BY <1>3, <2>3, FailChanges DEF EarningsTypeOK
  <2>4. QED BY <1>2, <2>1, <2>2, <2>3 DEF BookPayment
<1>5. irregular' \subseteq Member BY <1>2, <1>3 DEF BookPayment, Ended, EarningsTypeOK
<1>6. QED BY <1>4, <1>5 DEF BookPayment, EarningsTypeOK

\* What the clean-up takes from the books of a member.
StaleOf(m) == [p \in {q \in Stale : q[2] = m} |-> pay[p].expected]

LEMMA StaleTyped ==
   ASSUME EarningsTypeOK, NEW m \in Member
   PROVE  /\ {q \in Stale : q[2] = m} \in SUBSET Pairs
          /\ StaleOf(m) \in [{q \in Stale : q[2] = m} -> Int]
          /\ SumFunction(StaleOf(m)) \in Int
<1> DEFINE E == {q \in Stale : q[2] = m}
<1>1. E \in SUBSET Pairs BY DEF Stale
<1>2. IsFiniteSet(E) BY <1>1, PairsFinite, FS_Subset
<1>3. \A p \in E : pay[p].expected \in Int
  <2>1. \A p \in E : pay[p] \in PendingPayment BY <1>1 DEF Stale, Booked, EarningsTypeOK
  <2>2. QED BY <2>1 DEF PendingPayment
<1>4. StaleOf(m) \in [E -> Int] BY <1>3 DEF StaleOf
<1> HIDE DEF E
<1>5. SumFunction(StaleOf(m)) \in Int BY <1>2, <1>4, SumType
<1>6. QED BY <1>1, <1>4, <1>5 DEF E

LEMMA CleanupTyped ==
   ASSUME EarningsTypeOK, CleanupOldPendingPayments
   PROVE  EarningsTypeOK'
<1>1. pay' \in [Pairs -> PendingPayment \cup {NoPayment}]
  BY DEF CleanupOldPendingPayments, EarningsTypeOK
<1>2. ASSUME NEW m \in Member
      PROVE  [earned[m] EXCEPT !.pending = @ - SumFunction(StaleOf(m))] \in OperatorEarnings
  <2>1. PICK b \in OperatorEarnings : b = earned[m] BY DEF EarningsTypeOK
  <2>2. PICK z \in Int : z = SumFunction(StaleOf(m)) BY StaleTyped
  <2>3. b.pending - z \in Int BY DEF OperatorEarnings
  <2>4. [b EXCEPT !.pending = @ - z] \in OperatorEarnings BY <2>3 DEF OperatorEarnings
  <2>5. QED BY <2>1, <2>2, <2>4
<1>3. earned' = [m \in Member |-> [earned[m] EXCEPT !.pending = @ - SumFunction(StaleOf(m))]]
  BY DEF CleanupOldPendingPayments, StaleOf
<1>4. earned' \in [Member -> OperatorEarnings] BY <1>2, <1>3
<1>5. QED BY <1>1, <1>4 DEF CleanupOldPendingPayments, EarningsTypeOK

LEMMA OtherTyped ==
   ASSUME EarningsTypeOK,
          \/ \E s \in Settlement, m \in Member : WatchAddress(s, m)
          \/ CleanupOldWatches \/ NextMonth \/ UNCHANGED earningVars
   PROVE  EarningsTypeOK'
<1>1. ASSUME NEW s \in Settlement, NEW m \in Member, WatchAddress(s, m)
      PROVE  EarningsTypeOK'
  <2>1. [settlement |-> s, added |-> month] \in WatchedAddress
    BY DEF WatchedAddress, EarningsTypeOK
  <2>2. watch' \in [Member -> WatchedAddress \cup {NoPayment}]
    BY <1>1, <2>1 DEF WatchAddress, EarningsTypeOK
  <2>3. mixed' \subseteq Member BY <1>1 DEF WatchAddress, EarningsTypeOK
  <2>4. QED BY <1>1, <2>2, <2>3 DEF WatchAddress, EarningsTypeOK
<1>2. ASSUME CleanupOldWatches PROVE EarningsTypeOK'
  BY <1>2 DEF CleanupOldWatches, EarningsTypeOK
<1>3. ASSUME NextMonth PROVE EarningsTypeOK'
  <2>1. MaxMonth \in Nat BY EarningsAssumption
  <2>2. month' \in Months BY <1>3, <2>1 DEF NextMonth, EarningsTypeOK, Months
  <2>3. QED BY <1>3, <2>2 DEF NextMonth, EarningsTypeOK
<1>4. ASSUME UNCHANGED earningVars PROVE EarningsTypeOK'
  BY <1>4 DEF earningVars, EarningsTypeOK
<1>5. QED BY <1>1, <1>2, <1>3, <1>4

LEMMA EarningsStepTyped ==
   ASSUME EarningsTypeOK, [EarningsStep]_earningVars
   PROVE  EarningsTypeOK'
BY RecordTyped, MinedTyped, PaymentTyped, BookTyped, CleanupTyped, OtherTyped DEF EarningsStep

(* The fees of the committees that are recorded, for every number of seats   *)
(* and every amount.                                                         *)
THEOREM SharesAlwaysFit == EarningsSpec => []SharesFit
<1>1. ASSUME EarningsTypeOK PROVE SharesFit
  <2>1. ASSUME NEW s \in Settlement, Recorded(s), NEW count \in 0..QuorumSize
        PROVE  LET amount == fees[s].amount
                   total == TotalOperatorFees(amount)
                   paid == SettlementSellerAmount(amount) + QuorumSize * FeePerOperator(amount)
               IN  /\ paid <= amount /\ amount - paid < QuorumSize
                   /\ GetMainNodeShare(total) + count * GetOperatorShare(total, count) <= total
    <3>1. fees[s] \in SettlementFees BY <1>1, <2>1 DEF EarningsTypeOK, Recorded
    <3>2. PICK amount \in Amounts : amount = fees[s].amount BY <3>1 DEF SettlementFees
    <3>3. PICK total \in Nat : total = TotalOperatorFees(amount) /\ total <= amount BY FeesFit
    <3>4. PICK all \in Nat : /\ all = QuorumSize * FeePerOperator(amount)
                             /\ all <= total /\ total - all < QuorumSize
      BY <3>3, FeesFit
    <3>5. QuorumSize \in Nat /\ amount \in Nat BY EarningsAssumption
    <3>6. (amount - total) + all <= amount /\ amount - ((amount - total) + all) < QuorumSize
      BY <3>4, <3>5
    <3>7. count \in Nat BY <3>5
    <3>8. GetMainNodeShare(total) + count * GetOperatorShare(total, count) <= total
      BY <3>7, SplitFits
    <3>9. QED BY <3>2, <3>3, <3>4, <3>6, <3>8 DEF SettlementSellerAmount
  <2>2. 0 \in 0..QuorumSize BY EarningsAssumption
  <2>3. QED BY <2>1, <2>2 DEF SharesFit
<1>2. EarningsInit => EarningsTypeOK BY EarningsInitTypeOK
<1>3. EarningsTypeOK /\ [EarningsStep]_earningVars => EarningsTypeOK' BY EarningsStepTyped
<1>4. QED BY <1>1, <1>2, <1>3, PTL DEF EarningsSpec
-----------------------------------------------------------------------------
\* Settlement t has still to pay m.
Owes(t, m) ==
   /\ Recorded(t) /\ m \in fees[t].members
   /\ sent[<<t, m>>] = NoPayment \/ ~sent[<<t, m>>].arrived

PaidAreMembers ==
   \A t \in Settlement, m \in Member :
      sent[<<t, m>>] # NoPayment => Recorded(t) /\ m \in fees[t].members

\* A member that was not mixed is owed by one settlement at most, its address is
\* watched for that one, and what was received for it is the right settlement's.
OneOwes == \A m \in Member \ mixed : \A t, u \in Settlement : Owes(t, m) /\ Owes(u, m) => t = u

WatchedIsOwed ==
   \A m \in Member \ mixed, t \in Settlement :
      watch[m] # NoPayment /\ watch[m].settlement = t => Owes(t, m)

ReceivedIsOwn == \A r \in received : r.member \notin mixed => r.from = r.settlement

CreditInv ==
   /\ EarningsTypeOK /\ PaidAreMembers /\ OneOwes /\ WatchedIsOwed /\ ReceivedIsOwn
   /\ CreditIsForWork

LEMMA CreditInit == EarningsInit => CreditInv
BY EarningsInitTypeOK DEF EarningsInit, CreditInv, PaidAreMembers, OneOwes, Owes, Recorded,
   WatchedIsOwed, ReceivedIsOwn, CreditIsForWork, Booked, Pairs

LEMMA RecordCredit ==
   ASSUME CreditInv, NEW s \in Settlement, NEW amount \in Amounts,
          NEW members \in SUBSET Member, RecordCommitteeSelection(s, amount, members)
   PROVE  CreditInv'
<1> USE DEF CreditInv
<1>1. EarningsTypeOK' BY RecordTyped
<1>2. PICK f \in SettlementFees : /\ f.members = members
                                  /\ fees' = [fees EXCEPT ![s] = f]
  BY CommitteeRecorded
<1>3. /\ Recorded(s)' /\ fees'[s].members = members
      /\ \A t \in Settlement : t # s => fees'[t] = fees[t]
      /\ Recorded(s) => fees[s].members = members
  BY <1>2, NoPaymentApart DEF Recorded, EarningsTypeOK, RecordCommitteeSelection
<1>4. sent' = sent /\ watch' = watch /\ received' = received /\ mixed \subseteq mixed'
  BY DEF RecordCommitteeSelection
<1>5. PaidAreMembers' BY <1>3, <1>4 DEF PaidAreMembers, Recorded
<1>6. \A t \in Settlement, m \in Member : t # s => (Owes(t, m)' <=> Owes(t, m))
  BY <1>3, <1>4 DEF Owes, Recorded
<1>7. \A t \in Settlement, m \in Member : Owes(t, m) => Owes(t, m)'
  BY <1>3, <1>4, <1>6 DEF Owes, Recorded
<1>8. \A m \in Member : Owes(s, m)' => m \in members BY <1>3 DEF Owes
<1>9. \A m \in members : m \notin mixed' => \A t \in Settlement \ {s} : ~Owes(t, m)
  BY DEF RecordCommitteeSelection, Owes
<1>10. OneOwes'
  <2>1. ASSUME NEW m \in Member \ mixed', NEW t \in Settlement, NEW u \in Settlement,
               Owes(t, m)', Owes(u, m)'
        PROVE  t = u
    <3>1. m \notin mixed BY <1>4
    <3>2. CASE t # s /\ u # s BY <1>6, <2>1, <3>1, <3>2 DEF OneOwes
    <3>3. CASE t = s \/ u = s BY <1>6, <1>8, <1>9, <2>1, <3>3
    <3>4. QED BY <3>2, <3>3
  <2>2. QED BY <2>1 DEF OneOwes
<1>11. WatchedIsOwed' BY <1>4, <1>7 DEF WatchedIsOwed
<1>12. ReceivedIsOwn' BY <1>4 DEF ReceivedIsOwn
<1>13. CreditIsForWork'
  <2>1. ASSUME NEW p \in Pairs, Booked(p)', pay'[p].status = "confirmed", p[2] \notin mixed'
        PROVE  pay'[p].from = p[1]
    <3>1. pay'[p] = pay[p] BY <2>1 DEF RecordCommitteeSelection
    <3>2. QED BY <1>4, <2>1, <3>1 DEF CreditIsForWork, Booked
  <2>2. QED BY <2>1 DEF CreditIsForWork
<1>14. QED BY <1>1, <1>5, <1>10, <1>11, <1>12, <1>13

LEMMA WatchCredit ==
   ASSUME CreditInv, NEW s \in Settlement, NEW m \in Member, WatchAddress(s, m)
   PROVE  CreditInv'
<1> USE DEF CreditInv
<1>1. EarningsTypeOK' BY OtherTyped
<1>2. fees' = fees /\ sent' = sent /\ received' = received /\ pay' = pay
      /\ mixed \subseteq mixed'
  BY DEF WatchAddress
<1>3. \A t \in Settlement, n \in Member : Owes(t, n)' <=> Owes(t, n)
  BY <1>2 DEF Owes, Recorded
<1>4. PaidAreMembers' BY <1>2 DEF PaidAreMembers, Recorded
<1>5. OneOwes' BY <1>2, <1>3 DEF OneOwes
<1>6. WatchedIsOwed'
  <2>1. watch'[m] = [settlement |-> s, added |-> month] BY DEF WatchAddress, EarningsTypeOK
  <2>2. m \notin mixed' => Owes(s, m) BY DEF WatchAddress, Owes
  <2>3. \A n \in Member \ {m} : watch'[n] = watch[n] BY DEF WatchAddress, EarningsTypeOK
  <2>4. watch'[m].settlement = s BY <2>1
  <2>5. ASSUME NEW n \in Member \ mixed', NEW t \in Settlement,
               watch'[n] # NoPayment, watch'[n].settlement = t
        PROVE  Owes(t, n)'
    <3>1. CASE n = m BY <1>3, <2>2, <2>4, <2>5, <3>1
    <3>2. CASE n # m BY <1>2, <1>3, <2>3, <2>5, <3>2 DEF WatchedIsOwed
    <3>3. QED BY <3>1, <3>2
  <2>6. QED BY <2>5 DEF WatchedIsOwed
<1>7. ReceivedIsOwn' /\ CreditIsForWork' BY <1>2 DEF ReceivedIsOwn, CreditIsForWork, Booked
<1>8. QED BY <1>1, <1>4, <1>5, <1>6, <1>7

LEMMA MinedCredit ==
   ASSUME CreditInv, NEW s \in Settlement, SettlementMined(s)
   PROVE  CreditInv'
<1> USE DEF CreditInv
<1>1. EarningsTypeOK' BY MinedTyped
<1>2. UNCHANGED <<fees, pay, earned, watch, received, month, records, reports, irregular, mixed>> /\ Recorded(s)
  BY DEF SettlementMined
<1>3. \A t \in Settlement, m \in Member :
         \/ sent'[<<t, m>>] = sent[<<t, m>>]
         \/ /\ t = s /\ m \in fees[s].members /\ sent[<<t, m>>] = NoPayment
            /\ sent'[<<t, m>>].arrived = FALSE
  <2>1. /\ \A n \in fees[s].members : sent[<<s, n>>] = NoPayment
        /\ \E q : /\ q.arrived = FALSE
                  /\ sent' = [p \in Pairs |-> IF p[1] = s /\ p[2] \in fees[s].members
                                              THEN q ELSE sent[p]]
    BY DEF SettlementMined
  <2>2. QED BY <2>1 DEF Pairs
<1>4. PaidAreMembers' BY <1>2, <1>3 DEF PaidAreMembers, Recorded
<1>5. \A t \in Settlement, m \in Member : Owes(t, m)' <=> Owes(t, m)
  BY <1>2, <1>3 DEF Owes, Recorded
<1>6. OneOwes' BY <1>2, <1>5 DEF OneOwes
<1>7. WatchedIsOwed' BY <1>2, <1>5 DEF WatchedIsOwed
<1>8. ReceivedIsOwn' /\ CreditIsForWork' BY <1>2 DEF ReceivedIsOwn, CreditIsForWork, Booked
<1>9. QED BY <1>1, <1>4, <1>6, <1>7, <1>8

LEMMA PaymentCredit ==
   ASSUME CreditInv, NEW s \in Settlement, NEW m \in Member, RecordPayment(s, m)
   PROVE  CreditInv'
<1> USE DEF CreditInv
<1>1. EarningsTypeOK' BY PaymentTyped
<1>2. UNCHANGED <<fees, pay, earned, month, irregular>> /\ mixed \subseteq mixed'
  BY DEF RecordPayment
<1>3. /\ Recorded(s) /\ m \in fees[s].members
      /\ ~sent[<<s, m>>].arrived => Owes(s, m)
  BY DEF RecordPayment, PaidAreMembers, Owes
<1>4. \A t \in Settlement, n \in Member : <<t, n>> # <<s, m>> => sent'[<<t, n>>] = sent[<<t, n>>]
  BY DEF RecordPayment, EarningsTypeOK, Pairs
<1>5. PaidAreMembers' BY <1>2, <1>3, <1>4 DEF PaidAreMembers, Recorded, Owes
<1>6. ~Owes(s, m)'
  <2>1. <<s, m>> \in Pairs BY DEF Pairs
  <2>2. PICK q \in SentPayment : q = sent[<<s, m>>] BY <2>1 DEF RecordPayment, EarningsTypeOK
  <2>3. sent'[<<s, m>>] = [q EXCEPT !.arrived = TRUE]
    BY <2>1, <2>2 DEF RecordPayment, EarningsTypeOK
  <2>4. sent'[<<s, m>>].arrived = TRUE /\ sent'[<<s, m>>] \in SentPayment
    BY <2>2, <2>3 DEF SentPayment
  <2>5. QED BY <2>4, NoPaymentApart DEF Owes
<1>7. \A t \in Settlement, n \in Member : <<t, n>> # <<s, m>> => (Owes(t, n)' <=> Owes(t, n))
  BY <1>2, <1>4 DEF Owes, Recorded
<1>8. OneOwes' BY <1>2, <1>6, <1>7 DEF OneOwes
<1>9. WatchedIsOwed'
  <2>1. watch' = [watch EXCEPT ![m] = NoPayment] BY DEF RecordPayment
  <2>2. \A n \in Member : watch'[n] # NoPayment => n # m /\ watch'[n] = watch[n]
    BY <2>1 DEF EarningsTypeOK
  <2>3. QED BY <1>2, <1>7, <2>2 DEF WatchedIsOwed
<1>10. ReceivedIsOwn'
  <2>1. CASE watch[m] = NoPayment BY <1>2, <2>1 DEF RecordPayment, ReceivedIsOwn
  <2>2. CASE watch[m] # NoPayment
    <3>1. watch[m] \in WatchedAddress BY <2>2 DEF EarningsTypeOK
    <3>2. watch[m].settlement \in Settlement BY <3>1 DEF WatchedAddress
    <3>3. m \notin mixed' => watch[m].settlement = s
      <4>1. m \notin mixed' => m \notin mixed /\ ~sent[<<s, m>>].arrived
        BY <2>2 DEF RecordPayment, ReportedAgain
      <4>2. QED BY <1>3, <2>2, <3>2, <4>1 DEF OneOwes, WatchedIsOwed
    <3>4. PICK r : /\ r.member = m /\ r.settlement = watch[m].settlement /\ r.from = s
                   /\ received' = received \cup {r}
      <4>1. PICK r : r = [settlement |-> watch[m].settlement, member |-> m,
                          amount |-> sent[<<s, m>>].amount, from |-> s]
        OBVIOUS
      <4>2. received' = received \cup {r} BY <2>2, <4>1 DEF RecordPayment
      <4>3. QED BY <4>1, <4>2
    <3>5. QED BY <1>2, <3>3, <3>4 DEF ReceivedIsOwn
  <2>3. QED BY <2>1, <2>2
<1>11. CreditIsForWork' BY <1>2 DEF CreditIsForWork, Booked
<1>12. QED BY <1>1, <1>5, <1>8, <1>9, <1>10, <1>11

LEMMA BookCredit ==
   ASSUME CreditInv, NEW r \in received, BookPayment(r)
   PROVE  CreditInv'
<1> USE DEF CreditInv
<1>1. EarningsTypeOK' BY BookTyped
<1>2. UNCHANGED <<fees, watch, sent, month, mixed>> /\ received' \subseteq received
  BY DEF BookPayment
<1>3. /\ PaidAreMembers' /\ OneOwes' /\ WatchedIsOwed' /\ ReceivedIsOwn'
  BY <1>2 DEF PaidAreMembers, OneOwes, WatchedIsOwed, ReceivedIsOwn, Owes, Recorded
<1>4. r \in ReceivedPayment BY DEF EarningsTypeOK
<1>5. PICK p \in Pairs : p = <<r.settlement, r.member>> BY <1>4 DEF ReceivedPayment, Pairs
<1>6. CASE ~Booked(p)
  <2>1. pay' = pay BY <1>5, <1>6 DEF BookPayment
  <2>2. QED BY <1>1, <1>2, <1>3, <2>1 DEF CreditIsForWork, Booked
<1>7. CASE Booked(p) /\ ConfirmPayment(p, r)
  <2>1. PICK x \in PendingPayment : pay' = [pay EXCEPT ![p] = x] /\ Confirmed(x, pay[p], r)
    BY <1>4, <1>7, ConfirmChanges
  <2>2. p[2] \notin mixed => x.from = p[1] BY <1>5, <2>1 DEF ReceivedIsOwn, Confirmed
  <2>3. \A o \in Pairs : o # p => pay'[o] = pay[o] BY <2>1 DEF EarningsTypeOK
  <2>4. pay'[p] = x BY <2>1 DEF EarningsTypeOK
  <2>5. CreditIsForWork' BY <1>2, <2>2, <2>3, <2>4 DEF CreditIsForWork, Booked
  <2>6. QED BY <1>1, <1>3, <2>5
<1>8. CASE Booked(p) /\ MarkPaymentFailed(p)
  <2>1. PICK x \in PendingPayment : pay' = [pay EXCEPT ![p] = x] /\ x.status = "failed"
    BY <1>8, FailChanges
  <2>2. \A o \in Pairs : o # p => pay'[o] = pay[o] BY <2>1 DEF EarningsTypeOK
  <2>3. pay'[p] = x BY <2>1 DEF EarningsTypeOK
  <2>4. CreditIsForWork' BY <1>2, <2>1, <2>2, <2>3 DEF CreditIsForWork, Booked
  <2>5. QED BY <1>1, <1>3, <2>4
<1>9. QED BY <1>5, <1>6, <1>7, <1>8 DEF BookPayment

LEMMA OtherCredit ==
   ASSUME CreditInv,
          CleanupOldPendingPayments \/ CleanupOldWatches \/ NextMonth \/ UNCHANGED earningVars
   PROVE  CreditInv'
<1> USE DEF CreditInv
<1>1. EarningsTypeOK' BY CleanupTyped, OtherTyped
<1>2. /\ UNCHANGED <<fees, sent, received, mixed>>
      /\ \A m \in Member : watch'[m] = watch[m] \/ watch'[m] = NoPayment
      /\ \A p \in Pairs : pay'[p] = pay[p] \/ pay'[p] = NoPayment
  BY DEF CleanupOldPendingPayments, CleanupOldWatches, NextMonth, earningVars
<1>3. PaidAreMembers' /\ OneOwes' /\ ReceivedIsOwn'
  BY <1>2 DEF PaidAreMembers, OneOwes, ReceivedIsOwn, Owes, Recorded
<1>4. WatchedIsOwed'
  <2>1. \A m \in Member : watch'[m] # NoPayment => watch'[m] = watch[m] BY <1>2
  <2>2. \A t \in Settlement, m \in Member : Owes(t, m)' <=> Owes(t, m)
    BY <1>2 DEF Owes, Recorded
  <2>3. QED BY <1>2, <2>1, <2>2 DEF WatchedIsOwed
<1>5. CreditIsForWork' BY <1>2 DEF CreditIsForWork, Booked
<1>6. QED BY <1>1, <1>3, <1>4, <1>5

(* Whatever is watched, cleaned up or left out: the settlement that is       *)
(* credited is the one that paid.                                            *)
THEOREM CreditAlwaysForWork == EarningsSpec => []CreditIsForWork
<1>1. EarningsInit => CreditInv BY CreditInit
<1>2. CreditInv /\ [EarningsStep]_earningVars => CreditInv'
  BY RecordCredit, WatchCredit, MinedCredit, PaymentCredit, BookCredit, OtherCredit
  DEF EarningsStep
<1>3. CreditInv => CreditIsForWork BY DEF CreditInv
<1>4. QED BY <1>1, <1>2, <1>3, PTL DEF EarningsSpec
-----------------------------------------------------------------------------
\* What is pending, and what was confirmed, for a member by each of the payments q.
Due(q, m) ==
   [p \in Pairs |-> IF p[2] = m /\ q[p] # NoPayment /\ q[p].status = "pending"
                    THEN q[p].expected ELSE 0]

Paid(q, m) ==
   [p \in Pairs |-> IF p[2] = m /\ q[p] # NoPayment /\ q[p].status = "confirmed"
                    THEN q[p].actual ELSE 0]

Payments == [Pairs -> PendingPayment \cup {NoPayment}]

Balanced(e, q, m) ==
   /\ e.pending = SumFunction(Due(q, m))
   /\ e.total = SumFunction(Paid(q, m))
   /\ e.total = SumFunction(e.byMonth)

BooksInv == EarningsTypeOK /\ \A m \in Member \ irregular : Balanced(earned[m], pay, m)

LEMMA SheetsTyped ==
   ASSUME NEW q \in Payments, NEW m
   PROVE  Due(q, m) \in [Pairs -> Int] /\ Paid(q, m) \in [Pairs -> Int]
<1>1. ASSUME NEW p \in Pairs, q[p] # NoPayment
      PROVE  q[p].expected \in Int /\ q[p].actual \in Int
  <2>1. q[p] \in PendingPayment BY <1>1 DEF Payments
  <2>2. QED BY <2>1 DEF PendingPayment
<1>2. Due(q, m) \in [Pairs -> Int] BY <1>1 DEF Due
<1>3. Paid(q, m) \in [Pairs -> Int] BY <1>1 DEF Paid
<1>4. QED BY <1>2, <1>3

\* The payments of another member do not count.
LEMMA SheetsKeep ==
   ASSUME NEW q \in Payments, NEW r \in Payments, NEW m,
          \A p \in Pairs : p[2] = m => r[p] = q[p]
   PROVE  Due(r, m) = Due(q, m) /\ Paid(r, m) = Paid(q, m)
BY DEF Due, Paid

LEMMA SheetsChange ==
   ASSUME NEW q \in Payments, NEW r \in Payments, NEW m, NEW p \in Pairs,
          \A o \in Pairs : o[2] = m /\ o # p => r[o] = q[o]
   PROVE  /\ SumFunction(Due(r, m)) = SumFunction(Due(q, m)) + (Due(r, m)[p] - Due(q, m)[p])
          /\ SumFunction(Paid(r, m)) = SumFunction(Paid(q, m)) + (Paid(r, m)[p] - Paid(q, m)[p])
<1>1. \A f, e \in [Pairs -> Int] :
         (\A o \in Pairs : o # p => e[o] = f[o]) =>
            SumFunction(e) = SumFunction(f) + (e[p] - f[p])
  BY PairsFinite, SumChange
<1>2. /\ Due(q, m) \in [Pairs -> Int] /\ Due(r, m) \in [Pairs -> Int]
      /\ Paid(q, m) \in [Pairs -> Int] /\ Paid(r, m) \in [Pairs -> Int]
  BY SheetsTyped
<1>3. \A o \in Pairs : o # p => Due(r, m)[o] = Due(q, m)[o] /\ Paid(r, m)[o] = Paid(q, m)[o]
  BY DEF Due, Paid
<1>4. QED BY <1>1, <1>2, <1>3

LEMMA SheetSums ==
   ASSUME NEW q \in Payments, NEW m
   PROVE  SumFunction(Due(q, m)) \in Int /\ SumFunction(Paid(q, m)) \in Int
BY SheetsTyped, PairsFinite, SumType

LEMMA MonthsFinite == IsFiniteSet(Months) /\ Months # {} /\ 0 \in Months
<1>1. MaxMonth \in Nat BY EarningsAssumption
<1>2. IsFiniteSet(0..MaxMonth) BY <1>1, FS_Interval
<1>3. QED BY <1>1, <1>2 DEF Months

LEMMA BooksInit == EarningsInit => BooksInv
<1> SUFFICES ASSUME EarningsInit PROVE BooksInv
  OBVIOUS
<1>1. EarningsTypeOK BY EarningsInitTypeOK
<1>2. ASSUME NEW m \in Member PROVE Balanced(earned[m], pay, m)
  <2>1. \A p \in Pairs : Due(pay, m)[p] = 0 /\ Paid(pay, m)[p] = 0
    BY DEF EarningsInit, Due, Paid
  <2>2. pay \in Payments BY <1>1 DEF EarningsTypeOK, Payments
  <2>3. SumFunction(Due(pay, m)) = 0 /\ SumFunction(Paid(pay, m)) = 0
    BY <2>1, <2>2, SheetsTyped, PairsFinite, SumSign
  <2>4. PICK f : f = [k \in Months |-> 0] OBVIOUS
  <2>5. SumFunction(f) = 0
    <3>1. f \in [Months -> Int] /\ \A k \in Months : f[k] = 0 BY <2>4
    <3>2. QED BY <3>1, MonthsFinite, SumSign
  <2>6. earned[m].pending = 0 /\ earned[m].total = 0 /\ earned[m].byMonth = f
    BY <2>4 DEF EarningsInit, NoEarnings
  <2>7. QED BY <2>3, <2>5, <2>6 DEF Balanced
<1>3. QED BY <1>1, <1>2 DEF BooksInv

LEMMA RecordBooks ==
   ASSUME BooksInv, NEW s \in Settlement, NEW amount \in Amounts,
          NEW members \in SUBSET Member, RecordCommitteeSelection(s, amount, members)
   PROVE  BooksInv'
<1>1. EarningsTypeOK /\ EarningsTypeOK' BY RecordTyped DEF BooksInv
<1>2. PICK each \in Nat : each = FeePerOperator(amount) BY FeesFit
<1>3. PICK q \in Payments, r \in Payments : q = pay /\ r = pay'
  BY <1>1 DEF EarningsTypeOK, Payments
<1>4. \A p \in Pairs : ~(p[1] = s /\ p[2] \in members) => r[p] = q[p]
  BY <1>3 DEF RecordCommitteeSelection
<1>5. ASSUME NEW m \in Member, m \notin irregular' PROVE Balanced(earned'[m], r, m)
  <2>1. Balanced(earned[m], q, m) BY <1>3, <1>5 DEF BooksInv, RecordCommitteeSelection
  <2>2. CASE m \notin members
    <3>1. earned'[m] = earned[m] BY <2>2 DEF RecordCommitteeSelection
    <3>2. \A p \in Pairs : p[2] = m => r[p] = q[p] BY <1>4, <2>2
    <3>3. QED BY <2>1, <3>1, <3>2, SheetsKeep DEF Balanced
  <2>3. CASE m \in members
    <3>1. PICK p \in Pairs : p = <<s, m>> BY DEF Pairs
    <3>2. \A o \in Pairs : o[2] = m /\ o # p => r[o] = q[o] BY <1>4, <3>1 DEF Pairs
    <3>3. q[p] # NoPayment => q[p].status = "failed"
      BY <1>3, <1>5, <2>3, <3>1 DEF RecordCommitteeSelection, Booked
    <3>4. r[p] \in PendingPayment /\ r[p].status = "pending" /\ r[p].expected = each
      <4>1. PICK x : x = [expected |-> each, status |-> "pending", actual |-> 0,
                          created |-> month, from |-> NoPayment] OBVIOUS
      <4>2. x \in PendingPayment BY <1>1, <4>1 DEF PendingPayment, EarningsTypeOK
      <4>3. r[p] = x BY <1>2, <1>3, <2>3, <3>1, <4>1 DEF RecordCommitteeSelection
      <4>4. QED BY <4>1, <4>2, <4>3
    <3>5. Due(q, m)[p] = 0 /\ Paid(q, m)[p] = 0 BY <3>3 DEF Due, Paid
    <3>6. Due(r, m)[p] = each /\ Paid(r, m)[p] = 0
      BY <3>1, <3>4, NoPaymentApart DEF Due, Paid
    <3>7. PICK b \in OperatorEarnings : b = earned[m] BY <1>1 DEF EarningsTypeOK
    <3>8. earned'[m] = [b EXCEPT !.pending = @ + each]
      BY <1>2, <2>3, <3>7 DEF RecordCommitteeSelection
    <3>9. /\ earned'[m].pending = b.pending + each
          /\ earned'[m].total = b.total /\ earned'[m].byMonth = b.byMonth
      BY <3>7, <3>8 DEF OperatorEarnings
    <3>10. /\ SumFunction(Due(r, m)) = SumFunction(Due(q, m)) + each
           /\ SumFunction(Paid(r, m)) = SumFunction(Paid(q, m))
      BY <3>2, <3>5, <3>6, SheetsChange, SheetSums
    <3>11. QED BY <2>1, <3>7, <3>9, <3>10 DEF Balanced
  <2>4. QED BY <2>2, <2>3
<1>6. QED BY <1>1, <1>3, <1>5 DEF BooksInv

LEMMA CleanupBooks ==
   ASSUME BooksInv, CleanupOldPendingPayments
   PROVE  BooksInv'
<1>1. EarningsTypeOK /\ EarningsTypeOK' BY CleanupTyped DEF BooksInv
<1>2. PICK q \in Payments, r \in Payments : q = pay /\ r = pay'
  BY <1>1 DEF EarningsTypeOK, Payments
<1>3. ASSUME NEW m \in Member, m \notin irregular' PROVE Balanced(earned'[m], r, m)
  <2>1. Balanced(earned[m], q, m)
    BY <1>2, <1>3 DEF BooksInv, CleanupOldPendingPayments
  <2>2. PICK E : E = {o \in Stale : o[2] = m} OBVIOUS
  <2>3. PICK e : e = StaleOf(m) OBVIOUS
  <2>4. E \in SUBSET Pairs /\ e \in [E -> Int] /\ SumFunction(e) \in Int
    BY <1>1, <2>2, <2>3, StaleTyped
  <2>5. \A p \in E : p \in Pairs /\ p[2] = m /\ q[p] # NoPayment /\ q[p].status = "pending"
    BY <1>2, <2>2 DEF Stale, Booked
  <2>6. \A p \in Pairs : IF p \in Stale THEN r[p] = NoPayment ELSE r[p] = q[p]
    BY <1>2 DEF CleanupOldPendingPayments
  <2>7. Agrees(e, Due(q, m), E)
    <3>1. \A p \in E : e[p] = pay[p].expected BY <2>2, <2>3 DEF StaleOf
    <3>2. \A p \in E : Due(q, m)[p] = q[p].expected BY <2>5 DEF Due
    <3>3. QED BY <1>2, <2>4, <3>1, <3>2 DEF Agrees
  <2>8. /\ \A p \in E : Due(r, m)[p] = 0
        /\ \A p \in Pairs \ E : Due(r, m)[p] = Due(q, m)[p]
    <3>1. \A p \in E : p \in Pairs /\ p \in Stale BY <2>2, <2>5
    <3>2. \A p \in Pairs \ E : p[2] = m => p \notin Stale BY <2>2
    <3>3. QED BY <2>6, <3>1, <3>2 DEF Due
  <2>9. SumFunction(Due(r, m)) = SumFunction(Due(q, m)) - SumFunction(e)
    <3>1. Due(q, m) \in [Pairs -> Int] /\ Due(r, m) \in [Pairs -> Int] BY SheetsTyped
    <3>2. QED BY <2>4, <2>7, <2>8, <3>1, PairsFinite, SumWithout
  <2>10. Paid(r, m) = Paid(q, m)
    <3>1. \A p \in Pairs : p \in Stale => q[p] # NoPayment /\ q[p].status = "pending"
      BY <1>2 DEF Stale, Booked
    <3>2. \A p \in Pairs : Paid(r, m)[p] = Paid(q, m)[p] BY <2>6, <3>1 DEF Paid
    <3>3. QED BY <3>2 DEF Paid
  <2>11. PICK b \in OperatorEarnings : b = earned[m] BY <1>1 DEF EarningsTypeOK
  <2>12. earned'[m] = [b EXCEPT !.pending = @ - SumFunction(e)]
    BY <2>3, <2>11 DEF CleanupOldPendingPayments, StaleOf
  <2>13. /\ earned'[m].pending = b.pending - SumFunction(e)
         /\ earned'[m].total = b.total /\ earned'[m].byMonth = b.byMonth
    BY <2>11, <2>12 DEF OperatorEarnings
  <2>14. QED BY <2>1, <2>9, <2>10, <2>11, <2>13 DEF Balanced
<1>4. QED BY <1>1, <1>2, <1>3 DEF BooksInv

\* The books hold when those of the member whose payment has ended do.
LEMMA EndBooks ==
   ASSUME BooksInv, NEW r \in received, BookPayment(r), NEW p \in Pairs, NEW x, NEW a,
          pay' = [pay EXCEPT ![p] = x], earned' = [earned EXCEPT ![p[2]] = a],
          p[2] \notin irregular' => Balanced(a, pay', p[2])
   PROVE  BooksInv'
<1>1. EarningsTypeOK /\ EarningsTypeOK' BY BookTyped DEF BooksInv
<1>2. PICK q \in Payments, n \in Payments : q = pay /\ n = pay'
  BY <1>1 DEF EarningsTypeOK, Payments
<1>3. \A m \in Member : p[2] # m =>
         earned'[m] = earned[m] /\ \A o \in Pairs : o[2] = m => n[o] = q[o]
  BY <1>1, <1>2 DEF EarningsTypeOK
<1>4. irregular \subseteq irregular' BY DEF BookPayment, Ended
<1>5. ASSUME NEW m \in Member, m \notin irregular' PROVE Balanced(earned'[m], n, m)
  <2>1. Balanced(earned[m], q, m) BY <1>2, <1>4, <1>5 DEF BooksInv
  <2>2. CASE p[2] = m
    <3>1. earned'[m] = a BY <1>1, <2>2 DEF EarningsTypeOK
    <3>2. QED BY <1>2, <1>5, <2>2, <3>1
  <2>3. CASE p[2] # m
    <3>1. Due(n, m) = Due(q, m) /\ Paid(n, m) = Paid(q, m) BY <1>3, <2>3, SheetsKeep
    <3>2. QED BY <1>3, <2>1, <2>3, <3>1 DEF Balanced
  <2>4. QED BY <2>2, <2>3
<1>6. QED BY <1>1, <1>2, <1>5 DEF BooksInv

LEMMA BookBooks ==
   ASSUME BooksInv, NEW r \in received, BookPayment(r)
   PROVE  BooksInv'
<1>1. EarningsTypeOK /\ EarningsTypeOK' BY BookTyped DEF BooksInv
<1>2. r \in ReceivedPayment BY <1>1 DEF EarningsTypeOK
<1>3. PICK p \in Pairs : p = <<r.settlement, r.member>> BY <1>2 DEF ReceivedPayment, Pairs
<1>4. PICK q \in Payments, n \in Payments : q = pay /\ n = pay'
  BY <1>1 DEF EarningsTypeOK, Payments
<1>5. p[2] \in Member BY DEF Pairs
<1>6. CASE ~Booked(p)
  <2>1. pay' = pay /\ earned' = earned /\ irregular \subseteq irregular'
    BY <1>3, <1>6 DEF BookPayment, Ended
  <2>2. QED BY <1>1, <2>1 DEF BooksInv
\* What the two ways of ending a payment share.
<1>7. ASSUME Booked(p), NEW x \in PendingPayment, pay' = [pay EXCEPT ![p] = x],
             x.status # "pending", p[2] \notin irregular'
      PROVE  /\ q[p].expected \in Nat
             /\ SumFunction(Due(n, p[2])) = SumFunction(Due(q, p[2])) - q[p].expected
             /\ SumFunction(Paid(n, p[2])) = SumFunction(Paid(q, p[2]))
                   + (IF x.status = "confirmed" THEN x.actual ELSE 0)
  <2>1. PICK m : m = p[2] OBVIOUS
  <2>2. n[p] = x /\ \A o \in Pairs : o[2] = m /\ o # p => n[o] = q[o]
    BY <1>1, <1>4, <1>7 DEF EarningsTypeOK
  <2>3. q[p] # NoPayment /\ q[p].status = "pending"
    BY <1>3, <1>4, <1>7 DEF BookPayment, Ended, Booked
  <2>4. q[p] \in PendingPayment BY <2>3 DEF Payments
  <2>5. Due(q, m)[p] = q[p].expected /\ Paid(q, m)[p] = 0 BY <2>1, <2>3 DEF Due, Paid
  <2>6. Due(n, m)[p] = 0 /\ Paid(n, m)[p] = (IF x.status = "confirmed" THEN x.actual ELSE 0)
    BY <1>7, <2>1, <2>2, NoPaymentApart DEF Due, Paid
  <2>7. q[p].expected \in Nat /\ x.actual \in Nat BY <2>4 DEF PendingPayment
  <2>8. /\ SumFunction(Due(n, m)) = SumFunction(Due(q, m)) + (Due(n, m)[p] - Due(q, m)[p])
        /\ SumFunction(Paid(n, m)) = SumFunction(Paid(q, m)) + (Paid(n, m)[p] - Paid(q, m)[p])
    BY <2>2, SheetsChange
  <2>9. SumFunction(Due(q, m)) \in Int /\ SumFunction(Paid(q, m)) \in Int BY SheetSums
  <2>10. QED BY <2>1, <2>5, <2>6, <2>7, <2>8, <2>9
<1>8. CASE Booked(p) /\ ConfirmPayment(p, r)
  <2>1. PICK x \in PendingPayment, a \in OperatorEarnings :
           /\ pay' = [pay EXCEPT ![p] = x] /\ earned' = [earned EXCEPT ![p[2]] = a]
           /\ Confirmed(x, pay[p], r)
           /\ Credited(a, earned[p[2]], r, pay[p].expected, month)
    BY <1>1, <1>2, <1>8, ConfirmChanges
  <2>2. ASSUME p[2] \notin irregular' PROVE Balanced(a, n, p[2])
    <3>1. PICK m \in Member : m = p[2] BY <1>5
    <3>2. Balanced(earned[m], q, m) BY <1>4, <2>2, <3>1 DEF BooksInv, BookPayment, Ended
    <3>3. /\ q[p].expected \in Nat
          /\ SumFunction(Due(n, m)) = SumFunction(Due(q, m)) - q[p].expected
          /\ SumFunction(Paid(n, m)) = SumFunction(Paid(q, m)) + r.amount
      BY <1>7, <1>8, <2>1, <2>2, <3>1 DEF Confirmed
    <3>4. PICK b \in OperatorEarnings : b = earned[m] BY <1>1 DEF EarningsTypeOK
    <3>5. /\ a.total = b.total + r.amount /\ a.pending = b.pending - q[p].expected
          /\ a.byMonth = [b.byMonth EXCEPT ![month] = @ + r.amount]
      BY <1>4, <2>1, <3>1, <3>4 DEF Credited
    <3>6. SumFunction(a.byMonth) = SumFunction(b.byMonth) + r.amount
      <4>1. PICK f \in [Months -> Int], g \in [Months -> Int] : f = b.byMonth /\ g = a.byMonth
        BY <2>1, <3>4 DEF OperatorEarnings
      <4>2. month \in Months /\ r.amount \in Int BY <1>1, <1>2 DEF EarningsTypeOK, ReceivedPayment
      <4>3. g[month] = f[month] + r.amount /\ \A k \in Months : k # month => g[k] = f[k]
        BY <3>5, <4>1, <4>2
      <4>4. SumFunction(g) = SumFunction(f) + (g[month] - f[month])
        BY <4>2, <4>3, MonthsFinite, SumChange
      <4>5. SumFunction(f) \in Int /\ f[month] \in Int BY <4>2, MonthsFinite, SumType
      <4>6. QED BY <4>1, <4>2, <4>3, <4>4, <4>5
    <3>7. QED BY <3>1, <3>3, <3>4, <3>5, <3>6, <3>2 DEF Balanced
  <2>3. QED BY <1>4, <2>1, <2>2, EndBooks
<1>9. CASE Booked(p) /\ MarkPaymentFailed(p)
  <2>1. PICK x \in PendingPayment, a \in OperatorEarnings :
           /\ pay' = [pay EXCEPT ![p] = x] /\ earned' = [earned EXCEPT ![p[2]] = a]
           /\ x.status = "failed"
           /\ a = [earned[p[2]] EXCEPT !.pending = @ - pay[p].expected]
    BY <1>1, <1>9, FailChanges
  <2>2. ASSUME p[2] \notin irregular' PROVE Balanced(a, n, p[2])
    <3>1. PICK m \in Member : m = p[2] BY <1>5
    <3>2. Balanced(earned[m], q, m) BY <1>4, <2>2, <3>1 DEF BooksInv, BookPayment, Ended
    <3>3. /\ q[p].expected \in Nat
          /\ SumFunction(Due(n, m)) = SumFunction(Due(q, m)) - q[p].expected
          /\ SumFunction(Paid(n, m)) = SumFunction(Paid(q, m)) + 0
      BY <1>7, <1>9, <2>1, <2>2, <3>1
    <3>4. PICK b \in OperatorEarnings : b = earned[m] BY <1>1 DEF EarningsTypeOK
    <3>5. a = [b EXCEPT !.pending = @ - q[p].expected] BY <1>4, <2>1, <3>1, <3>4
    <3>6. a.total = b.total /\ a.pending = b.pending - q[p].expected /\ a.byMonth = b.byMonth
      BY <3>4, <3>5 DEF OperatorEarnings
    <3>7. SumFunction(Paid(q, m)) \in Int BY SheetSums
    <3>8. SumFunction(Paid(n, m)) = SumFunction(Paid(q, m)) BY <3>3, <3>7
    <3>9. QED BY <3>1, <3>3, <3>4, <3>6, <3>8, <3>2 DEF Balanced
  <2>3. QED BY <1>4, <2>1, <2>2, EndBooks
<1>10. QED BY <1>3, <1>6, <1>8, <1>9 DEF BookPayment

LEMMA OtherBooks ==
   ASSUME BooksInv,
          \/ \E s \in Settlement : \/ SettlementMined(s)
                                   \/ \E m \in Member : WatchAddress(s, m) \/ RecordPayment(s, m)
          \/ CleanupOldWatches \/ NextMonth \/ UNCHANGED earningVars
   PROVE  BooksInv'
<1>1. EarningsTypeOK /\ EarningsTypeOK' BY MinedTyped, PaymentTyped, OtherTyped DEF BooksInv
<1>2. pay' = pay /\ earned' = earned /\ irregular' = irregular
  BY DEF SettlementMined, WatchAddress, RecordPayment, CleanupOldWatches, NextMonth, earningVars
<1>3. QED BY <1>1, <1>2 DEF BooksInv

(* The books of an operator agree with its payments, whatever is recorded,   *)
(* paid, booked and cleaned up and in whichever month, unless one of its     *)
(* payments was recorded again or ended twice.                               *)
THEOREM BooksAlwaysBalance == EarningsSpec => []BooksBalance
<1>1. EarningsInit => BooksInv BY BooksInit
<1>2. BooksInv /\ [EarningsStep]_earningVars => BooksInv'
  BY RecordBooks, CleanupBooks, BookBooks, OtherBooks DEF EarningsStep
<1>3. ASSUME BooksInv PROVE BooksBalance
  <2>1. pay \in Payments BY <1>3 DEF BooksInv, EarningsTypeOK, Payments
  <2>2. ASSUME NEW m \in Member \ irregular
        PROVE  /\ earned[m].pending =
                     SumFunction([p \in InStatus(m, "pending") |-> pay[p].expected])
               /\ earned[m].total =
                     SumFunction([p \in InStatus(m, "confirmed") |-> pay[p].actual])
               /\ earned[m].total = SumFunction(earned[m].byMonth)
    <3>1. Balanced(earned[m], pay, m) BY <1>3 DEF BooksInv
    <3>2. Due(pay, m) \in [Pairs -> Int] /\ Paid(pay, m) \in [Pairs -> Int]
      BY <2>1, SheetsTyped
    <3>3. PICK E, F : E = InStatus(m, "pending") /\ F = InStatus(m, "confirmed") OBVIOUS
    <3>4. E \in SUBSET Pairs /\ F \in SUBSET Pairs BY <3>3 DEF InStatus
    <3>5. PICK e, f : e = [p \in E |-> pay[p].expected] /\ f = [p \in F |-> pay[p].actual]
      OBVIOUS
    <3>6. /\ \A p \in E : Due(pay, m)[p] = pay[p].expected
          /\ \A p \in Pairs \ E : Due(pay, m)[p] = 0
          /\ \A p \in F : Paid(pay, m)[p] = pay[p].actual
          /\ \A p \in Pairs \ F : Paid(pay, m)[p] = 0
      BY <3>3 DEF InStatus, Booked, Due, Paid
    <3>7. Agrees(e, Due(pay, m), E) /\ Agrees(f, Paid(pay, m), F)
      <4>1. \A p \in E : e[p] = Due(pay, m)[p] /\ Due(pay, m)[p] \in Int
        BY <3>2, <3>4, <3>5, <3>6
      <4>2. \A p \in F : f[p] = Paid(pay, m)[p] /\ Paid(pay, m)[p] \in Int
        BY <3>2, <3>4, <3>5, <3>6
      <4>3. QED BY <3>5, <4>1, <4>2 DEF Agrees
    <3>8. SumFunction(Due(pay, m)) = SumFunction(e)
      BY <3>2, <3>4, <3>6, <3>7, PairsFinite, SumPart
    <3>9. SumFunction(Paid(pay, m)) = SumFunction(f)
      BY <3>2, <3>4, <3>6, <3>7, PairsFinite, SumPart
    <3>10. QED BY <3>1, <3>3, <3>5, <3>8, <3>9 DEF Balanced
  <2>3. QED BY <2>2 DEF BooksBalance
<1>4. QED BY <1>1, <1>2, <1>3, PTL DEF EarningsSpec
-----------------------------------------------------------------------------
(* All of them together                                                    *)

\* They share nothing, so each keeps to its own specification.
LEMMA NetworkApart == NetworkSpec => BootSpec /\ CheckpointSpec /\ CommitteeSpec /\ EarningsSpec
<1>1. NetworkInit => BootInit /\ CheckpointInit /\ CommitteeInit /\ EarningsInit
  BY DEF NetworkInit
<1>2. [NetworkNext]_networkVars => /\ [BootStep]_bootVars /\ [CheckpointStep]_checkpointVars
                                   /\ [CommitteeStep]_committeeVars
                                   /\ [EarningsStep]_earningVars
  BY DEF NetworkNext, networkVars
<1>3. QED BY <1>1, <1>2, PTL DEF NetworkSpec, BootSpec, CheckpointSpec, CommitteeSpec,
                                EarningsSpec

\* What is proved of each of them holds of the specification the run of all of them
\* checks.
THEOREM NetworkCorrect ==
   NetworkSpec =>
      /\ [](OutcomeIsTrue /\ AnchorBindsEvents /\ RefusedStayOut /\ SharesFit
            /\ CreditIsForWork /\ BooksBalance)
      /\ RediscoveryKeepsPeers
      /\ CommitteesAreStable
BY NetworkApart, OutcomeAlwaysTrue, AnchorAlwaysBinds, RefusedNeverOperate, SharesAlwaysFit,
   CreditAlwaysForWork, BooksAlwaysBalance, RediscoveryAlwaysKeeps, CommitteesAlwaysStable, PTL
=============================================================================
