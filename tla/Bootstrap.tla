----------------------------- MODULE Bootstrap -----------------------------
(***************************************************************************)
(* How a node finds its first peers (network/bootstrap.ts): from a shared  *)
(* configuration and the seeds it ships with, then from DNS, then from the *)
(* first of several addresses that serves a valid signed manifest; then it *)
(* tries some of the peers it knows.  The manifest and the configuration   *)
(* may be those another node serves (network/join-api.ts).  Two calls, or  *)
(* a call and the periodic refresh of the manifest, may be under way       *)
(* together; they meet in the peer table and in the state they report.     *)
(*                                                                         *)
(* No signature is verified, a connection attempt is a coin toss, and a    *)
(* peer's score and reliability decide nothing: so the code has it, and    *)
(* they are left out.                                                      *)
(***************************************************************************)
EXTENDS Naturals, FiniteSets

CONSTANTS
   Addr,           \* addresses of peers
   Seeds,          \* HARDCODED_SEEDS
   DnsAddrs,       \* what the DNS seed lists
   Gateway,        \* the address in the configuration a gateway serves
   BootCall,       \* calls of bootstrap() and refreshManifest()
   Urls,           \* how many addresses serve the manifest
   MaxAttempts,    \* 10: peers tried in one call
   Operators,      \* how many operator keys the node knows
   SponsorKnown,   \* whether it knows the sponsor's key
   NoPeer          \* no entry, no configuration, no manifest

Source == {"bootstrap-config", "hardcoded", "dns", "manifest"}

Peer == [via : Source, connected : BOOLEAN]

\* ops: how many signatures are not the sponsor's.
Manifest == [seeds : SUBSET Addr, sponsor : BOOLEAN, ops : Nat]

\* GET /seed-manifest.json lists shipped seeds, GET /bootstrap.json the gateway too.
ServedManifest == [seeds |-> Seeds, sponsor |-> TRUE, ops |-> 0]
ServedConfig == Seeds \cup {Gateway}

ASSUME BootstrapAssumption ==
   /\ Seeds \subseteq Addr /\ DnsAddrs \subseteq Addr /\ Gateway \in Addr
   /\ IsFiniteSet(Seeds) /\ IsFiniteSet(DnsAddrs)
   /\ NoPeer \notin Addr \cup Peer
   /\ {Urls, MaxAttempts, Operators} \subseteq Nat
   /\ SponsorKnown \in BOOLEAN

VARIABLES
   known,   \* [Addr -> how it was found and whether it connected]: peerTable
   phase,   \* bootstrapState.phase
   boot     \* the calls

bootVars == <<known, phase, boot>>

\* todo: peers yet to be tried; connected: one has been.
NotCalled == [pc |-> "unused", kind |-> "bootstrap", url |-> 1, todo |-> {},
              connected |-> FALSE, success |-> FALSE]

BootInit ==
   /\ known = [a \in Addr |-> NoPeer]
   /\ phase = "initializing"
   /\ boot = [b \in BootCall |-> NotCalled]

BootRecord == [pc : {"unused", "dns", "manifest", "connect", "done"},
               kind : {"bootstrap", "refresh"}, url : 1..(Urls + 1),
               todo : SUBSET Addr, connected : BOOLEAN, success : BOOLEAN]

BootTypeOK ==
   /\ known \in [Addr -> Peer \cup {NoPeer}]
   /\ phase \in {"initializing", "fetching-seeds", "connecting", "ready", "failed"}
   /\ boot \in [BootCall -> BootRecord]
-----------------------------------------------------------------------------
Known == {a \in Addr : known[a] # NoPeer}

(* What is found again is entered again (a seeded bug). *)
Reentered(table, addrs, via) ==
   [a \in Addr |-> IF a \in addrs THEN [via |-> via, connected |-> FALSE] ELSE table[a]]

\* The first source that names a peer enters it.
Added(table, addrs, via) ==
   [a \in Addr |-> IF a \in addrs /\ table[a] = NoPeer
                   THEN [via |-> via, connected |-> FALSE] ELSE table[a]]

\* With a configuration or without, and the shipped seeds; without I/O.
StartBootstrap(b, config) ==
   /\ boot[b].pc = "unused"
   /\ known' = Added(Added(known, IF config = NoPeer THEN {} ELSE config, "bootstrap-config"),
                     Seeds, "hardcoded")
   /\ phase' = "fetching-seeds"
   /\ boot' = [boot EXCEPT ![b].pc = "dns"]

\* The query fails, or it lists some addresses.
DnsAnswered(b, addrs) ==
   /\ boot[b].pc = "dns"
   /\ known' = Added(known, addrs, "dns")
   /\ phase' = "fetching-seeds"
   /\ boot' = [boot EXCEPT ![b].pc = "manifest"]

RefreshManifest(b) ==
   /\ boot[b].pc = "unused"
   /\ boot' = [boot EXCEPT ![b].pc = "manifest", ![b].kind = "refresh"]
   /\ UNCHANGED <<known, phase>>

\* The sponsor's signature if its key is known, or those of two thirds of the
\* operators: none at all is enough for a node that knows no operator, if the
\* manifest has a signature.
VerifyManifestSignatures(m) ==
   /\ m.sponsor \/ m.ops > 0
   /\ \/ SponsorKnown /\ m.sponsor
      \/ 3 * m.ops >= 2 * Operators

\* The search for a manifest is over, with or without one.
Searched(b, found, table) ==
   /\ known' = table
   /\ IF boot[b].kind = "refresh"
      THEN /\ boot' = [boot EXCEPT ![b].pc = "done", ![b].success = found]
           /\ UNCHANGED phase
      ELSE \E subset \in SUBSET {a \in Addr : table[a] # NoPeer} :
              /\ Cardinality(subset) <= MaxAttempts
              /\ Cardinality(subset) = MaxAttempts \/ subset = {a \in Addr : table[a] # NoPeer}
              /\ boot' = [boot EXCEPT ![b].pc = "connect", ![b].todo = subset]
              /\ phase' = "connecting"

(* After the last address the first is asked again (a seeded bug). *)
RoundAgain(b) ==
   /\ boot[b].pc = "manifest"
   /\ boot' = [boot EXCEPT ![b].url = (@ % Urls) + 1]
   /\ UNCHANGED <<known, phase>>

\* An address that fails, or whose manifest is not valid or lists no seeds,
\* gives way to the next.
NextUrl(b) ==
   /\ boot[b].pc = "manifest"
   /\ boot[b].url <= Urls
   /\ IF boot[b].url < Urls
      THEN /\ boot' = [boot EXCEPT ![b].url = @ + 1]
           /\ UNCHANGED <<known, phase>>
      ELSE Searched(b, FALSE, known)

ManifestFetched(b, m) ==
   /\ boot[b].pc = "manifest"
   /\ VerifyManifestSignatures(m)
   /\ Searched(b, TRUE, Added(known, m.seeds, "manifest"))

\* One attempt; only a success changes the peer's entry.
AttemptConnection(b, a, success) ==
   /\ boot[b].pc = "connect"
   /\ a \in boot[b].todo
   /\ known' = IF success THEN [known EXCEPT ![a].connected = TRUE] ELSE known
   /\ boot' = [boot EXCEPT ![b].todo = @ \ {a}, ![b].connected = @ \/ success]
   /\ UNCHANGED phase

(* It is enough to know of a peer (a seeded bug). *)
CompletedOnDiscovery(b) ==
   /\ boot[b].pc = "connect"
   /\ boot[b].todo = {}
   /\ boot' = [boot EXCEPT ![b].pc = "done", ![b].success = Known # {}]
   /\ phase' = IF Known # {} THEN "ready" ELSE "failed"
   /\ UNCHANGED known

Completed(b) ==
   /\ boot[b].pc = "connect"
   /\ boot[b].todo = {}
   /\ boot' = [boot EXCEPT ![b].pc = "done", ![b].success = boot[b].connected]
   /\ phase' = IF boot[b].connected THEN "ready" ELSE "failed"
   /\ UNCHANGED known

Manifests == {ServedManifest} \cup
   [seeds : {DnsAddrs}, sponsor : {FALSE}, ops : 0..Operators]

CallStep(b) ==
   \/ \E addrs \in {{}, DnsAddrs} : DnsAnswered(b, addrs)
   \/ NextUrl(b)
   \/ \E m \in Manifests : ManifestFetched(b, m)
   \/ \E a \in Addr, success \in BOOLEAN : AttemptConnection(b, a, success)
   \/ Completed(b)

BootStep ==
   \E b \in BootCall :
      \/ \E config \in {NoPeer, ServedConfig} : StartBootstrap(b, config)
      \/ RefreshManifest(b)
      \/ CallStep(b)

\* The DNS query and the requests time out and the attempts end.
BootSpec == BootInit /\ [][BootStep]_bootVars /\ \A b \in BootCall : WF_bootVars(CallStep(b))
-----------------------------------------------------------------------------
Finished(b) == boot[b].pc = "done" /\ boot[b].kind = "bootstrap"

Begun == {b \in BootCall : boot[b].pc # "unused" /\ boot[b].kind = "bootstrap"}

(* The outcome is what happened: a call that reports success leaves a        *)
(* connected peer behind, whatever runs beside it; the only call there was   *)
(* reports a failure only if no peer connected; and once none is under way   *)
(* the node is reported ready or failed.                                     *)
OutcomeIsTrue ==
   /\ \A b \in BootCall :
         Finished(b) => IF boot[b].success THEN \E a \in Known : known[a].connected
                        ELSE Begun = {b} => \A a \in Known : ~known[a].connected
   /\ Begun # {} /\ (\A b \in Begun : Finished(b)) => phase \in {"ready", "failed"}

(* A peer once known stays known, as it was first found, and once connected  *)
(* stays connected, however often later sources, calls and refreshes find it *)
(* again.                                                                    *)
RediscoveryKeepsPeers ==
   [][\A a \in Known : /\ known'[a] # NoPeer
                       /\ known'[a].via = known[a].via
                       /\ known[a].connected => known'[a].connected]_bootVars

(* Every call ends, whatever DNS and the manifest's addresses answer.        *)
CallsEnd == \A b \in BootCall : boot[b].pc # "unused" ~> boot[b].pc = "done"
=============================================================================
