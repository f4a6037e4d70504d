# Formal models of autho

Autho keeps the ownership history of physical goods as hash-chained events that
a federation of operators validates, signs and stores; buyers pay for offers in
Bitcoin or over Lightning. This directory holds TLA+ models of that code, TLC
runs that check them on small instances, and TLAPS proofs of the properties that
matter most for every value of the constants. Source paths below are relative to
the repository; `PROJECT.json` maps every definition to the lines it models.

## 1. The system

| Component | State it keeps | Operations | Talks to |
|---|---|---|---|
| State machine (`src/core/state-machine.ts`) | none | validateTransition, applyEvent, validateEventChain, validateEventTimestamp | called by the node and the client |
| Hashing (`src/core/hashing.ts`) | none | calculateEventHash | node, issuers, client |
| Operator node (`src/operator/node.ts`) | configuration and its store | submitEvent, proposeEvent, signEvent, getItemProof, registerManufacturer, registerAuthenticator | store; called by the HTTP API |
| File store (`src/operator/event-store.ts`) | `events/`, `items/`, `manufacturers/`, `authenticators/`, `attestations/` and an index file per item | save and get of each; getLatestHeight | the file system, through awaits |
| HTTP API (`src/operator/api-server.ts`) | `offers`, `items`, `feeRecords` in memory, never persisted | event submission, offers, demo registry, mobile pages | node, payment service |
| Payment service (`src/bitcoin/payment-service.ts`) | `payment-wallet.json` (mnemonic, lastIndex), address and invoice maps | createPaymentRequest, invoice polling | monitor, Lightning, callback into the API |
| Payment monitor (`src/bitcoin/payment-monitor.ts`) | payments and callbacks by address | registerPayment, checkPayments on a timer | block explorer (awaits), callbacks |
| Lightning (`src/bitcoin/lightning-service.ts`) | mock invoices | createInvoice, checkInvoice | LNbits, LND, CLN over HTTP |
| Peer sync (`src/operator/peer-sync.ts`) | the peer list, a timer | broadcastEvent, syncWithPeers | other operators over HTTP |
| Client (`src/client/`) | trusted manufacturers; offers in flight | scanItem and its consensus; offer, lock, invoice, settlement | several operators, a payment adapter |
| Sale manager (`src/client/sale-manager.ts`, `src/payment/adapter.ts`) | the adapter's invoices and balance | offer, lock, invoice, settlement, release, fees | an operator, a payment backend |
| Token ledger (`src/token/`) | tokens, transactions | mint, sell, embed, transfer, validate, import | broadcast to peers |
| Item registry (`src/registry/`) | items, serial, owner and manufacturer indexes, events | register, transfer, authenticate, import | payment check, operator consensus |
| Wallet authentication (`src/auth/`) | users, challenges, sessions, used nonces | register, challenge, login, signed action, TOTP | API |
| Peer connections (`src/network/p2p-handler.ts`) | one entry for a peer id | connect, accept, disconnect, greet, ping | WebSocket events |
| Bootstrap (`src/network/bootstrap.ts`, `join-api.ts`) | known peers, the state it reports | bootstrap, refreshManifest | DNS, HTTP |
| Anchoring (`src/network/bitcoin-anchor.ts`) | checkpoints, noted anchors | createCheckpoint, anchor, verify | Bitcoin |
| Committees (`src/network/committee-selection.ts`) | none; the caller's operators and votes | select, eligibility, windows, votes | - |
| Earnings (`src/network/earnings-tracker.ts`, `src/core/fee-distribution.ts`) | earnings, pending payments, watched addresses | record, confirm, fail, clean up, watch | - |
| Health metrics (`src/network/health-metrics.ts`) | samples | statistics | - |
| Issuers, wallets, crypto | none or keys | signing and building events and transactions | - |

### What is hard about it

* **One thread, many awaits.** Node runs a handler up to its next await, and
  then any other request may run. `submitEvent` crosses up to ten file
  operations and takes no lock, so what it validated may be stale when it saves.
* **Files.** `writeFile` truncates, then writes. A crash in between leaves an
  empty file, and two writes that overlap may leave one that does not parse.
* **Timers that do not wait.** `setInterval` starts a run of `checkPayments`
  whether or not the last one is still waiting for the explorer.
* **One callback, several callers.** The same closure is called by the on-chain
  monitor, at expiry, and by the Lightning poller, and writes an offer's status.
* **Events by name, not by socket.** A connection's handlers look the peer up by
  its id, so the close of an old socket reaches the entry of a newer one; a login
  and a set-up of a second factor act after their await on what they read before.
* **Shared money.** All sales draw on one balance, and all payouts of an operator
  come to one address.
* **Memory only.** Offers, payments and pollers do not survive a restart; the
  wallet file does, and must keep addresses fresh.

What makes each part correct: the node must keep every item record the outcome
of a legal, stored hash chain and must have stored what it acknowledges; one
item's history must not fork; payments must be settled once, and by the offer's
own money; addresses must never be reused; the ledgers' indexes must agree with
their records; conserved amounts must stay conserved. `PROJECT.json` lists under
`hazards` where each of these could go wrong.

## 2. Modules

| Module | Models | Extends |
|---|---|---|
| `ItemStateMachine` | the pure functions of `core/state-machine.ts` | - |
| `EventLog` | the universe of events and what their hash chain says (`Replay`) | ItemStateMachine |
| `OwnershipRegister` | abstract: an item is a register that changes by one legal event at a time | EventLog |
| `OperatorNode` | `submitEvent`, `getItemProof`, the registrations, file by file, with crashes | EventLog; instantiates OwnershipRegister |
| `MCOperatorNode` | the event universes for TLC | OperatorNode |
| `OperatorNodeProofs` | proofs about a node, whatever overlaps | OperatorNode |
| `OperatorNodeSerial` | proofs about a node whose requests for one item do not overlap | OperatorNodeProofs |
| `OfferPayments` | offers, on-chain monitor, invoice polling, wallet file, crashes | - |
| `MCOfferPayments` | the symmetry of offers and runs for TLC | OfferPayments |
| `OfferPaymentsProofs` | proofs about offers and payments | OfferPayments |
| `OperatorNetwork` | several operators, the quorum's signatures, deliveries, the client's scan | EventLog |
| `MCOperatorNetwork` | its events and the symmetry of operators for TLC | OperatorNetwork |
| `OperatorNetworkProofs` | proofs about operators and scans | OperatorNetwork |
| `ItemRegistry` | the in-memory registry: calls between their awaits, export, import | - |
| `MCItemRegistry` | its symmetry for TLC | ItemRegistry |
| `ItemRegistryProofs` | proofs about the registry | ItemRegistry |
| `PeerConnections` | the sockets and the table of peers of one node | - |
| `WalletAuth` | challenges, sessions, nonces, second factors | - |
| `TokenLedger` | the token ledgers of several nodes | - |
| `SaleProtocol` | sales of one item over a shared balance | ItemStateMachine |
| `MCNodeServices` | the last four for TLC, one at a time | all four |
| `NodeServicesProofs` | proofs about the same four | all four, Sums |
| `Bootstrap` | the search for the first peers | - |
| `Checkpoints` | checkpoints, their Merkle roots and anchors | - |
| `Committees` | admission of operators, drawing of committees | - |
| `Earnings` | settlement fees, payments, watched addresses | - |
| `MCNetworkServices` | the last four for TLC, one at a time | all four |
| `NetworkServicesProofs` | proofs about the same four | all four, Sums |
| `Sums` | lemmas about sums over finite sets | - |

The two service modules join parts that share no variable: in a behaviour one of
them takes steps and the others stay where they begin. All interleavings inside a
part are there; those between parts, which cannot affect each other, are not
multiplied.

### OperatorNode and the code

A `task` is a `submitEvent` call; its `pc` names the file operation it issues
next and its other fields are the locals that live across awaits. `Submit` is
the code up to the first await, including the checks that need no file (the
timestamp window). `ReadItem` and `ReadParty` are the reads of `validateEvent`;
the verdict and `verifyQuorum` follow the last read without an await and belong
to it. `TruncFile`, `WriteFile`, `ReadIndex`, `TruncIndex`, `WriteIndex` are
`saveEvent` and, with `kind = "attestations"`, `saveAttestation`, the same code
over another directory. `Reread` is the second read of the item in
`updateItemState`, with `applyEvent`, which throws if the item has moved on.
`TruncItem` and `WriteItem` are `saveItem`. `Answer` is the return of
`{ accepted: true }`: `submitEvent` gives it only after the await of its last file
operation, so the process may die in between, with the record written and nobody
told. `done` (a history variable) is what has landed, `accepted` what was answered.
`getItemProof` is `ReadProofItem`, `ReadProofIndex` and one `ReadProofFile` per
listed event.

The disk is a state (`absent`, `empty`, `mangled`, `whole`) and the last whole
content of each file. `Lands` says what an overlapping write may leave. `Crash`
drops all tasks and keeps the files: what has been written is not lost, so the
model is of a dying process, not of a power failure.

Data is abstracted to what the properties tell apart: an event is its id and
`Body` its content, hash collisions do not happen and an event whose hash does
not match its id is left out, since it is refused before anything is read.
Signatures are `ok` or not. An item record keeps its manufacturer, metadata hash
and mint time as the mint event that set them. An attestation's item is taken to
be its event's item. `proposeEvent` and `signEvent` change no state and are in
`OperatorNetwork`. Two registrations of one party are not
overlapped.

### OfferPayments and the code

An action is the code between two awaits. `Create` is `createPaymentRequest` up
to the call of `createInvoice`: derive an address, save the index, register the
payment. `Invoiced` is the rest, including the offer's entry in the map.
`StartRun`, `Look`, `Answer` are `checkPayments`: the run keeps the time it
started with, the address it waits for and the answer it is given; `Continue` is
its loop up to the next address it has to ask about, expiring the payments it
passes. `Called` and `Charged` are the callback of the create handler and
`processFeeDistribution`. `Poll` is one check of an invoice. `CrashInSave` is a
death inside `saveAddressIndex`; the file is then empty and the constructor
throws at every start, so nothing that needs the service happens any more.

`Deposit` and `PayInvoice` are the environment: a buyer pays the address of an
offer it was given, in too small a sum first or not, and what is only in the
mempool may be replaced. Amounts are abstracted to none, too little, enough but
unconfirmed, and enough in a block. All offers are created with the default
payment method `both` and with a fee distribution, as the shipped handler does.
The shipped server configures the mock Lightning backend; `RealLightning` covers
the others.

### OperatorNetwork and the code

Here a node is what `OwnershipRegister` says of it, one atomic step per event:
the module is about the distance between operators, and takes it that each
serves one submission at a time. Its store is whole; manufacturers are active
everywhere.

`Endorse` is `proposeEvent` and `signEvent` by a quorum of operators. Neither
keeps state or refuses an event whose hash is right, so a quorum can be had for
any event at any time, in one step. `Deliver` is an accepted `submitEvent`, by the
issuer or by `broadcastEvent`; it may happen late, again (not for the events of
`OneShot`), in any order or never. `Store`, `AcceptMint`, `AcceptChain` and
`AcceptNote` are its outcomes. `PeerSync` as written never recovers a missed
event: `/api/events`, which it polls, is not served, and nothing creates it.

A scan is `Hear`, `Answer` or `Unreachable` once per operator, at different
times, then `Conclude`: `queryOperators` waits for all answers
and has no timeout, `findConsensusState` wants M equal ones, and `scanItem`
checks the listing and the manufacturer. `seen` is a history variable: what
consensus found so far. What `scanItem` does after the manufacturer was found
cannot be reached and is modelled all the same: `getManufacturerFromEvents` looks
for the registration among the item's own events, where none is listed, so a scan
on which all operators agree still ends without a manufacturer
(`PROTOCOL_SPEC.md:415` has the client check it).

### ItemRegistry and the code

A `task` is a call of `registerItem`, `transferOwnership` or `authenticateItem`
between two awaits: `Register`, `Transfer`, `Authenticate` are the checks up to
the first one, `Paid` is the step from the payment check to the consensus,
`Registered`, `Transferred`, `Authenticated` the updates at the end. They do not
check again. `live` says whether the record object the call holds is still the
one in the ledger: an import and a second registration of the id replace it, and
the rest of the call then changes an object nobody sees, but the lists and the
events all the same. Today the awaits end at once (payment check and peers
are simulated), so only calls started in one turn of the event loop overlap;
with the network calls the comments announce, all do.

The lists of items are bags and the events are counted by kind and item.
Signatures are non-empty strings, payments verify and a consensus always has
`quorumM` signatures, as in the code. `Import` takes back an export of the same
registry; one made by another operator, or one without metadata (`importLedger`
would throw half-way, with new items and old indexes), is left out. Of the item's
data its serial number and one value for the rest of what its id is made from
are kept. `status` is the kind of the last call and is left out.

### PeerConnections and the code

`ConnectToPeer`, `Opened` and `Refused` are `connectToPeer` and its handlers,
`AcceptPeerConnection` the other side, `Closed` the close event,
`HandleHello`, `HandlePong` and `PingAllPeers` the messages that change an entry.
`peers` holds a socket where the code holds the connection with it. `raced` is a
history variable: two sockets of one peer id have been alive together. It splits
what holds always from what holds without: with a race, the close of the older
socket deletes the newer one's entry, and a PONG on the older gives the newer a
latency since the epoch. The limit `maxPeers` is checked when a dial begins and
not when it opens, and not at all for accepted connections, so it can be exceeded
and is not a property. `CanDial` is `FALSE` in a build by the repository's
`tsconfig.json`, where the imported WebSocket is not a constructor; the runs take
it to be `TRUE`, which has all behaviours of the other.

### WalletAuth and the code

`VerifyLogin` and `LoggedIn` are `verifyLogin` up to its await and after it, and
likewise `VerifySignedAction` with `ActionVerified` and `SetupTOTP` with
`SecretDrawn`; the other actions await nothing that matters. `live` says whether
the user record a call holds is the one in the map, which `importUsers` replaces.
Two logins with one challenge that overlap both succeed, and so do two actions
with one nonce; a second factor that is enabled while a set-up is at its await
gets another secret afterwards, which the user never typed a code from. `crossed`
names what was involved in such an overlap and the properties are about the rest.
`crossed` thus leaves out what the code does get wrong, and the properties are
about everything else that may come between. `asked` notes that a login's user had a
second factor when the login began, which is what `SecondFactorChecked` holds it
to although `verifyLogin` tests the record again after its await.
`verifySignedAction` compares the clock with an expiry that the signer has written
in the action, so an action with a given nonce that has not expired can always be
had: the model accepts any.

### TokenLedger and the code

Each operation of `TokenLedger` is one action, since none awaits, and `Post...`
is the handler of `token-api.ts` that calls it. `Lines` bounds the transactions
and validations. An id listed twice in a sale is sold twice, and each sale is
entered in the token's history: `LedgerIsAuditable` counts them. Validations are
counted and not their validators, so one node called twice makes a quorum. A
transfer sets the status of an embedded token to `transferred`; its data stays.
A ledger moves between nodes by export and import alone, as `broadcastTransaction`
sends nothing.

### SaleProtocol and the code

An action is what runs between two awaits of the flow in `examples/demo.ts` (steps
6 to 11): `CreateOffer` to `CreateSettlement` are `SaleManager`'s, `SubmitLock` and
`SubmitSettlement` the operator's answer by `ItemStateMachine`, `MockPayInvoice`,
`ReleasePayment` and `DistributeFees` the adapter's. `EndLock` is an unlock or a
burn sent by anybody, which needs neither an expiry nor a refusal to pay. The
operator refuses what does not fit the item, and the demo does not look at its
answer (`demo.ts:165`, `:194`): a sale whose lock was refused goes on to invoice the
buyer, one whose settlement was refused to pay the seller (stages `lockSent`,
`settleSent`). `SoldByOwnerAndPaid` and `EscrowIsSolvent` hold all the same; that the
item goes to a buyer who has paid is not among them, as it is not so. Things
seen on the way that no property contradicts: below 2000 sats a seller's amount is
negative and `releaseFunds` adds it to the balance; a buyer who has paid for a
lock that ended gets nothing back; nothing ties a payment proof to its offer; a
twentieth of each fee and the roundings are paid to nobody.

### Bootstrap and the code

A call of `bootstrap` is `StartBootstrap` (configuration and shipped seeds),
`DnsAnswered`, `NextUrl` or `ManifestFetched` per manifest address,
`AttemptConnection` per peer and `Completed`; `RefreshManifest` enters at the
manifest. Calls share the peer table and the reported phase. `ServedManifest` and
`ServedConfig` are what another node's join API answers, the gateway among the
seeds in the configuration only.
`VerifyManifestSignatures` counts signatures and checks none: a node that knows no
operator accepts a manifest with any one signature.

### Checkpoints and the code

Hashes are what they are made of, so two are equal exactly when what they are made
of is. An event's is made of a part of it: `hashEvent` gives `JSON.stringify` the
names of the event's top level as the list of keys to keep (`bitcoin-anchor.ts:224`),
and that list holds at all levels, so the content of `data` and the members of
`signatures` are not hashed unless they bear a name of the top level. An `Event` is
therefore a record of what is kept (`top`) and what is not (`nested`), and
`AnchorBindsEvents` says both halves: a transaction binds the kept parts of one list,
their number and their order, and a list that differs in nested content alone
verifies against the same transaction. The event's own `eventHash` is at the top
level, and this class never computes it again. `anchorCheckpoint` always throws, as it finalizes an input nobody signed;
`WalletAnchors` is the transaction an operator's wallet makes with the commitment
the class builds (81 bytes, one more than the usual limit of an OP_RETURN).
`verifyMerkleProof`, which accepts only the proof of a first event, has no caller.
Two checkpoints of one millisecond tie, and the first is the latest.

### Committees and the code

`SelectCommittee` ranks operators by a score that is a constant, any order for
each offer. The classes keep nothing: `registry` is their caller's, with the
fields of `node-types.ts`. `verifyCommitteeSelection` draws again with an
undefined root and so never agrees, which is why it is left out. Votes of
operators who have left still count; fewer operators than seats make
`selectCommittee` throw.

### Earnings and the code

`RecordCommitteeSelection`, `ConfirmPayment`, `MarkPaymentFailed` and
`CleanupOldPendingPayments` are `OperatorEarningsTracker`, `WatchAddress`,
`RecordPayment` and `CleanupOldWatches` the monitor, and `BookPayment` their
caller. `SettlementMined` is a transaction that `verifySettlementTransaction`
accepts: each output within 1%, or 1 sat in any case, where `verifyPayment` takes
1% only, so a payment the first accepts may fail the second. An address has one
watch, so of two settlements that pay one member the second takes the first's
place; `confirmPayment` and `markPaymentFailed` look at no status, and a payment
ended twice takes pending earnings below zero. `recordPayment` does not look at the
transaction, so a payment reported again counts for whatever its address is
watched for by then. `irregular` and `mixed` name the operators concerned, whom
`BooksBalance` and `CreditIsForWork` except. `QuorumSize` is 5 in the calculator
where committees have 7 members.

## 3. Runs

Every passing property has a seeded bug (`mutants` in `PROJECT.json`) that
breaks it; the seeded definitions stand next to the ones they replace.

| Run | Shows | Bounds |
|---|---|---|
| `NodeSerial` | one request at a time, crashes at any point: the inductive invariant `SafeInv`, no fork is accepted, and the node implements `OwnershipRegister` (an event takes effect in one step, when its record has landed, and is answered only after it; a crash between the two leaves an effect nobody was told of) and never undoes what it has accepted, wherever the process dies (`AcceptedIsKept`). As long as no crash has happened, the listing is a valid chain with the record's last event in it and, under fairness, a saved event is acknowledged | the eleven events of a whole life, one crash |
| `NodeRaces` | two requests and a crash, in every order of file operations: records are replays, the store is closed under predecessors, acknowledged events are stored | mint, assignment, two rival locks; each mint once |
| `NodeProofs` | `getItemProof` between the steps of submissions, attestations and a crash serves the record with its whole chain | four events, retries of everything but the mint, three clock values |
| `OffersSafe` | addresses are fresh, only an offer's own confirmed money pays it, a pending offer is watched | two offers, two overlapping runs, one crash, also inside the save |
| `OffersSettle` | both channels and a backend that may fail: every payment is settled for good under fairness | one offer, two runs, no crash |
| `NetworkScans` | operators part only where two rival events were both signed by a quorum, and a scan that finds consensus never shows less of a history than an earlier one | three operators, quorum of two, rival assignments, a lock, an attestation; deliveries in any order, lost or repeated |
| `RegistryCalls` | whatever overlaps, events account for the records, and taken serial numbers resolve; without an overlap, one entry per serial number, histories without a gap and exact indexes, imports of older ledgers included | two calls at a time, two serial numbers with two variants, two owners, calls start until three events are logged |
| `NodeServices` | peer connections: entries are live and complete, what is known of a peer is its own; logins: one session per challenge, no session without the code that was asked for, nonces spent once, enabled secrets proven; token ledgers: histories agree with the transactions, data is embedded for good; sales: the seller sold what it owned for a price that was paid, and the balance covers what is owed | two peers and two sockets; one key, challenge and session, two secrets, two nonces, two calls; two nodes, two tokens, five lines of transactions; two sales, two wallets, a price below and one above the least fees |
| `NetworkServices` | bootstrap: outcomes are true, what is known is kept, every call ends under fairness; checkpoints: a transaction anchors what the hashes keep of one list of events, and no more; committees: they change no more than they must, and a refused candidate stays out; earnings: the books balance, a payment is credited to the settlement that made it, the parts of a settlement fit its amount | three addresses, two calls, two manifest addresses, two attempts; two checkpoints of four events together (`MaxEvents`), two of the three events alike but for nested content; four operators, three of them founders, two seats, four days; two settlements of one member, three recordings and two reports in all (`MaxRecords`, `MaxReports`), exact or 1 sat over, three months |

Runs that end with a counterexample, each against a sentence of the repository
(quoted in `findings`):

| Run | What happens |
|---|---|
| `NodeRaceLocks` | two overlapping locks are both accepted (`SECURITY.md`: "First lock accepted, subsequent attempts rejected") |
| `OffersUnpaid` | a stale answer takes a PAID offer back to PENDING |
| `NetworkForks` | two rival locks both gather a quorum's signatures and operators keep different ones for good (`PROTOCOL_SPEC.md`: "Conflicting locks rejected by quorum") |

The same races have two more effects: a lock that overlaps a burn rewrites the
burned record, and two overlapping `saveEvent` calls lose an id of the item's
list. With one request at a time neither can happen, as every event then takes
effect in a step of the register (`IsRegister`). A late answer of
an overlapping `checkPayments` also turns an expired payment into a confirmed
one, and one failed check of an invoice ends its polling: `PaymentsSettle` and
`PaidByOwnMoney` are what remains true.
An attestation is listed with the item's chain events (`node.ts:51`) while the
item's height and last hash skip it, so the next chain event makes a listing that
`validateEventChain`, and every scan, rejects: `ListedChainIsValid` is about
items without attestations. Two overlapping registrations give a serial number
two entries, and two overlapping transfers leave the item in a second owner's
list: `EntriesAreSound` and `IndexesAgree` are about calls that do not overlap.

**Why the bounds are enough.** Two tasks are the least that interleave, and
every race found needs two. One item suffices because no file is shared between
items except those of parties. The life universe visits all five states, a
second assignment out of custody, the burn of a locked item and an event after
it. `fees` counts to 2 because only "more than once" matters. One
crash covers a death at any operation followed by any recovery. The clock has a
value before, inside and after each deadline. Mints are sent once in most runs
(`OneShot`) because a mint sent again breaks what those runs establish: nothing
looks the event up, so it is accepted again and resets the item to `MINTED`
without an owner (`README.md:175` says that operators reject duplicate ids).
The claims about the listing and about saved events are made of runs without a
crash only: one between `saveEvent` and `saveItem` leaves a stored event the
item never saw, and a second event may then be listed at the same height.

Three operators with a quorum of two are the least that can disagree and still
answer. In `OperatorNetwork` two rivals suffice for every way of parting, and a
scan whose operators are behind by one, two or three events. In the registry a
gap in a history needs a registration and two transfers, a lost list entry two
calls; with four events the run has 2.2 million states and no other outcome.

Two sockets of one peer are the least that race, and a second peer shows that the
table keeps them apart. Two calls are the least that overlap at an await, a second
secret and nonce let one be forgotten or replaced, and with lives of 0 and a clock
of 0 to 1 a challenge and a session are fresh or expired; a limit of one nonce
makes them forgotten at the second. Two ledgers and five lines allow a mint, a sale
of both tokens, an embedding and two transfers, or an import of an older ledger
over them. Of two prices, 1000 sats make both fees their least value and more than
the price, 300001 sats are charged by percentage and leave a rounding. The three
addresses of a bootstrap come one from each source. Four events make a Merkle tree
of two levels, three one with an unpaired hash. Four operators for two seats let
one join, one leave and one be refused; the two orders of the operators differ in
who is first. Nine sats among two members leave a rounding; three recordings are two
committees and one of them again, and two reports a payment reported again or the
payments of both settlements (`records` and `reports` count them).

**Fairness.** `OperatorNode!FairSpec` has weak fairness of each task's step: the
event loop and libuv's thread pool complete every file operation. In
`OfferPayments!FairSpec` the timer starts each idle run, the explorer's calls
end (with an answer or a failure: `Look` may always see nothing) and time passes. Nothing is assumed
of buyers, of the chain, or of crashes. `Bootstrap` has weak fairness of each
call's step: the DNS query and the requests have timeouts and an attempt ends.

**Deadlock** is checked everywhere but in `OffersSafe`, where a torn wallet file
stops the service for good, and in the two service runs, whose parts stop when
their bounds are reached.

## 4. Proofs

Every invariant that a passing run checks is proved, and so are the action
properties and the refinement. Of each liveness property the part that does not
need fairness is proved: what is left to do is bounded and shrinks, and nothing is
left over when it is done; TLC checks the rest. Except where a hypothesis is named
below, theorems hold for all values of the constants that the assumptions allow,
hence for any number of requests, users, offers, operators.

### A node, whatever overlaps (`OperatorNodeProofs`)

`TypeCorrect`, by one lemma per action, is the type invariant. `SafeInvariant` is
the inductive invariant `SafeInv`: `TypeOK`, the three claims below, and
`TaskSafe`, which says what a request has established at each program counter. It
is needed because the claims alone are not inductive: that `WriteItem` leaves a
replayed record follows from what `Reread` established two awaits earlier, and that
must be shown to survive every step of every other request. The facts used for
that only grow (`Grows`: stored files, existing indexes), so the lemmas `Keep...`
show that a step that only grows them disturbs no other task, and each action then
has to be looked at for its own task alone. From it:

* `ItemAlwaysReplay`: every record ever written is the replay of a stored chain;
* `StoreAlwaysReplays`: every stored chain event replays and its predecessor was
  stored before it;
* `AcceptedAlwaysStored`: an acknowledged event has its file and its index;
* `RequestsRunOut`: by its program counter a request has at most twelve file
  operations and its answer left (`StepsLeft`), each of its steps leaves it fewer, and steps of
  others leave it as it is, so it ends if it is let run.

They hold with races: what races break is agreement on *which* legal chain an
item follows (the violated runs), never that it is a legal one.

### A node without races on one item (`OperatorNodeSerial`)

`submitEvent` takes no lock. What a node promises without the race is therefore
stated under `[]Apart`, a hypothesis about the callers: requests that are in
progress at one time are about different items. Requests about different items,
readers and crashes still come anywhere. Its invariant `SerialInv` adds to `SafeInv`
that what a request has read is still what is on disk (`Current`), that an item's
last event and all predecessors of listed events are listed (`Covered`), and that
what a reader holds is linked (`ReaderSafe`). From it:

* `SerialNodeIsRegister`: every step is a step of `OwnershipRegister` or changes
  nothing of it. Effect and answer are two steps there as in the code: an event takes
  effect at once when its record lands (`done`), and only such an event is answered
  (`accepted`). A crash may come between them, and then an effect stays without
  its answer; an answer without its effect, or half an effect, never happens.
  `OneAtATimeIsRegister` is the run's special case of one task;
* `ProofAlwaysComplete`: a proof that `getItemProof` serves leads from the record's
  last event back to the mint, although its parts are read at different times;
* `SerialNodeNeverForks` (with `MintsOnce`, each mint sent once): no two accepted
  events have one predecessor, nor two that took effect (`NoDoneFork`), answered or
  not. The invariant needed is that every event that took effect is at most as high as the record of its item (`ChainsBehind`): the record an event
  is validated against is then ahead of all siblings of that event;
* `ListingAlwaysValid`: as long as nothing has crashed, what is listed of an item
  between requests is a chain `validateEventChain` accepts, up to the record. The
  invariant `ListInv` says that the listing is the chain of the record, or that chain
  and one event more while a request is between its two writes. Its hypotheses are
  the conditions without which a client does reject a listing, and the code checks
  none of them: an item is minted once, nothing but its chain is listed with it
  (`ItemsHaveChains`: no attestations), and signers do not date an event before its
  predecessor (`TimesOrdered`: the client compares times, `validateTransition` does
  not);
* `AcceptedAlwaysKept` (with `MintsOnce`), crashes included: an item of which an
  event was accepted has a file, and a record that can be read has every accepted
  event of its mint in its history. A stored event the item never saw may hang
  beside the chain after a crash; an accepted one may not. The invariant `KeptInv`
  says it of the last record written, torn files included: the request that answers
  has validated its event against that record (`Current`) and only lengthens its
  history, and an event whose mint was not accepted was not accepted either;
* `NothingStaysBehind`: as long as nothing has crashed, an event that has a file was
  took effect or its request is still under way (`Carries`). `LeftInv` adds that the
  files of an item are whole but for the one its request is writing (`FilesWhole`);
  with `Current`, neither a torn file nor `applyEvent` then refuses what was saved.
  With `RequestsRunOut` this is `SavedIsAccepted` but for the fairness.

### Offers and payments (`OfferPaymentsProofs`)

`SafeInvariant`: the wallet file holds the next index, taken addresses are below
it, a callback is filed under its own offer's address, and an answer a run carries
is still true of the chain. From it `AddressesAreFresh` (no address is given out
twice, restarts included) and `PaidMeansMoney` (an offer is paid and charged
only by its own confirmed money or its own paid invoice). `PendingAlwaysWatched`
needs more of the offers that are still being made (`WatchInv`): an address given to
nobody has seen no money, and an offer that waits for its invoice has a payment
that no run can have confirmed yet, since its buyer does not know the address.

`OverduePaymentsSettle` is about the loop of `checkPayments`, whose runs overlap and
act on answers from before. A payment whose time is over stays so; the next run that
comes to its address settles it or stops at an address before; and it can be
unsettled only by the answer of a run that began in time (`OldRuns`), which then is
done, and no run becomes one. So it changes at most as often as there are old runs,
and `PaymentsSettle` needs beyond that only that runs come and that time passes. The
invariant is `AskedInTime`: a run asks about no payment that was late when it began.

### Several operators (`OperatorNetworkProofs`)

`TypeCorrect`; `DivergenceAlwaysSigned` (every record is the replay of events its
operator stored, so two histories of one item part at two rivals that were both
stored, hence signed); and `ScansNeverGoBack`. The last has two hypotheses of its
own, a quorum above half (`2 * M > Cardinality(Operator)`, which the code does not
enforce) and one mint per item delivered once (`MintsOnce`). Its invariant says
that what a consensus found is held, or was passed, by M operators (`SeenIsHeld`),
that answers are never ahead of the operators that gave them (`AnswersAreBehind`)
and that histories are rooted in the one mint (`HistoriesRooted`); two majorities
share an operator.

`OperatorsAreRegisters` shows that this module and `OperatorNode` fit together: what
an operator does here is the specification `OwnershipRegister`, which
`SerialNodeIsRegister` shows a node to implement file by file.

`ReplayExists` and `ReplayUnique` are about the one constant with an equation:
whatever the universe of events, some function satisfies `ReplayAssumption` and only
one does. An event is replayable only if it is one higher than its predecessor, so
both go by the height, as an induction over a set of numbers: existence takes the
least relation closed under the equation (`Reached`) and shows it to be functional.

### Item registry (`ItemRegistryProofs`)

The inductive invariant `SafeInv` has, besides the properties, what a call that is
under way can still rely on (`CallsHold`; more when nothing has overlapped,
`CallsAreCurrent`) and the same claims about the exported ledger (`BackupIsSound`),
since an import makes it the ledger. From it `OverlapsKeepAccount`, for any number
of overlapping calls and imports, and, as long as no calls have overlapped,
`QuietEntriesAreSound` and `QuietIndexesAgree`.

### Services of a node (`NodeServicesProofs`)

*Peer connections.* A table entry is live in every state (`TableAlwaysLive`) and,
without a race, what is known of a peer is its own (`PeerDataAlwaysOwn`). The
invariant adds that without a race a peer id has one socket alive
(`OneSocketEach`), so the entry a message is looked up by is its own socket's, and
that a PONG is only owed where a PING was sent.

*Logins.* `OneLoginAlways`, `SecondFactorAlwaysChecked`, `NonceAlwaysSpentOnce` and
`EnabledSecretAlwaysProven`. The invariant says which calls at their await can hold
a challenge or a nonce (`ChallengeHeldOnce`, `NonceHeldOnce`), and that a set-up
that is going to store its secret is of a user whose second factor is not enabled
(`SetupsAreUnanswered`), for the exported users too, since an import makes them the
users. `AuthTypeCorrect` bounds the counters: every session
that a challenge makes takes a call of `verifyLogin` that held it, and calls that have
ended cannot hold it again, so sessions made and calls that may still make one are
together at most the calls there can be, and likewise for accepted actions and
those that were begun (`CountsInv`, with cardinalities).

*Token ledgers.* `LedgerAlwaysAuditable`: a token's history after its mint is the
concatenation, over all transactions in their order, of the entries each owes it.
The invariant is the property for every ledger and for the exported one, and that a
ledger owes nothing to a token it does not hold. The concatenation is a recursive
function; that it has a solution, and what one more transaction does to it, is
shown by an induction over a *set* of numbers (see Sums). `DataAlwaysPermanent`
follows from the actions.

*Sales.* `SoldByOwnerAlways`: its invariant `Fits` says of each sale under way that
if the item still has the height the sale saw, its owner is the sale's seller: every
step of anything else raises the height, which makes the claim void and the sale's
next event unacceptable. That is why a lock by another sale needs no lock in the
manager. `EscrowAlwaysSolvent`: to each sale belongs a `Reserve`, what its buyer paid
until its seller is sent his part and then the fees that are still to be paid, and
the balance is at least the sum of the reserves. Each step lowers the balance by no
more than the one reserve it uses (the roundings of the fees only leave more).
`SaleTypeCorrect` is its type.

`ServicesTypeCorrect` and `ServicesCorrect` carry all this over to the specification
of the run, in which the four take turns: a step of it is a step of one of them and
leaves the variables of the others.

### Services of the network (`NetworkServicesProofs`)

*Bootstrap.* `OutcomeAlwaysTrue`, `RediscoveryAlwaysKeeps`: some peer is connected
exactly if some call connected one, and the peers a call has still to try are known.
`CallsRunOut`: a call has a number of manifest addresses and of attempts before it
(`Left`) that each of its steps lowers and no step of another call raises; `CallsEnd`
is left with the fairness.

*Checkpoints.* `AnchorAlwaysBinds`, for trees of every size. Two trees over lists of
the same length have levels of the same lengths, so going down from equal roots each
level is equal to the other's; the length is in the commitment, without which a
list with its last hash repeated would have the same root. `CommitmentBinds` and
`CommitmentKeeps` are the two halves: equal commitments have equal kept parts, and
equal kept parts have equal commitments.

*Committees.* `RefusedNeverOperate`: a candidate has votes only when the sponsor's
days are over without a refusal, and nobody refuses later
(`VotesFollowTheSponsor`). `CommitteesAlwaysStable`: a committee is the first seats
of a fixed order, so one operator more or less moves one seat; counted with
cardinalities.

*Earnings.* `SharesAlwaysFit` is arithmetic of percentages and roundings, for any
amount. `CreditAlwaysForWork`: a member who was not mixed is owed by one settlement
at a time, no payment of an earlier one comes again while that one is awaited, and
its address is watched for that one (`CreditInv`).
`BooksAlwaysBalance`: the counters that are kept by addition and subtraction are sums
over the payments (`BooksInv`).

`NetworkCorrect` carries the four over to the specification of the run.

### Sums

`SumChange`: a sum over a finite set changes by what the changed element
contributes. The library defines such sums by recursion over a set, with the element
chosen by `CHOOSE`; `SumRemove` proves, by induction over the subsets
(`PartsInduction`), that the choice makes no difference. Both inductions are over
sets (`SetOfNatInduction`: a set of numbers with 0 and with n + 1 for each n is all of
them), since those of the library take an operator as a parameter.

### Assumptions and what is only model-checked

Assumptions: `BodyAssumption`, `NullAssumption`, `ReplayAssumption` (`EventLog`),
`NodeAssumption`, `OfferAssumption`, `RegistryAssumption`, `PeerAssumption`,
`AuthAssumption`, `TokenAssumption`, `SaleAssumption`, `BootstrapAssumption`,
`AuthBounds`, `CheckpointAssumption`, `CommitteeAssumption`, `EarningsAssumption` and those of
`OperatorNetwork`; TLC evaluates them in the runs. They say that sets of names are
finite where the code counts them (keys, nonces, calls, seeds, addresses: the tables
and lists of one process; `AuthBounds` is the one of the logins), that percentages and bounds are in range, and
that values like `NoPeer` and `NoPayment`, which stand for a missing entry, are
none of the records they stand beside.
`Replay` is a constant with its recursive equation as an assumption, which defines it
(`ReplayExists`, `ReplayUnique`); `MCReplay` computes it for the instances.
`Ancestors`, the history of an event, needs no assumption: it is a least set.

Only model-checked:

* the liveness properties `SavedIsAccepted`, `PaymentsSettle` and `CallsEnd` as they
  stand: fairness and ENABLED are beyond the prover. Their safety halves are proved
  (`RequestsRunOut` and `NothingStaysBehind`, `OverduePaymentsSettle`,
  `CallsRunOut`): what is left to TLC is that steps that are always enabled come;
* `Apart` itself where a caller has to provide it: `NodeRaces` and `NodeRaceLocks`
  show what happens without it.

## 5. Plan

Done: the item protocol (state machine, operator, several operators and the
scanning client), offers and payments, the registry, the services of a node and
those of the network; proofs of all their invariants, action properties, of the
refinements of `OwnershipRegister` and of the safety halves of the liveness
properties. Next, in this order:

1. Proofs: what a listing still is after a crash. That accepted events are kept is
   proved with crashes; the listing may then hold an event the item never saw, and
   which of two events at one height the item follows has to be said of it.
2. `OperatorNetwork` with two items: the heights `proposeEvent` hands out from the
   highest event of all items, where `validateTransition` wants the item's own.
3. The demo registry and the mobile sessions of `api-server.ts`, two tables in
   memory that no other part reads.
4. The lists of payments made by `FeeDistributor` and the batch fees of the
   earnings tracker.

### Not modelled

* `health-metrics.ts`: statistics over samples; nothing else reads them.
* Key derivation and signing (`crypto`, `hd-wallet`, `wallet-manager`), issuers:
  pure functions on keys; their results are inputs of the models.
* The HTTP dialects of Lightning backends and explorers, `BitcoinRPCAdapter` and
  `LightningAdapter`: I/O, modelled by the results their callers tell apart.
* `verifyCommitteeSelection`, `verifyMerkleProof`, `anchorCheckpoint`: as shipped
  they cannot succeed, or have no caller.
* Queries, reports and statistics of the modelled classes: they change nothing.
* Start-up code, exports, demos and web pages: no protocol state.
