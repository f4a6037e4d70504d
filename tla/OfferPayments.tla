---------------------------- MODULE OfferPayments ----------------------------
(***************************************************************************)
(* Offers and their payments: the /api/offers handlers of                  *)
(* operator/api-server.ts over bitcoin/payment-service.ts and              *)
(* bitcoin/payment-monitor.ts.  One thread runs everything, and a handler  *)
(* gives way only at an await, so an action is the code from one await to  *)
(* the next.  checkPayments is started by a timer whether or not earlier   *)
(* runs have ended: several runs may wait for the block explorer at once.  *)
(* The chain, the Lightning backend and the buyers are the environment.    *)
(***************************************************************************)
EXTENDS Integers

CONSTANTS
   Offer,          \* offer ids, drawn fresh for every create request
   Run,            \* slots for checkPayments runs in progress
   RealLightning,  \* is a Lightning backend configured (else the mock, never paid)
   Expiry,         \* the lifetime of an offer
   LastCreate,     \* bound on the time of create requests
   MaxNow,         \* bound on the clock
   MaxAddress,     \* bound on the derivation indexes of the wallet
   MaxCrashes      \* bound on crashes

ASSUME OfferAssumption ==
   /\ RealLightning \in BOOLEAN
   /\ {Expiry, LastCreate, MaxNow, MaxAddress, MaxCrashes} \subseteq Nat

None == -1
Address == 0..MaxAddress

VARIABLES
   stage,         \* [Offer -> progress of the create request]
   address,       \* [Offer -> the address derived for it]
   addressIndex,  \* the next index to derive
   wallet,        \* payment-wallet.json: its lastIndex, or torn
   payment,       \* PaymentMonitor.payments and callbacks, by address
   offers,        \* node.offers: status by offer id, "none" if not in the map
   fees,          \* how many fee records name the offer, up to 2
   run,           \* locals of each checkPayments run
   chain,         \* what the explorer knows of each address
   invoice,       \* [Offer -> Lightning invoice]
   polling,       \* the offers whose invoice is being polled
   now,           \* Date.now()
   crashes

money == <<chain, invoice>>
service == <<addressIndex, wallet, payment>>
vars == <<stage, address, service, offers, fees, run, money, polling, now, crashes>>

Stage == {"new", "invoicing", "open", "dead"}
PaymentStatus == {"none", "pending", "partial", "confirmed", "expired"}
OfferStatus == {"none", "PENDING", "PAID", "CANCELLED"}
\* No output, too little, all of it in the mempool, all of it in a block.
Utxos == {"none", "short", "unconfirmed", "block"}
Torn == -1

NoPayment == [status |-> "none", expiresAt |-> 0, offer |-> None]
NoRun == [pc |-> "idle", now |-> 0, at |-> None, seen |-> "none"]

Init ==
   /\ stage = [o \in Offer |-> "new"]
   /\ address = [o \in Offer |-> None]
   /\ addressIndex = 0
   /\ wallet = 0
   /\ payment = [a \in Address |-> NoPayment]
   /\ offers = [o \in Offer |-> "none"]
   /\ fees = [o \in Offer |-> 0]
   /\ run = [r \in Run |-> NoRun]
   /\ chain = [a \in Address |-> "none"]
   /\ invoice = [o \in Offer |-> [status |-> "none", expiresAt |-> 0]]
   /\ polling = {}
   /\ now = 0
   /\ crashes = 0
-----------------------------------------------------------------------------
(* Creating and cancelling offers *)

\* The wallet file is written before the index is advanced (a seeded bug).
SavedBefore(index) == index

\* saveAddressIndex: lastIndex in the file, after addressIndex++.
SavedIndex(index) == index + 1

\* createPaymentRequest up to its await: derive an address, save the index,
\* register the payment with the callback of this offer.
Create(o) ==
   /\ stage[o] = "new" /\ wallet # Torn
   /\ now <= LastCreate /\ addressIndex <= MaxAddress
   /\ stage' = [stage EXCEPT ![o] = "invoicing"]
   /\ address' = [address EXCEPT ![o] = addressIndex]
   /\ addressIndex' = addressIndex + 1
   /\ wallet' = SavedIndex(addressIndex)
   /\ payment' = [payment EXCEPT ![addressIndex] =
                    [status |-> "pending", expiresAt |-> now + Expiry, offer |-> o]]
   /\ UNCHANGED <<offers, fees, run, money, polling, now, crashes>>

\* createInvoice answers or fails; either way the offer enters the map and the
\* buyer learns the address.  An invoice starts its own poller.
Invoiced(o, ok) ==
   /\ stage[o] = "invoicing" /\ (ok \/ RealLightning)
   /\ stage' = [stage EXCEPT ![o] = "open"]
   /\ offers' = [offers EXCEPT ![o] = "PENDING"]
   /\ IF ok THEN /\ invoice' = [invoice EXCEPT ![o] = [status |-> "open",
                                                       expiresAt |-> now + Expiry]]
                 /\ polling' = polling \cup {o}
            ELSE UNCHANGED <<invoice, polling>>
   /\ UNCHANGED <<address, service, fees, run, chain, now, crashes>>

Cancel(o) ==
   /\ offers[o] # "none"
   /\ offers' = [offers EXCEPT ![o] = "CANCELLED"]
   /\ UNCHANGED <<stage, address, service, fees, run, money, polling, now, crashes>>

\* The callback without its test for 'confirmed' (a seeded bug).
CalledPending(offs, os, status) ==
   [o \in Offer |-> IF o \notin os \/ offs[o] = "none" THEN offs[o] ELSE "PENDING"]

\* The callbacks of the create requests of os, for payments with that status:
\* what they make of the offers they find in the map, and of the fee records.
Called(offs, os, status) ==
   [o \in Offer |-> IF o \notin os \/ offs[o] = "none" THEN offs[o]
                    ELSE IF status = "confirmed" THEN "PAID" ELSE "PENDING"]

Charged(o, status) ==
   IF offers[o] = "none" \/ status # "confirmed" THEN fees
   ELSE [fees EXCEPT ![o] = IF @ < 2 THEN @ + 1 ELSE 2]
-----------------------------------------------------------------------------
(* checkPayments *)

\* Not skipped by the loop.
Watched(p) == p.status \in {"pending", "partial"}

\* The expiry test made for untouched payments only (a seeded bug).
LateUntouched(p, t) == p.status = "pending" /\ t > p.expiresAt

\* now > payment.expiresAt
Late(p, t) == t > p.expiresAt

\* The loop goes on at address from with the payments and offers as given,
\* expiring those past their time, until one needs an answer of the explorer.
\* The time is the one read when the run started.
Continue(r, t, from, pays, offs) ==
   LET rest == {a \in Address : a >= from /\ Watched(pays[a])}
       ask == {a \in rest : ~Late(pays[a], t)}
       due == {a \in rest \ ask : \A b \in ask : a < b}
   IN /\ payment' = [a \in Address |->
            IF a \in due THEN [pays[a] EXCEPT !.status = "expired"] ELSE pays[a]]
      /\ offers' = Called(offs, {pays[a].offer : a \in due}, "expired")
      /\ \/ ask = {} /\ run' = [run EXCEPT ![r] = NoRun]
         \/ \E a \in ask :
               /\ \A b \in ask : a <= b
               /\ run' = [run EXCEPT ![r] =
                            [pc |-> "asking", now |-> t, at |-> a, seen |-> "none"]]

\* setInterval fires, whatever the other runs are doing.
StartRun(r) ==
   /\ run[r].pc = "idle" /\ wallet # Torn
   /\ Continue(r, now, 0, payment, offers)
   /\ UNCHANGED <<stage, address, addressIndex, wallet, fees, money, polling, now, crashes>>

\* The explorer looks the address up, or fails; its answer takes its time.
Look(r) ==
   /\ run[r].pc = "asking"
   /\ \E utxos \in {chain[run[r].at], "none"} :
         run' = [run EXCEPT ![r].pc = "answered", ![r].seen = utxos]
   /\ UNCHANGED <<stage, address, service, offers, fees, money, polling, now, crashes>>

\* Unconfirmed outputs are enough (a seeded bug).
StatusZeroConf(utxos) == IF utxos \in {"block", "unconfirmed"} THEN "confirmed" ELSE "partial"

\* The status an answer gives the payment.
StatusOf(utxos) == IF utxos = "block" THEN "confirmed" ELSE "partial"

\* checkAddress returns: update the payment, call back, and go on.
Answer(r) ==
   LET a == run[r].at  o == payment[a].offer  status == StatusOf(run[r].seen) IN
   /\ run[r].pc = "answered"
   /\ IF run[r].seen = "none"
      THEN Continue(r, run[r].now, a + 1, payment, offers) /\ UNCHANGED fees
      ELSE /\ Continue(r, run[r].now, a + 1, [payment EXCEPT ![a].status = status],
                       Called(offers, {o}, status))
           /\ fees' = Charged(o, status)
   /\ UNCHANGED <<stage, address, addressIndex, wallet, money, polling, now, crashes>>
-----------------------------------------------------------------------------
(* Lightning polling, the environment, crashes *)

\* invoice && invoice.status === 'paid'
FoundPaid(answer) == answer = "paid"

\* checkInvoice answers.  It may have been asked before the invoice was paid,
\* and a failed check answers null, which ends the polling.
Poll(o, answer) ==
   /\ o \in polling
   /\ \/ answer = "paid" /\ invoice[o].status = "paid"
      \/ answer = "pending"
      \/ answer = "failed" /\ RealLightning
   /\ IF FoundPaid(answer) THEN /\ offers' = Called(offers, {o}, "confirmed")
                                 /\ fees' = Charged(o, "confirmed")
                            ELSE UNCHANGED <<offers, fees>>
   /\ polling' = IF answer = "pending" /\ now < invoice[o].expiresAt
                 THEN polling ELSE polling \ {o}
   /\ UNCHANGED <<stage, address, service, run, money, now, crashes>>

\* The buyer of an offer it was given pays its address; short of the price it
\* may top up, and what is not in a block yet may be replaced.
Deposit(o, utxos) ==
   LET a == address[o] IN
   /\ stage[o] = "open"
   /\ <<chain[a], utxos>> \in
         {<<"none", "short">>, <<"none", "unconfirmed">>, <<"short", "block">>,
          <<"unconfirmed", "block">>, <<"unconfirmed", "none">>}
   /\ chain' = [chain EXCEPT ![a] = utxos]
   /\ UNCHANGED <<stage, address, service, offers, fees, run, invoice, polling, now, crashes>>

PayInvoice(o) ==
   /\ RealLightning
   /\ invoice[o].status = "open" /\ now < invoice[o].expiresAt
   /\ invoice' = [invoice EXCEPT ![o].status = "paid"]
   /\ UNCHANGED <<stage, address, service, offers, fees, run, chain, polling, now, crashes>>

Tick ==
   /\ now < MaxNow
   /\ now' = now + 1
   /\ UNCHANGED <<stage, address, service, offers, fees, run, money, polling, crashes>>

\* What a restart leaves: everything but the wallet file was in memory.
Forget ==
   /\ crashes < MaxCrashes
   /\ crashes' = crashes + 1
   /\ payment' = [a \in Address |-> NoPayment]
   /\ offers' = [o \in Offer |-> "none"]
   /\ fees' = [o \in Offer |-> 0]
   /\ run' = [r \in Run |-> NoRun]
   /\ polling' = {}
   /\ UNCHANGED <<address, money, now>>

\* The process dies and the constructor reads the wallet file again.
Crash ==
   /\ Forget
   /\ stage' = [o \in Offer |-> IF stage[o] = "invoicing" THEN "dead" ELSE stage[o]]
   /\ addressIndex' = IF wallet = Torn THEN addressIndex ELSE wallet
   /\ UNCHANGED wallet

\* It dies inside saveAddressIndex, between the truncation and the write: the
\* file with the mnemonic is empty and the constructor throws at every start.
CrashInSave(o) ==
   /\ stage[o] = "new" /\ wallet # Torn
   /\ Forget
   /\ wallet' = Torn
   /\ stage' = [p \in Offer |-> IF p = o \/ stage[p] = "invoicing" THEN "dead" ELSE stage[p]]
   /\ UNCHANGED addressIndex

RunStep(r) == StartRun(r) \/ Look(r) \/ Answer(r)

Next ==
   \/ \E o \in Offer : Create(o) \/ Cancel(o) \/ PayInvoice(o) \/ CrashInSave(o)
   \/ \E o \in Offer, ok \in BOOLEAN : Invoiced(o, ok)
   \/ \E o \in Offer, answer \in {"paid", "pending", "failed"} : Poll(o, answer)
   \/ \E o \in Offer, utxos \in Utxos : Deposit(o, utxos)
   \/ \E r \in Run : RunStep(r)
   \/ Tick
   \/ Crash

Spec == Init /\ [][Next]_vars

\* The timer of checkPayments fires, calls to the explorer end, and time passes.
FairSpec ==
   /\ Spec
   /\ \A r \in Run : WF_vars(StartRun(r)) /\ WF_vars(Look(r)) /\ WF_vars(Answer(r))
   /\ WF_vars(Tick)
-----------------------------------------------------------------------------
(* Properties *)

\* Every variable has its type.
TypeOK ==
   /\ stage \in [Offer -> Stage]
   /\ address \in [Offer -> Address \cup {None}]
   /\ addressIndex \in 0..(MaxAddress + 1)
   /\ wallet \in 0..(MaxAddress + 1) \cup {Torn}
   /\ payment \in [Address -> [status : PaymentStatus, expiresAt : 0..(MaxNow + Expiry),
                               offer : Offer \cup {None}]]
   /\ offers \in [Offer -> OfferStatus]
   /\ fees \in [Offer -> 0..2]
   /\ run \in [Run -> [pc : {"idle", "asking", "answered"}, now : 0..MaxNow,
                       at : Address \cup {None}, seen : Utxos]]
   /\ chain \in [Address -> Utxos]
   /\ invoice \in [Offer -> [status : {"none", "open", "paid"},
                             expiresAt : 0..(MaxNow + Expiry)]]
   /\ polling \subseteq Offer
   /\ now \in 0..MaxNow
   /\ crashes \in 0..MaxCrashes

\* Two offers never share an address, not even across a restart that has
\* forgotten the offers: the index is saved before the address is given out.
NoAddressReuse ==
   \A o, p \in Offer : o # p /\ address[o] # None => address[o] # address[p]

\* An offer is PAID, and its fee recorded, only when its own address holds the
\* whole price in a block or its own invoice is paid - whatever answers arrive
\* late, and whatever was paid before a restart.
PaidByOwnMoney ==
   \A o \in Offer : offers[o] = "PAID" \/ fees[o] > 0 =>
      (address[o] # None /\ chain[address[o]] = "block") \/ invoice[o].status = "paid"

\* The inductive invariant behind the two above.  Addresses below the index are
\* taken, the wallet file holds the index, an offer gets an invoice once, a callback is filed under the address
\* of its offer, and a run has been answered what the chain still says.
IndexSaved ==
   /\ wallet \in {addressIndex, Torn}
   /\ \A o \in Offer : address[o] # None => address[o] < addressIndex /\ stage[o] # "new"

NotYetInvoiced ==
   \A o \in Offer : stage[o] \in {"new", "invoicing"} => invoice[o].status = "none"

CallbackOfAddress ==
   \A a \in Address : payment[a].status # "none" =>
      payment[a].offer \in Offer /\ address[payment[a].offer] = a

AnswerHolds ==
   \A r \in Run : run[r].pc # "idle" =>
      /\ run[r].at \in Address /\ payment[run[r].at].status # "none"
      /\ run[r].seen = "block" => chain[run[r].at] = "block"

SafeInv ==
   /\ TypeOK /\ NoAddressReuse /\ PaidByOwnMoney
   /\ IndexSaved /\ NotYetInvoiced /\ CallbackOfAddress /\ AnswerHolds

\* An offer in the map is watched on its own address by its own callback, and
\* one shown as PENDING has no payment the monitor holds confirmed (and so will
\* never look at again).
PendingIsWatched ==
   \A o \in Offer : offers[o] # "none" =>
      /\ payment[address[o]].offer = o
      /\ offers[o] = "PENDING" => payment[address[o]].status # "confirmed"

\* The inductive invariant behind it.  An offer in the map is open and its payment
\* is registered; one that waits for its invoice has not been shown to anybody, so
\* nobody has paid its address and no run can have confirmed its payment.
AddressGiven ==
   /\ \A o \in Offer : stage[o] \in {"invoicing", "open"} => address[o] # None
   /\ \A a \in Address : a >= addressIndex => chain[a] = "none"

OfferIsOpen ==
   \A o \in Offer : offers[o] # "none" =>
      stage[o] = "open" /\ payment[address[o]].status # "none"

InvoicingIsUnpaid ==
   \A o \in Offer : stage[o] = "invoicing" =>
      /\ payment[address[o]].offer = o
      /\ payment[address[o]].status \notin {"none", "confirmed"}
      /\ chain[address[o]] = "none"

WatchInv ==
   SafeInv /\ PendingIsWatched /\ AddressGiven /\ OfferIsOpen /\ InvoicingIsUnpaid

\* Without a crash every payment is confirmed or expired in the end, and stays
\* so, however many runs overlap and however the explorer fails.
PaymentsSettle ==
   \A a \in Address : payment[a].status # "none" ~> [](payment[a].status \in {"confirmed", "expired"})

\* A paid offer does not become unpaid: the callback is for confirmed payments.
PaidIsKept == [][\A o \in Offer : offers[o] = "PAID" => offers'[o] # "PENDING"]_vars
=============================================================================
