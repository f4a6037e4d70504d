------------------------- MODULE OfferPaymentsProofs -------------------------
(***************************************************************************)
(* SafeInv of OfferPayments is inductive: whatever runs of checkPayments   *)
(* overlap, whatever answers arrive late and whenever the process dies,    *)
(* addresses are not reused and only an offer's own money makes it PAID.   *)
(***************************************************************************)
EXTENDS OfferPayments, TLAPS

\* Initially there is nothing.
LEMMA InitSafe == Init => SafeInv
BY OfferAssumption
   DEF Init, SafeInv, TypeOK, NoAddressReuse, PaidByOwnMoney, IndexSaved, NotYetInvoiced,
       CallbackOfAddress, AnswerHolds, Address, None, NoPayment, NoRun, Stage,
       PaymentStatus, OfferStatus, Utxos

\* The loop of checkPayments: it only expires payments, shows offers as PENDING
\* and asks about a payment that is there.
LEMMA ContinueSafe ==
   ASSUME NEW r \in Run, NEW t \in 0..MaxNow, NEW from,
          NEW pays \in [Address -> [status : PaymentStatus, expiresAt : 0..(MaxNow + Expiry),
                                    offer : Offer \cup {None}]],
          NEW offs \in [Offer -> OfferStatus],
          TypeOK, Continue(r, t, from, pays, offs)
   PROVE  /\ payment' \in [Address -> [status : PaymentStatus, expiresAt : 0..(MaxNow + Expiry),
                                       offer : Offer \cup {None}]]
          /\ offers' \in [Offer -> OfferStatus]
          /\ run' \in [Run -> [pc : {"idle", "asking", "answered"}, now : 0..MaxNow,
                               at : Address \cup {None}, seen : Utxos]]
          /\ \A a \in Address : /\ payment'[a].offer = pays[a].offer
                                /\ payment'[a].status = "none" <=> pays[a].status = "none"
          /\ \A o \in Offer : offers'[o] = "PAID" => offs[o] = "PAID"
          /\ \A q \in Run : q # r => run'[q] = run[q]
          /\ run'[r].pc # "idle" => /\ run'[r].at \in Address
                                    /\ pays[run'[r].at].status # "none"
                                    /\ run'[r].seen = "none"
<1> DEFINE rest == {a \in Address : a >= from /\ Watched(pays[a])}
           ask == {a \in rest : ~Late(pays[a], t)}
           due == {a \in rest \ ask : \A b \in ask : a < b}
<1>1. payment' = [a \in Address |->
            IF a \in due THEN [pays[a] EXCEPT !.status = "expired"] ELSE pays[a]]
  BY DEF Continue
<1>2. offers' = Called(offs, {pays[a].offer : a \in due}, "expired") BY DEF Continue
<1>3. \/ run' = [run EXCEPT ![r] = NoRun]
      \/ \E a \in ask : run' = [run EXCEPT ![r] =
            [pc |-> "asking", now |-> t, at |-> a, seen |-> "none"]]
  BY DEF Continue
<1>4. run \in [Run -> [pc : {"idle", "asking", "answered"}, now : 0..MaxNow,
                       at : Address \cup {None}, seen : Utxos]]
  BY DEF TypeOK
<1>5. \A a \in rest : a \in Address /\ pays[a].status # "none" BY DEF Watched
<1>6. /\ run' \in [Run -> [pc : {"idle", "asking", "answered"}, now : 0..MaxNow,
                           at : Address \cup {None}, seen : Utxos]]
      /\ \A q \in Run : q # r => run'[q] = run[q]
      /\ run'[r].pc # "idle" => /\ run'[r].at \in Address
                                /\ pays[run'[r].at].status # "none"
                                /\ run'[r].seen = "none"
  <2>1. CASE run' = [run EXCEPT ![r] = NoRun]
    BY <1>4, <2>1, OfferAssumption DEF NoRun, Utxos
  <2>2. ASSUME NEW a \in ask,
               run' = [run EXCEPT ![r] = [pc |-> "asking", now |-> t, at |-> a, seen |-> "none"]]
        PROVE  <1>6!1 /\ <1>6!2 /\ <1>6!3
    <3>1. a \in Address /\ pays[a].status # "none" BY <1>5
    <3>2. QED BY <1>4, <2>2, <3>1 DEF Utxos
  <2>3. QED BY <1>3, <2>1, <2>2
<1>7. /\ payment' \in [Address -> [status : PaymentStatus, expiresAt : 0..(MaxNow + Expiry),
                                   offer : Offer \cup {None}]]
      /\ \A a \in Address : /\ payment'[a].offer = pays[a].offer
                            /\ payment'[a].status = "none" <=> pays[a].status = "none"
  BY <1>1, <1>5 DEF PaymentStatus
<1>8. /\ offers' \in [Offer -> OfferStatus]
      /\ \A o \in Offer : offers'[o] = "PAID" => offs[o] = "PAID"
  BY <1>2 DEF Called, OfferStatus
<1>9. QED BY <1>6, <1>7, <1>8

\* A new address is above all those given out, saved before it is used.
LEMMA CreateSafe ==
   ASSUME SafeInv, NEW o \in Offer, Create(o)
   PROVE  SafeInv'
<1> DEFINE a == addressIndex
           p == [status |-> "pending", expiresAt |-> now + Expiry, offer |-> o]
<1>1. /\ stage[o] = "new" /\ wallet # Torn /\ wallet' = a + 1 /\ addressIndex' = a + 1
      /\ address' = [address EXCEPT ![o] = a] /\ payment' = [payment EXCEPT ![a] = p]
      /\ stage' = [stage EXCEPT ![o] = "invoicing"]
      /\ UNCHANGED <<offers, fees, run, chain, invoice, polling, now, crashes>>
  BY DEF Create, SavedIndex, money
<1>2. a \in Address BY DEF SafeInv, TypeOK, Create, Address
<1>3. address \in [Offer -> Address \cup {None}] /\ address[o] = None /\ a \in Nat /\ None \notin Address
  BY <1>1 DEF SafeInv, TypeOK, IndexSaved, Address, None
<1>4. TypeOK'
  <2>1. p \in [status : PaymentStatus, expiresAt : 0..(MaxNow + Expiry), offer : Offer \cup {None}]
    BY OfferAssumption DEF SafeInv, TypeOK, PaymentStatus
  <2>2. addressIndex' \in 0..(MaxAddress + 1) BY <1>1, <1>2, OfferAssumption DEF Address
  <2>3. QED BY <1>1, <1>2, <1>3, <2>1, <2>2 DEF SafeInv, TypeOK, Stage
<1>5. \A q \in Offer : address[q] # None => address[q] < a /\ address[q] # a
  BY <1>3 DEF SafeInv, IndexSaved, Address, None
<1>6. NoAddressReuse' BY <1>1, <1>3, <1>5 DEF SafeInv, NoAddressReuse
<1>7. IndexSaved' BY <1>1, <1>3, <1>5 DEF SafeInv, IndexSaved, TypeOK, Address, None
<1>8. PaidByOwnMoney' BY <1>1, <1>3 DEF SafeInv, PaidByOwnMoney
<1>9. CallbackOfAddress'
  BY <1>1, <1>2, <1>3 DEF SafeInv, CallbackOfAddress, TypeOK
<1>10. AnswerHolds' BY <1>1, <1>2 DEF SafeInv, AnswerHolds, TypeOK
<1>11. NotYetInvoiced' BY <1>1 DEF SafeInv, NotYetInvoiced, TypeOK
<1>12. QED BY <1>4, <1>6, <1>7, <1>8, <1>9, <1>10, <1>11 DEF SafeInv

\* A step that gives out no address, forgets nothing and takes no money back
\* keeps the invariant if PAID and the fees still stand for money.
LEMMA KeepSafe ==
   ASSUME SafeInv, TypeOK', PaidByOwnMoney',
          UNCHANGED <<address, addressIndex, wallet>>,
          \A o \in Offer : stage'[o] = "new" => stage[o] = "new",
          \A a \in Address : /\ payment'[a].offer = payment[a].offer
                             /\ payment'[a].status = "none" <=> payment[a].status = "none",
          \A a \in Address : chain[a] = "block" => chain'[a] = "block",
          AnswerHolds', NotYetInvoiced'
   PROVE  SafeInv'
<1>1. NoAddressReuse' /\ IndexSaved' BY DEF SafeInv, NoAddressReuse, IndexSaved
<1>2. CallbackOfAddress' BY DEF SafeInv, CallbackOfAddress
<1>3. QED BY <1>1, <1>2 DEF SafeInv

\* Steps that leave payments, offers, fees and runs alone and take nothing back.
LEMMA QuietSafe ==
   ASSUME SafeInv, TypeOK', UNCHANGED <<address, service, fees, run>>,
          \A o \in Offer : offers'[o] = "PAID" => offers[o] = "PAID",
          \A o \in Offer : stage'[o] = "new" => stage[o] = "new",
          \A a \in Address : chain[a] = "block" => chain'[a] = "block",
          \A o \in Offer : invoice[o].status = "paid" => invoice'[o].status = "paid",
          NotYetInvoiced'
   PROVE  SafeInv'
<1>1. UNCHANGED <<address, addressIndex, wallet, payment, fees, run>> BY DEF service
<1>2. PaidByOwnMoney'
  BY <1>1 DEF SafeInv, TypeOK, PaidByOwnMoney
<1>3. AnswerHolds' BY <1>1 DEF SafeInv, AnswerHolds
<1>4. QED BY <1>1, <1>2, <1>3, KeepSafe

\* Requests, buyers' payments of invoices.
LEMMA RequestSafe ==
   ASSUME SafeInv, NEW o \in Offer, Cancel(o) \/ PayInvoice(o) \/ (\E ok \in BOOLEAN : Invoiced(o, ok))
   PROVE  SafeInv'
<1>1. CASE Cancel(o)
  <2>1. TypeOK' BY <1>1 DEF Cancel, service, money, SafeInv, TypeOK, OfferStatus
  <2>2. NotYetInvoiced' BY <1>1 DEF Cancel, money, SafeInv, NotYetInvoiced
  <2>3. QED BY <1>1, <2>1, <2>2, QuietSafe DEF Cancel, money, SafeInv, TypeOK
<1>2. CASE PayInvoice(o)
  <2>1. TypeOK' BY <1>2 DEF PayInvoice, service, money, SafeInv, TypeOK
  <2>2. NotYetInvoiced' BY <1>2 DEF PayInvoice, money, SafeInv, NotYetInvoiced, TypeOK
  <2>3. QED BY <1>2, <2>1, <2>2, QuietSafe DEF PayInvoice, money, SafeInv, TypeOK
<1>3. ASSUME NEW ok \in BOOLEAN, Invoiced(o, ok) PROVE SafeInv'
  <2>1. TypeOK'
    <3>1. now + Expiry \in 0..(MaxNow + Expiry) BY OfferAssumption DEF SafeInv, TypeOK
    <3>2. /\ invoice' \in [Offer -> [status : {"none", "open", "paid"}, expiresAt : 0..(MaxNow + Expiry)]]
          /\ polling' \subseteq Offer
      <4>1. CASE ok BY <1>3, <3>1, <4>1 DEF Invoiced, SafeInv, TypeOK
      <4>2. CASE ~ok BY <1>3, <4>2 DEF Invoiced, SafeInv, TypeOK
      <4>3. QED BY <4>1, <4>2
    <3>3. stage' \in [Offer -> Stage] /\ offers' \in [Offer -> OfferStatus]
      BY <1>3 DEF Invoiced, SafeInv, TypeOK, Stage, OfferStatus
    <3>4. QED BY <1>3, <3>2, <3>3 DEF Invoiced, service, SafeInv, TypeOK
  <2>2. stage[o] = "invoicing" /\ stage' = [stage EXCEPT ![o] = "open"] BY <1>3 DEF Invoiced
  <2>3. \A q \in Offer : q # o => invoice'[q] = invoice[q]
    BY <1>3 DEF Invoiced, SafeInv, TypeOK
  <2>4. NotYetInvoiced' BY <2>2, <2>3 DEF SafeInv, NotYetInvoiced, TypeOK
  <2>5. \A q \in Offer : invoice[q].status = "paid" => invoice'[q].status = "paid"
    BY <2>2, <2>3 DEF SafeInv, NotYetInvoiced
  <2>6. \A q \in Offer : /\ offers'[q] = "PAID" => offers[q] = "PAID"
                         /\ stage'[q] = "new" => stage[q] = "new"
    BY <1>3, <2>2 DEF Invoiced, SafeInv, TypeOK
  <2>7. UNCHANGED <<address, service, fees, run, chain>> BY <1>3 DEF Invoiced
  <2>8. QED BY <2>1, <2>4, <2>5, <2>6, <2>7, QuietSafe
<1>4. QED BY <1>1, <1>2, <1>3

\* The clock, the buyers and the explorer's failures.
LEMMA EnvironmentSafe ==
   ASSUME SafeInv, Tick \/ (\E o \in Offer, utxos \in Utxos : Deposit(o, utxos)) \/ UNCHANGED vars
   PROVE  SafeInv'
<1>1. CASE Tick
  <2>1. TypeOK' BY <1>1, OfferAssumption DEF Tick, service, money, SafeInv, TypeOK
  <2>2. NotYetInvoiced' BY <1>1 DEF Tick, money, SafeInv, NotYetInvoiced
  <2>3. QED BY <1>1, <2>1, <2>2, QuietSafe DEF Tick, money
<1>2. ASSUME NEW o \in Offer, NEW utxos \in Utxos, Deposit(o, utxos) PROVE SafeInv'
  <2>1. TypeOK' BY <1>2 DEF Deposit, service, SafeInv, TypeOK
  <2>2. NotYetInvoiced' BY <1>2 DEF Deposit, SafeInv, NotYetInvoiced
  <2>3. \A a \in Address : chain[a] = "block" => chain'[a] = "block"
    BY <1>2 DEF Deposit, SafeInv, TypeOK
  <2>4. QED BY <1>2, <2>1, <2>2, <2>3, QuietSafe DEF Deposit
<1>3. CASE UNCHANGED vars
  <2>1. TypeOK' BY <1>3 DEF vars, service, money, SafeInv, TypeOK
  <2>2. NotYetInvoiced' BY <1>3 DEF vars, money, SafeInv, NotYetInvoiced
  <2>3. QED BY <1>3, <2>1, <2>2, QuietSafe DEF vars, money
<1>4. QED BY <1>1, <1>2, <1>3

\* A poller settles its own offer for its own invoice only.
LEMMA PollSafe ==
   ASSUME SafeInv, NEW o \in Offer, NEW answer \in {"paid", "pending", "failed"}, Poll(o, answer)
   PROVE  SafeInv'
<1>1. UNCHANGED <<stage, address, service, run, money, now, crashes>> BY DEF Poll
<1>2. TypeOK'
  <2>1. offers' \in [Offer -> OfferStatus] /\ fees' \in [Offer -> 0..2]
    <3>1. CASE answer = "paid"
      BY <3>1 DEF Poll, FoundPaid, Called, Charged, SafeInv, TypeOK, OfferStatus
    <3>2. CASE answer # "paid" BY <3>2 DEF Poll, FoundPaid, SafeInv, TypeOK
    <3>3. QED BY <3>1, <3>2
  <2>2. polling' \subseteq Offer BY DEF Poll, SafeInv, TypeOK
  <2>3. QED BY <1>1, <2>1, <2>2 DEF service, money, SafeInv, TypeOK
<1>3. PaidByOwnMoney'
  <2>1. CASE answer = "paid"
    <3>1. invoice[o].status = "paid" /\ offers' = Called(offers, {o}, "confirmed")
          /\ fees' = Charged(o, "confirmed")
      BY <2>1 DEF Poll, FoundPaid
    <3>2. \A q \in Offer : q # o => offers'[q] = offers[q] /\ fees'[q] = fees[q]
      BY <3>1 DEF Called, Charged, SafeInv, TypeOK
    <3>3. QED BY <1>1, <3>1, <3>2 DEF SafeInv, PaidByOwnMoney, money
  <2>2. CASE answer # "paid"
    BY <1>1, <2>2 DEF Poll, FoundPaid, SafeInv, PaidByOwnMoney, money
  <2>3. QED BY <2>1, <2>2
<1>4. AnswerHolds' /\ NotYetInvoiced'
  BY <1>1 DEF SafeInv, AnswerHolds, NotYetInvoiced, service, money
<1>5. QED BY <1>1, <1>2, <1>3, <1>4, KeepSafe DEF service, money
-----------------------------------------------------------------------------
(* checkPayments *)

\* A run only shows offers as PAID for the payment it was answered about.
LEMMA RunSafe ==
   ASSUME SafeInv, NEW r \in Run, NEW t \in 0..MaxNow, NEW from,
          NEW pays \in [Address -> [status : PaymentStatus, expiresAt : 0..(MaxNow + Expiry),
                                    offer : Offer \cup {None}]],
          NEW offs \in [Offer -> OfferStatus],
          Continue(r, t, from, pays, offs),
          \A a \in Address : /\ pays[a].offer = payment[a].offer
                             /\ pays[a].status = "none" <=> payment[a].status = "none",
          \A o \in Offer : offs[o] = "PAID" \/ fees'[o] > 0 =>
             (address[o] # None /\ chain[address[o]] = "block") \/ invoice[o].status = "paid",
          fees' \in [Offer -> 0..2],
          UNCHANGED <<stage, address, addressIndex, wallet, money, polling, now, crashes>>
   PROVE  SafeInv'
<1>1. UNCHANGED <<chain, invoice>> BY DEF money
<1>2. TypeOK BY DEF SafeInv
<1>3. /\ payment' \in [Address -> [status : PaymentStatus, expiresAt : 0..(MaxNow + Expiry),
                                   offer : Offer \cup {None}]]
      /\ offers' \in [Offer -> OfferStatus]
      /\ run' \in [Run -> [pc : {"idle", "asking", "answered"}, now : 0..MaxNow,
                           at : Address \cup {None}, seen : Utxos]]
      /\ \A a \in Address : /\ payment'[a].offer = pays[a].offer
                            /\ payment'[a].status = "none" <=> pays[a].status = "none"
      /\ \A o \in Offer : offers'[o] = "PAID" => offs[o] = "PAID"
      /\ \A q \in Run : q # r => run'[q] = run[q]
      /\ run'[r].pc # "idle" => /\ run'[r].at \in Address
                                /\ pays[run'[r].at].status # "none"
                                /\ run'[r].seen = "none"
  BY <1>2, ContinueSafe
<1>4. \A a \in Address : /\ payment'[a].offer = payment[a].offer
                         /\ payment'[a].status = "none" <=> payment[a].status = "none"
  BY <1>3
<1>8. TypeOK' BY <1>1, <1>2, <1>3 DEF TypeOK
<1>5. PaidByOwnMoney' BY <1>1, <1>3 DEF PaidByOwnMoney
<1>6. AnswerHolds' BY <1>1, <1>3, <1>4 DEF SafeInv, AnswerHolds
<1>7. NotYetInvoiced' BY <1>1 DEF SafeInv, NotYetInvoiced
<1>9. QED BY <1>1, <1>4, <1>5, <1>6, <1>7, <1>8, KeepSafe

\* Every step of a run keeps the invariant.
LEMMA RunStepSafe ==
   ASSUME SafeInv, NEW r \in Run, RunStep(r)
   PROVE  SafeInv'
<1> DEFINE Payments == [Address -> [status : PaymentStatus, expiresAt : 0..(MaxNow + Expiry),
                                    offer : Offer \cup {None}]]
<1>1. /\ payment \in Payments /\ offers \in [Offer -> OfferStatus]
      /\ fees \in [Offer -> 0..2] /\ now \in 0..MaxNow
      /\ run \in [Run -> [pc : {"idle", "asking", "answered"}, now : 0..MaxNow,
                          at : Address \cup {None}, seen : Utxos]]
  BY DEF SafeInv, TypeOK
<1>2. CASE StartRun(r)
  <2>1. Continue(r, now, 0, payment, offers) /\ UNCHANGED <<fees, stage, address,
           addressIndex, wallet, money, polling, now, crashes>>
    BY <1>2 DEF StartRun
  <2>2. QED BY <1>1, <2>1, RunSafe DEF SafeInv, PaidByOwnMoney
<1>3. CASE Look(r)
  <2>1. PICK utxos \in {chain[run[r].at], "none"} :
           run' = [run EXCEPT ![r].pc = "answered", ![r].seen = utxos]
    BY <1>3 DEF Look
  <2>2. run[r].at \in Address /\ UNCHANGED <<stage, address, service, offers, fees, money, polling, now, crashes>>
    BY <1>3 DEF Look, SafeInv, AnswerHolds
  <2>3. utxos \in Utxos BY <2>1, <2>2 DEF SafeInv, TypeOK, Utxos
  <2>4. TypeOK'
    <3>1. run' \in [Run -> [pc : {"idle", "asking", "answered"}, now : 0..MaxNow,
                            at : Address \cup {None}, seen : Utxos]]
      BY <1>1, <2>1, <2>3
    <3>2. QED BY <2>2, <3>1 DEF SafeInv, TypeOK, service, money
  <2>5. AnswerHolds'
    <3>1. utxos = "block" => chain[run[r].at] = "block" BY <2>1
    <3>2. run'[r].at = run[r].at /\ run'[r].seen = utxos /\ payment[run[r].at].status # "none"
      BY <1>1, <1>3, <2>1 DEF Look, SafeInv, AnswerHolds
    <3>3. \A q \in Run : q # r => run'[q] = run[q] BY <1>1, <2>1
    <3>4. QED BY <2>2, <3>1, <3>2, <3>3 DEF SafeInv, AnswerHolds, service, money
  <2>6. PaidByOwnMoney' /\ NotYetInvoiced'
    BY <2>2 DEF SafeInv, PaidByOwnMoney, NotYetInvoiced, money
  <2>7. QED BY <2>2, <2>4, <2>5, <2>6, KeepSafe DEF service, money
<1>4. CASE Answer(r)
  <2> DEFINE a == run[r].at
             o == payment[a].offer
             status == StatusOf(run[r].seen)
  <2>1. UNCHANGED <<stage, address, addressIndex, wallet, money, polling, now, crashes>>
    BY <1>4 DEF Answer
  <2>2. CASE run[r].seen = "none"
    <3>1. Continue(r, run[r].now, a + 1, payment, offers) /\ fees' = fees
      BY <1>4, <2>2 DEF Answer
    <3>2. run[r].now \in 0..MaxNow BY <1>1
    <3>3. QED BY <1>1, <2>1, <3>1, <3>2, RunSafe DEF SafeInv, PaidByOwnMoney
  <2>3. CASE run[r].seen # "none"
    <3> DEFINE pays == [payment EXCEPT ![a].status = status]
               offs == Called(offers, {o}, status)
    <3>1. Continue(r, run[r].now, a + 1, pays, offs) /\ fees' = Charged(o, status)
      BY <1>4, <2>3 DEF Answer
    <3>2. /\ a \in Address /\ payment[a].status # "none" /\ run[r].now \in 0..MaxNow
          /\ run[r].seen = "block" => chain[a] = "block"
          /\ o \in Offer /\ address[o] = a /\ None \notin Address
      BY <1>1, <1>4 DEF Answer, SafeInv, AnswerHolds, CallbackOfAddress, Address, None
    <3>3. /\ status \in {"confirmed", "partial"}
          /\ status = "confirmed" => run[r].seen = "block"
      BY DEF StatusOf
    <3>4. /\ pays \in Payments
          /\ \A b \in Address : /\ pays[b].offer = payment[b].offer
                                /\ pays[b].status = "none" <=> payment[b].status = "none"
      <4> HIDE DEF status
      <4>1. QED BY <1>1, <3>2, <3>3 DEF PaymentStatus
    <3>5. offs \in [Offer -> OfferStatus] BY <1>1 DEF Called, OfferStatus
    <3>6. fees' \in [Offer -> 0..2] BY SMTT(30), <1>1, <3>1, <3>2 DEF Charged
    <3>7. \A q \in Offer : q # o => offs[q] = offers[q] /\ fees'[q] = fees[q]
      BY <1>1, <3>1, <3>2 DEF Called, Charged
    <3>8. offs[o] = "PAID" \/ fees'[o] > fees[o] => status = "confirmed"
      <4>1. offs[o] = "PAID" => status = "confirmed"
        BY <3>2 DEF Called
      <4>2. status # "confirmed" => fees' = fees
        BY <3>1 DEF Charged
      <4>3. fees[o] \in Nat
        BY <1>1, <3>2
      <4>4. QED BY <4>1, <4>2, <4>3
    <3>9. ASSUME NEW q \in Offer, offs[q] = "PAID" \/ fees'[q] > 0
          PROVE  (address[q] # None /\ chain[address[q]] = "block") \/ invoice[q].status = "paid"
      <4>1. CASE q # o BY <3>7, <3>9, <4>1 DEF SafeInv, PaidByOwnMoney
      <4>2. CASE q = o /\ status = "confirmed" BY <3>2, <3>3, <4>2
      <4>3. CASE q = o /\ status # "confirmed"
        <5>1. fees' = fees BY <3>1, <4>3 DEF Charged
        <5>2. QED BY <3>8, <3>9, <4>3, <5>1 DEF SafeInv, PaidByOwnMoney
      <4>4. QED BY <4>1, <4>2, <4>3
    <3> HIDE DEF pays, offs, status, o, a
    <3>10. QED BY <2>1, <3>1, <3>2, <3>4, <3>5, <3>6, <3>9, RunSafe DEF a
  <2>4. QED BY <2>2, <2>3
<1>5. QED BY <1>2, <1>3, <1>4 DEF RunStep
-----------------------------------------------------------------------------
(* Crashes, and the theorem *)

\* Whatever the process forgets, the wallet file still has the index.
LEMMA CrashSafe ==
   ASSUME SafeInv, Crash \/ (\E o \in Offer : CrashInSave(o))
   PROVE  SafeInv'
<1>1. /\ payment' = [a \in Address |-> NoPayment] /\ offers' = [o \in Offer |-> "none"]
      /\ fees' = [o \in Offer |-> 0] /\ run' = [r \in Run |-> NoRun] /\ polling' = {}
      /\ crashes' = crashes + 1 /\ crashes < MaxCrashes
      /\ UNCHANGED <<address, chain, invoice, now>>
  BY DEF Crash, CrashInSave, Forget, money
<1>2. addressIndex' = addressIndex /\ wallet' \in {wallet, Torn}
  BY DEF Crash, CrashInSave, SafeInv, IndexSaved
<1>3. /\ stage' \in [Offer -> Stage]
      /\ \A o \in Offer : stage'[o] \in {"new", "invoicing"} => stage'[o] = stage[o]
  BY DEF Crash, CrashInSave, Stage, SafeInv, TypeOK
<1>4. TypeOK'
  BY <1>1, <1>2, <1>3, OfferAssumption
     DEF SafeInv, TypeOK, NoPayment, NoRun, PaymentStatus, OfferStatus, Utxos
<1>5. NoAddressReuse' /\ IndexSaved' BY <1>1, <1>2, <1>3 DEF SafeInv, NoAddressReuse, IndexSaved
<1>6. NotYetInvoiced' BY <1>1, <1>3 DEF SafeInv, NotYetInvoiced
<1>7. PaidByOwnMoney' BY <1>1 DEF PaidByOwnMoney
<1>8. CallbackOfAddress' BY <1>1 DEF CallbackOfAddress, NoPayment
<1>9. AnswerHolds' BY <1>1 DEF AnswerHolds, NoRun
<1>10. QED BY <1>4, <1>5, <1>6, <1>7, <1>8, <1>9 DEF SafeInv

\* Every step keeps the invariant.
LEMMA NextSafe == SafeInv /\ [Next]_vars => SafeInv'
<1> SUFFICES ASSUME SafeInv, [Next]_vars PROVE SafeInv'
  OBVIOUS
<1>1. ASSUME NEW o \in Offer, Create(o) \/ Cancel(o) \/ PayInvoice(o) \/ CrashInSave(o)
      PROVE  SafeInv'
  BY <1>1, CreateSafe, RequestSafe, CrashSafe
<1>2. ASSUME NEW o \in Offer, NEW ok \in BOOLEAN, Invoiced(o, ok) PROVE SafeInv'
  BY <1>2, RequestSafe
<1>3. ASSUME NEW o \in Offer, NEW answer \in {"paid", "pending", "failed"}, Poll(o, answer)
      PROVE  SafeInv'
  BY <1>3, PollSafe
<1>4. ASSUME NEW r \in Run, RunStep(r) PROVE SafeInv'
  BY <1>4, RunStepSafe
<1>5. CASE Tick \/ (\E o \in Offer, utxos \in Utxos : Deposit(o, utxos)) \/ UNCHANGED vars
  BY <1>5, EnvironmentSafe
<1>6. CASE Crash BY <1>6, CrashSafe
<1>7. QED BY <1>1, <1>2, <1>3, <1>4, <1>5, <1>6 DEF Next

\* SafeInv holds in every behaviour of the offers and payments of an operator.
THEOREM SafeInvariant == Spec => []SafeInv
<1>1. Init => SafeInv BY InitSafe
<1>2. SafeInv /\ [Next]_vars => SafeInv' BY NextSafe
<1>3. QED BY <1>1, <1>2, PTL DEF Spec

\* No address is given to two offers, across restarts.
THEOREM AddressesAreFresh == Spec => []NoAddressReuse
<1>1. SafeInv => NoAddressReuse BY DEF SafeInv
<1>2. QED BY <1>1, SafeInvariant, PTL

\* Only an offer's own confirmed money makes it PAID and records its fee.
THEOREM PaidMeansMoney == Spec => []PaidByOwnMoney
<1>1. SafeInv => PaidByOwnMoney BY DEF SafeInv
<1>2. QED BY <1>1, SafeInvariant, PTL
-----------------------------------------------------------------------------
(* Offers that wait for their payment *)

\* Initially no offer waits.
LEMMA InitWatch == Init => WatchInv
BY InitSafe, OfferAssumption
   DEF Init, WatchInv, PendingIsWatched, AddressGiven, OfferIsOpen, InvoicingIsUnpaid, Address

\* The loop shows an offer as PENDING only for the payment it has just expired.
LEMMA ContinueWatch ==
   ASSUME NEW r, NEW t, NEW from,
          NEW pays \in [Address -> [status : PaymentStatus, expiresAt : 0..(MaxNow + Expiry),
                                    offer : Offer \cup {None}]],
          NEW offs \in [Offer -> OfferStatus],
          Continue(r, t, from, pays, offs)
   PROVE  /\ \A a \in Address : /\ payment'[a].offer = pays[a].offer
                                /\ payment'[a].status = "none" <=> pays[a].status = "none"
                                /\ payment'[a].status = "confirmed" => pays[a].status = "confirmed"
          /\ \A o \in Offer : offers'[o] # "none" => offs[o] # "none"
          /\ \A o \in Offer : offers'[o] # offs[o] =>
                \E a \in Address : pays[a].offer = o /\ payment'[a].status = "expired"
<1> DEFINE rest == {a \in Address : a >= from /\ Watched(pays[a])}
           ask == {a \in rest : ~Late(pays[a], t)}
           due == {a \in rest \ ask : \A b \in ask : a < b}
<1>1. payment' = [a \in Address |->
            IF a \in due THEN [pays[a] EXCEPT !.status = "expired"] ELSE pays[a]]
  BY DEF Continue
<1>2. offers' = Called(offs, {pays[a].offer : a \in due}, "expired") BY DEF Continue
<1>3. \A a \in due : a \in Address /\ pays[a].status \in {"pending", "partial"} BY DEF Watched
<1> HIDE DEF due
<1>4. \A a \in due : payment'[a].status = "expired" BY <1>1, <1>3
<1>5. \A o \in Offer : offers'[o] # offs[o] => o \in {pays[a].offer : a \in due}
  BY <1>2 DEF Called
<1>6. \A o \in Offer : offers'[o] # "none" => offs[o] # "none" BY <1>2 DEF Called
<1>7. \A a \in Address : /\ payment'[a].offer = pays[a].offer
                         /\ payment'[a].status = "none" <=> pays[a].status = "none"
                         /\ payment'[a].status = "confirmed" => pays[a].status = "confirmed"
  BY <1>1, <1>3
<1>8. QED BY <1>3, <1>4, <1>5, <1>6, <1>7

\* A new address has never been paid and its payment is pending.
LEMMA CreateWatch ==
   ASSUME WatchInv, NEW o \in Offer, Create(o)
   PROVE  WatchInv'
<1> DEFINE a == addressIndex
           p == [status |-> "pending", expiresAt |-> now + Expiry, offer |-> o]
<1>1. /\ stage[o] = "new" /\ addressIndex' = a + 1
      /\ address' = [address EXCEPT ![o] = a] /\ payment' = [payment EXCEPT ![a] = p]
      /\ stage' = [stage EXCEPT ![o] = "invoicing"]
      /\ UNCHANGED <<offers, chain>>
  BY DEF Create, money
<1>2. SafeInv /\ SafeInv' BY CreateSafe DEF WatchInv
<1>3. a \in Address /\ a \in Nat /\ None \notin Address
  BY <1>2 DEF SafeInv, TypeOK, Create, Address, None
<1>4. /\ address \in [Offer -> Address \cup {None}]
      /\ stage \in [Offer -> Stage]
      /\ payment \in [Address -> [status : PaymentStatus, expiresAt : 0..(MaxNow + Expiry),
                                  offer : Offer \cup {None}]]
  BY <1>2 DEF SafeInv, TypeOK
<1>5. \A q \in Offer : address[q] # None => address[q] < a /\ address[q] # a /\ address[q] \in Address
  BY <1>2, <1>3, <1>4 DEF SafeInv, IndexSaved, Address
<1>6. chain[a] = "none" BY <1>3 DEF WatchInv, AddressGiven, Address
<1>7. \A b \in Address : b # a => payment'[b] = payment[b] BY <1>1, <1>3, <1>4
<1>8. payment'[a] = p /\ address'[o] = a /\ stage'[o] = "invoicing" BY <1>1, <1>3, <1>4
<1>9. \A q \in Offer : q # o => address'[q] = address[q] /\ stage'[q] = stage[q] BY <1>1, <1>4
<1>10. offers[o] = "none" BY <1>1 DEF WatchInv, OfferIsOpen
<1>11. \A q \in Offer : stage[q] \in {"invoicing", "open"} => address[q] # None
  BY DEF WatchInv, AddressGiven
<1>12. AddressGiven'
  <2>1. \A q \in Offer : stage'[q] \in {"invoicing", "open"} => address'[q] # None
    BY <1>3, <1>8, <1>9, <1>11
  <2>2. \A b \in Address : b >= a + 1 => chain[b] = "none"
    BY <1>3 DEF WatchInv, AddressGiven, Address
  <2>3. QED BY <1>1, <2>1, <2>2 DEF AddressGiven
<1>13. OfferIsOpen' /\ PendingIsWatched'
  <2>1. \A q \in Offer : offers[q] # "none" => /\ q # o /\ stage[q] = "open"
                                               /\ address[q] \in Address /\ address[q] # a
    BY <1>5, <1>10, <1>11 DEF WatchInv, OfferIsOpen
  <2>2. QED BY <1>1, <1>7, <1>9, <2>1 DEF WatchInv, OfferIsOpen, PendingIsWatched
<1>14. InvoicingIsUnpaid'
  <2>1. ASSUME NEW q \in Offer, q # o, stage'[q] = "invoicing"
        PROVE  /\ payment'[address'[q]].offer = q
               /\ payment'[address'[q]].status \notin {"none", "confirmed"}
               /\ chain'[address'[q]] = "none"
    <3>1. address[q] \in Address /\ address[q] # a BY <1>5, <1>9, <1>11, <2>1
    <3>2. QED BY <1>1, <1>7, <1>9, <2>1, <3>1 DEF WatchInv, InvoicingIsUnpaid
  <2>2. QED BY <1>1, <1>6, <1>8, <2>1 DEF InvoicingIsUnpaid
<1>15. QED BY <1>2, <1>12, <1>13, <1>14 DEF WatchInv

\* Steps that leave the payments alone, and show nobody an offer or an address.
LEMMA QuietWatch ==
   ASSUME WatchInv, SafeInv', UNCHANGED <<stage, address, service, chain>>,
          \A o \in Offer : /\ offers[o] = "none" => offers'[o] = "none"
                           /\ offers'[o] = "PENDING" => offers[o] = "PENDING"
   PROVE  WatchInv'
<1>1. UNCHANGED <<addressIndex, payment>> BY DEF service
<1>2. AddressGiven' /\ OfferIsOpen' /\ InvoicingIsUnpaid' /\ PendingIsWatched'
  BY <1>1 DEF WatchInv, AddressGiven, OfferIsOpen, InvoicingIsUnpaid, PendingIsWatched
<1>3. QED BY <1>2 DEF WatchInv

\* The offer that enters the map has an unpaid payment under its own address.
LEMMA InvoicedWatch ==
   ASSUME WatchInv, SafeInv', NEW o \in Offer, NEW ok \in BOOLEAN, Invoiced(o, ok)
   PROVE  WatchInv'
<1>1. /\ stage[o] = "invoicing" /\ stage' = [stage EXCEPT ![o] = "open"]
      /\ offers' = [offers EXCEPT ![o] = "PENDING"]
      /\ UNCHANGED <<address, addressIndex, payment, chain>>
  BY DEF Invoiced, service
<1>2. /\ stage \in [Offer -> Stage] /\ offers \in [Offer -> OfferStatus]
  BY DEF WatchInv, SafeInv, TypeOK
<1>3. \A q \in Offer : q # o => stage'[q] = stage[q] /\ offers'[q] = offers[q] BY <1>1, <1>2
<1>4. stage'[o] = "open" /\ offers'[o] = "PENDING" BY <1>1, <1>2
<1>5. AddressGiven' /\ InvoicingIsUnpaid'
  BY <1>1, <1>3, <1>4 DEF WatchInv, AddressGiven, InvoicingIsUnpaid
<1>6. OfferIsOpen' /\ PendingIsWatched'
  BY <1>1, <1>3, <1>4 DEF WatchInv, InvoicingIsUnpaid, OfferIsOpen, PendingIsWatched
<1>7. QED BY <1>5, <1>6 DEF WatchInv

\* Only an address that has been shown is paid.
LEMMA DepositWatch ==
   ASSUME WatchInv, SafeInv', NEW o \in Offer, NEW utxos \in Utxos, Deposit(o, utxos)
   PROVE  WatchInv'
<1>1. /\ stage[o] = "open" /\ chain' = [chain EXCEPT ![address[o]] = utxos]
      /\ UNCHANGED <<stage, address, addressIndex, payment, offers>>
  BY DEF Deposit, service
<1>2. /\ address \in [Offer -> Address \cup {None}] /\ chain \in [Address -> Utxos]
      /\ addressIndex \in Nat
  BY OfferAssumption DEF WatchInv, SafeInv, TypeOK
<1>3. address[o] \in Address /\ address[o] < addressIndex
  BY <1>1, <1>2 DEF WatchInv, AddressGiven, SafeInv, IndexSaved
<1>4. \A a \in Address : a # address[o] => chain'[a] = chain[a] BY <1>1, <1>2
<1>5. AddressGiven'
  <2>1. \A a \in Address : a >= addressIndex => a # address[o] BY <1>2, <1>3 DEF Address
  <2>2. QED BY <1>1, <1>4, <2>1 DEF WatchInv, AddressGiven
<1>6. InvoicingIsUnpaid'
  <2>1. \A q \in Offer : stage[q] = "invoicing" => address[q] \in Address /\ address[q] # address[o]
    BY <1>1, <1>2, <1>3 DEF WatchInv, AddressGiven, SafeInv, NoAddressReuse
  <2>2. QED BY <1>1, <1>4, <2>1 DEF WatchInv, InvoicingIsUnpaid
<1>7. OfferIsOpen' /\ PendingIsWatched' BY <1>1 DEF WatchInv, OfferIsOpen, PendingIsWatched
<1>8. QED BY <1>5, <1>6, <1>7 DEF WatchInv

\* The callback of a run names the offer of the payment it has just changed.
LEMMA RunWatch ==
   ASSUME WatchInv, SafeInv', NEW r, NEW t, NEW from,
          NEW pays \in [Address -> [status : PaymentStatus, expiresAt : 0..(MaxNow + Expiry),
                                    offer : Offer \cup {None}]],
          NEW offs \in [Offer -> OfferStatus],
          Continue(r, t, from, pays, offs),
          \A a \in Address : /\ pays[a].offer = payment[a].offer
                             /\ pays[a].status = "none" <=> payment[a].status = "none",
          \A o \in Offer : stage[o] = "invoicing" => pays[address[o]].status # "confirmed",
          \A o \in Offer : /\ offs[o] # "none" => offers[o] # "none"
                           /\ offs[o] = "PENDING" => pays[address[o]].status # "confirmed",
          UNCHANGED <<stage, address, addressIndex, chain>>
   PROVE  WatchInv'
<1>1. /\ \A a \in Address : /\ payment'[a].offer = pays[a].offer
                            /\ payment'[a].status = "none" <=> pays[a].status = "none"
                            /\ payment'[a].status = "confirmed" => pays[a].status = "confirmed"
      /\ \A o \in Offer : offers'[o] # "none" => offs[o] # "none"
      /\ \A o \in Offer : offers'[o] # offs[o] =>
            \E a \in Address : pays[a].offer = o /\ payment'[a].status = "expired"
  BY ContinueWatch
<1>2. \A o \in Offer : stage[o] \in {"invoicing", "open"} => address[o] \in Address
  BY DEF WatchInv, AddressGiven, SafeInv, TypeOK
<1>3. \A o \in Offer : offers'[o] # "none" => offers[o] # "none" /\ address[o] \in Address
  BY <1>1, <1>2 DEF WatchInv, OfferIsOpen
<1>4. AddressGiven' BY DEF WatchInv, AddressGiven
<1>5. OfferIsOpen' BY <1>1, <1>3 DEF WatchInv, OfferIsOpen
<1>6. InvoicingIsUnpaid' BY <1>1, <1>2 DEF WatchInv, InvoicingIsUnpaid
<1>7. PendingIsWatched'
  <2>1. ASSUME NEW o \in Offer, offers'[o] # "none"
        PROVE  payment'[address[o]].offer = o
    BY <1>1, <1>3, <2>1 DEF WatchInv, PendingIsWatched
  <2>2. ASSUME NEW o \in Offer, offers'[o] = "PENDING"
        PROVE  payment'[address[o]].status # "confirmed"
    <3>1. CASE offers'[o] = offs[o] BY <1>1, <1>3, <2>2, <3>1
    <3>2. CASE offers'[o] # offs[o]
      <4>1. PICK a \in Address : pays[a].offer = o /\ payment'[a].status = "expired" BY <1>1, <3>2
      <4>2. payment[a].status # "none" /\ payment[a].offer = o BY <1>1, <4>1
      <4>3. address[o] = a BY <4>2 DEF WatchInv, SafeInv, CallbackOfAddress
      <4>4. QED BY <4>1, <4>3
    <3>3. QED BY <3>1, <3>2
  <2>3. QED BY <2>1, <2>2 DEF PendingIsWatched
<1>8. QED BY <1>4, <1>5, <1>6, <1>7 DEF WatchInv

\* A run that was answered gives the payment and its offer the same news.
LEMMA AnswerWatch ==
   ASSUME WatchInv, SafeInv', NEW r \in Run, Answer(r)
   PROVE  WatchInv'
<1> DEFINE a == run[r].at
           o == payment[a].offer
           status == StatusOf(run[r].seen)
           pays == [payment EXCEPT ![a].status = status]
           offs == Called(offers, {o}, status)
<1>1. /\ payment \in [Address -> [status : PaymentStatus, expiresAt : 0..(MaxNow + Expiry),
                                  offer : Offer \cup {None}]]
      /\ offers \in [Offer -> OfferStatus] /\ address \in [Offer -> Address \cup {None}]
  BY DEF WatchInv, SafeInv, TypeOK
<1>2. UNCHANGED <<stage, address, addressIndex, chain>> BY DEF Answer, money
<1>3. CASE run[r].seen = "none"
  <2>1. Continue(r, run[r].now, a + 1, payment, offers) BY <1>3 DEF Answer
  <2>2. QED BY <1>1, <1>2, <2>1, RunWatch DEF WatchInv, PendingIsWatched, InvoicingIsUnpaid
<1>4. CASE run[r].seen # "none"
  <2>1. Continue(r, run[r].now, a + 1, pays, offs) BY <1>4 DEF Answer
  <2>2. /\ a \in Address /\ payment[a].status # "none" /\ o \in Offer /\ address[o] = a
        /\ run[r].seen = "block" => chain[a] = "block"
    BY DEF Answer, WatchInv, SafeInv, AnswerHolds, CallbackOfAddress
  <2>3. status \in {"confirmed", "partial"} /\ (status = "confirmed" => chain[a] = "block")
    BY <2>2 DEF StatusOf
  <2> HIDE DEF status, o, a
  <2>4. /\ pays \in [Address -> [status : PaymentStatus, expiresAt : 0..(MaxNow + Expiry),
                                 offer : Offer \cup {None}]]
        /\ \A b \in Address : b # a => pays[b] = payment[b]
        /\ pays[a].offer = payment[a].offer /\ pays[a].status = status
    BY <1>1, <2>2, <2>3 DEF PaymentStatus
  <2>5. \A b \in Address : /\ pays[b].offer = payment[b].offer
                           /\ pays[b].status = "none" <=> payment[b].status = "none"
    BY <2>2, <2>3, <2>4
  <2>6. offs \in [Offer -> OfferStatus] BY <1>1 DEF Called, OfferStatus
  <2>7. /\ \A q \in Offer : offs[q] # "none" => offers[q] # "none"
        /\ \A q \in Offer : q # o => offs[q] = offers[q]
        /\ offs[o] = "PENDING" => status # "confirmed"
    <3>1. \A q \in Offer : offs[q] = IF q # o \/ offers[q] = "none" THEN offers[q]
                                     ELSE IF status = "confirmed" THEN "PAID" ELSE "PENDING"
      BY DEF Called
    <3>2. offers[o] # "none" => offs[o] = IF status = "confirmed" THEN "PAID" ELSE "PENDING"
      BY <2>2, <3>1
    <3>3. QED BY <2>2, <3>1, <3>2
  <2>8. ASSUME NEW q \in Offer, stage[q] = "invoicing"
        PROVE  pays[address[q]].status # "confirmed"
    <3>1. address[q] \in Address /\ payment[address[q]].status # "confirmed" /\ chain[address[q]] = "none"
      BY <1>1, <2>8 DEF WatchInv, AddressGiven, InvoicingIsUnpaid
    <3>2. QED BY <2>3, <2>4, <3>1
  <2>9. ASSUME NEW q \in Offer, offs[q] = "PENDING"
        PROVE  pays[address[q]].status # "confirmed"
    <3>1. offers[q] # "none" /\ address[q] \in Address /\ payment[address[q]].offer = q
      BY <1>1, <2>7, <2>9 DEF WatchInv, AddressGiven, OfferIsOpen, PendingIsWatched
    <3>2. CASE q = o BY <2>2, <2>4, <2>7, <2>9, <3>2
    <3>3. CASE q # o
      <4>1. offers[q] = "PENDING" /\ address[q] # a BY <2>7, <2>9, <3>1, <3>3 DEF o
      <4>2. QED BY <2>4, <3>1, <4>1 DEF WatchInv, PendingIsWatched
    <3>4. QED BY <3>2, <3>3
  <2> HIDE DEF pays, offs
  <2>10. QED BY <1>2, <2>1, <2>4, <2>5, <2>6, <2>7, <2>8, <2>9, RunWatch
<1>5. QED BY <1>3, <1>4

\* Every step keeps the invariant.
LEMMA NextWatch == WatchInv /\ [Next]_vars => WatchInv'
<1> SUFFICES ASSUME WatchInv, [Next]_vars PROVE WatchInv'
  OBVIOUS
<1>1. SafeInv /\ SafeInv' BY NextSafe DEF WatchInv
<1>2. /\ payment \in [Address -> [status : PaymentStatus, expiresAt : 0..(MaxNow + Expiry),
                                  offer : Offer \cup {None}]]
      /\ offers \in [Offer -> OfferStatus]
  BY <1>1 DEF SafeInv, TypeOK
<1>3. ASSUME NEW o \in Offer, Create(o) PROVE WatchInv' BY <1>3, CreateWatch
<1>4. ASSUME NEW o \in Offer, Cancel(o) PROVE WatchInv'
  BY <1>1, <1>2, <1>4, QuietWatch DEF Cancel, money
<1>5. ASSUME NEW o \in Offer, PayInvoice(o) PROVE WatchInv'
  BY <1>1, <1>5, QuietWatch DEF PayInvoice
<1>6. ASSUME NEW o \in Offer, NEW ok \in BOOLEAN, Invoiced(o, ok) PROVE WatchInv'
  BY <1>1, <1>6, InvoicedWatch
<1>7. ASSUME NEW o \in Offer, NEW answer \in {"paid", "pending", "failed"}, Poll(o, answer)
      PROVE  WatchInv'
  <2>1. UNCHANGED <<stage, address, service, chain>> BY <1>7 DEF Poll, money
  <2>2. \A q \in Offer : /\ offers[q] = "none" => offers'[q] = "none"
                         /\ offers'[q] = "PENDING" => offers[q] = "PENDING"
    BY <1>7 DEF Poll, Called
  <2>3. QED BY <1>1, <2>1, <2>2, QuietWatch
<1>8. ASSUME NEW o \in Offer, NEW utxos \in Utxos, Deposit(o, utxos) PROVE WatchInv'
  BY <1>1, <1>8, DepositWatch
<1>9. ASSUME NEW r \in Run, StartRun(r) PROVE WatchInv'
  <2>1. /\ Continue(r, now, 0, payment, offers)
        /\ UNCHANGED <<stage, address, addressIndex, chain>>
    BY <1>9 DEF StartRun, money
  <2>2. QED BY <1>1, <1>2, <2>1, RunWatch DEF WatchInv, PendingIsWatched, InvoicingIsUnpaid
<1>10. ASSUME NEW r \in Run, Look(r) PROVE WatchInv'
  BY <1>1, <1>10, QuietWatch DEF Look, money
<1>11. ASSUME NEW r \in Run, Answer(r) PROVE WatchInv' BY <1>1, <1>11, AnswerWatch
<1>12. CASE Tick \/ UNCHANGED vars
  BY <1>1, <1>12, QuietWatch DEF Tick, vars, money
<1>13. CASE Crash \/ \E o \in Offer : CrashInSave(o)
  <2>1. /\ \A o \in Offer : offers'[o] = "none"
        /\ \A o \in Offer : /\ stage'[o] # "invoicing"
                            /\ stage'[o] = "open" => stage[o] = "open"
    BY <1>13 DEF Crash, CrashInSave, Forget, money
  <2>2. addressIndex' = addressIndex
    BY <1>1, <1>13 DEF Crash, CrashInSave, SafeInv, IndexSaved
  <2>3. UNCHANGED <<address, chain>> BY <1>13 DEF Crash, CrashInSave, Forget, money
  <2>4. AddressGiven' /\ OfferIsOpen' /\ InvoicingIsUnpaid' /\ PendingIsWatched'
    BY <2>1, <2>2, <2>3
       DEF WatchInv, AddressGiven, OfferIsOpen, InvoicingIsUnpaid, PendingIsWatched
  <2>5. QED BY <1>1, <2>4 DEF WatchInv
<1>14. QED
  BY <1>3, <1>4, <1>5, <1>6, <1>7, <1>8, <1>9, <1>10, <1>11, <1>12, <1>13 DEF Next, RunStep

\* An offer in the map is watched on its own address by its own callback, and while
\* it is PENDING the monitor has not confirmed - and so stopped looking at - its
\* payment, whatever runs overlap and whenever the process dies.
THEOREM PendingAlwaysWatched == Spec => []PendingIsWatched
<1>1. Init => WatchInv BY InitWatch
<1>2. WatchInv /\ [Next]_vars => WatchInv' BY NextWatch
<1>3. WatchInv => PendingIsWatched BY DEF WatchInv
<1>4. QED BY <1>1, <1>2, <1>3, PTL DEF Spec
-----------------------------------------------------------------------------
(* Payments settle                                                         *)

Settled(a) == payment[a].status \in {"confirmed", "expired"}

\* A payment whose time is over.
Overdue(a) == payment[a].status # "none" /\ Late(payment[a], now)

\* The runs that may still bring an answer from the time of the payment.
OldRuns(a) ==
   {r \in Run : run[r].pc # "idle" /\ run[r].at <= a /\ ~Late(payment[a], run[r].now)}

\* A run that begins, or one for which the payment is late and that comes from
\* an address before it.
Comes(r, a) ==
   StartRun(r) \/ (Answer(r) /\ run[r].at < a /\ Late(payment[a], run[r].now))

\* What a step does to an overdue payment: it stays overdue, no run becomes one
\* that may bring an old answer, only such a run unsettles it and then it is one
\* no longer, and a run that comes settles it or stops to ask before it.
Settles(a) ==
   /\ Overdue(a)'
   /\ OldRuns(a)' \subseteq OldRuns(a)
   /\ Settled(a) /\ ~Settled(a)' => OldRuns(a)' # OldRuns(a)
   /\ \A r \in Run : Comes(r, a) =>
         Settled(a)' \/ (run'[r].pc # "idle" /\ run'[r].at < a)

\* The explorer is asked about no payment that was late when the run began.
AskedInTime == \A r \in Run : run[r].pc # "idle" => ~Late(payment[run[r].at], run[r].now)

Pays == [Address -> [status : PaymentStatus, expiresAt : 0..(MaxNow + Expiry),
                     offer : Offer \cup {None}]]

\* The loop of checkPayments passes no late payment without settling it.
LEMMA ContinuePasses ==
   ASSUME NEW r \in Run, NEW t \in 0..MaxNow, NEW from \in Int, NEW pays \in Pays,
          NEW offs, TypeOK, Continue(r, t, from, pays, offs)
   PROVE  /\ \A a \in Address : /\ payment'[a].expiresAt = pays[a].expiresAt
                                /\ payment'[a].status \in {pays[a].status, "expired"}
                                /\ payment'[a].status = "none" <=> pays[a].status = "none"
          /\ \A q \in Run : q # r => run'[q] = run[q]
          /\ run'[r].pc # "idle" => /\ run'[r].at \in Address /\ run'[r].at >= from
                                    /\ run'[r].now = t
                                    /\ ~Late(payment'[run'[r].at], t)
          /\ \A a \in Address : a >= from /\ Late(pays[a], t) =>
                ~Watched(payment'[a]) \/ (run'[r].pc # "idle" /\ run'[r].at < a)
<1> DEFINE rest == {a \in Address : a >= from /\ Watched(pays[a])}
           ask == {a \in rest : ~Late(pays[a], t)}
           due == {a \in rest \ ask : \A b \in ask : a < b}
<1>1. payment' = [a \in Address |->
            IF a \in due THEN [pays[a] EXCEPT !.status = "expired"] ELSE pays[a]]
  BY DEF Continue
<1>2. \/ ask = {} /\ run' = [run EXCEPT ![r] = NoRun]
      \/ \E a \in ask : /\ \A b \in ask : a <= b
                        /\ run' = [run EXCEPT ![r] =
                              [pc |-> "asking", now |-> t, at |-> a, seen |-> "none"]]
  BY DEF Continue
<1>3. run \in [Run -> [pc : {"idle", "asking", "answered"}, now : 0..MaxNow,
                       at : Address \cup {None}, seen : Utxos]]
  BY DEF TypeOK
<1>4. \A a \in due : pays[a].status # "none" BY DEF Watched
<1>5. \A a \in Address : /\ payment'[a].expiresAt = pays[a].expiresAt
                         /\ payment'[a].status = IF a \in due THEN "expired" ELSE pays[a].status
  BY <1>1 DEF Pays
<1>6. \A a \in Address : /\ payment'[a].expiresAt = pays[a].expiresAt
                         /\ payment'[a].status \in {pays[a].status, "expired"}
                         /\ payment'[a].status = "none" <=> pays[a].status = "none"
  BY <1>4, <1>5
<1>7. /\ \A q \in Run : q # r => run'[q] = run[q]
      /\ ask = {} => run'[r].pc = "idle"
      /\ ask # {} => /\ run'[r].pc # "idle" /\ run'[r].at \in ask /\ run'[r].now = t
                     /\ \A b \in ask : run'[r].at <= b
  <2>1. CASE ask = {} BY <1>2, <1>3, <2>1 DEF NoRun
  <2>2. CASE ask # {}
    <3>1. PICK a \in ask :
             /\ \A b \in ask : a <= b
             /\ run' = [run EXCEPT ![r] =
                   [pc |-> "asking", now |-> t, at |-> a, seen |-> "none"]]
      BY <1>2, <2>2
    <3>2. run'[r] = [pc |-> "asking", now |-> t, at |-> a, seen |-> "none"]
      BY <1>3, <3>1
    <3>3. run'[r].pc = "asking" /\ run'[r].at = a /\ run'[r].now = t BY <3>2
    <3>4. \A q \in Run : q # r => run'[q] = run[q] BY <1>3, <3>1
    <3>5. QED BY <2>2, <3>1, <3>3, <3>4
  <2>3. QED BY <2>1, <2>2
<1>8. run'[r].pc # "idle" => /\ run'[r].at \in Address /\ run'[r].at >= from
                             /\ run'[r].now = t
                             /\ ~Late(payment'[run'[r].at], t)
  BY <1>6, <1>7 DEF Late
<1>9. ASSUME NEW a \in Address, a >= from, Late(pays[a], t), Watched(payment'[a])
      PROVE  run'[r].pc # "idle" /\ run'[r].at < a
  <2>1. a \notin due /\ Watched(pays[a]) BY <1>5, <1>9 DEF Watched
  <2>2. a \in rest \ ask BY <1>9, <2>1
  <2>3. PICK b \in ask : ~(a < b) BY <2>1, <2>2
  <2>4. b < a BY <2>2, <2>3 DEF Address
  <2>5. run'[r].at \in ask /\ run'[r].at <= b /\ run'[r].pc # "idle" BY <1>7, <2>3
  <2>6. QED BY <2>4, <2>5 DEF Address
<1>10. QED BY <1>6, <1>7, <1>8, <1>9

\* The payments an answer leaves to the loop.
LEMMA AnswerPays ==
   ASSUME TypeOK, NEW r \in Run, Answer(r), run[r].at \in Address
   PROVE  \E pays \in Pays :
             /\ \E offs : Continue(r, run[r].now, run[r].at + 1, pays, offs)
             /\ \A a \in Address :
                   /\ pays[a].expiresAt = payment[a].expiresAt
                   /\ a # run[r].at => pays[a] = payment[a]
                   /\ payment[a].status # "none" => pays[a].status # "none"
<1>1. payment \in Pays BY DEF TypeOK, Pays
<1>2. CASE run[r].seen = "none" BY <1>1, <1>2 DEF Answer
<1>3. CASE run[r].seen # "none"
  <2> DEFINE status == StatusOf(run[r].seen)
             pays == [payment EXCEPT ![run[r].at].status = status]
             offs == Called(offers, {payment[run[r].at].offer}, status)
  <2>1. Continue(r, run[r].now, run[r].at + 1, pays, offs) BY <1>3 DEF Answer
  <2>2. status \in PaymentStatus /\ status # "none" BY DEF StatusOf, PaymentStatus
  <2>3. pays \in Pays BY <1>1, <2>2 DEF Pays
  <2>4. \A a \in Address : /\ pays[a].expiresAt = payment[a].expiresAt
                           /\ a # run[r].at => pays[a] = payment[a]
                           /\ payment[a].status # "none" => pays[a].status # "none"
    BY <1>1, <2>2 DEF Pays
  <2>5. QED BY <2>1, <2>3, <2>4
<1>4. QED BY <1>2, <1>3

\* A payment that is there is not one an offer is being made for.
LEMMA PaymentBelow ==
   ASSUME SafeInv, NEW a \in Address, payment[a].status # "none"
   PROVE  a # addressIndex
<1>1. PICK o \in Offer : address[o] = a BY DEF SafeInv, CallbackOfAddress
<1>2. a < addressIndex /\ addressIndex \in Int /\ a \in Int
  BY <1>1 DEF SafeInv, IndexSaved, TypeOK, Address, None
<1>3. QED BY <1>2

\* Steps that are no steps of a run, and no crash.
LEMMA OtherSettle ==
   ASSUME SafeInv, Next, crashes' = crashes, ~(\E r \in Run : RunStep(r))
   PROVE  /\ run' = run
          /\ \A a \in Address : payment[a].status # "none" => payment'[a] = payment[a]
          /\ now' >= now
<1>1. /\ now \in Nat /\ crashes \in Nat
      /\ payment \in Pays
  BY DEF SafeInv, TypeOK, Pays
<1>2. ASSUME NEW o \in Offer, Create(o)
      PROVE  /\ run' = run /\ now' = now
             /\ \A a \in Address : payment[a].status # "none" => payment'[a] = payment[a]
  <2>1. /\ payment' = [payment EXCEPT ![addressIndex] =
                    [status |-> "pending", expiresAt |-> now + Expiry, offer |-> o]]
        /\ run' = run /\ now' = now
    BY <1>2 DEF Create
  <2>2. QED BY <1>1, <2>1, PaymentBelow
<1>3. CASE \E o \in Offer : Cancel(o) \/ PayInvoice(o)
                           \/ (\E ok \in BOOLEAN : Invoiced(o, ok))
                           \/ (\E answer \in {"paid", "pending", "failed"} : Poll(o, answer))
                           \/ (\E utxos \in Utxos : Deposit(o, utxos))
  <2>1. UNCHANGED <<run, payment, now>>
    BY <1>3 DEF Cancel, PayInvoice, Invoiced, Poll, Deposit, service
  <2>2. QED BY <1>1, <2>1
<1>4. CASE Tick BY <1>1, <1>4 DEF Tick, service
<1>5. CASE Crash \/ \E o \in Offer : CrashInSave(o)
  BY <1>1, <1>5 DEF Crash, CrashInSave, Forget
<1>6. now \in Int BY <1>1
<1>7. CASE \E o \in Offer : Create(o) BY <1>2, <1>6, <1>7
<1>8. QED BY <1>3, <1>4, <1>5, <1>7 DEF Next

\* The steps of a run.
LEMMA LookSettle ==
   ASSUME TypeOK, NEW r \in Run, Look(r)
   PROVE  /\ UNCHANGED <<payment, now>>
          /\ \A q \in Run : /\ run'[q].pc # "idle" <=> run[q].pc # "idle"
                            /\ run'[q].at = run[q].at /\ run'[q].now = run[q].now
<1>1. run \in [Run -> [pc : {"idle", "asking", "answered"}, now : 0..MaxNow,
                       at : Address \cup {None}, seen : Utxos]]
  BY DEF TypeOK
<1>2. PICK utxos : run' = [run EXCEPT ![r].pc = "answered", ![r].seen = utxos] BY DEF Look
<1>3. run[r].pc = "asking" /\ UNCHANGED <<payment, now>> BY DEF Look, service
<1>4. QED BY <1>1, <1>2, <1>3

\* What a run at time t, from that address on, leaves: payments keep their time,
\* and those it has passed and found late are settled.
Went(r, t, from) ==
   /\ \A a \in Address : /\ payment'[a].expiresAt = payment[a].expiresAt
                         /\ payment[a].status # "none" => payment'[a].status # "none"
   /\ \A q \in Run : q # r => run'[q] = run[q]
   /\ run'[r].pc # "idle" => /\ run'[r].at \in Address /\ run'[r].at >= from
                             /\ run'[r].now = t
                             /\ ~Late(payment'[run'[r].at], t)
   /\ \A a \in Address : a >= from /\ Late(payment[a], t) =>
         ~Watched(payment'[a]) \/ (run'[r].pc # "idle" /\ run'[r].at < a)

LEMMA StartGoes ==
   ASSUME SafeInv, NEW r \in Run, StartRun(r)
   PROVE  /\ Went(r, now, 0)
          /\ \A a \in Address : payment'[a].status \in {payment[a].status, "expired"}
<1>1. TypeOK /\ payment \in Pays /\ now \in 0..MaxNow BY DEF SafeInv, TypeOK, Pays
<1>2. Continue(r, now, 0, payment, offers) /\ 0 \in Int BY DEF StartRun
<1>3. QED BY <1>1, <1>2, ContinuePasses DEF Went

LEMMA AnswerGoes ==
   ASSUME SafeInv, NEW r \in Run, Answer(r)
   PROVE  /\ run[r].pc = "answered" /\ run[r].at \in Address
          /\ Went(r, run[r].now, run[r].at + 1)
          /\ \A a \in Address :
                a # run[r].at => payment'[a].status \in {payment[a].status, "expired"}
<1>1. TypeOK BY DEF SafeInv
<1>2. run[r].pc = "answered" /\ run[r].at \in Address /\ run[r].now \in 0..MaxNow
  BY DEF Answer, SafeInv, AnswerHolds, TypeOK
<1>3. PICK from \in Int, t \in 0..MaxNow : from = run[r].at + 1 /\ t = run[r].now
  BY <1>2 DEF Address
<1>4. PICK pays \in Pays :
           /\ \E offs : Continue(r, run[r].now, run[r].at + 1, pays, offs)
           /\ \A a \in Address :
                 /\ pays[a].expiresAt = payment[a].expiresAt
                 /\ a # run[r].at => pays[a] = payment[a]
                 /\ payment[a].status # "none" => pays[a].status # "none"
  BY <1>1, <1>2, AnswerPays
<1>5. PICK offs : Continue(r, t, from, pays, offs) BY <1>3, <1>4
<1>6. /\ \A a \in Address : /\ payment'[a].expiresAt = pays[a].expiresAt
                            /\ payment'[a].status \in {pays[a].status, "expired"}
                            /\ payment'[a].status = "none" <=> pays[a].status = "none"
      /\ \A q \in Run : q # r => run'[q] = run[q]
      /\ run'[r].pc # "idle" => /\ run'[r].at \in Address /\ run'[r].at >= from
                                /\ run'[r].now = t
                                /\ ~Late(payment'[run'[r].at], t)
      /\ \A a \in Address : a >= from /\ Late(pays[a], t) =>
            ~Watched(payment'[a]) \/ (run'[r].pc # "idle" /\ run'[r].at < a)
  BY <1>1, <1>5, ContinuePasses
<1>7. \A a \in Address : Late(pays[a], t) <=> Late(payment[a], t) BY <1>4 DEF Late
<1>8. Went(r, t, from) BY <1>4, <1>6, <1>7 DEF Went
<1>9. QED BY <1>2, <1>3, <1>4, <1>6, <1>8

\* Nothing is asked about a payment that was late.
LEMMA NextAsked == SafeInv /\ AskedInTime /\ [Next]_vars => AskedInTime'
<1> SUFFICES ASSUME SafeInv, AskedInTime, [Next]_vars, NEW q \in Run, run'[q].pc # "idle"
             PROVE  ~Late(payment'[run'[q].at], run'[q].now)
  BY DEF AskedInTime
<1>1. run[q].pc # "idle" => run[q].at \in Address /\ payment[run[q].at].status # "none"
  BY DEF SafeInv, AnswerHolds
<1>2. ASSUME NEW r \in Run, Look(r) PROVE ~Late(payment'[run'[q].at], run'[q].now)
  <2>1. TypeOK BY DEF SafeInv
  <2>2. /\ payment' = payment /\ run[q].pc # "idle"
        /\ run'[q].at = run[q].at /\ run'[q].now = run[q].now
    BY <1>2, <2>1, LookSettle
  <2>3. QED BY <2>2 DEF AskedInTime
<1>3. ASSUME NEW r \in Run, NEW t, NEW from, Went(r, t, from)
      PROVE  ~Late(payment'[run'[q].at], run'[q].now)
  <2>1. CASE q = r BY <1>3, <2>1 DEF Went
  <2>2. CASE q # r
    <3>1. run'[q] = run[q] BY <1>3, <2>2 DEF Went
    <3>2. ~Late(payment[run[q].at], run[q].now) BY <3>1 DEF AskedInTime
    <3>3. payment'[run[q].at].expiresAt = payment[run[q].at].expiresAt
      BY <1>1, <1>3, <3>1 DEF Went
    <3>4. QED BY <3>1, <3>2, <3>3 DEF Late
  <2>3. QED BY <2>1, <2>2
<1>4. CASE Crash \/ \E o \in Offer : CrashInSave(o)
  BY <1>4 DEF Crash, CrashInSave, Forget, NoRun
<1>5. CASE UNCHANGED vars BY <1>5 DEF vars, service, AskedInTime
<1>6. CASE Next /\ ~(\E r \in Run : RunStep(r)) /\ ~(Crash \/ \E o \in Offer : CrashInSave(o))
  <2>1. crashes' = crashes
    BY <1>6 DEF Next, Create, Cancel, PayInvoice, Invoiced, Poll, Deposit, Tick
  <2>2. /\ run' = run
        /\ \A a \in Address : payment[a].status # "none" => payment'[a] = payment[a]
    BY <1>6, <2>1, OtherSettle
  <2>3. QED BY <1>1, <2>2 DEF AskedInTime
<1>7. QED BY <1>2, <1>3, <1>4, <1>5, <1>6, StartGoes, AnswerGoes DEF RunStep

\* A run that comes to an overdue payment settles it or stops before it.
LEMMA ComesSettle ==
   ASSUME SafeInv, SafeInv', NEW a \in Address, Overdue(a), NEW r \in Run, Comes(r, a)
   PROVE  Settled(a)' \/ (run'[r].pc # "idle" /\ run'[r].at < a)
<1>1. PICK t, from :
         Went(r, t, from) /\ a >= from /\ Late(payment[a], t)
  <2>1. CASE StartRun(r)
    <3>1. a >= 0 BY DEF Address
    <3>2. QED BY <2>1, <3>1, StartGoes DEF Overdue
  <2>2. CASE Answer(r) /\ run[r].at < a /\ Late(payment[a], run[r].now)
    <3>1. run[r].at \in Address /\ Went(r, run[r].now, run[r].at + 1) BY <2>2, AnswerGoes
    <3>2. a >= run[r].at + 1 BY <2>2, <3>1 DEF Address
    <3>3. QED BY <2>2, <3>1, <3>2
  <2>3. QED BY <2>1, <2>2 DEF Comes
<1>2. payment'[a].status \in PaymentStatus BY DEF SafeInv, TypeOK
<1>3. payment'[a].status # "none" BY <1>1 DEF Went, Overdue
<1>4. ~Watched(payment'[a]) => Settled(a)' BY <1>2, <1>3 DEF Watched, Settled, PaymentStatus
<1>5. QED BY <1>1, <1>4 DEF Went

\* A step of a run, seen from an overdue payment.
LEMMA RunSettle ==
   ASSUME SafeInv, AskedInTime, NEW a \in Address, Overdue(a), NEW r \in Run,
          StartRun(r) \/ Answer(r)
   PROVE  /\ Overdue(a)' /\ OldRuns(a)' \subseteq OldRuns(a)
          /\ Settled(a) /\ ~Settled(a)' => OldRuns(a)' # OldRuns(a)
<1>1. now' = now BY DEF StartRun, Answer
<1>2. a \in Int BY DEF Address
<1>3. CASE StartRun(r)
  <2>1. /\ Went(r, now, 0)
        /\ payment'[a].status \in {payment[a].status, "expired"}
    BY <1>3, StartGoes
  <2>2. payment'[a].expiresAt = payment[a].expiresAt /\ payment'[a].status # "none"
    BY <2>1 DEF Went, Overdue
  <2>3. Overdue(a)' BY <1>1, <2>2 DEF Overdue, Late
  <2>4. ASSUME NEW q \in OldRuns(a)' PROVE q \in OldRuns(a)
    <3>1. q \in Run /\ run'[q].pc # "idle" /\ run'[q].at <= a
          /\ ~Late(payment'[a], run'[q].now)
      BY <2>4 DEF OldRuns
    <3>2. q # r BY <1>1, <2>1, <2>3, <3>1 DEF Went, Overdue
    <3>3. run'[q] = run[q] BY <2>1, <3>1, <3>2 DEF Went
    <3>4. ~Late(payment[a], run[q].now) BY <2>2, <3>1, <3>3 DEF Late
    <3>5. QED BY <3>1, <3>3, <3>4 DEF OldRuns
  <2>5. Settled(a) => Settled(a)' BY <2>1 DEF Settled
  <2>6. QED BY <2>3, <2>4, <2>5
<1>4. CASE Answer(r)
  <2>1. /\ run[r].pc = "answered" /\ run[r].at \in Address
        /\ Went(r, run[r].now, run[r].at + 1)
        /\ a # run[r].at => payment'[a].status \in {payment[a].status, "expired"}
    BY <1>4, AnswerGoes
  <2>2. payment'[a].expiresAt = payment[a].expiresAt /\ payment'[a].status # "none"
    BY <2>1 DEF Went, Overdue
  <2>3. Overdue(a)' BY <1>1, <2>2 DEF Overdue, Late
  <2>4. ASSUME NEW q \in OldRuns(a)' PROVE q \in OldRuns(a) /\ (q = r => a # run[r].at)
    <3>1. q \in Run /\ run'[q].pc # "idle" /\ run'[q].at <= a
          /\ ~Late(payment'[a], run'[q].now)
      BY <2>4 DEF OldRuns
    <3>2. CASE q = r
      <4>1. run'[r].at \in Address /\ run'[r].at >= run[r].at + 1 /\ run'[r].now = run[r].now
        BY <2>1, <3>1, <3>2 DEF Went
      <4>2. run[r].at < a BY <1>2, <2>1, <3>1, <3>2, <4>1 DEF Address
      <4>3. ~Late(payment[a], run[r].now) BY <2>2, <3>1, <3>2, <4>1 DEF Late
      <4>4. run[r].at <= a /\ a # run[r].at BY <1>2, <2>1, <4>2 DEF Address
      <4>5. QED BY <2>1, <3>1, <3>2, <4>3, <4>4 DEF OldRuns
    <3>3. CASE q # r
      <4>1. run'[q] = run[q] BY <2>1, <3>1, <3>3 DEF Went
      <4>2. ~Late(payment[a], run[q].now) BY <2>2, <3>1, <4>1 DEF Late
      <4>3. QED BY <3>1, <3>3, <4>1, <4>2 DEF OldRuns
    <3>4. QED BY <3>2, <3>3
  <2>5. ASSUME Settled(a), ~Settled(a)' PROVE OldRuns(a)' # OldRuns(a)
    <3>1. a = run[r].at BY <2>1, <2>5 DEF Settled
    <3>2. ~Late(payment[a], run[r].now) BY <2>1, <3>1 DEF AskedInTime
    <3>3. run[r].at <= a BY <1>2, <3>1
    <3>4. r \in OldRuns(a) BY <2>1, <3>2, <3>3 DEF OldRuns
    <3>5. QED BY <2>4, <3>1, <3>4
  <2>6. QED BY <2>3, <2>4, <2>5
<1>5. QED BY <1>3, <1>4

\* Any other step.
LEMMA StaysSettled ==
   ASSUME SafeInv, NEW a \in Address, Overdue(a), payment'[a] = payment[a], now' >= now,
          \A q \in Run : /\ run'[q].pc # "idle" <=> run[q].pc # "idle"
                         /\ run'[q].at = run[q].at /\ run'[q].now = run[q].now,
          now' \in Int
   PROVE  Overdue(a)' /\ OldRuns(a)' = OldRuns(a) /\ (Settled(a) => Settled(a)')
<1>1. payment[a].expiresAt \in Int /\ now \in Int BY OfferAssumption DEF SafeInv, TypeOK
<1>2. Overdue(a)' BY <1>1 DEF Overdue, Late
<1>3. OldRuns(a)' = OldRuns(a) BY DEF OldRuns
<1>4. QED BY <1>2, <1>3 DEF Settled

\* However runs overlap and answers are late, a payment whose time is over is
\* settled by the next run that comes to it, and only the answer of a run from
\* before, of which there are ever fewer, can unsettle it again.  (That runs
\* come, and that a payment's time comes, is fairness, and PaymentsSettle.)
THEOREM OverduePaymentsSettle ==
   Spec => [][\A a \in Address : Overdue(a) /\ crashes' = crashes => Settles(a)]_vars
<1>1. Init => AskedInTime BY DEF Init, AskedInTime, NoRun
<1>2. ASSUME SafeInv, SafeInv', AskedInTime, Next, crashes' = crashes, NEW a \in Address, Overdue(a)
      PROVE  Settles(a)
  <2>1. \A r \in Run : Comes(r, a) => Settled(a)' \/ (run'[r].pc # "idle" /\ run'[r].at < a)
    BY <1>2, ComesSettle
  <2>2. ASSUME NEW r \in Run, StartRun(r) \/ Answer(r) PROVE Settles(a)
    BY <1>2, <2>1, <2>2, RunSettle DEF Settles
  <2>3. now \in Int /\ now' \in Int BY <1>2 DEF SafeInv, TypeOK
  <2>4. ASSUME NEW r \in Run, Look(r) PROVE Settles(a)
    <3>1. TypeOK BY <1>2 DEF SafeInv
    <3>2. /\ UNCHANGED <<payment, now>>
          /\ \A q \in Run : /\ run'[q].pc # "idle" <=> run[q].pc # "idle"
                            /\ run'[q].at = run[q].at /\ run'[q].now = run[q].now
      BY <2>4, <3>1, LookSettle
    <3>3. now' >= now BY <2>3, <3>2
    <3>4. Overdue(a)' /\ OldRuns(a)' = OldRuns(a) /\ (Settled(a) => Settled(a)')
      BY <1>2, <2>3, <3>2, <3>3, StaysSettled
    <3>5. QED BY <2>1, <3>4 DEF Settles
  <2>5. CASE ~(\E r \in Run : RunStep(r))
    <3>1. run' = run /\ payment'[a] = payment[a] /\ now' >= now
      BY <1>2, <2>5, OtherSettle DEF Overdue
    <3>2. Overdue(a)' /\ OldRuns(a)' = OldRuns(a) /\ (Settled(a) => Settled(a)')
      BY <1>2, <2>3, <3>1, StaysSettled
    <3>3. QED BY <2>1, <3>2 DEF Settles
  <2>6. QED BY <2>2, <2>4, <2>5 DEF RunStep
<1>3. SafeInv /\ SafeInv' /\ AskedInTime /\ [Next]_vars
         => [\A a \in Address : Overdue(a) /\ crashes' = crashes => Settles(a)]_vars
  BY <1>2
<1>4. QED BY <1>1, <1>3, NextAsked, SafeInvariant, PTL DEF Spec
=============================================================================
