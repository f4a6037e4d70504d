---------------------------- MODULE SaleProtocol ----------------------------
(***************************************************************************)
(* Sales of one item through a SaleManager (client/sale-manager.ts) over a *)
(* MockPaymentAdapter (payment/adapter.ts), each as examples/demo.ts makes *)
(* it, steps 6 to 11, and then the fees with distributeFees.  The calls    *)
(* are awaited, so several sales interleave between any two of them; one   *)
(* that throws ends its sale.  An operator keeps the item: what it accepts *)
(* is ItemStateMachine's.  It answers a submission it refuses, which the   *)
(* demo does not look at: the sale goes on.                                *)
(*                                                                         *)
(* The item's accepted events form one chain, so the hash of one stands    *)
(* for its height, and that of a refused one for no height.  Time is       *)
(* whether an offer has expired.                                           *)
(***************************************************************************)
EXTENDS ItemStateMachine, Integers, FiniteSets, Functions

CONSTANTS
   Wallet,
   FirstOwner,   \* the owner the item was assigned to
   Sale,         \* sales, each with its own offer
   Prices,       \* in sats
   Seats,        \* operators among whom fees are shared
   NoWallet

SaleStage == {"none", "offered", "accepted", "lockBuilt", "lockSent", "invoiced",
              "settleBuilt", "settleSent", "released", "failed"}

NoHeight == -1  \* of an event that is not in the item's chain

\* seen: the item's height when the lock was built, and of the lock itself
\* once it is submitted; paid: the amount of the proof, 0 without one; shares:
\* how many fee payments have been made; soldBy: history, the item's owner
\* just before the settlement.
SaleRecord == [stage : SaleStage, buyer : Wallet \cup {NoWallet},
               seller : Wallet \cup {NoWallet}, price : Prices \cup {0}, expired : BOOLEAN,
               seen : Nat \cup {NoHeight}, invoice : Nat, paid : Nat, shares : 0..(Seats + 1),
               soldBy : Wallet \cup {NoWallet}]

ASSUME SaleAssumption ==
   /\ IsFiniteSet(Sale) /\ FirstOwner \in Wallet /\ NoWallet \notin Wallet
   /\ Prices \subseteq Nat \ {0}
   /\ Seats \in Nat \ {0}

VARIABLES
   sale,       \* [Sale -> SaleRecord]
   escrowed,   \* [state, owner, height]: the item
   balance     \* the adapter's balance, beyond what it began with

saleVars == <<sale, escrowed, balance>>

NoSale == [stage |-> "none", buyer |-> NoWallet, seller |-> NoWallet, price |-> 0,
           expired |-> FALSE, seen |-> 0, invoice |-> 0, paid |-> 0, shares |-> 0,
           soldBy |-> NoWallet]

SaleInit ==
   /\ sale = [f \in Sale |-> NoSale]
   /\ escrowed = [state |-> "ACTIVE_HELD", owner |-> FirstOwner, height |-> 0]
   /\ balance = 0

SaleTypeOK ==
   /\ sale \in [Sale -> SaleRecord]
   /\ escrowed \in [state : ItemState, owner : Wallet, height : Nat]
   /\ balance \in Int
-----------------------------------------------------------------------------
AtLeast(n, least) == IF n > least THEN n ELSE least

CalculateEscrowFee(price) == AtLeast(price \div 100, 1000)

CalculateSettlementFee(price) == AtLeast((price * 2) \div 100, 2000)

\* The sale f goes from one stage to another with its record changed to r.
Goes(f, from, r, to) ==
   /\ sale[f].stage = from
   /\ sale' = [sale EXCEPT ![f] = [r EXCEPT !.stage = to]]

CreateOffer(f, buyer, price) ==
   /\ Goes(f, "none", [sale[f] EXCEPT !.buyer = buyer, !.price = price], "offered")
   /\ UNCHANGED <<escrowed, balance>>

\* Anyone can sign an acceptance.
AcceptOffer(f, seller) ==
   /\ Goes(f, "offered", [sale[f] EXCEPT !.seller = seller], "accepted")
   /\ UNCHANGED <<escrowed, balance>>

CreateEscrowLock(f) ==
   /\ Goes(f, "accepted", [sale[f] EXCEPT !.seen = escrowed.height],
           IF /\ escrowed.state = "ACTIVE_HELD"
              /\ escrowed.owner = sale[f].seller
              /\ ~sale[f].expired
           THEN "lockBuilt" ELSE "failed")
   /\ UNCHANGED <<escrowed, balance>>

\* The operator takes an event of this type that follows the given height.
Accepts(type, height) == height = escrowed.height /\ IsValidTransition(escrowed.state, type)

Advanced(type, owner) ==
   [state |-> NextState(type), owner |-> owner, height |-> escrowed.height + 1]

(* What the event follows goes unchecked (a seeded bug). *)
SubmitStaleLock(f) ==
   /\ IF IsValidTransition(escrowed.state, "ITEM_LOCKED")
      THEN /\ Goes(f, "lockBuilt", [sale[f] EXCEPT !.seen = escrowed.height + 1], "lockSent")
           /\ escrowed' = Advanced("ITEM_LOCKED", escrowed.owner)
      ELSE /\ Goes(f, "lockBuilt", [sale[f] EXCEPT !.seen = NoHeight], "lockSent")
           /\ UNCHANGED escrowed
   /\ UNCHANGED balance

\* Accepted or not, the buyer is going to get an invoice.
SubmitLock(f) ==
   /\ IF Accepts("ITEM_LOCKED", sale[f].seen)
      THEN /\ Goes(f, "lockBuilt", [sale[f] EXCEPT !.seen = escrowed.height + 1], "lockSent")
           /\ escrowed' = Advanced("ITEM_LOCKED", escrowed.owner)
      ELSE /\ Goes(f, "lockBuilt", [sale[f] EXCEPT !.seen = NoHeight], "lockSent")
           /\ UNCHANGED escrowed
   /\ UNCHANGED balance

(* The escrow fee is left off the invoice (a seeded bug). *)
InvoicePriceOnly(f) ==
   /\ Goes(f, "lockSent", [sale[f] EXCEPT !.invoice = sale[f].price], "invoiced")
   /\ UNCHANGED <<escrowed, balance>>

CreatePaymentInvoice(f) ==
   /\ Goes(f, "lockSent", [sale[f] EXCEPT
           !.invoice = sale[f].price + CalculateEscrowFee(sale[f].price)], "invoiced")
   /\ UNCHANGED <<escrowed, balance>>

\* The buyer pays once, whether the offer has expired or not.
MockPayInvoice(f) ==
   /\ sale[f].stage = "invoiced" /\ sale[f].paid = 0
   /\ sale' = [sale EXCEPT ![f].paid = sale[f].invoice]
   /\ balance' = balance + sale[f].invoice
   /\ UNCHANGED escrowed

\* verifyPayment answers the proof or null; no expiry is looked at.
CreateSettlement(f) ==
   /\ Goes(f, "invoiced", sale[f],
           IF sale[f].paid > 0 /\ sale[f].paid >= sale[f].price
           THEN "settleBuilt" ELSE "failed")
   /\ UNCHANGED <<escrowed, balance>>

\* Accepted or not, the seller is going to be paid.
SubmitSettlement(f) ==
   /\ IF Accepts("ITEM_SETTLED", sale[f].seen)
      THEN /\ Goes(f, "settleBuilt", [sale[f] EXCEPT !.soldBy = escrowed.owner], "settleSent")
           /\ escrowed' = Advanced("ITEM_SETTLED", sale[f].buyer)
      ELSE Goes(f, "settleBuilt", sale[f], "settleSent") /\ UNCHANGED escrowed
   /\ UNCHANGED balance

\* The amount may be negative, which adds to the balance.
ReleaseFunds(f, from, r, to, amount) ==
   IF balance < amount
   THEN Goes(f, from, sale[f], "failed") /\ UNCHANGED balance
   ELSE Goes(f, from, r, to) /\ balance' = balance - amount

SellerAmount(price) == price - CalculateSettlementFee(price)

ReleasePayment(f) ==
   /\ ReleaseFunds(f, "settleSent", sale[f], "released", SellerAmount(sale[f].price))
   /\ UNCHANGED escrowed

\* One payment of distributeFees: to the operators in turn, then the treasury.
\* A twentieth, and what the roundings leave, is paid to nobody.
DistributeFees(f) ==
   LET total == CalculateEscrowFee(sale[f].price) + CalculateSettlementFee(sale[f].price)
   IN  /\ sale[f].shares <= Seats
       /\ ReleaseFunds(f, "released", [sale[f] EXCEPT !.shares = @ + 1], "released",
                       IF sale[f].shares < Seats THEN ((total * 80) \div 100) \div Seats
                                                 ELSE (total * 15) \div 100)
       /\ UNCHANGED escrowed

Expire(f) ==
   /\ sale[f].stage # "none" /\ ~sale[f].expired
   /\ sale' = [sale EXCEPT ![f].expired = TRUE]
   /\ UNCHANGED <<escrowed, balance>>

\* Somebody has a locked item unlocked or burned: the lock's expiry is not
\* looked at, nor is a payment.
EndLock(type) ==
   /\ IsValidTransition(escrowed.state, type)
   /\ escrowed.state = "LOCKED_IN_ESCROW"
   /\ escrowed' = Advanced(type, escrowed.owner)
   /\ UNCHANGED <<sale, balance>>

SaleStep ==
   \/ \E f \in Sale :
         \/ \E buyer \in Wallet, price \in Prices : CreateOffer(f, buyer, price)
         \/ \E seller \in Wallet : AcceptOffer(f, seller)
         \/ CreateEscrowLock(f) \/ SubmitLock(f)
         \/ CreatePaymentInvoice(f) \/ MockPayInvoice(f)
         \/ CreateSettlement(f) \/ SubmitSettlement(f)
         \/ ReleasePayment(f) \/ DistributeFees(f)
         \/ Expire(f)
   \/ \E type \in {"ITEM_UNLOCKED_EXPIRED", "ITEM_BURNED"} : EndLock(type)

SaleSpec == SaleInit /\ [][SaleStep]_saleVars
-----------------------------------------------------------------------------
(* Whatever locks, unlocks and settlements of other sales come in between,   *)
(* a sale that settles sold what its seller owned, and the buyer had paid    *)
(* the price.                                                                *)
SoldByOwnerAndPaid ==
   \A f \in Sale : sale[f].soldBy # NoWallet =>
      sale[f].soldBy = sale[f].seller /\ sale[f].paid >= sale[f].price

(* All sales share one balance, and sellers and operators are paid from it   *)
(* at any time: it always covers what the sellers of the paid sales that     *)
(* have not ended are yet to be sent, whether the item was sold or refused,  *)
(* and no payment of a sold one fails for want of money.                     *)
EscrowIsSolvent ==
   /\ balance >= SumFunction([f \in Sale |->
         IF sale[f].paid > 0 /\ sale[f].stage \notin {"released", "failed"}
         THEN SellerAmount(sale[f].price) ELSE 0])
   /\ \A f \in Sale : sale[f].stage = "failed" => sale[f].soldBy = NoWallet
=============================================================================
