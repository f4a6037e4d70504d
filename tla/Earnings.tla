------------------------------ MODULE Earnings ------------------------------
(***************************************************************************)
(* What operators earn from settlements (network/earnings-tracker.ts): the *)
(* fees of a settlement, the books of OperatorEarningsTracker, and the     *)
(* addresses BitcoinPaymentMonitor watches.  Their caller is the one the   *)
(* methods ask for: it records a committee, watches each member's payout   *)
(* address, hands over the payments that come in, and confirms those whose *)
(* amount verifies and fails the others; the clean-ups run at any time.    *)
(*                                                                         *)
(* The clock counts months of 30 days.                                     *)
(***************************************************************************)
EXTENDS Integers, FiniteSets, Functions

CONSTANTS
   Settlement,
   Member,        \* the operators that are followed; each has one payout address
   QuorumSize,    \* members of a committee, others among them
   MainNodePercentage,  \* 60
   Amounts,       \* of settlements, in sats
   Deviations,    \* how far an output may be from what was built
   MaxMonth,      \* bound
   MaxRecords,    \* bound: how often committees are recorded
   MaxReports,    \* bound: how often payments are reported to the monitor
   NoPayment      \* no entry in a map

Months == 0..MaxMonth

SettlementFees == [amount : Amounts, members : SUBSET Member]

\* from: history, the settlement whose transaction was booked.
PendingPayment == [expected : Nat, status : {"pending", "confirmed", "failed"},
                   actual : Nat, created : Months, from : Settlement \cup {NoPayment}]

OperatorEarnings == [total : Nat, participated : Nat, pending : Int,
                     byMonth : [Months -> Nat]]

WatchedAddress == [settlement : Settlement, added : Months]

SentPayment == [amount : Nat, arrived : BOOLEAN]

\* from: history, as above.
ReceivedPayment == [settlement : Settlement, member : Member, amount : Nat,
                    from : Settlement]

ASSUME EarningsAssumption ==
   /\ IsFiniteSet(Settlement) /\ IsFiniteSet(Member)
   /\ QuorumSize \in Nat \ {0}
   /\ MainNodePercentage \in 0..100
   /\ Amounts \subseteq Nat /\ Deviations \subseteq Int
   /\ MaxMonth \in Nat /\ MaxRecords \in Nat /\ MaxReports \in Nat
   /\ NoPayment \notin SettlementFees \cup PendingPayment \cup WatchedAddress \cup SentPayment

VARIABLES
   fees,      \* [Settlement -> its amount and committee]
   pay,       \* [Settlement \X Member -> PendingPayment]: pendingPayments
   earned,    \* [Member -> OperatorEarnings]: earnings
   watch,     \* [Member -> WatchedAddress]: watchedAddresses
   sent,      \* [Settlement \X Member -> what the transaction pays]
   received,  \* payments the monitor has recorded and the caller has not booked
   month,
   records, reports,  \* how many there were, for the bounds
   irregular, \* history: members with a payment recorded again, or ended twice
   mixed      \* history: members put in a committee before another paid them,
              \* watched for a settlement that had already paid them, or with
              \* a payment reported again while one was awaited

earningVars ==
   <<fees, pay, earned, watch, sent, received, month, records, reports, irregular, mixed>>

Pairs == Settlement \X Member

NoEarnings == [total |-> 0, participated |-> 0, pending |-> 0,
               byMonth |-> [k \in Months |-> 0]]

EarningsInit ==
   /\ fees = [s \in Settlement |-> NoPayment]
   /\ pay = [p \in Pairs |-> NoPayment]
   /\ earned = [m \in Member |-> NoEarnings]
   /\ watch = [m \in Member |-> NoPayment]
   /\ sent = [p \in Pairs |-> NoPayment]
   /\ received = {}
   /\ month = 0 /\ records = 0 /\ reports = 0
   /\ irregular = {} /\ mixed = {}

EarningsTypeOK ==
   /\ fees \in [Settlement -> SettlementFees \cup {NoPayment}]
   /\ pay \in [Pairs -> PendingPayment \cup {NoPayment}]
   /\ earned \in [Member -> OperatorEarnings]
   /\ watch \in [Member -> WatchedAddress \cup {NoPayment}]
   /\ sent \in [Pairs -> SentPayment \cup {NoPayment}]
   /\ received \subseteq ReceivedPayment
   /\ month \in Months /\ records \in 0..MaxRecords /\ reports \in 0..MaxReports
   /\ irregular \subseteq Member /\ mixed \subseteq Member
-----------------------------------------------------------------------------
TotalOperatorFees(amount) == (2 * amount) \div 5

SettlementSellerAmount(amount) == amount - TotalOperatorFees(amount)

(* The share is rounded up (a seeded bug). *)
FeeRoundedUp(amount) == (TotalOperatorFees(amount) + QuorumSize - 1) \div QuorumSize

FeePerOperator(amount) == TotalOperatorFees(amount) \div QuorumSize

\* FeeDistributor (core/fee-distribution.ts) splits a fee between the main
\* node, by percentage, and the other active operators, equally.
GetMainNodeShare(total) == (total * MainNodePercentage) \div 100

GetOperatorShare(total, count) ==
   IF count > 0 THEN (total - GetMainNodeShare(total)) \div count ELSE 0

Distance(a, b) == IF a < b THEN b - a ELSE a - b

\* An output may be 1% off, and 1 sat in any case.
VerifySettlementOutput(expected, actual) ==
   Distance(expected, actual) <= (IF expected < 200 THEN 1 ELSE expected \div 100)

\* verifyPayment takes 1% only.
VerifyPayment(expected, actual) == 100 * Distance(expected, actual) <= expected

Recorded(s) == fees[s] # NoPayment

Booked(p) == pay[p] # NoPayment

\* recordCommitteeSelection may be retried: what it has recorded is replaced.
RecordCommitteeSelection(s, amount, members) ==
   LET each == FeePerOperator(amount)
   IN  /\ members # {} /\ Cardinality(members) <= QuorumSize
       /\ Recorded(s) => fees[s].amount = amount /\ fees[s].members = members
       /\ records < MaxRecords /\ records' = records + 1
       /\ fees' = [fees EXCEPT ![s] = [amount |-> amount, members |-> members]]
       /\ pay' = [p \in Pairs |->
             IF p[1] = s /\ p[2] \in members
             THEN [expected |-> each, status |-> "pending", actual |-> 0,
                   created |-> month, from |-> NoPayment]
             ELSE pay[p]]
       /\ earned' = [m \in Member |-> IF m \in members
                                      THEN [earned[m] EXCEPT !.pending = @ + each]
                                      ELSE earned[m]]
       /\ irregular' = irregular \cup
             {m \in members : Booked(<<s, m>>) /\ pay[<<s, m>>].status # "failed"}
       /\ mixed' = mixed \cup
             {m \in members : \E t \in Settlement \ {s} :
                 /\ Recorded(t) /\ m \in fees[t].members
                 /\ sent[<<t, m>>] = NoPayment \/ ~sent[<<t, m>>].arrived}
       /\ UNCHANGED <<watch, sent, received, month, reports>>

\* One entry for an address: a later settlement's replaces an earlier one's.
WatchAddress(s, m) ==
   /\ Recorded(s) /\ m \in fees[s].members
   /\ watch' = [watch EXCEPT ![m] = [settlement |-> s, added |-> month]]
   /\ mixed' = IF sent[<<s, m>>] # NoPayment /\ sent[<<s, m>>].arrived
               THEN mixed \cup {m} ELSE mixed
   /\ UNCHANGED <<fees, pay, earned, sent, received, month, records, reports, irregular>>

\* The transaction of a settlement, within what verifySettlementTransaction takes.
SettlementMined(s) ==
   LET each == FeePerOperator(fees[s].amount)
   IN  \E d \in Deviations :
          /\ Recorded(s)
          /\ \A m \in fees[s].members : sent[<<s, m>>] = NoPayment
          /\ each + d >= 0 /\ VerifySettlementOutput(each, each + d)
          /\ sent' = [p \in Pairs |-> IF p[1] = s /\ p[2] \in fees[s].members
                                      THEN [amount |-> each + d, arrived |-> FALSE] ELSE sent[p]]
          /\ UNCHANGED <<fees, pay, earned, watch, received, month, records, reports, irregular, mixed>>

ReportedAgain(s, m) == IF sent[<<s, m>>].arrived /\ watch[m] # NoPayment THEN {m} ELSE {}

(* The address stays watched (a seeded bug). *)
RecordAndWatchOn(s, m) ==
   /\ sent[<<s, m>>] # NoPayment
   /\ reports < MaxReports /\ reports' = reports + 1
   /\ sent' = [sent EXCEPT ![<<s, m>>].arrived = TRUE]
   /\ received' = IF watch[m] = NoPayment THEN received
                  ELSE received \cup {[settlement |-> watch[m].settlement, member |-> m,
                                       amount |-> sent[<<s, m>>].amount, from |-> s]}
   /\ mixed' = mixed \cup ReportedAgain(s, m)
   /\ UNCHANGED <<fees, pay, earned, watch, month, records, irregular>>

\* A payment counts for the settlement its address is watched for, whichever
\* made it; one to an address nobody watches is dropped.  Whether the
\* transaction was reported before is not looked at.
RecordPayment(s, m) ==
   /\ sent[<<s, m>>] # NoPayment
   /\ reports < MaxReports /\ reports' = reports + 1
   /\ sent' = [sent EXCEPT ![<<s, m>>].arrived = TRUE]
   /\ received' = IF watch[m] = NoPayment THEN received
                  ELSE received \cup {[settlement |-> watch[m].settlement, member |-> m,
                                       amount |-> sent[<<s, m>>].amount, from |-> s]}
   /\ watch' = [watch EXCEPT ![m] = NoPayment]
   /\ mixed' = mixed \cup ReportedAgain(s, m)
   /\ UNCHANGED <<fees, pay, earned, month, records, irregular>>

\* Neither looks at the status the payment has.
ConfirmPayment(p, r) ==
   LET e == earned[p[2]]
   IN  /\ pay' = [pay EXCEPT ![p] = [@ EXCEPT !.status = "confirmed", !.actual = r.amount,
                                              !.from = r.from]]
       /\ earned' = [earned EXCEPT ![p[2]] =
             [e EXCEPT !.total = @ + r.amount, !.participated = @ + 1,
                       !.pending = @ - pay[p].expected, !.byMonth[month] = @ + r.amount]]

MarkPaymentFailed(p) ==
   /\ pay' = [pay EXCEPT ![p].status = "failed"]
   /\ earned' = [earned EXCEPT ![p[2]].pending = @ - pay[p].expected]

Ended(p) ==
   irregular' = IF Booked(p) /\ pay[p].status # "pending" THEN irregular \cup {p[2]}
                ELSE irregular

\* The caller books a payment the monitor has recorded.
BookPayment(r) ==
   LET p == <<r.settlement, r.member>>
   IN  /\ r \in received
       /\ received' = received \ {r}
       /\ IF ~Booked(p) THEN UNCHANGED <<pay, earned>>
          ELSE IF VerifyPayment(pay[p].expected, r.amount) THEN ConfirmPayment(p, r)
          ELSE MarkPaymentFailed(p)
       /\ Ended(p)
       /\ UNCHANGED <<fees, watch, sent, month, records, reports, mixed>>

Old(since) == since + 1 < month

Stale == {p \in Pairs : Booked(p) /\ pay[p].status = "pending" /\ Old(pay[p].created)}

(* The entries go and the books stay (a seeded bug). *)
DeleteOldPendingPayments ==
   /\ Stale # {}
   /\ pay' = [p \in Pairs |-> IF p \in Stale THEN NoPayment ELSE pay[p]]
   /\ UNCHANGED <<fees, earned, watch, sent, received, month, records, reports, irregular, mixed>>

\* Each is failed, which takes it out of the books, and then deleted.
CleanupOldPendingPayments ==
   /\ Stale # {}
   /\ pay' = [p \in Pairs |-> IF p \in Stale THEN NoPayment ELSE pay[p]]
   /\ earned' = [m \in Member |-> [earned[m] EXCEPT !.pending = @ -
         SumFunction([p \in {q \in Stale : q[2] = m} |-> pay[p].expected])]]
   /\ UNCHANGED <<fees, watch, sent, received, month, records, reports, irregular, mixed>>

CleanupOldWatches ==
   /\ \E m \in Member : watch[m] # NoPayment /\ Old(watch[m].added)
   /\ watch' = [m \in Member |-> IF watch[m] # NoPayment /\ Old(watch[m].added)
                                 THEN NoPayment ELSE watch[m]]
   /\ UNCHANGED <<fees, pay, earned, sent, received, month, records, reports, irregular, mixed>>

NextMonth ==
   /\ month < MaxMonth /\ month' = month + 1
   /\ UNCHANGED <<fees, pay, earned, watch, sent, received, records, reports, irregular, mixed>>

EarningsStep ==
   \/ \E s \in Settlement :
         \/ \E amount \in Amounts, members \in SUBSET Member :
               RecordCommitteeSelection(s, amount, members)
         \/ SettlementMined(s)
         \/ \E m \in Member : WatchAddress(s, m) \/ RecordPayment(s, m)
   \/ \E r \in received : BookPayment(r)
   \/ CleanupOldPendingPayments \/ CleanupOldWatches
   \/ NextMonth

EarningsSpec == EarningsInit /\ [][EarningsStep]_earningVars
-----------------------------------------------------------------------------
InStatus(m, status) == {p \in Pairs : p[2] = m /\ Booked(p) /\ pay[p].status = status}

(* What the statistics and the reports are made from agrees with the         *)
(* payments: an operator's pending earnings are the sum of its pending       *)
(* payments, what it has earned the sum of the confirmed ones and of its     *)
(* months; unless a payment was recorded again or ended twice.               *)
BooksBalance ==
   \A m \in Member \ irregular :
      /\ earned[m].pending =
            SumFunction([p \in InStatus(m, "pending") |-> pay[p].expected])
      /\ earned[m].total = SumFunction([p \in InStatus(m, "confirmed") |-> pay[p].actual])
      /\ earned[m].total = SumFunction(earned[m].byMonth)

(* An operator is credited for a settlement with that settlement's own       *)
(* payment, whatever the clean-ups remove; unless it was put in a committee  *)
(* before another settlement had paid it, as both pay the same address, or   *)
(* watched for one that had paid it, or an earlier payment was reported      *)
(* again while one was awaited.                                              *)
CreditIsForWork ==
   \A p \in Pairs :
      Booked(p) /\ pay[p].status = "confirmed" /\ p[2] \notin mixed =>
         pay[p].from = p[1]

(* The seller and the members are paid no more than the settlement's amount, *)
(* and what the roundings leave is less than a sat for each member.  The     *)
(* same fees split by FeeDistributor come to no more than the fees.          *)
SharesFit ==
   \A s \in Settlement : Recorded(s) =>
      LET amount == fees[s].amount
          total == TotalOperatorFees(amount)
          paid == SettlementSellerAmount(amount) + QuorumSize * FeePerOperator(amount)
      IN  /\ paid <= amount /\ amount - paid < QuorumSize
          /\ \A count \in 0..QuorumSize :
                GetMainNodeShare(total) + count * GetOperatorShare(total, count) <= total
=============================================================================
