---------------------------- MODULE TokenLedger ----------------------------
(***************************************************************************)
(* The ledgers of item tokens, one in each operator's memory               *)
(* (token/token-ledger.ts, behind token/token-api.ts).  The main node      *)
(* mints and sells tokens, an owner embeds item data and transfers.  The   *)
(* ledgers meet only when one node's export is imported at another:        *)
(* broadcastTransaction sends nothing.  A call runs to its end before      *)
(* another begins, since none awaits anything.                             *)
(*                                                                         *)
(* Token ids are random: a new one is a token that no ledger and no export *)
(* holds.  A transfer's signature is an HMAC under the private key of one  *)
(* node and counts at that node only.                                      *)
(***************************************************************************)
EXTENDS Naturals, Sequences, FiniteSets, Functions

CONSTANTS
   Node,         \* the operators' nodes
   Main,         \* "main-node", an operator id and an address
   Holder,       \* the other addresses
   Token,
   ItemData,
   NoToken,      \* no entry in a ledger's map, and no item data
   QuorumM,      \* validations that make a transaction validated
   MaxLines      \* bound: transactions and validations in all ledgers together

Owner == Holder \cup {Main}

Move == [to : Owner, type : {"mint", "sale", "embed", "transfer"}]
TokenRecord == [owner : Owner, status : {"minted", "embedded", "transferred"},
                data : ItemData \cup {NoToken}, history : Seq(Move)]
Transaction == [type : {"mint", "sell", "embed", "transfer"}, tokens : Seq(Token),
                from : Owner \cup {NoToken}, to : Owner,
                validatedBy : Seq(Node), validated : BOOLEAN]
TokenBook == [tokens : [Token -> TokenRecord \cup {NoToken}], txs : Seq(Transaction)]

ASSUME TokenAssumption ==
   /\ Main \in Node
   /\ NoToken \notin Owner \cup ItemData \cup TokenRecord \cup TokenBook
   /\ QuorumM \in Nat \ {0}
   /\ MaxLines \in Nat

VARIABLES
   book,       \* [Node -> its ledger]: this.ledger
   exported    \* the JSON of an export, or NoToken

tokenVars == <<book, exported>>

TokenInit ==
   /\ book = [n \in Node |-> [tokens |-> [t \in Token |-> NoToken], txs |-> <<>>]]
   /\ exported = NoToken

TokenTypeOK ==
   /\ book \in [Node -> TokenBook]
   /\ exported \in TokenBook \cup {NoToken}
-----------------------------------------------------------------------------
Held(n) == {t \in Token : book[n].tokens[t] # NoToken}

FreshTokens == {t \in Token : /\ \A n \in Node : t \notin Held(n)
                              /\ exported # NoToken => exported.tokens[t] = NoToken}

\* A transaction nobody has validated yet, and one that needs no validation.
Pending(type, toks, from, to) ==
   [type |-> type, tokens |-> toks, from |-> from, to |-> to,
    validatedBy |-> <<>>, validated |-> FALSE]

Settled(type, toks, from, to, n) ==
   [Pending(type, toks, from, to) EXCEPT !.validatedBy = <<n>>, !.validated = TRUE]

Lines(n) == SumFunction([i \in DOMAIN book[n].txs |-> 1 + Len(book[n].txs[i].validatedBy)])

Bounded == SumFunction([n \in Node |-> Lines(n)]) < MaxLines

Record(n, toks, tx) ==
   /\ Bounded
   /\ book' = [book EXCEPT ![n] = [tokens |-> toks, txs |-> Append(@.txs, tx)]]
   /\ UNCHANGED exported

Blank(by) == [owner |-> by, status |-> "minted", data |-> NoToken,
              history |-> <<[to |-> by, type |-> "mint"]>>]

\* The transaction of a minting names a batch and none of its tokens.
MintTokens(n, new, by) ==
   /\ n = Main
   /\ Record(n, [t \in Token |-> IF t \in new THEN Blank(by) ELSE book[n].tokens[t]],
                Settled("mint", <<>>, NoToken, by, n))

PostMint(n, new, by) ==
   /\ new # {} /\ new \subseteq FreshTokens
   /\ MintTokens(n, new, by)

Sellable(n, t) ==
   /\ t \in Held(n)
   /\ book[n].tokens[t].owner = Main
   /\ book[n].tokens[t].status # "embedded"

Times(ids, t) == Cardinality({i \in DOMAIN ids : ids[i] = t})

\* A sale gives a token one entry for every time its id is listed.
Sold(rec, buyer, times) ==
   IF times = 0 THEN rec
   ELSE [rec EXCEPT !.owner = buyer,
                    !.history = @ \o [i \in 1..times |-> [to |-> buyer, type |-> "sale"]]]

(* The check of one token and its move in one loop, so that an id that fails *)
(* leaves the ones before it moved and no transaction (a seeded bug).        *)
SellOneByOne(n, ids, buyer) ==
   /\ n = Main
   /\ IF \A i \in DOMAIN ids : Sellable(n, ids[i])
      THEN Record(n, [t \in Token |-> Sold(book[n].tokens[t], buyer, Times(ids, t))],
                     Settled("sell", ids, Main, buyer, n))
      ELSE /\ Sellable(n, ids[1])
           /\ book' = [book EXCEPT ![n].tokens[ids[1]] = Sold(@, buyer, 1)]
           /\ UNCHANGED exported

\* All are checked before the first is moved; an id may be listed twice.
SellTokens(n, ids, buyer) ==
   /\ n = Main
   /\ \A i \in DOMAIN ids : Sellable(n, ids[i])
   /\ Record(n, [t \in Token |-> Sold(book[n].tokens[t], buyer, Times(ids, t))],
                Settled("sell", ids, Main, buyer, n))

PostSell(n, ids, buyer) == ids # <<>> /\ SellTokens(n, ids, buyer)

(* The status, not the data, tells what is embedded (a seeded bug): a *)
(* transfer makes the status "transferred".                           *)
EmbedByStatus(n, t, data, owner) ==
   /\ t \in Held(n)
   /\ book[n].tokens[t].owner = owner
   /\ book[n].tokens[t].status # "embedded"
   /\ Record(n, [book[n].tokens EXCEPT
                    ![t] = [@ EXCEPT !.data = data, !.status = "embedded",
                                     !.history = Append(@, [to |-> owner, type |-> "embed"])]],
                Pending("embed", <<t>>, owner, owner))

EmbedItemData(n, t, data, owner) ==
   LET rec == book[n].tokens[t]
   IN  /\ t \in Held(n)
       /\ rec.owner = owner
       /\ rec.data = NoToken
       /\ Record(n, [book[n].tokens EXCEPT
                        ![t] = [rec EXCEPT !.data = data, !.status = "embedded",
                                   !.history = Append(@, [to |-> owner, type |-> "embed"])]],
                    Pending("embed", <<t>>, owner, owner))

\* The API's handler asks for an id and for data, which these always are.
PostEmbed(n, t, data, owner) == EmbedItemData(n, t, data, owner)

\* An embedded token that changes hands is "transferred", as a blank one is.
TransferToken(n, t, from, to, signer) ==
   LET rec == book[n].tokens[t]
   IN  /\ t \in Held(n)
       /\ rec.owner = from
       /\ signer = n
       /\ Record(n, [book[n].tokens EXCEPT
                        ![t] = [rec EXCEPT !.owner = to, !.status = "transferred",
                                   !.history = Append(@, [to |-> to, type |-> "transfer"])]],
                    Pending("transfer", <<t>>, from, to))

PostTransfer(n, t, from, to, signer) == TransferToken(n, t, from, to, signer)

\* The ids of a sale of several are one string, which is no token's id.
TxIntegrity(n, tx) ==
   \/ tx.type = "mint"
   \/ /\ Len(tx.tokens) = 1 /\ tx.tokens[1] \in Held(n)
      /\ tx.type = "transfer" => book[n].tokens[tx.tokens[1]].owner = tx.from

\* The number of validations decides, whoever made them.
ValidateTransaction(n, i) ==
   LET tx == book[n].txs[i]
   IN  /\ Bounded
       /\ TxIntegrity(n, tx)
       /\ book' = [book EXCEPT ![n].txs[i] =
                     [tx EXCEPT !.validatedBy = Append(@, n),
                                !.validated = @ \/ Len(tx.validatedBy) + 1 >= QuorumM]]
       /\ UNCHANGED exported

ExportLedger(n) == exported' = book[n] /\ UNCHANGED book

\* The import replaces the whole ledger, by an older one too.
ImportLedger(n) ==
   /\ exported # NoToken
   /\ book' = [book EXCEPT ![n] = exported]
   /\ UNCHANGED exported

TokenStep ==
   \E n \in Node :
      \/ \E new \in SUBSET Token, by \in Owner : PostMint(n, new, by)
      \/ \E ids \in (Token \X Token) \cup (Token \X {NoToken}), buyer \in Owner :
            PostSell(n, IF ids[2] = NoToken THEN <<ids[1]>> ELSE <<ids[1], ids[2]>>, buyer)
      \/ \E t \in Token, data \in ItemData, owner \in Owner : PostEmbed(n, t, data, owner)
      \/ \E t \in Token, from, to \in Owner, signer \in Node :
            PostTransfer(n, t, from, to, signer)
      \/ \E i \in DOMAIN book[n].txs : ValidateTransaction(n, i)
      \/ ExportLedger(n)
      \/ ImportLedger(n)

TokenSpec == TokenInit /\ [][TokenStep]_tokenVars
-----------------------------------------------------------------------------
\* The entries a token's history owes to one transaction.
Entries(tx, t) ==
   [i \in 1..Times(tx.tokens, t) |->
      [to |-> tx.to, type |-> IF tx.type = "sell" THEN "sale" ELSE tx.type]]

\* The entries it owes to the first k of the transactions txs.
EntriesTo(txs, t) ==
   LET upTo[k \in 0..Len(txs)] ==
          IF k = 0 THEN <<>> ELSE upTo[k - 1] \o Entries(txs[k], t)
   IN  upTo[Len(txs)]

StatusAfter(move) ==
   CASE move.type = "mint" -> "minted"
     [] move.type = "embed" -> "embedded"
     [] move.type = "transfer" -> "transferred"

(* A ledger can be audited: what its transactions say, in their order, is    *)
(* exactly a token's history after its minting, the last entry names its     *)
(* owner, the last entry that is no sale gives its status, and a token holds *)
(* data exactly when one entry embedded it; whatever was sold in one call,   *)
(* embedded, transferred, validated or imported over it.                     *)
LedgerIsAuditable ==
   \A n \in Node : \A t \in Held(n) :
      LET rec == book[n].tokens[t]
      IN  /\ rec.history # <<>> /\ rec.history[1].type = "mint"
          /\ Tail(rec.history) = EntriesTo(book[n].txs, t)
          /\ rec.owner = rec.history[Len(rec.history)].to
          /\ \E i \in DOMAIN rec.history :
                /\ rec.history[i].type # "sale"
                /\ \A j \in DOMAIN rec.history : j > i => rec.history[j].type = "sale"
                /\ rec.status = StatusAfter(rec.history[i])
          /\ Cardinality({i \in DOMAIN rec.history : rec.history[i].type = "embed"})
                = (IF rec.data = NoToken THEN 0 ELSE 1)

DataStays ==
   \A n \in Node : \A t \in Held(n) :
      \/ book'[n] = exported
      \/ book[n].tokens[t].data \in {NoToken, book'[n].tokens[t].data}

(* Item data is embedded for good: no call on a ledger changes the data of a *)
(* token that has some, across sales, transfers back and forth and the       *)
(* change of status they make.  An import, which replaces the ledger, is     *)
(* not meant.                                                                *)
EmbeddedDataIsPermanent == [][DataStays]_tokenVars
=============================================================================
