------------------------------ MODULE GiftSale ------------------------------
(***************************************************************************)
(* What the money path promises its callers, with no handlers, locks or    *)
(* transactions: a key is sold at most once, at the full price, out of     *)
(* money the buyer has, and in the same instant the sale is announced to   *)
(* the delivery pipeline.  GiftOrder implements it.                        *)
(***************************************************************************)
EXTENDS Integers

CONSTANTS Users, Keys, Requests, Credits, Price, Opening, NoSale

VARIABLES
    sold,       \* the request each key was sold to
    balance,    \* each user's money
    announced   \* the keys whose sale the pipeline has been told of

saleVars == <<sold, balance, announced>>

Cost(r) == Price[r.gift] * r.count

SaleInit ==
    /\ sold = [k \in Keys |-> NoSale]
    /\ balance = Opening
    /\ announced = {}

Sell(r) ==
    /\ sold[r.key] = NoSale
    /\ balance[r.user] >= Cost(r)
    /\ sold' = [sold EXCEPT ![r.key] = r]
    /\ balance' = [balance EXCEPT ![r.user] = @ - Cost(r)]
    /\ announced' = announced \cup {r.key}

Deposit(q) ==
    /\ q.amount > 0
    /\ balance' = [balance EXCEPT ![q.user] = @ + q.amount]
    /\ UNCHANGED <<sold, announced>>

SaleNext == (\E r \in Requests : Sell(r)) \/ (\E q \in Credits : Deposit(q))

SaleSpec == SaleInit /\ [][SaleNext]_saleVars
=============================================================================
