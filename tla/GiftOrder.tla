----------------------------- MODULE GiftOrder -----------------------------
(***************************************************************************)
(* The money path of live-commerce: POST /rooms/{id}/gifts (gift.Service   *)
(* .Send and gift.Repository.Create) and the development credit            *)
(* (wallet.Repository.Credit), run by any number of concurrent handlers    *)
(* against one MySQL schema.                                               *)
(*                                                                         *)
(* A member of Calls is one execution of the sendGift handler; a client    *)
(* that retries, sends twice or reuses a key is several calls.  Send draws *)
(* a fresh order_no, transaction_no and event_id for every execution, so   *)
(* the call itself stands for the three identifiers.  What the handler     *)
(* reads from the identity service and from the rate limiter is decided    *)
(* elsewhere and may change between any two reads: each such read is a     *)
(* choice among its outcomes.  Of InnoDB the model keeps what Create       *)
(* relies on: the unique index on request_id (an insert waits for the      *)
(* uncommitted insert of the same key), the exclusive lock on the wallet   *)
(* row, and that a transaction's writes appear together at its commit or   *)
(* not at all.  An absent wallet row and a row with balance 0, version 0   *)
(* are one state: every statement that uses a wallet first inserts it.     *)
(***************************************************************************)
EXTENDS Integers, Sequences

CONSTANTS
    Calls,          \* executions of the sendGift handler
    CreditCalls,    \* executions of the devWalletCredit handler
    Users, Rooms, Gifts, Keys,
    Requests,       \* the gift requests clients send
    Credits,        \* the credit requests clients send
    Price,          \* gifts.price
    Opening,        \* wallet balances when observation begins
    MaxCountPerRequest,
    MaxCreditAmount,
    MaxInt64,       \* the largest int64, scaled down by the models
    NoOrder, NoCall, NoRequest

ASSUME GiftOrderAssumption ==
    /\ MaxInt64 \in Nat \ {0}
    /\ MaxCountPerRequest \in Nat \ {0}
    /\ MaxCreditAmount \in Nat
    /\ Price \in [Gifts -> 0..MaxInt64]
    /\ Opening \in [Users -> 0..MaxInt64]
    /\ Requests \subseteq [user: Users, room: Rooms, gift: Gifts, count: Int, key: Keys]
    /\ Credits \subseteq [user: Users, amount: Int]
    /\ Calls \cap CreditCalls = {}
    /\ NoCall \notin Calls \cup CreditCalls
    /\ NoRequest \notin Requests \cup Credits
    /\ NoOrder \notin [orderNo: Calls, user: Users, room: Rooms, gift: Gifts,
                       count: Int, total: -(MaxInt64 + 1)..MaxInt64]

VARIABLES
    pc,          \* where each call is in Send / Create
    req,         \* the request of each call
    outcome,     \* its answer; while pc = "replay", the refusal it is about to give
    answered,    \* the order a successful answer names
    work,        \* balance_before and balance_after of an open transaction
    orders,      \* gift_orders, indexed by the unique request_id
    wallets,     \* wallets
    ledger,      \* wallet_transactions of each user, in commit order
    outbox,      \* outbox_events inserted by Create
    keyLock,     \* the transaction holding the uncommitted row of a request_id
    walletLock,  \* the transaction holding the wallet row
    giftValue,   \* viewer gift scores in Redis (AddGiftValue)
    creditPc, creditReq, creditWork

callVars == <<pc, req, outcome, answered>>
tables == <<orders, wallets, ledger, outbox>>
locks == <<keyLock, walletLock>>
creditVars == <<creditPc, creditReq, creditWork>>
vars == <<callVars, work, tables, locks, giftValue, creditVars>>

-----------------------------------------------------------------------------
(* Values *)

\* Refusals after which Send first looks for an order to replay.
ReplayableRefusals == {"ROOM_ERROR", "NOT_LIVING", "BANNED", "RATE_LIMITED"}
Successes == {"CREATED", "REPLAY"}
Outcomes == ReplayableRefusals \cup Successes \cup
    {"NONE", "INVALID", "ERROR", "CONFLICT", "GIFT_UNAVAILABLE", "OVERFLOW",
     "INSUFFICIENT", "CRASHED"}
Steps == {"idle", "room", "ban", "limit", "replay", "create", "dup", "wallet",
          "commit", "reread", "board", "done"}
InTransaction == {"create", "wallet", "commit"}

Transactions == Calls \cup CreditCalls

Int64 == -(MaxInt64 + 1)..MaxInt64

\* int64 arithmetic: the result modulo 2^w, two's complement.
Wrap(n) == ((n + MaxInt64 + 1) % (2 * (MaxInt64 + 1))) - (MaxInt64 + 1)

\* Mutant: the guard compares the unit price alone.
TotalFits_UnitPrice(r) == Price[r.gift] <= MaxInt64

\* g.Price > math.MaxInt64/p.Count is refused before the multiplication.
TotalFits(r) == Price[r.gift] <= MaxInt64 \div r.count
Total(r) == Wrap(Price[r.gift] * r.count)

ValidRequest(r) == r.count >= 1 /\ r.count <= MaxCountPerRequest

Order == [orderNo: Calls, user: Users, room: Rooms, gift: Gifts, count: Int, total: Int64]
Row == [txn: Transactions, amount: Int64, before: Int64, after: Int64]
Event == [event: Calls, orderNo: Calls, room: Rooms, total: Int64]

\* sameRequest, and the same comparison inside Create.
SameRequest(o, r) ==
    o.user = r.user /\ o.room = r.room /\ o.gift = r.gift /\ o.count = r.count

NewOrder(c) ==
    [orderNo |-> c, user |-> req[c].user, room |-> req[c].room, gift |-> req[c].gift,
     count |-> req[c].count, total |-> Total(req[c])]

-----------------------------------------------------------------------------
Init ==
    /\ pc = [c \in Calls |-> "idle"]
    /\ req = [c \in Calls |-> NoRequest]
    /\ outcome = [c \in Calls |-> "NONE"]
    /\ answered = [c \in Calls |-> NoCall]
    /\ work = [c \in Calls |-> [before |-> 0, after |-> 0]]
    /\ orders = [k \in Keys |-> NoOrder]
    /\ wallets = [u \in Users |-> [balance |-> Opening[u], version |-> 0]]
    /\ ledger = [u \in Users |-> <<>>]
    /\ outbox = {}
    /\ keyLock = [k \in Keys |-> NoCall]
    /\ walletLock = [u \in Users |-> NoCall]
    /\ giftValue = [r \in Rooms |-> [u \in Users |-> 0]]
    /\ creditPc = [d \in CreditCalls |-> "idle"]
    /\ creditReq = [d \in CreditCalls |-> NoRequest]
    /\ creditWork = [d \in CreditCalls |-> [before |-> 0, after |-> 0]]

Goto(c, step) == pc' = [pc EXCEPT ![c] = step]

\* The handler answers and ends.
Answer(c, what, order) ==
    /\ pc' = [pc EXCEPT ![c] = "done"]
    /\ outcome' = [outcome EXCEPT ![c] = what]
    /\ answered' = [answered EXCEPT ![c] = order]
    /\ UNCHANGED req

Fail(c, what) == Answer(c, what, NoCall)

\* A refusal that Send gives only if there is no order to replay.
RefuseUnlessReplay(c, why) ==
    /\ pc' = [pc EXCEPT ![c] = "replay"]
    /\ outcome' = [outcome EXCEPT ![c] = why]
    /\ UNCHANGED <<req, answered>>

ReleaseKey(c) == keyLock' = [k \in Keys |-> IF keyLock[k] = c THEN NoCall ELSE keyLock[k]]
ReleaseWallet(t) == walletLock' = [u \in Users |-> IF walletLock[u] = t THEN NoCall ELSE walletLock[u]]

\* tx.Rollback: the uncommitted rows vanish and their locks with them.
Rollback(c) == ReleaseKey(c) /\ ReleaseWallet(c)

-----------------------------------------------------------------------------
(* gift.Service.Send *)

\* sendGift receives the request; Send validates the count and the request id.
Arrive(c, r) ==
    /\ pc[c] = "idle"
    /\ req' = [req EXCEPT ![c] = r]
    /\ IF ValidRequest(r)
         THEN Goto(c, "room") /\ UNCHANGED outcome
         ELSE Goto(c, "done") /\ outcome' = [outcome EXCEPT ![c] = "INVALID"]
    /\ UNCHANGED <<answered, work, tables, locks, giftValue, creditVars>>

\* rooms.Get: the room is living, is not, or cannot be read.
CheckRoom(c) ==
    /\ pc[c] = "room"
    /\ \/ Goto(c, "ban") /\ UNCHANGED <<req, outcome, answered>>
       \/ \E why \in {"ROOM_ERROR", "NOT_LIVING"} : RefuseUnlessReplay(c, why)
    /\ UNCHANGED <<work, tables, locks, giftValue, creditVars>>

\* Mutant: a banned user is refused before looking for an order to replay.
CheckBan_NoReplay(c) ==
    /\ pc[c] = "ban"
    /\ \/ Goto(c, "limit") /\ UNCHANGED <<req, outcome, answered>>
       \/ Fail(c, "BANNED")
    /\ UNCHANGED <<work, tables, locks, giftValue, creditVars>>

\* rooms.IsBanned: a failed read is returned at once, without a replay.
CheckBan(c) ==
    /\ pc[c] = "ban"
    /\ \/ Goto(c, "limit") /\ UNCHANGED <<req, outcome, answered>>
       \/ RefuseUnlessReplay(c, "BANNED")
       \/ Fail(c, "ROOM_ERROR")
    /\ UNCHANGED <<work, tables, locks, giftValue, creditVars>>

\* limiter.Allow on the user's fixed window.
CheckLimit(c) ==
    /\ pc[c] = "limit"
    /\ \/ Goto(c, "create") /\ UNCHANGED <<req, outcome, answered>>
       \/ RefuseUnlessReplay(c, "RATE_LIMITED")
       \/ Fail(c, "ERROR")
    /\ UNCHANGED <<work, tables, locks, giftValue, creditVars>>

\* Mutant: the key alone decides, whatever the request asks for.
AnswerFromOrder_KeyOnly(c, o) == Answer(c, "REPLAY", o.orderNo)

\* What a committed order o means for a call that carries its key.
AnswerFromOrder(c, o) ==
    IF SameRequest(o, req[c]) THEN Answer(c, "REPLAY", o.orderNo) ELSE Fail(c, "CONFLICT")

\* Service.replay: look the key up; without an order the refusal stands.
Replay(c) ==
    /\ pc[c] = "replay"
    /\ \/ /\ orders[req[c].key] = NoOrder
          /\ Fail(c, outcome[c])
       \/ /\ orders[req[c].key] # NoOrder
          /\ AnswerFromOrder(c, orders[req[c].key])
       \/ Fail(c, "ERROR")
    /\ UNCHANGED <<work, tables, locks, giftValue, creditVars>>

-----------------------------------------------------------------------------
(* gift.Repository.Create *)

\* The gift is missing or offline.
RefuseGift(c) ==
    /\ pc[c] = "create"
    /\ Fail(c, "GIFT_UNAVAILABLE")
    /\ UNCHANGED <<work, tables, locks, giftValue, creditVars>>

\* The amount does not fit an int64.
RefuseAmount(c) ==
    /\ pc[c] = "create"
    /\ ~TotalFits(req[c])
    /\ Fail(c, "OVERFLOW")
    /\ UNCHANGED <<work, tables, locks, giftValue, creditVars>>

\* Mutant: no unique index on request_id.
InsertOrder_NotUnique(c) ==
    LET k == req[c].key IN
    /\ pc[c] = "create"
    /\ TotalFits(req[c])
    /\ keyLock[k] = NoCall
    /\ Goto(c, "wallet")
    /\ keyLock' = [keyLock EXCEPT ![k] = c]
    /\ UNCHANGED <<req, outcome, answered, work, tables, walletLock, giftValue, creditVars>>

\* INSERT INTO gift_orders: waits for an uncommitted row of the same key, and
\* is a duplicate when that key is committed (Create then rolls back).
InsertOrder(c) ==
    LET k == req[c].key IN
    /\ pc[c] = "create"
    /\ TotalFits(req[c])
    /\ keyLock[k] = NoCall
    /\ IF orders[k] # NoOrder
         THEN Goto(c, "dup") /\ UNCHANGED keyLock
         ELSE Goto(c, "wallet") /\ keyLock' = [keyLock EXCEPT ![k] = c]
    /\ UNCHANGED <<req, outcome, answered, work, tables, walletLock, giftValue, creditVars>>

\* Mutant: the score is added for a replayed order too.
ReadDuplicate_Scores(c) ==
    /\ pc[c] = "dup"
    /\ Goto(c, "board")
    /\ UNCHANGED <<req, outcome, answered, work, tables, locks, giftValue, creditVars>>

\* After the rollback, ByRequestID on another connection.
ReadDuplicate(c) ==
    /\ pc[c] = "dup"
    /\ \/ /\ orders[req[c].key] # NoOrder
          /\ AnswerFromOrder(c, orders[req[c].key])
       \/ Fail(c, "ERROR")
    /\ UNCHANGED <<work, tables, locks, giftValue, creditVars>>

\* Mutant: the balance is read without taking the row.
DebitWallet_NoLock(c) ==
    LET u == req[c].user
        total == Total(req[c])
    IN
    /\ pc[c] = "wallet"
    /\ wallets[u].balance >= total
    /\ work' = [work EXCEPT ![c] = [before |-> wallets[u].balance,
                                    after |-> wallets[u].balance - total]]
    /\ Goto(c, "commit")
    /\ UNCHANGED <<req, outcome, answered, locks, tables, giftValue, creditVars>>

\* Mutant: the early return on an empty wallet leaves the transaction open.
DebitWallet_KeepsKey(c) ==
    LET u == req[c].user IN
    /\ pc[c] = "wallet"
    /\ walletLock[u] = NoCall
    /\ wallets[u].balance < Total(req[c])
    /\ Fail(c, "INSUFFICIENT")
    /\ UNCHANGED <<work, locks, tables, giftValue, creditVars>>

\* INSERT ... ON DUPLICATE KEY UPDATE takes the wallet row, UPDATE ... WHERE
\* balance >= total debits it, SELECT reads back balance_after.
DebitWallet(c) ==
    LET u == req[c].user
        total == Total(req[c])
    IN
    /\ pc[c] = "wallet"
    /\ walletLock[u] = NoCall
    /\ \/ /\ wallets[u].balance >= total
          /\ walletLock' = [walletLock EXCEPT ![u] = c]
          /\ work' = [work EXCEPT ![c] = [before |-> wallets[u].balance,
                                          after |-> wallets[u].balance - total]]
          /\ Goto(c, "commit")
          /\ UNCHANGED <<req, outcome, answered, keyLock>>
       \/ /\ wallets[u].balance < total
          /\ Rollback(c)
          /\ Fail(c, "INSUFFICIENT")
          /\ UNCHANGED work
    /\ UNCHANGED <<tables, giftValue, creditVars>>

\* What the transaction wrote: the order, the debit, its ledger row, its event.
Publish(c) ==
    LET r == req[c] IN
    /\ orders' = [orders EXCEPT ![r.key] = NewOrder(c)]
    /\ wallets' = [wallets EXCEPT ![r.user] =
            [balance |-> work[c].after, version |-> wallets[r.user].version + 1]]
    /\ ledger' = [ledger EXCEPT ![r.user] = Append(@,
            [txn |-> c, amount |-> -Total(r), before |-> work[c].before, after |-> work[c].after])]
    /\ outbox' = outbox \cup {[event |-> c, orderNo |-> c, room |-> r.room, total |-> Total(r)]}

\* tx.Commit.  It may report an error although the server committed.
Commit(c) ==
    /\ pc[c] = "commit"
    /\ Publish(c)
    /\ Rollback(c)     \* the locks go, as they do at a rollback
    /\ \/ Goto(c, "reread") /\ UNCHANGED <<req, outcome, answered>>
       \/ Fail(c, "ERROR")
    /\ UNCHANGED <<work, giftValue, creditVars>>

\* ByOrderNo after the commit.  Its failure is an error of the whole request.
Reread(c) ==
    /\ pc[c] = "reread"
    /\ \/ Goto(c, "board") /\ UNCHANGED <<req, outcome, answered>>
       \/ Fail(c, "ERROR")
    /\ UNCHANGED <<work, tables, locks, giftValue, creditVars>>

\* commerceapi.sendGift: the score of a new order; its error is ignored.
AddGiftValue(c) ==
    /\ pc[c] = "board"
    /\ \/ giftValue' = [giftValue EXCEPT ![req[c].room][req[c].user] = @ + Total(req[c])]
       \/ UNCHANGED giftValue
    /\ Answer(c, "CREATED", c)
    /\ UNCHANGED <<work, tables, locks, creditVars>>

\* A statement or the commit fails and nothing was committed (also a lock
\* wait timeout, a deadlock victim, a cancelled request context).
TransactionError(c) ==
    /\ pc[c] \in InTransaction
    /\ Rollback(c)
    /\ Fail(c, "ERROR")
    /\ UNCHANGED <<work, tables, giftValue, creditVars>>

\* The process dies: no answer; MySQL rolls the open transaction back.
Crash(c) ==
    /\ pc[c] \notin {"idle", "done"}
    /\ Rollback(c)
    /\ Fail(c, "CRASHED")
    /\ UNCHANGED <<work, tables, giftValue, creditVars>>

-----------------------------------------------------------------------------
(* wallet.Service.DevCredit and wallet.Repository.Credit *)

ValidCredit(q) == q.amount >= 1 /\ q.amount <= MaxCreditAmount

\* The amount is checked, then the transaction takes the wallet row and adds
\* to it; MySQL refuses a BIGINT that does not fit.
CreditWallet(d, q) ==
    /\ creditPc[d] = "idle"
    /\ ValidCredit(q)
    /\ walletLock[q.user] = NoCall
    /\ wallets[q.user].balance + q.amount <= MaxInt64
    /\ creditPc' = [creditPc EXCEPT ![d] = "commit"]
    /\ creditReq' = [creditReq EXCEPT ![d] = q]
    /\ creditWork' = [creditWork EXCEPT ![d] =
            [before |-> wallets[q.user].balance, after |-> wallets[q.user].balance + q.amount]]
    /\ walletLock' = [walletLock EXCEPT ![q.user] = d]
    /\ UNCHANGED <<callVars, work, tables, keyLock, giftValue>>

\* ErrCreditDisabled, an amount out of range, an overflow or an error before
\* the row is taken: nothing changes but the call.
RefuseCredit(d) ==
    /\ creditPc[d] = "idle"
    /\ creditPc' = [creditPc EXCEPT ![d] = "done"]
    /\ UNCHANGED <<callVars, work, tables, locks, giftValue, creditReq, creditWork>>

CommitCredit(d) ==
    LET q == creditReq[d] IN
    /\ creditPc[d] = "commit"
    /\ creditPc' = [creditPc EXCEPT ![d] = "done"]
    /\ wallets' = [wallets EXCEPT ![q.user] =
            [balance |-> creditWork[d].after, version |-> wallets[q.user].version + 1]]
    /\ ledger' = [ledger EXCEPT ![q.user] = Append(@,
            [txn |-> d, amount |-> q.amount,
             before |-> creditWork[d].before, after |-> creditWork[d].after])]
    /\ ReleaseWallet(d)
    /\ UNCHANGED <<callVars, work, orders, outbox, keyLock, giftValue, creditReq, creditWork>>

\* An error or a crash before the commit.
AbortCredit(d) ==
    /\ creditPc[d] = "commit"
    /\ creditPc' = [creditPc EXCEPT ![d] = "done"]
    /\ ReleaseWallet(d)
    /\ UNCHANGED <<callVars, work, tables, keyLock, giftValue, creditReq, creditWork>>

-----------------------------------------------------------------------------
\* The steps the handler takes by itself once the request has arrived.
Handle(c) ==
    \/ CheckRoom(c) \/ CheckBan(c) \/ CheckLimit(c) \/ Replay(c)
    \/ RefuseGift(c) \/ RefuseAmount(c) \/ InsertOrder(c) \/ ReadDuplicate(c)
    \/ DebitWallet(c) \/ Commit(c) \/ Reread(c) \/ AddGiftValue(c) \/ TransactionError(c)

HandleCredit(d) == CommitCredit(d) \/ AbortCredit(d)

\* Every request has been sent and answered.
Quiescent ==
    /\ \A c \in Calls : pc[c] = "done"
    /\ \A d \in CreditCalls : creditPc[d] = "done"

Finished == Quiescent /\ UNCHANGED vars

Next ==
    \/ \E c \in Calls : \/ \E r \in Requests : Arrive(c, r)
                        \/ Handle(c)
                        \/ Crash(c)
    \/ \E d \in CreditCalls : \/ \E q \in Credits : CreditWallet(d, q)
                              \/ RefuseCredit(d)
                              \/ HandleCredit(d)
    \/ Finished

Spec == Init /\ [][Next]_vars

\* What a live process does without an injected error: one step of every place
\* of Send is enabled unless another transaction holds the row it needs.
Serve(c) ==
    \/ CheckRoom(c) \/ CheckBan(c) \/ CheckLimit(c) \/ Replay(c)
    \/ RefuseAmount(c) \/ InsertOrder(c) \/ ReadDuplicate(c)
    \/ DebitWallet(c) \/ Commit(c) \/ Reread(c) \/ AddGiftValue(c)

\* Handlers run on their own goroutines; nothing stops one but a row lock.
Fairness ==
    /\ \A c \in Calls : WF_vars(Serve(c))
    /\ \A d \in CreditCalls : WF_vars(CommitCredit(d))

FairSpec == Spec /\ Fairness

-----------------------------------------------------------------------------
(* Properties *)

TypeOK ==
    /\ pc \in [Calls -> Steps]
    /\ req \in [Calls -> Requests \cup {NoRequest}]
    /\ outcome \in [Calls -> Outcomes]
    /\ answered \in [Calls -> Calls \cup {NoCall}]
    /\ work \in [Calls -> [before: Int64, after: Int64]]
    /\ orders \in [Keys -> Order \cup {NoOrder}]
    /\ wallets \in [Users -> [balance: 0..MaxInt64, version: Nat]]
    /\ ledger \in [Users -> Seq(Row)]
    /\ outbox \subseteq Event
    /\ keyLock \in [Keys -> Calls \cup {NoCall}]
    /\ walletLock \in [Users -> Transactions \cup {NoCall}]
    /\ giftValue \in [Rooms -> [Users -> Int]]
    /\ creditPc \in [CreditCalls -> {"idle", "commit", "done"}]
    /\ creditReq \in [CreditCalls -> Credits \cup {NoRequest}]
    /\ creditWork \in [CreditCalls -> [before: Int64, after: Int64]]

Rows(u) == 1..Len(ledger[u])

\* The balance the ledger of u shows just before its i-th row.
BalanceBefore(u, i) == IF i = 1 THEN Opening[u] ELSE ledger[u][i - 1].after

\* Call c was charged: some ledger row carries its order number.
Charged(c) == \E u \in Users : \E i \in Rows(u) : ledger[u][i].txn = c
Ordered(c) == \E k \in Keys : orders[k] # NoOrder /\ orders[k].orderNo = c
Announced(c) == \E e \in outbox : e.orderNo = c

\* wallet_transactions explain the balance: every row starts where the row
\* before it ended, adds its amount and never goes below zero, the last one
\* ends at wallets.balance, and version counts the rows.  A lost update
\* between two transactions on one wallet would break the chain.
LedgerExplainsBalance ==
    \A u \in Users :
        /\ wallets[u].version = Len(ledger[u])
        /\ wallets[u].balance = BalanceBefore(u, Len(ledger[u]) + 1)
        /\ \A i \in Rows(u) :
             /\ ledger[u][i].before = BalanceBefore(u, i)
             /\ ledger[u][i].after = ledger[u][i].before + ledger[u][i].amount
             /\ ledger[u][i].after >= 0

\* One Idempotency-Key is charged at most once, whatever is retried, sent
\* twice, crashes or loses its answer, and whoever sends the key.
NoDoubleCharge ==
    \A u, v \in Users : \A i \in Rows(u), j \in Rows(v) :
        /\ ledger[u][i].txn \in Calls
        /\ ledger[v][j].txn \in Calls
        /\ req[ledger[u][i].txn].key = req[ledger[v][j].txn].key
        => u = v /\ i = j

\* A successful order has its ledger row and its outbox event, and neither
\* exists without the order: Create commits the three together.
OrderChargeEventTogether ==
    \A c \in Calls : (Ordered(c) <=> Charged(c)) /\ (Ordered(c) <=> Announced(c))

\* What is stored is the true price times count: the overflow guard of Create
\* leaves no product that wraps around, and the debit is that amount, taken
\* from the user who asked.
ExactAmounts ==
    /\ \A k \in Keys : orders[k] # NoOrder =>
          orders[k].total = Price[orders[k].gift] * orders[k].count
    /\ \A u \in Users : \A i \in Rows(u) :
          LET row == ledger[u][i] IN
          row.txn \in Calls => /\ req[row.txn].user = u
                               /\ row.amount = -(Price[req[row.txn].gift] * req[row.txn].count)

\* Every answer is true.  A success names the one committed order of its key,
\* made by a request with the same parameters; a call that was refused, or
\* was given another call's order, was not charged itself.
AnswersAreTrue ==
    \A c \in Calls : pc[c] = "done" =>
        /\ outcome[c] \in Successes =>
              /\ orders[req[c].key] # NoOrder
              /\ orders[req[c].key].orderNo = answered[c]
              /\ SameRequest(orders[req[c].key], req[c])
        /\ outcome[c] \notin {"CREATED", "ERROR", "CRASHED"} => ~Charged(c)

\* A room that is not living, a ban, the rate limit or an empty wallet refuses
\* new purchases only: a call whose key is already sold is never refused for
\* one of them.
SoldKeyIsNeverRefused ==
    [][\A c \in Calls :
         /\ pc[c] # "done"
         /\ pc'[c] = "done"
         /\ outcome'[c] \in {"NOT_LIVING", "BANNED", "RATE_LIMITED", "INSUFFICIENT"}
         => orders[req[c].key] = NoOrder]_vars

\* Every request that reached Send is answered: no order of taking the key and
\* the wallet row makes calls wait for each other, and every way out of a
\* transaction gives its rows back.
EveryCallAnswered == \A c \in Calls : pc[c] = "room" ~> pc[c] = "done"

-----------------------------------------------------------------------------
(* The abstract sale *)

\* The refinement mapping: the committed rows alone.
SoldRequests ==
    [k \in Keys |-> IF orders[k] = NoOrder THEN NoOrder
                    ELSE [user |-> orders[k].user, room |-> orders[k].room,
                          gift |-> orders[k].gift, count |-> orders[k].count, key |-> k]]
Balances == [u \in Users |-> wallets[u].balance]
AnnouncedKeys == {req[e.orderNo].key : e \in outbox}

Sale == INSTANCE GiftSale WITH
    sold <- SoldRequests, balance <- Balances, announced <- AnnouncedKeys, NoSale <- NoOrder

\* GiftOrder implements the abstract sale: seen through its committed rows,
\* Create sells a free key out of money the buyer has and announces the sale in
\* the same instant, Credit deposits, and nothing else happens.
ImplementsSale == Sale!SaleSpec
=============================================================================
