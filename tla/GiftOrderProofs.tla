-------------------------- MODULE GiftOrderProofs --------------------------
(***************************************************************************)
(* Proofs about the money path, for any number of handlers, users, keys    *)
(* and gifts, any prices and opening balances and any width of int64.      *)
(*                                                                         *)
(* The argument: a transaction that has inserted its order holds the key   *)
(* (KeyHeld) and finds no order under it (KeyFree); one that has debited   *)
(* holds the wallet row (WalletHeld), so what it read is still the balance *)
(* when it commits (WorkIsCurrent, CreditIsCurrent).  Hence the ledger     *)
(* chains, and a key, its order, its ledger row and its event stand in     *)
(* one-to-one correspondence (OrderIsOfCall, RowIsOfOrder, RowIsUnique,    *)
(* OrderHasRow, EventIsOfOrder).                                           *)
(***************************************************************************)
EXTENDS GiftOrder, TLAPS

HoldsKey == {"wallet", "commit"}
Sold == {"reread", "board"}

\* A request past Send's validation is valid, and past the amount check fits.
RequestChecked ==
    \A c \in Calls :
        /\ pc[c] # "idle" => req[c] \in Requests
        /\ pc[c] \notin {"idle", "done"} => ValidRequest(req[c])
        /\ pc[c] \in HoldsKey => TotalFits(req[c])

KeyHeld ==
    \A c \in Calls, k \in Keys : keyLock[k] = c <=> pc[c] \in HoldsKey /\ req[c].key = k

WalletHeld ==
    \A u \in Users :
        /\ \A c \in Calls : walletLock[u] = c <=> pc[c] = "commit" /\ req[c].user = u
        /\ \A d \in CreditCalls :
              walletLock[u] = d <=> creditPc[d] = "commit" /\ creditReq[d].user = u

WorkIsCurrent ==
    \A c \in Calls : pc[c] = "commit" =>
        /\ work[c].before = wallets[req[c].user].balance
        /\ work[c].after = work[c].before - Total(req[c])
        /\ work[c].after >= 0

CreditIsCurrent ==
    \A d \in CreditCalls : creditPc[d] = "commit" =>
        /\ creditReq[d] \in Credits
        /\ ValidCredit(creditReq[d])
        /\ creditWork[d].before = wallets[creditReq[d].user].balance
        /\ creditWork[d].after = creditWork[d].before + creditReq[d].amount
        /\ creditWork[d].after <= MaxInt64

KeyFree == \A c \in Calls : pc[c] \in HoldsKey => orders[req[c].key] = NoOrder

\* An order is what its call asked for, and its call is past the commit.
OrderIsOfCall ==
    \A k \in Keys, c \in Calls : orders[k] # NoOrder /\ orders[k].orderNo = c =>
        /\ orders[k] = NewOrder(c)
        /\ req[c] \in Requests
        /\ req[c].key = k
        /\ ValidRequest(req[c])
        /\ TotalFits(req[c])
        /\ pc[c] \in Sold \cup {"done"}
        /\ pc[c] = "done" => outcome[c] \in {"CREATED", "ERROR", "CRASHED"}

\* The key of call c is sold, and to c.
SoldTo(c) == orders[req[c].key] # NoOrder /\ orders[req[c].key].orderNo = c

CallHasOrder == \A c \in Calls : pc[c] \in Sold => SoldTo(c)

RowIsOfOrder ==
    \A u \in Users, c \in Calls : \A i \in Rows(u) : ledger[u][i].txn = c =>
        /\ req[c] \in Requests
        /\ SoldTo(c)
        /\ req[c].user = u
        /\ ledger[u][i].amount = -Total(req[c])

RowIsUnique ==
    \A u, v \in Users : \A i \in Rows(u), j \in Rows(v) :
        ledger[u][i].txn = ledger[v][j].txn /\ ledger[u][i].txn \in Calls => u = v /\ i = j

OrderHasRow ==
    \A k \in Keys, c \in Calls : orders[k] # NoOrder /\ orders[k].orderNo = c =>
        Charged(c) /\ Announced(c)

EventIsOfOrder ==
    \A e \in outbox, c \in Calls : e.orderNo = c => req[c] \in Requests /\ SoldTo(c)

\* A call about to give up on a replay carries one of the replayable refusals.
RefusalIsPending == \A c \in Calls : pc[c] = "replay" => outcome[c] \in ReplayableRefusals

AnswerIsOrder ==
    \A c \in Calls : pc[c] = "done" /\ outcome[c] \in Successes =>
        /\ req[c] \in Requests
        /\ orders[req[c].key] # NoOrder
        /\ orders[req[c].key].orderNo = answered[c]
        /\ SameRequest(orders[req[c].key], req[c])

IndInv ==
    /\ TypeOK
    /\ RequestChecked
    /\ KeyHeld
    /\ WalletHeld
    /\ WorkIsCurrent
    /\ CreditIsCurrent
    /\ LedgerExplainsBalance
    /\ KeyFree
    /\ OrderIsOfCall
    /\ CallHasOrder
    /\ RowIsOfOrder
    /\ RowIsUnique
    /\ OrderHasRow
    /\ EventIsOfOrder
    /\ RefusalIsPending
    /\ AnswerIsOrder

-----------------------------------------------------------------------------
(* Arithmetic *)

LEMMA DivBound ==
    ASSUME NEW p \in Nat, NEW n \in Nat \ {0}, NEW m \in Nat, p <= m \div n
    PROVE  p * n \in 0..m
<1>1. m \div n \in Int /\ (m \div n) * n <= m
  OBVIOUS
<1>2. p * n <= (m \div n) * n /\ p * n >= 0
  BY <1>1
<1> QED BY <1>1, <1>2

LEMMA WrapInRange ==
    ASSUME NEW x \in 0..MaxInt64
    PROVE  Wrap(x) = x
<1>1. MaxInt64 \in Nat
  BY GiftOrderAssumption
<1>2. (x + MaxInt64 + 1) % (2 * (MaxInt64 + 1)) = x + MaxInt64 + 1
  BY <1>1
<1> QED BY <1>1, <1>2 DEF Wrap

\* The guard of Create admits only products that do not wrap around.
LEMMA TotalIsExact ==
    ASSUME NEW r \in Requests, ValidRequest(r), TotalFits(r)
    PROVE  Total(r) = Price[r.gift] * r.count /\ Total(r) \in 0..MaxInt64
<1>1. /\ r.gift \in Gifts /\ r.count \in Int /\ MaxInt64 \in Nat
      /\ Price \in [Gifts -> 0..MaxInt64] /\ MaxCountPerRequest \in Nat
  BY GiftOrderAssumption
<1>2. r.count \in Nat \ {0} /\ Price[r.gift] \in Nat
  BY <1>1 DEF ValidRequest
<1>3. Price[r.gift] * r.count \in 0..MaxInt64
  BY <1>1, <1>2, DivBound DEF TotalFits
<1> QED BY <1>3, WrapInRange DEF Total

LEMMA RequestFields ==
    ASSUME NEW r \in Requests
    PROVE  r.user \in Users /\ r.room \in Rooms /\ r.gift \in Gifts /\ r.count \in Int /\ r.key \in Keys
  BY GiftOrderAssumption

\* An order is a record, never the absence of one.
LEMMA OrderIsPresent ==
    ASSUME NEW o \in Order PROVE o # NoOrder
  BY GiftOrderAssumption DEF Order, Int64

-----------------------------------------------------------------------------
LEMMA IndInit == Init => IndInv
<1> SUFFICES ASSUME Init PROVE IndInv
  OBVIOUS
<1> USE DEF Init
<1>1. MaxInt64 \in Nat /\ 0 \in Int64 /\ \A u \in Users : Opening[u] \in 0..MaxInt64
  BY GiftOrderAssumption DEF Int64
<1>2. wallets \in [Users -> [balance: 0..MaxInt64, version: Nat]]
  BY <1>1
<1>3. ledger \in [Users -> Seq(Row)]
  OBVIOUS
<1>4. TypeOK
  BY <1>1, <1>2, <1>3 DEF TypeOK, Steps, Outcomes
<1>5. \A u \in Users : Rows(u) = {}
  BY DEF Rows
<1>6. RequestChecked /\ KeyHeld /\ WalletHeld
  BY GiftOrderAssumption DEF RequestChecked, KeyHeld, WalletHeld, HoldsKey
<1>7. WorkIsCurrent /\ CreditIsCurrent /\ KeyFree /\ OrderIsOfCall /\ CallHasOrder
  BY DEF WorkIsCurrent, CreditIsCurrent, KeyFree, OrderIsOfCall, CallHasOrder, HoldsKey, Sold
<1>8. LedgerExplainsBalance
  <2> SUFFICES ASSUME NEW u \in Users
               PROVE  wallets[u].version = Len(ledger[u]) /\ wallets[u].balance = BalanceBefore(u, Len(ledger[u]) + 1)
    BY <1>5 DEF LedgerExplainsBalance
  <2>1. Len(ledger[u]) = 0
    OBVIOUS
  <2> QED BY <2>1 DEF BalanceBefore
<1>9. RowIsOfOrder /\ RowIsUnique
  BY <1>5 DEF RowIsOfOrder, RowIsUnique
<1>10. OrderHasRow /\ EventIsOfOrder /\ RefusalIsPending /\ AnswerIsOrder
  BY DEF OrderHasRow, EventIsOfOrder, RefusalIsPending, AnswerIsOrder
<1> QED BY <1>4, <1>6, <1>7, <1>8, <1>9, <1>10 DEF IndInv

-----------------------------------------------------------------------------
(* Steps that leave the tables alone *)

\* A call without locks loses none by a rollback.
LEMMA RollbackOfNothing ==
    ASSUME TypeOK, KeyHeld, WalletHeld, NEW c \in Calls, pc[c] \notin HoldsKey, UNCHANGED locks
    PROVE  Rollback(c)
<1>1. \A k \in Keys : keyLock[k] # c
  BY DEF KeyHeld
<1>2. \A u \in Users : walletLock[u] # c
  BY DEF WalletHeld, HoldsKey
<1> QED BY <1>1, <1>2 DEF Rollback, ReleaseKey, ReleaseWallet, locks, TypeOK

\* A step of one call that commits nothing and leaves it with no locks: every
\* check and refusal of Send, every rollback, a crash, the answer.
LEMMA LeaveStep ==
    ASSUME IndInv,
           NEW c \in Calls, NEW s \in Steps, NEW o \in Outcomes,
           NEW a \in Calls \cup {NoCall}, NEW r \in Requests,
           pc[c] # "done",
           pc' = [pc EXCEPT ![c] = s],
           outcome' = [outcome EXCEPT ![c] = o],
           answered' = [answered EXCEPT ![c] = a],
           req' = [req EXCEPT ![c] = r],
           pc[c] # "idle" => r = req[c],
           s \notin HoldsKey, s # "idle",
           s = "done" \/ ValidRequest(r),
           s \in Sold => pc[c] \in Sold,
           pc[c] \in Sold => s \in Sold \cup {"done"},
           pc[c] \in Sold /\ s = "done" => o \in {"CREATED", "ERROR", "CRASHED"},
           s = "replay" => o \in ReplayableRefusals,
           s = "done" /\ o \in Successes =>
               /\ orders[r.key] # NoOrder
               /\ orders[r.key].orderNo = a
               /\ SameRequest(orders[r.key], r),
           Rollback(c),
           UNCHANGED <<work, tables, creditVars>>,
           giftValue' \in [Rooms -> [Users -> Int]]
    PROVE  IndInv'
<1> USE DEF IndInv
<1>1. /\ pc'[c] = s /\ outcome'[c] = o /\ answered'[c] = a /\ req'[c] = r
      /\ \A x \in Calls \ {c} : /\ pc'[x] = pc[x] /\ outcome'[x] = outcome[x]
                                /\ answered'[x] = answered[x] /\ req'[x] = req[x]
  BY DEF TypeOK
<1>2. /\ \A k \in Keys : keyLock'[k] = IF keyLock[k] = c THEN NoCall ELSE keyLock[k]
      /\ \A u \in Users : walletLock'[u] = IF walletLock[u] = c THEN NoCall ELSE walletLock[u]
      /\ keyLock' \in [Keys -> Calls \cup {NoCall}]
      /\ walletLock' \in [Users -> Transactions \cup {NoCall}]
  BY DEF Rollback, ReleaseKey, ReleaseWallet, TypeOK
<1>3. /\ work' = work /\ orders' = orders /\ wallets' = wallets /\ ledger' = ledger /\ outbox' = outbox
      /\ creditPc' = creditPc /\ creditReq' = creditReq /\ creditWork' = creditWork
  BY DEF tables, creditVars
<1>4. TypeOK'
  <2>1. /\ pc' \in [Calls -> Steps] /\ req' \in [Calls -> Requests \cup {NoRequest}]
        /\ outcome' \in [Calls -> Outcomes] /\ answered' \in [Calls -> Calls \cup {NoCall}]
    BY DEF TypeOK
  <2> QED BY <2>1, <1>2, <1>3 DEF TypeOK
<1>5. RequestChecked'
  BY <1>1 DEF RequestChecked
<1>6. KeyHeld'
  <2> SUFFICES ASSUME NEW x \in Calls, NEW k \in Keys
               PROVE  keyLock'[k] = x <=> pc'[x] \in HoldsKey /\ req'[x].key = k
    BY DEF KeyHeld
  <2>1. CASE x = c
    BY <2>1, <1>1, <1>2, GiftOrderAssumption
  <2>2. CASE x # c
    <3>1. keyLock'[k] = x <=> keyLock[k] = x
      BY <2>2, <1>2, GiftOrderAssumption
    <3> QED BY <3>1, <2>2, <1>1 DEF KeyHeld
  <2> QED BY <2>1, <2>2
<1>7. WalletHeld'
  <2> SUFFICES ASSUME NEW u \in Users
               PROVE  /\ \A x \in Calls : walletLock'[u] = x <=> pc'[x] = "commit" /\ req'[x].user = u
                      /\ \A d \in CreditCalls : walletLock'[u] = d <=> walletLock[u] = d
    BY <1>3 DEF WalletHeld
  <2>1. \A d \in CreditCalls : walletLock'[u] = d <=> walletLock[u] = d
    BY <1>2, GiftOrderAssumption
  <2>2. ASSUME NEW x \in Calls
        PROVE  walletLock'[u] = x <=> pc'[x] = "commit" /\ req'[x].user = u
    <3>1. CASE x = c
      BY <3>1, <1>1, <1>2, GiftOrderAssumption DEF HoldsKey
    <3>2. CASE x # c
      <4>1. walletLock'[u] = x <=> walletLock[u] = x
        BY <3>2, <1>2, GiftOrderAssumption
      <4> QED BY <4>1, <3>2, <1>1 DEF WalletHeld
    <3> QED BY <3>1, <3>2
  <2> QED BY <2>1, <2>2
<1>8. WorkIsCurrent' /\ CreditIsCurrent' /\ KeyFree'
  BY <1>1, <1>3 DEF WorkIsCurrent, CreditIsCurrent, KeyFree, HoldsKey
<1>9. LedgerExplainsBalance' /\ RowIsUnique' /\ OrderHasRow'
  BY <1>3 DEF LedgerExplainsBalance, RowIsUnique, OrderHasRow, Rows, BalanceBefore, Charged, Announced
<1>10. ASSUME NEW x \in Calls, NEW k \in Keys, orders[k] # NoOrder, orders[k].orderNo = x
       PROVE  req'[x] = req[x]
  <2>1. pc[x] # "idle"
    BY <1>10 DEF OrderIsOfCall, Sold
  <2> QED BY <2>1, <1>1
<1>11. OrderIsOfCall'
  <2> SUFFICES ASSUME NEW k \in Keys, NEW x \in Calls, orders[k] # NoOrder, orders[k].orderNo = x
               PROVE  /\ orders[k] = NewOrder(x)'
                      /\ req'[x] \in Requests
                      /\ req'[x].key = k
                      /\ ValidRequest(req'[x])
                      /\ TotalFits(req'[x])
                      /\ pc'[x] \in Sold \cup {"done"}
                      /\ pc'[x] = "done" => outcome'[x] \in {"CREATED", "ERROR", "CRASHED"}
    BY <1>3 DEF OrderIsOfCall
  <2>1. req'[x] = req[x]
    BY <1>10
  <2>2. /\ orders[k] = NewOrder(x) /\ req[x] \in Requests /\ req[x].key = k
        /\ ValidRequest(req[x]) /\ TotalFits(req[x]) /\ pc[x] \in Sold \cup {"done"}
        /\ pc[x] = "done" => outcome[x] \in {"CREATED", "ERROR", "CRASHED"}
    BY DEF OrderIsOfCall
  <2>3. NewOrder(x)' = NewOrder(x)
    BY <2>1 DEF NewOrder
  <2>4. /\ pc'[x] \in Sold \cup {"done"}
        /\ pc'[x] = "done" => outcome'[x] \in {"CREATED", "ERROR", "CRASHED"}
    BY <2>1, <2>2, <1>1 DEF Sold
  <2> QED BY <2>1, <2>2, <2>3, <2>4
<1>12. ASSUME NEW x \in Calls, req[x] \in Requests, SoldTo(x)
       PROVE  req'[x] = req[x] /\ SoldTo(x)'
  <2>1. req[x].key \in Keys
    BY <1>12, RequestFields
  <2>2. req'[x] = req[x]
    BY <2>1, <1>10, <1>12 DEF SoldTo
  <2> QED BY <2>2, <1>3, <1>12 DEF SoldTo
<1>13. CallHasOrder'
  <2> SUFFICES ASSUME NEW x \in Calls, pc'[x] \in Sold PROVE SoldTo(x)'
    BY DEF CallHasOrder
  <2>1. pc[x] \in Sold
    BY <1>1
  <2>2. req[x] \in Requests
    BY <2>1 DEF RequestChecked, Sold
  <2> QED BY <2>1, <2>2, <1>12 DEF CallHasOrder
<1>14. RowIsOfOrder'
  <2> SUFFICES ASSUME NEW u \in Users, NEW x \in Calls, NEW i \in Rows(u), ledger[u][i].txn = x
               PROVE  /\ req'[x] \in Requests /\ SoldTo(x)' /\ req'[x].user = u
                      /\ ledger[u][i].amount = -Total(req'[x])
    BY <1>3 DEF RowIsOfOrder, Rows
  <2> QED BY <1>12 DEF RowIsOfOrder
<1>15. EventIsOfOrder'
  <2> SUFFICES ASSUME NEW e \in outbox, NEW x \in Calls, e.orderNo = x
               PROVE  req'[x] \in Requests /\ SoldTo(x)'
    BY <1>3 DEF EventIsOfOrder
  <2> QED BY <1>12 DEF EventIsOfOrder
<1>16. RefusalIsPending'
  BY <1>1 DEF RefusalIsPending
<1>17. AnswerIsOrder'
  <2> SUFFICES ASSUME NEW x \in Calls, pc'[x] = "done", outcome'[x] \in Successes
               PROVE  /\ req'[x] \in Requests
                      /\ orders[req'[x].key] # NoOrder
                      /\ orders[req'[x].key].orderNo = answered'[x]
                      /\ SameRequest(orders[req'[x].key], req'[x])
    BY <1>3 DEF AnswerIsOrder
  <2> QED BY <1>1 DEF AnswerIsOrder
<1> QED
  BY <1>4, <1>5, <1>6, <1>7, <1>8, <1>9, <1>11, <1>13, <1>14, <1>15, <1>16, <1>17

\* A call answers, giving back whatever it holds.
LEMMA AnswerStep ==
    ASSUME IndInv, NEW c \in Calls, NEW o \in Outcomes, NEW a \in Calls \cup {NoCall},
           pc[c] \notin {"idle", "done"},
           Answer(c, o, a),
           pc[c] \in Sold => o \in {"CREATED", "ERROR", "CRASHED"},
           o \in Successes => /\ orders[req[c].key] # NoOrder
                              /\ orders[req[c].key].orderNo = a
                              /\ SameRequest(orders[req[c].key], req[c]),
           Rollback(c),
           UNCHANGED <<work, tables, creditVars>>,
           giftValue' \in [Rooms -> [Users -> Int]]
    PROVE  IndInv'
<1>1. req[c] \in Requests /\ "done" \in Steps
  BY DEF IndInv, RequestChecked, Steps
<1>2. req' = [req EXCEPT ![c] = req[c]]
  BY DEF Answer, IndInv, TypeOK
<1>3. /\ pc' = [pc EXCEPT ![c] = "done"]
      /\ outcome' = [outcome EXCEPT ![c] = o]
      /\ answered' = [answered EXCEPT ![c] = a]
  BY DEF Answer
<1>4. "done" \notin HoldsKey /\ "done" \notin Sold
  BY DEF HoldsKey, Sold
<1> QED BY <1>1, <1>2, <1>3, <1>4, LeaveStep

\* A call goes on to a step at which it holds nothing.
LEMMA MoveStep ==
    ASSUME IndInv, NEW c \in Calls, NEW s \in Steps, NEW o \in Outcomes,
           pc[c] \notin HoldsKey \cup {"idle", "done"},
           pc' = [pc EXCEPT ![c] = s],
           outcome' = [outcome EXCEPT ![c] = o],
           UNCHANGED <<req, answered>>,
           s \notin HoldsKey \cup {"idle", "done"},
           s \in Sold <=> pc[c] \in Sold,
           s = "replay" => o \in ReplayableRefusals,
           UNCHANGED <<work, tables, locks, giftValue, creditVars>>
    PROVE  IndInv'
<1>1. req[c] \in Requests /\ ValidRequest(req[c]) /\ answered[c] \in Calls \cup {NoCall}
  BY DEF IndInv, RequestChecked, TypeOK
<1>2. req' = [req EXCEPT ![c] = req[c]] /\ answered' = [answered EXCEPT ![c] = answered[c]]
  BY DEF IndInv, TypeOK
<1>3. Rollback(c)
  BY RollbackOfNothing DEF IndInv
<1>4. giftValue' \in [Rooms -> [Users -> Int]]
  BY DEF IndInv, TypeOK
<1> QED BY <1>1, <1>2, <1>3, <1>4, LeaveStep

LEMMA RefuseStep ==
    ASSUME IndInv, NEW c \in Calls, NEW why \in ReplayableRefusals,
           pc[c] \in {"room", "ban", "limit"}, RefuseUnlessReplay(c, why),
           UNCHANGED <<work, tables, locks, giftValue, creditVars>>
    PROVE  IndInv'
<1>1. "replay" \in Steps /\ why \in Outcomes /\ "replay" \notin Sold /\ pc[c] \notin Sold
      /\ pc[c] \notin HoldsKey \cup {"idle", "done"} /\ "replay" \notin HoldsKey \cup {"idle", "done"}
  BY DEF Steps, Outcomes, Sold, HoldsKey
<1> QED BY <1>1, MoveStep DEF RefuseUnlessReplay

LEMMA GotoStep ==
    ASSUME IndInv, NEW c \in Calls, NEW s \in {"ban", "limit", "create", "dup", "board"},
           pc[c] \notin HoldsKey \cup {"idle", "done"}, s \in Sold <=> pc[c] \in Sold,
           Goto(c, s), UNCHANGED <<req, outcome, answered>>,
           UNCHANGED <<work, tables, locks, giftValue, creditVars>>
    PROVE  IndInv'
<1>1. s \in Steps /\ s \notin HoldsKey \cup {"idle", "done"} /\ s # "replay"
  BY DEF Steps, HoldsKey
<1>2. outcome[c] \in Outcomes /\ outcome' = [outcome EXCEPT ![c] = outcome[c]]
  BY DEF IndInv, TypeOK
<1> QED BY <1>1, <1>2, MoveStep DEF Goto

\* A call that holds nothing fails.
LEMMA FailStep ==
    ASSUME IndInv, NEW c \in Calls, NEW o \in Outcomes \ Successes,
           pc[c] \notin HoldsKey \cup {"idle", "done"},
           pc[c] \in Sold => o \in {"CREATED", "ERROR", "CRASHED"},
           Fail(c, o), UNCHANGED <<work, tables, locks, giftValue, creditVars>>
    PROVE  IndInv'
<1>1. Rollback(c)
  BY RollbackOfNothing DEF IndInv
<1>2. giftValue' \in [Rooms -> [Users -> Int]]
  BY DEF IndInv, TypeOK
<1> QED BY <1>1, <1>2, AnswerStep DEF Fail

\* A call that finds its key sold answers from the order.
LEMMA AnswerFromOrderStep ==
    ASSUME IndInv, NEW c \in Calls, pc[c] \in {"replay", "dup"},
           orders[req[c].key] # NoOrder, AnswerFromOrder(c, orders[req[c].key]),
           UNCHANGED <<work, tables, locks, giftValue, creditVars>>
    PROVE  IndInv'
<1>1. pc[c] \notin HoldsKey \cup {"idle", "done"} /\ pc[c] \notin Sold
  BY DEF HoldsKey, Sold
<1>2. CASE SameRequest(orders[req[c].key], req[c])
  <2>1. req[c].key \in Keys
    BY <1>1, RequestFields DEF IndInv, RequestChecked
  <2>2. orders[req[c].key].orderNo \in Calls
    BY <2>1 DEF IndInv, TypeOK, Order
  <2>3. Rollback(c)
    BY <1>1, RollbackOfNothing DEF IndInv
  <2>4. giftValue' \in [Rooms -> [Users -> Int]] /\ "REPLAY" \in Outcomes
    BY DEF IndInv, TypeOK, Outcomes, Successes
  <2> QED BY <1>1, <1>2, <2>2, <2>3, <2>4, AnswerStep DEF AnswerFromOrder
<1>3. CASE ~SameRequest(orders[req[c].key], req[c])
  <2>1. "CONFLICT" \in Outcomes \ Successes
    BY DEF Outcomes, Successes
  <2> QED BY <1>1, <1>3, <2>1, FailStep DEF AnswerFromOrder
<1> QED BY <1>2, <1>3

LEMMA ArriveStep ==
    ASSUME IndInv, NEW c \in Calls, NEW r \in Requests, Arrive(c, r) PROVE IndInv'
<1>1. /\ Rollback(c) /\ giftValue' \in [Rooms -> [Users -> Int]]
      /\ answered[c] \in Calls \cup {NoCall} /\ answered' = [answered EXCEPT ![c] = answered[c]]
      /\ outcome[c] \in Outcomes
  BY RollbackOfNothing DEF Arrive, IndInv, TypeOK, HoldsKey
<1>2. pc[c] = "idle" /\ pc[c] \notin Sold /\ req' = [req EXCEPT ![c] = r]
      /\ UNCHANGED <<work, tables, creditVars>>
  BY DEF Arrive, Sold
<1>3. CASE ValidRequest(r)
  <2>1. pc' = [pc EXCEPT ![c] = "room"] /\ outcome' = [outcome EXCEPT ![c] = outcome[c]]
    BY <1>3 DEF Arrive, Goto, IndInv, TypeOK
  <2>2. "room" \in Steps /\ "room" \notin HoldsKey /\ "room" \notin Sold
    BY DEF Steps, HoldsKey, Sold
  <2> QED BY <1>1, <1>2, <1>3, <2>1, <2>2, LeaveStep
<1>4. CASE ~ValidRequest(r)
  <2>1. pc' = [pc EXCEPT ![c] = "done"] /\ outcome' = [outcome EXCEPT ![c] = "INVALID"]
    BY <1>4 DEF Arrive, Goto
  <2>2. "done" \in Steps /\ "done" \notin HoldsKey /\ "done" \notin Sold
        /\ "INVALID" \in Outcomes /\ "INVALID" \notin Successes
    BY DEF Steps, HoldsKey, Sold, Outcomes, Successes
  <2> QED BY <1>1, <1>2, <2>1, <2>2, LeaveStep
<1> QED BY <1>3, <1>4

\* The checks of Send.
LEMMA CheckStep ==
    ASSUME IndInv, NEW c \in Calls, CheckRoom(c) \/ CheckBan(c) \/ CheckLimit(c) PROVE IndInv'
<1>1. /\ pc[c] \in {"room", "ban", "limit"}
      /\ pc[c] \notin HoldsKey \cup {"idle", "done"} /\ pc[c] \notin Sold
      /\ UNCHANGED <<work, tables, locks, giftValue, creditVars>>
  BY DEF CheckRoom, CheckBan, CheckLimit, HoldsKey, Sold
<1>2. CASE \E s \in {"ban", "limit", "create"} : Goto(c, s) /\ UNCHANGED <<req, outcome, answered>>
  BY <1>1, <1>2, GotoStep DEF Sold
<1>3. CASE \E why \in ReplayableRefusals : RefuseUnlessReplay(c, why)
  BY <1>1, <1>3, RefuseStep
<1>4. CASE \E o \in {"ROOM_ERROR", "ERROR"} : Fail(c, o)
  <2>1. {"ROOM_ERROR", "ERROR"} \subseteq Outcomes \ Successes
    BY DEF Outcomes, Successes, ReplayableRefusals
  <2> QED BY <1>1, <1>4, <2>1, FailStep
<1> QED BY <1>2, <1>3, <1>4 DEF CheckRoom, CheckBan, CheckLimit, ReplayableRefusals

LEMMA ReplayStep == ASSUME IndInv, NEW c \in Calls, Replay(c) PROVE IndInv'
<1>1. /\ pc[c] = "replay" /\ pc[c] \notin HoldsKey \cup {"idle", "done"} /\ pc[c] \notin Sold
      /\ UNCHANGED <<work, tables, locks, giftValue, creditVars>>
  BY DEF Replay, HoldsKey, Sold
<1>2. outcome[c] \in Outcomes \ Successes /\ "ERROR" \in Outcomes \ Successes
  BY <1>1 DEF IndInv, RefusalIsPending, ReplayableRefusals, Outcomes, Successes
<1>3. CASE Fail(c, outcome[c]) \/ Fail(c, "ERROR")
  BY <1>1, <1>2, <1>3, FailStep
<1>4. CASE orders[req[c].key] # NoOrder /\ AnswerFromOrder(c, orders[req[c].key])
  BY <1>1, <1>4, AnswerFromOrderStep
<1> QED BY <1>3, <1>4 DEF Replay

\* The ways out of Create that leave no trace, and the answer after it.
LEMMA CreateExitStep ==
    ASSUME IndInv, NEW c \in Calls, RefuseGift(c) \/ RefuseAmount(c) \/ ReadDuplicate(c) PROVE IndInv'
<1>1. /\ pc[c] \in {"create", "dup"} /\ pc[c] \notin HoldsKey \cup {"idle", "done"} /\ pc[c] \notin Sold
      /\ UNCHANGED <<work, tables, locks, giftValue, creditVars>>
  BY DEF RefuseGift, RefuseAmount, ReadDuplicate, HoldsKey, Sold
<1>2. CASE \E o \in {"GIFT_UNAVAILABLE", "OVERFLOW", "ERROR"} : Fail(c, o)
  <2>1. {"GIFT_UNAVAILABLE", "OVERFLOW", "ERROR"} \subseteq Outcomes \ Successes
    BY DEF Outcomes, Successes
  <2> QED BY <1>1, <1>2, <2>1, FailStep
<1>3. CASE pc[c] = "dup" /\ orders[req[c].key] # NoOrder /\ AnswerFromOrder(c, orders[req[c].key])
  BY <1>1, <1>3, AnswerFromOrderStep
<1> QED BY <1>2, <1>3 DEF RefuseGift, RefuseAmount, ReadDuplicate

LEMMA RereadStep == ASSUME IndInv, NEW c \in Calls, Reread(c) PROVE IndInv'
<1>1. /\ pc[c] = "reread" /\ pc[c] \notin HoldsKey \cup {"idle", "done"} /\ pc[c] \in Sold
      /\ UNCHANGED <<work, tables, locks, giftValue, creditVars>>
  BY DEF Reread, HoldsKey, Sold
<1>2. CASE Goto(c, "board") /\ UNCHANGED <<req, outcome, answered>>
  BY <1>1, <1>2, GotoStep DEF Sold
<1>3. CASE Fail(c, "ERROR")
  <2>1. "ERROR" \in Outcomes \ Successes
    BY DEF Outcomes, Successes
  <2> QED BY <1>1, <1>3, <2>1, FailStep
<1> QED BY <1>2, <1>3 DEF Reread

\* The order of a call past its commit is its own, and its total is exact.
LEMMA SoldCall ==
    ASSUME IndInv, NEW c \in Calls, pc[c] \in Sold
    PROVE  /\ req[c] \in Requests
           /\ orders[req[c].key] # NoOrder
           /\ orders[req[c].key].orderNo = c
           /\ orders[req[c].key] = NewOrder(c)
           /\ Total(req[c]) \in 0..MaxInt64
<1>1. req[c] \in Requests /\ SoldTo(c)
  BY DEF IndInv, RequestChecked, CallHasOrder, Sold
<1>2. req[c].key \in Keys
  BY <1>1, RequestFields
<1>3. orders[req[c].key] = NewOrder(c) /\ ValidRequest(req[c]) /\ TotalFits(req[c])
  BY <1>1, <1>2 DEF IndInv, OrderIsOfCall, SoldTo
<1> QED BY <1>1, <1>3, TotalIsExact DEF SoldTo

LEMMA AddGiftValueStep == ASSUME IndInv, NEW c \in Calls, AddGiftValue(c) PROVE IndInv'
<1>1. /\ pc[c] = "board" /\ pc[c] \notin HoldsKey \cup {"idle", "done"} /\ pc[c] \in Sold
      /\ UNCHANGED <<work, tables, locks, creditVars>> /\ Answer(c, "CREATED", c)
  BY DEF AddGiftValue, HoldsKey, Sold
<1>2. /\ req[c] \in Requests /\ orders[req[c].key] # NoOrder /\ orders[req[c].key].orderNo = c
      /\ orders[req[c].key] = NewOrder(c) /\ Total(req[c]) \in Int
  BY <1>1, SoldCall, GiftOrderAssumption
<1>3. SameRequest(orders[req[c].key], req[c])
  BY <1>2 DEF SameRequest, NewOrder
<1>4. giftValue' \in [Rooms -> [Users -> Int]]
  <2>1. req[c].room \in Rooms /\ req[c].user \in Users /\ giftValue \in [Rooms -> [Users -> Int]]
    BY <1>2, RequestFields DEF IndInv, TypeOK
  <2>2. giftValue[req[c].room] \in [Users -> Int] /\ giftValue[req[c].room][req[c].user] \in Int
    BY <2>1
  <2> DEFINE score == [giftValue[req[c].room] EXCEPT ![req[c].user] = @ + Total(req[c])]
  <2>3. score \in [Users -> Int]
    BY <1>2, <2>1, <2>2
  <2>4. giftValue' = [giftValue EXCEPT ![req[c].room] = score] \/ UNCHANGED giftValue
    BY DEF AddGiftValue
  <2> HIDE DEF score
  <2> QED BY <2>1, <2>3, <2>4
<1>5. Rollback(c) /\ "CREATED" \in Outcomes
  BY <1>1, RollbackOfNothing DEF IndInv, Outcomes, Successes
<1> QED BY <1>1, <1>2, <1>3, <1>4, <1>5, AnswerStep

LEMMA AbortStep ==
    ASSUME IndInv, NEW c \in Calls, TransactionError(c) \/ Crash(c) PROVE IndInv'
<1>1. /\ pc[c] \notin {"idle", "done"} /\ Rollback(c) /\ UNCHANGED <<work, tables, creditVars>>
      /\ giftValue' \in [Rooms -> [Users -> Int]]
      /\ \E o \in {"ERROR", "CRASHED"} : Fail(c, o)
  BY DEF TransactionError, Crash, InTransaction, IndInv, TypeOK
<1>2. {"ERROR", "CRASHED"} \subseteq Outcomes \ Successes
  BY DEF Outcomes, Successes
<1> QED BY <1>1, <1>2, AnswerStep DEF Fail

-----------------------------------------------------------------------------
(* Steps that take or give back locks *)

\* What is said of the tables and of the answers survives a step that only
\* moves calls within Create.
LEMMA TablesFrame ==
    ASSUME IndInv, UNCHANGED <<tables, req, outcome, answered>>,
           \A x \in Calls : \/ pc'[x] = pc[x]
                            \/ pc'[x] \in HoldsKey /\ pc[x] \notin Sold \cup {"done"}
    PROVE  /\ LedgerExplainsBalance' /\ OrderIsOfCall' /\ CallHasOrder' /\ RowIsOfOrder'
           /\ RowIsUnique' /\ OrderHasRow' /\ EventIsOfOrder' /\ RefusalIsPending' /\ AnswerIsOrder'
<1> USE DEF IndInv
<1>1. /\ orders' = orders /\ wallets' = wallets /\ ledger' = ledger /\ outbox' = outbox
      /\ req' = req /\ outcome' = outcome /\ answered' = answered
  BY DEF tables
<1>2. \A x : SoldTo(x)' <=> SoldTo(x)
  BY <1>1 DEF SoldTo
<1>3. \A x : NewOrder(x)' = NewOrder(x)
  BY <1>1 DEF NewOrder
<1>4. LedgerExplainsBalance' /\ RowIsOfOrder' /\ RowIsUnique' /\ OrderHasRow' /\ EventIsOfOrder'
  BY <1>1, <1>2 DEF LedgerExplainsBalance, RowIsOfOrder, RowIsUnique, OrderHasRow, EventIsOfOrder,
     Rows, BalanceBefore, Charged, Announced
<1>5. OrderIsOfCall'
  BY <1>1, <1>3 DEF OrderIsOfCall, HoldsKey, Sold
<1>6. CallHasOrder' /\ RefusalIsPending' /\ AnswerIsOrder'
  BY <1>1, <1>2 DEF CallHasOrder, RefusalIsPending, AnswerIsOrder, HoldsKey, Sold
<1> QED BY <1>4, <1>5, <1>6

\* Inserting the order takes a free key, or finds it sold.
LEMMA InsertOrderStep == ASSUME IndInv, NEW c \in Calls, InsertOrder(c) PROVE IndInv'
<1> DEFINE k == req[c].key
<1>1. /\ pc[c] = "create" /\ TotalFits(req[c]) /\ keyLock[k] = NoCall
      /\ pc[c] \notin HoldsKey \cup {"idle", "done"} /\ pc[c] \notin Sold
      /\ UNCHANGED <<req, outcome, answered, work, tables, walletLock, giftValue, creditVars>>
  BY DEF InsertOrder, HoldsKey, Sold
<1>2. req[c] \in Requests /\ k \in Keys
  BY <1>1, RequestFields DEF IndInv, RequestChecked
<1>3. CASE Goto(c, "dup") /\ UNCHANGED keyLock
  BY <1>1, <1>3, GotoStep DEF Sold, locks
<1>4. CASE orders[k] = NoOrder /\ Goto(c, "wallet") /\ keyLock' = [keyLock EXCEPT ![k] = c]
  <2> USE DEF IndInv
  <2>1. /\ pc'[c] = "wallet" /\ \A x \in Calls \ {c} : pc'[x] = pc[x]
        /\ keyLock'[k] = c /\ \A j \in Keys \ {k} : keyLock'[j] = keyLock[j]
        /\ pc' \in [Calls -> Steps] /\ keyLock' \in [Keys -> Calls \cup {NoCall}]
    BY <1>2, <1>4 DEF Goto, TypeOK, Steps
  <2>2. TypeOK'
    BY <1>1, <2>1 DEF TypeOK, tables, creditVars
  <2>3. /\ LedgerExplainsBalance' /\ OrderIsOfCall' /\ CallHasOrder' /\ RowIsOfOrder'
        /\ RowIsUnique' /\ OrderHasRow' /\ EventIsOfOrder' /\ RefusalIsPending' /\ AnswerIsOrder'
    BY <1>1, <2>1, TablesFrame DEF HoldsKey
  <2>4. RequestChecked'
    BY <1>1, <2>1 DEF RequestChecked, HoldsKey
  <2>5. KeyHeld'
    <3> SUFFICES ASSUME NEW x \in Calls, NEW j \in Keys
                 PROVE  keyLock'[j] = x <=> pc'[x] \in HoldsKey /\ req[x].key = j
      BY <1>1 DEF KeyHeld
    <3>1. CASE x = c
      BY <3>1, <1>1, <2>1 DEF KeyHeld, HoldsKey
    <3>2. CASE x # c
      <4>1. keyLock'[j] = x <=> keyLock[j] = x
        BY <3>2, <1>1, <2>1, GiftOrderAssumption
      <4> QED BY <4>1, <3>2, <2>1 DEF KeyHeld
    <3> QED BY <3>1, <3>2
  <2>6. WalletHeld' /\ WorkIsCurrent' /\ CreditIsCurrent'
    BY <1>1, <2>1 DEF WalletHeld, WorkIsCurrent, CreditIsCurrent, tables, creditVars
  <2>7. KeyFree'
    BY <1>1, <1>4, <2>1 DEF KeyFree, tables
  <2> QED BY <2>2, <2>3, <2>4, <2>5, <2>6, <2>7
<1> QED BY <1>3, <1>4 DEF InsertOrder

\* The wallet row is taken by the statement that reads the balance.
LEMMA DebitWalletStep == ASSUME IndInv, NEW c \in Calls, DebitWallet(c) PROVE IndInv'
<1> USE DEF IndInv
<1> DEFINE u == req[c].user
           total == Total(req[c])
<1>1. pc[c] = "wallet" /\ walletLock[u] = NoCall /\ UNCHANGED <<tables, giftValue, creditVars>>
  BY DEF DebitWallet
<1>2. /\ req[c] \in Requests /\ u \in Users /\ total \in 0..MaxInt64
  BY <1>1, RequestFields, TotalIsExact DEF RequestChecked, HoldsKey
<1>3. CASE Rollback(c) /\ Fail(c, "INSUFFICIENT") /\ UNCHANGED work
  <2>1. /\ giftValue' \in [Rooms -> [Users -> Int]] /\ "INSUFFICIENT" \in Outcomes \ Successes
        /\ pc[c] \notin {"idle", "done"} /\ pc[c] \notin Sold
    BY <1>1 DEF TypeOK, Outcomes, Successes, Sold
  <2> QED BY <1>1, <1>3, <2>1, AnswerStep DEF Fail
<1>4. CASE /\ wallets[u].balance >= total
           /\ walletLock' = [walletLock EXCEPT ![u] = c]
           /\ work' = [work EXCEPT ![c] = [before |-> wallets[u].balance,
                                           after |-> wallets[u].balance - total]]
           /\ Goto(c, "commit")
           /\ UNCHANGED <<req, outcome, answered, keyLock>>
  <2>1. /\ pc'[c] = "commit" /\ \A x \in Calls \ {c} : pc'[x] = pc[x] /\ work'[x] = work[x]
        /\ walletLock'[u] = c /\ \A v \in Users \ {u} : walletLock'[v] = walletLock[v]
        /\ work'[c] = [before |-> wallets[u].balance, after |-> wallets[u].balance - total]
        /\ pc' \in [Calls -> Steps] /\ walletLock' \in [Users -> Transactions \cup {NoCall}]
    BY <1>2, <1>4 DEF Goto, TypeOK, Steps, Transactions
  <2>2. wallets[u].balance \in 0..MaxInt64 /\ MaxInt64 \in Nat
    BY <1>2, GiftOrderAssumption DEF TypeOK
  <2>3. wallets[u].balance \in Int64 /\ wallets[u].balance - total \in 0..MaxInt64
        /\ wallets[u].balance - total \in Int64
    BY <1>2, <1>4, <2>2 DEF Int64
  <2>4. work' \in [Calls -> [before: Int64, after: Int64]]
    BY <1>4, <2>3 DEF TypeOK
  <2>5. TypeOK'
    BY <1>1, <1>4, <2>1, <2>4 DEF TypeOK, tables, creditVars
  <2>6. /\ LedgerExplainsBalance' /\ OrderIsOfCall' /\ CallHasOrder' /\ RowIsOfOrder'
        /\ RowIsUnique' /\ OrderHasRow' /\ EventIsOfOrder' /\ RefusalIsPending' /\ AnswerIsOrder'
    BY <1>1, <1>4, <2>1, TablesFrame DEF HoldsKey, Sold
  <2>7. RequestChecked' /\ KeyHeld' /\ KeyFree'
    BY <1>1, <1>4, <2>1 DEF RequestChecked, KeyHeld, KeyFree, HoldsKey, tables
  <2>8. WalletHeld'
    <3> SUFFICES ASSUME NEW v \in Users
                 PROVE  /\ \A x \in Calls : walletLock'[v] = x <=> pc'[x] = "commit" /\ req[x].user = v
                        /\ \A d \in CreditCalls :
                              walletLock'[v] = d <=> creditPc[d] = "commit" /\ creditReq[d].user = v
      BY <1>1, <1>4 DEF WalletHeld, creditVars
    <3>1. CASE v # u
      BY <3>1, <1>1, <2>1 DEF WalletHeld
    <3>2. CASE v = u
      <4>1. \A x \in Calls : ~(pc[x] = "commit" /\ req[x].user = u)
        BY <1>1, <1>2, GiftOrderAssumption DEF WalletHeld
      <4>2. \A d \in CreditCalls : ~(creditPc[d] = "commit" /\ creditReq[d].user = u)
        BY <1>1, <1>2, GiftOrderAssumption DEF WalletHeld
      <4>3. \A d \in CreditCalls : d # c
        BY GiftOrderAssumption
      <4> QED BY <3>2, <4>1, <4>2, <4>3, <2>1
    <3> QED BY <3>1, <3>2
  <2>9. WorkIsCurrent' /\ CreditIsCurrent'
    BY <1>1, <1>4, <2>1, <2>3 DEF WorkIsCurrent, CreditIsCurrent, tables, creditVars
  <2> QED BY <2>5, <2>6, <2>7, <2>8, <2>9
<1> QED BY <1>3, <1>4 DEF DebitWallet

\* A credit that takes the wallet row, and one that gives it back unused.
LEMMA CreditWalletStep ==
    ASSUME IndInv, NEW d \in CreditCalls, NEW q \in Credits, CreditWallet(d, q) PROVE IndInv'
<1> USE DEF IndInv
<1>1. /\ q.user \in Users /\ q.amount \in Int /\ MaxInt64 \in Nat
      /\ walletLock[q.user] = NoCall /\ ValidCredit(q)
      /\ wallets[q.user].balance + q.amount <= MaxInt64
      /\ UNCHANGED <<callVars, work, tables, keyLock, giftValue>>
  BY GiftOrderAssumption DEF CreditWallet
<1>2. /\ wallets[q.user].balance \in Int64
      /\ wallets[q.user].balance + q.amount \in Int64
  <2>1. wallets[q.user].balance \in 0..MaxInt64 /\ q.amount >= 1
    BY <1>1 DEF TypeOK, ValidCredit
  <2> QED BY <1>1, <2>1 DEF Int64
<1>3. /\ creditPc'[d] = "commit" /\ creditReq'[d] = q
      /\ creditWork'[d] = [before |-> wallets[q.user].balance, after |-> wallets[q.user].balance + q.amount]
      /\ \A e \in CreditCalls \ {d} :
            creditPc'[e] = creditPc[e] /\ creditReq'[e] = creditReq[e] /\ creditWork'[e] = creditWork[e]
      /\ walletLock'[q.user] = d /\ \A v \in Users \ {q.user} : walletLock'[v] = walletLock[v]
  BY <1>1 DEF CreditWallet, TypeOK
<1>4. /\ creditPc' \in [CreditCalls -> {"idle", "commit", "done"}]
      /\ creditReq' \in [CreditCalls -> Credits \cup {NoRequest}]
      /\ creditWork' \in [CreditCalls -> [before: Int64, after: Int64]]
      /\ walletLock' \in [Users -> Transactions \cup {NoCall}]
  BY <1>1, <1>2 DEF CreditWallet, TypeOK, Transactions
<1>5. TypeOK'
  BY <1>1, <1>4 DEF TypeOK, callVars, tables
<1>6. /\ LedgerExplainsBalance' /\ OrderIsOfCall' /\ CallHasOrder' /\ RowIsOfOrder'
      /\ RowIsUnique' /\ OrderHasRow' /\ EventIsOfOrder' /\ RefusalIsPending' /\ AnswerIsOrder'
  BY <1>1, TablesFrame DEF callVars
<1>7. RequestChecked' /\ KeyHeld' /\ KeyFree' /\ WorkIsCurrent'
  BY <1>1 DEF RequestChecked, KeyHeld, KeyFree, WorkIsCurrent, callVars, tables
<1>8. WalletHeld'
  <2> SUFFICES ASSUME NEW v \in Users
               PROVE  /\ \A x \in Calls : walletLock'[v] = x <=> pc[x] = "commit" /\ req[x].user = v
                      /\ \A e \in CreditCalls :
                            walletLock'[v] = e <=> creditPc'[e] = "commit" /\ creditReq'[e].user = v
    BY <1>1 DEF WalletHeld, callVars
  <2>1. creditPc[d] = "idle"
    BY DEF CreditWallet
  <2>2. CASE v # q.user
    BY <2>1, <2>2, <1>3 DEF WalletHeld
  <2>3. CASE v = q.user
    <3>1. \A x \in Calls : ~(pc[x] = "commit" /\ req[x].user = v)
      BY <2>3, <1>1, GiftOrderAssumption DEF WalletHeld
    <3>2. \A e \in CreditCalls : ~(creditPc[e] = "commit" /\ creditReq[e].user = v)
      BY <2>3, <1>1, GiftOrderAssumption DEF WalletHeld
    <3>3. \A x \in Calls : d # x
      BY GiftOrderAssumption
    <3> QED BY <2>3, <3>1, <3>2, <3>3, <1>3
  <2> QED BY <2>2, <2>3
<1>9. CreditIsCurrent'
  BY <1>1, <1>3 DEF CreditIsCurrent, tables
<1> QED BY <1>5, <1>6, <1>7, <1>8, <1>9

\* The wallet locks after credit d has ended.
LEMMA CreditEnds ==
    ASSUME IndInv, NEW d \in CreditCalls, creditPc' = [creditPc EXCEPT ![d] = "done"],
           UNCHANGED <<callVars, creditReq>>, ReleaseWallet(d)
    PROVE  /\ WalletHeld'
           /\ walletLock' \in [Users -> Transactions \cup {NoCall}]
           /\ creditPc' \in [CreditCalls -> {"idle", "commit", "done"}]
           /\ creditPc'[d] = "done"
           /\ \A e \in CreditCalls \ {d} : creditPc'[e] = creditPc[e]
<1> USE DEF IndInv
<1>1. /\ creditPc' \in [CreditCalls -> {"idle", "commit", "done"}]
      /\ creditPc'[d] = "done" /\ \A e \in CreditCalls \ {d} : creditPc'[e] = creditPc[e]
      /\ walletLock' \in [Users -> Transactions \cup {NoCall}]
      /\ \A u \in Users : walletLock'[u] = IF walletLock[u] = d THEN NoCall ELSE walletLock[u]
  BY DEF TypeOK, ReleaseWallet
<1>2. \A x \in Calls \cup (CreditCalls \ {d}), u \in Users : walletLock'[u] = x <=> walletLock[u] = x
  BY <1>1, GiftOrderAssumption
<1>3. \A u \in Users : walletLock'[u] # d
  BY <1>1, GiftOrderAssumption
<1>4. WalletHeld'
  BY <1>1, <1>2, <1>3 DEF WalletHeld, callVars
<1> QED BY <1>1, <1>4

LEMMA AbortCreditStep ==
    ASSUME IndInv, NEW d \in CreditCalls, AbortCredit(d) \/ RefuseCredit(d) PROVE IndInv'
<1> USE DEF IndInv
<1>1. /\ UNCHANGED <<callVars, work, tables, keyLock, giftValue, creditReq, creditWork>>
      /\ creditPc' = [creditPc EXCEPT ![d] = "done"]
  BY DEF AbortCredit, RefuseCredit, locks
<1>2. ReleaseWallet(d)
  <2>1. CASE RefuseCredit(d)
    <3>1. \A u \in Users : walletLock[u] # d
      BY <2>1 DEF RefuseCredit, WalletHeld
    <3> QED BY <2>1, <3>1 DEF RefuseCredit, ReleaseWallet, locks, TypeOK
  <2> QED BY <2>1 DEF AbortCredit
<1>3. /\ WalletHeld'
      /\ walletLock' \in [Users -> Transactions \cup {NoCall}]
      /\ creditPc' \in [CreditCalls -> {"idle", "commit", "done"}]
      /\ creditPc'[d] = "done"
      /\ \A e \in CreditCalls \ {d} : creditPc'[e] = creditPc[e]
  BY <1>1, <1>2, CreditEnds
<1>4. TypeOK'
  BY <1>1, <1>3 DEF TypeOK, callVars, tables
<1>5. /\ LedgerExplainsBalance' /\ OrderIsOfCall' /\ CallHasOrder' /\ RowIsOfOrder'
      /\ RowIsUnique' /\ OrderHasRow' /\ EventIsOfOrder' /\ RefusalIsPending' /\ AnswerIsOrder'
  BY <1>1, TablesFrame DEF callVars
<1>6. RequestChecked' /\ KeyHeld' /\ KeyFree' /\ WorkIsCurrent' /\ CreditIsCurrent'
  BY <1>1, <1>3 DEF RequestChecked, KeyHeld, KeyFree, WorkIsCurrent, CreditIsCurrent, callVars, tables
<1> QED BY <1>3, <1>4, <1>5, <1>6

-----------------------------------------------------------------------------
(* The two commits *)

\* The ledgers afterwards: the rows there were, and row at the end of u's.
Appended(u, row) ==
    /\ \A v \in Users : \A i \in 1..Len(ledger'[v]) :
          \/ i \in 1..Len(ledger[v]) /\ ledger'[v][i] = ledger[v][i]
          \/ v = u /\ i = Len(ledger[u]) + 1 /\ ledger'[v][i] = row
    /\ \A v \in Users : \A i \in 1..Len(ledger[v]) :
          i \in 1..Len(ledger'[v]) /\ ledger'[v][i] = ledger[v][i]
    /\ Len(ledger[u]) + 1 \in 1..Len(ledger'[u]) /\ ledger'[u][Len(ledger[u]) + 1] = row

\* A row that starts at the balance and moves it extends the chain.
LEMMA LedgerAppend ==
    ASSUME TypeOK, LedgerExplainsBalance, NEW u \in Users, NEW row \in Row,
           row.before = wallets[u].balance,
           row.after = row.before + row.amount,
           row.after \in 0..MaxInt64,
           wallets' = [wallets EXCEPT ![u] = [balance |-> row.after, version |-> wallets[u].version + 1]],
           ledger' = [ledger EXCEPT ![u] = Append(@, row)]
    PROVE  /\ LedgerExplainsBalance'
           /\ wallets' \in [Users -> [balance: 0..MaxInt64, version: Nat]]
           /\ ledger' \in [Users -> Seq(Row)]
           /\ \A v \in Users \ {u} : wallets'[v] = wallets[v]
           /\ Appended(u, row)
<1>1. ledger[u] \in Seq(Row) /\ Len(ledger[u]) \in Nat
      /\ wallets[u].version \in Nat /\ wallets[u].balance \in 0..MaxInt64
  BY DEF TypeOK
<1>2. /\ ledger'[u] = Append(ledger[u], row)
      /\ wallets'[u] = [balance |-> row.after, version |-> wallets[u].version + 1]
      /\ \A v \in Users \ {u} : ledger'[v] = ledger[v] /\ wallets'[v] = wallets[v]
  BY DEF TypeOK
<1>3. /\ Len(ledger'[u]) = Len(ledger[u]) + 1
      /\ ledger'[u][Len(ledger[u]) + 1] = row
      /\ \A i \in 1..Len(ledger[u]) : ledger'[u][i] = ledger[u][i]
  BY <1>1, <1>2
<1>4. ledger' \in [Users -> Seq(Row)]
  BY <1>1 DEF TypeOK
<1>5. wallets' \in [Users -> [balance: 0..MaxInt64, version: Nat]]
  BY <1>1 DEF TypeOK
<1>6. LedgerExplainsBalance'
  <2> SUFFICES ASSUME NEW v \in Users
               PROVE  /\ wallets'[v].version = Len(ledger'[v])
                      /\ wallets'[v].balance = BalanceBefore(v, Len(ledger[v]) + 1)'
                      /\ \A i \in 1..Len(ledger'[v]) :
                           /\ ledger'[v][i].before = BalanceBefore(v, i)'
                           /\ ledger'[v][i].after = ledger'[v][i].before + ledger'[v][i].amount
                           /\ ledger'[v][i].after >= 0
    BY DEF LedgerExplainsBalance, Rows
  <2>1. CASE v # u
    BY <2>1, <1>2 DEF LedgerExplainsBalance, Rows, BalanceBefore
  <2>2. CASE v = u
    <3>1. /\ wallets[u].version = Len(ledger[u])
          /\ wallets[u].balance = BalanceBefore(u, Len(ledger[u]) + 1)
          /\ \A i \in 1..Len(ledger[u]) :
               /\ ledger[u][i].before = BalanceBefore(u, i)
               /\ ledger[u][i].after = ledger[u][i].before + ledger[u][i].amount
               /\ ledger[u][i].after >= 0
      BY DEF LedgerExplainsBalance, Rows
    <3>2. \A i \in 1..(Len(ledger[u]) + 1) : BalanceBefore(u, i)' = BalanceBefore(u, i)
      BY <1>1, <1>3 DEF BalanceBefore
    <3>3. wallets'[u].version = Len(ledger'[u])
      BY <3>1, <1>2, <1>3
    <3>4. wallets'[u].balance = BalanceBefore(u, Len(ledger[u]) + 1)'
      BY <1>1, <1>2, <1>3 DEF BalanceBefore
    <3>5. ASSUME NEW i \in 1..(Len(ledger[u]) + 1)
          PROVE  /\ ledger'[u][i].before = BalanceBefore(u, i)'
                 /\ ledger'[u][i].after = ledger'[u][i].before + ledger'[u][i].amount
                 /\ ledger'[u][i].after >= 0
      <4>1. CASE i \in 1..Len(ledger[u])
        BY <4>1, <3>1, <3>2, <1>3
      <4>2. CASE i = Len(ledger[u]) + 1
        BY <4>2, <3>1, <3>2, <1>3
      <4> QED BY <4>1, <4>2, <1>1
    <3> QED BY <2>2, <3>3, <3>4, <3>5, <1>3
  <2> QED BY <2>1, <2>2
<1>7. Appended(u, row)
  <2>1. ASSUME NEW v \in Users, NEW i \in 1..Len(ledger'[v])
        PROVE  \/ i \in 1..Len(ledger[v]) /\ ledger'[v][i] = ledger[v][i]
               \/ v = u /\ i = Len(ledger[u]) + 1 /\ ledger'[v][i] = row
    <3>1. CASE v # u
      BY <3>1, <1>2
    <3>2. CASE v = u
      BY <3>2, <1>1, <1>3
    <3> QED BY <3>1, <3>2
  <2>2. ASSUME NEW v \in Users, NEW i \in 1..Len(ledger[v])
        PROVE  i \in 1..Len(ledger'[v]) /\ ledger'[v][i] = ledger[v][i]
    <3>1. CASE v # u
      BY <3>1, <1>2
    <3>2. CASE v = u
      BY <3>2, <1>1, <1>3
    <3> QED BY <3>1, <3>2
  <2>3. Len(ledger[u]) + 1 \in 1..Len(ledger'[u])
    BY <1>1, <1>3
  <2> QED BY <2>1, <2>2, <2>3, <1>3 DEF Appended
<1> QED BY <1>2, <1>4, <1>5, <1>6, <1>7

\* A charge stays in the ledger.
LEMMA ChargeStays ==
    ASSUME NEW u, NEW row, Appended(u, row), NEW x, Charged(x) PROVE Charged(x)'
<1>1. PICK v \in Users : \E i \in Rows(v) : ledger[v][i].txn = x
  BY DEF Charged
<1>2. PICK i \in 1..Len(ledger[v]) : ledger[v][i].txn = x
  BY <1>1 DEF Rows
<1>3. i \in 1..Len(ledger'[v]) /\ ledger'[v][i] = ledger[v][i]
  BY DEF Appended
<1> QED BY <1>2, <1>3 DEF Charged, Rows

\* A committing credit holds the row: what it read is still the balance.
LEMMA CommitCreditStep ==
    ASSUME IndInv, NEW d \in CreditCalls, CommitCredit(d) PROVE IndInv'
<1> USE DEF IndInv
<1> DEFINE q == creditReq[d]
<1>1. /\ creditPc[d] = "commit" /\ creditPc' = [creditPc EXCEPT ![d] = "done"]
      /\ ReleaseWallet(d)
      /\ UNCHANGED <<callVars, work, orders, outbox, keyLock, giftValue, creditReq, creditWork>>
  BY DEF CommitCredit
<1>2. /\ q \in Credits /\ q.user \in Users /\ q.amount \in Int /\ MaxInt64 \in Nat
      /\ d \in Transactions /\ d \notin Calls
      /\ ValidCredit(q) /\ creditWork[d].before = wallets[q.user].balance
      /\ creditWork[d].after = creditWork[d].before + q.amount
      /\ creditWork[d].after <= MaxInt64 /\ creditWork[d].before \in 0..MaxInt64
  BY <1>1, GiftOrderAssumption DEF CreditIsCurrent, TypeOK, Transactions
<1>3. /\ creditWork[d].after \in 0..MaxInt64 /\ q.amount \in Int64
      /\ creditWork[d].before \in Int64 /\ creditWork[d].after \in Int64
  BY <1>2 DEF ValidCredit, Int64
<1>4. PICK u \in Users, row \in Row :
        /\ u = q.user
        /\ row = [txn |-> d, amount |-> q.amount,
                  before |-> creditWork[d].before, after |-> creditWork[d].after]
  BY <1>2, <1>3 DEF Row
<1>5. /\ row.txn = d /\ row.txn \notin Calls
      /\ row.before = wallets[u].balance /\ row.after = row.before + row.amount /\ row.after \in 0..MaxInt64
      /\ wallets' = [wallets EXCEPT ![u] = [balance |-> row.after, version |-> wallets[u].version + 1]]
      /\ ledger' = [ledger EXCEPT ![u] = Append(@, row)]
  BY <1>2, <1>3, <1>4 DEF CommitCredit
<1>6. /\ LedgerExplainsBalance'
      /\ wallets' \in [Users -> [balance: 0..MaxInt64, version: Nat]]
      /\ ledger' \in [Users -> Seq(Row)]
      /\ \A v \in Users \ {u} : wallets'[v] = wallets[v]
      /\ Appended(u, row)
  BY <1>5, LedgerAppend
<1>7. /\ WalletHeld'
      /\ walletLock' \in [Users -> Transactions \cup {NoCall}]
      /\ creditPc' \in [CreditCalls -> {"idle", "commit", "done"}]
      /\ creditPc'[d] = "done"
      /\ \A e \in CreditCalls \ {d} : creditPc'[e] = creditPc[e]
  BY <1>1, CreditEnds
<1>8. TypeOK'
  BY <1>1, <1>6, <1>7 DEF TypeOK, callVars
<1>9. RequestChecked' /\ KeyHeld' /\ KeyFree' /\ CallHasOrder' /\ RefusalIsPending' /\ AnswerIsOrder'
      /\ EventIsOfOrder'
  BY <1>1 DEF RequestChecked, KeyHeld, KeyFree, CallHasOrder, SoldTo, RefusalIsPending,
     AnswerIsOrder, EventIsOfOrder, callVars
<1>10. OrderIsOfCall'
  BY <1>1 DEF OrderIsOfCall, NewOrder, callVars
<1>11. walletLock[u] = d
  BY <1>1, <1>2, <1>4 DEF WalletHeld
<1>12. WorkIsCurrent'
  <2>1. ASSUME NEW x \in Calls, pc[x] = "commit"
        PROVE  req[x].user \in Users \ {u}
    <3>1. req[x].user \in Users
      BY <2>1, RequestFields DEF RequestChecked
    <3> QED BY <3>1, <2>1, <1>11, GiftOrderAssumption DEF WalletHeld
  <2> QED BY <2>1, <1>1, <1>6 DEF WorkIsCurrent, callVars
<1>13. CreditIsCurrent'
  <2>1. ASSUME NEW e \in CreditCalls, creditPc'[e] = "commit"
        PROVE  creditPc[e] = "commit" /\ creditReq[e].user \in Users \ {u}
    <3>1. e # d /\ creditPc[e] = "commit" /\ creditReq[e] \in Credits
      BY <2>1, <1>7 DEF CreditIsCurrent
    <3>2. creditReq[e].user \in Users
      BY <3>1, GiftOrderAssumption
    <3> QED BY <3>1, <3>2, <1>11 DEF WalletHeld
  <2> QED BY <2>1, <1>1, <1>6 DEF CreditIsCurrent
<1>14. ASSUME NEW v \in Users, NEW i \in 1..Len(ledger'[v]), ledger'[v][i].txn \in Calls
       PROVE  i \in 1..Len(ledger[v]) /\ ledger'[v][i] = ledger[v][i]
  BY <1>5, <1>6, <1>14 DEF Appended
<1>15. RowIsOfOrder'
  <2> SUFFICES ASSUME NEW v \in Users, NEW x \in Calls, NEW i \in 1..Len(ledger'[v]), ledger'[v][i].txn = x
               PROVE  /\ req[x] \in Requests /\ SoldTo(x) /\ req[x].user = v
                      /\ ledger'[v][i].amount = -Total(req[x])
    BY <1>1 DEF RowIsOfOrder, SoldTo, callVars, Rows
  <2> QED BY <1>14 DEF RowIsOfOrder, Rows
<1>16. RowIsUnique'
  <2> SUFFICES ASSUME NEW v \in Users, NEW w \in Users,
                      NEW i \in 1..Len(ledger'[v]), NEW j \in 1..Len(ledger'[w]),
                      ledger'[v][i].txn = ledger'[w][j].txn, ledger'[v][i].txn \in Calls
               PROVE  v = w /\ i = j
    BY DEF RowIsUnique, Rows
  <2> QED BY <1>14 DEF RowIsUnique, Rows
<1>17. OrderHasRow'
  BY <1>1, <1>6, ChargeStays DEF OrderHasRow, Announced
<1> QED BY <1>6, <1>7, <1>8, <1>9, <1>10, <1>12, <1>13, <1>15, <1>16, <1>17

\* The locks after call c has ended its transaction.
LEMMA CallReleases ==
    ASSUME IndInv, NEW c \in Calls, Rollback(c), UNCHANGED <<req, creditPc, creditReq>>,
           pc'[c] \notin HoldsKey, \A x \in Calls \ {c} : pc'[x] = pc[x]
    PROVE  /\ KeyHeld' /\ WalletHeld'
           /\ keyLock' \in [Keys -> Calls \cup {NoCall}]
           /\ walletLock' \in [Users -> Transactions \cup {NoCall}]
<1> USE DEF IndInv
<1>1. /\ \A k \in Keys : keyLock'[k] = IF keyLock[k] = c THEN NoCall ELSE keyLock[k]
      /\ \A u \in Users : walletLock'[u] = IF walletLock[u] = c THEN NoCall ELSE walletLock[u]
      /\ keyLock' \in [Keys -> Calls \cup {NoCall}]
      /\ walletLock' \in [Users -> Transactions \cup {NoCall}]
  BY DEF Rollback, ReleaseKey, ReleaseWallet, TypeOK
<1>2. /\ \A k \in Keys : keyLock'[k] # c
      /\ \A k \in Keys, x \in Calls \ {c} : keyLock'[k] = x <=> keyLock[k] = x
  BY <1>1, GiftOrderAssumption
<1>3. /\ \A u \in Users : walletLock'[u] # c
      /\ \A u \in Users, x \in Calls \ {c} : walletLock'[u] = x <=> walletLock[u] = x
      /\ \A u \in Users, d \in CreditCalls : walletLock'[u] = d <=> walletLock[u] = d
  BY <1>1, GiftOrderAssumption
<1>4. KeyHeld'
  BY <1>2 DEF KeyHeld
<1>5. WalletHeld'
  BY <1>3 DEF WalletHeld, HoldsKey
<1> QED BY <1>1, <1>4, <1>5

\* The commit of a purchase: order, debit, ledger row and event appear at once,
\* under a key nobody else can have sold and on a balance nobody else can have
\* moved.
LEMMA CommitStep == ASSUME IndInv, NEW c \in Calls, Commit(c) PROVE IndInv'
<1> USE DEF IndInv
<1>1. /\ pc[c] = "commit" /\ Publish(c) /\ Rollback(c) /\ req' = req
      /\ UNCHANGED <<work, giftValue, creditPc, creditReq, creditWork>>
      /\ pc'[c] \in {"reread", "done"} /\ pc' \in [Calls -> Steps]
      /\ \A x \in Calls \ {c} : pc'[x] = pc[x] /\ outcome'[x] = outcome[x] /\ answered'[x] = answered[x]
      /\ pc'[c] = "done" => outcome'[c] = "ERROR"
      /\ outcome' \in [Calls -> Outcomes] /\ answered' \in [Calls -> Calls \cup {NoCall}]
  <2>1. CASE Goto(c, "reread") /\ UNCHANGED <<req, outcome, answered>>
    BY <2>1 DEF Commit, Goto, TypeOK, Steps, creditVars
  <2>2. CASE Fail(c, "ERROR")
    BY <2>2 DEF Commit, Fail, Answer, TypeOK, Steps, Outcomes, creditVars
  <2> QED BY <2>1, <2>2 DEF Commit
<1>2. /\ req[c] \in Requests /\ ValidRequest(req[c]) /\ TotalFits(req[c])
      /\ req[c].user \in Users /\ req[c].key \in Keys /\ MaxInt64 \in Nat
      /\ req[c].room \in Rooms /\ req[c].gift \in Gifts /\ req[c].count \in Int
  BY <1>1, RequestFields, GiftOrderAssumption DEF RequestChecked, HoldsKey
<1>3. Total(req[c]) \in 0..MaxInt64 /\ -Total(req[c]) \in Int64 /\ Total(req[c]) \in Int64
  BY <1>2, TotalIsExact DEF Int64
<1>4. /\ work[c].before = wallets[req[c].user].balance
      /\ work[c].after = work[c].before - Total(req[c])
      /\ work[c].after >= 0
      /\ work[c].before \in 0..MaxInt64
  BY <1>1, <1>2 DEF WorkIsCurrent, TypeOK
<1>5. work[c].after \in 0..MaxInt64 /\ work[c].after \in Int64 /\ work[c].before \in Int64
  BY <1>2, <1>3, <1>4 DEF Int64
<1>6. PICK u \in Users, k \in Keys, row \in Row :
        /\ u = req[c].user /\ k = req[c].key
        /\ row = [txn |-> c, amount |-> -Total(req[c]), before |-> work[c].before, after |-> work[c].after]
  BY <1>2, <1>3, <1>5 DEF Row, Transactions
<1>7. /\ row.txn = c /\ row.amount = -Total(req[c])
      /\ row.before = wallets[u].balance /\ row.after = row.before + row.amount /\ row.after \in 0..MaxInt64
      /\ wallets' = [wallets EXCEPT ![u] = [balance |-> row.after, version |-> wallets[u].version + 1]]
      /\ ledger' = [ledger EXCEPT ![u] = Append(@, row)]
  BY <1>1, <1>3, <1>4, <1>5, <1>6 DEF Publish
<1>8. /\ LedgerExplainsBalance'
      /\ wallets' \in [Users -> [balance: 0..MaxInt64, version: Nat]]
      /\ ledger' \in [Users -> Seq(Row)]
      /\ \A v \in Users \ {u} : wallets'[v] = wallets[v]
      /\ Appended(u, row)
  BY <1>7, LedgerAppend
<1>9. NewOrder(c) \in Order /\ NewOrder(c).orderNo = c /\ NewOrder(c) # NoOrder
  BY <1>2, <1>3, OrderIsPresent DEF NewOrder, Order
<1>10. /\ orders' \in [Keys -> Order \cup {NoOrder}] /\ orders'[k] = NewOrder(c)
       /\ \A j \in Keys \ {k} : orders'[j] = orders[j]
       /\ orders[k] = NoOrder /\ keyLock[k] = c /\ walletLock[u] = c
  BY <1>1, <1>6, <1>9 DEF Publish, TypeOK, KeyFree, KeyHeld, WalletHeld, HoldsKey
<1>11. PICK ev \in Event : ev.orderNo = c /\ outbox' = outbox \cup {ev}
  BY <1>1, <1>2, <1>3 DEF Publish, Event
<1>12. \A x : NewOrder(x)' = NewOrder(x)
  BY <1>1 DEF NewOrder
<1>13. /\ KeyHeld' /\ WalletHeld'
       /\ keyLock' \in [Keys -> Calls \cup {NoCall}]
       /\ walletLock' \in [Users -> Transactions \cup {NoCall}]
  BY <1>1, CallReleases DEF HoldsKey
<1>14. TypeOK'
  BY <1>1, <1>8, <1>10, <1>11, <1>13 DEF TypeOK
<1>15. RequestChecked' /\ RefusalIsPending'
  BY <1>1, <1>2 DEF RequestChecked, RefusalIsPending, HoldsKey
<1>16. WorkIsCurrent'
  <2>1. ASSUME NEW x \in Calls, pc'[x] = "commit"
        PROVE  pc[x] = "commit" /\ req[x].user \in Users \ {u}
    <3>1. x # c /\ pc[x] = "commit"
      BY <2>1, <1>1
    <3>2. req[x].user \in Users
      BY <3>1, RequestFields DEF RequestChecked
    <3> QED BY <3>1, <3>2, <1>10 DEF WalletHeld
  <2> QED BY <2>1, <1>1, <1>8 DEF WorkIsCurrent
<1>17. CreditIsCurrent'
  <2>1. ASSUME NEW d \in CreditCalls, creditPc[d] = "commit"
        PROVE  creditReq[d].user \in Users \ {u}
    <3>1. creditReq[d].user \in Users
      BY <2>1, GiftOrderAssumption DEF CreditIsCurrent
    <3> QED BY <3>1, <2>1, <1>10, GiftOrderAssumption DEF WalletHeld
  <2> QED BY <2>1, <1>1, <1>8 DEF CreditIsCurrent
<1>18. KeyFree'
  <2> SUFFICES ASSUME NEW x \in Calls, pc'[x] \in HoldsKey PROVE orders'[req[x].key] = NoOrder
    BY <1>1 DEF KeyFree
  <2>1. x # c /\ pc[x] \in HoldsKey
    BY <1>1 DEF HoldsKey
  <2>2. req[x].key \in Keys
    BY <2>1, RequestFields DEF RequestChecked, HoldsKey
  <2>3. req[x].key # k
    BY <2>1, <2>2, <1>10 DEF KeyHeld
  <2> QED BY <2>1, <2>2, <2>3, <1>10 DEF KeyFree
<1>19. OrderIsOfCall'
  <2> SUFFICES ASSUME NEW j \in Keys, NEW x \in Calls, orders'[j] # NoOrder, orders'[j].orderNo = x
               PROVE  /\ orders'[j] = NewOrder(x)
                      /\ req[x] \in Requests
                      /\ req[x].key = j
                      /\ ValidRequest(req[x])
                      /\ TotalFits(req[x])
                      /\ pc'[x] \in Sold \cup {"done"}
                      /\ pc'[x] = "done" => outcome'[x] \in {"CREATED", "ERROR", "CRASHED"}
    BY <1>1, <1>12 DEF OrderIsOfCall
  <2>1. CASE j = k
    BY <2>1, <1>1, <1>2, <1>6, <1>9, <1>10 DEF Sold
  <2>2. CASE j # k
    <3>1. orders[j] # NoOrder /\ orders[j].orderNo = x /\ orders'[j] = orders[j]
      BY <2>2, <1>10
    <3>2. pc[x] \in Sold \cup {"done"}
      BY <3>1 DEF OrderIsOfCall
    <3>3. x # c
      BY <3>2, <1>1 DEF Sold
    <3> QED BY <3>1, <3>3, <1>1 DEF OrderIsOfCall
  <2> QED BY <2>1, <2>2
<1>20. SoldTo(c)' /\ ~SoldTo(c)
  BY <1>1, <1>6, <1>9, <1>10 DEF SoldTo
<1>21. ASSUME NEW x \in Calls, req[x] \in Requests, SoldTo(x) PROVE SoldTo(x)' /\ x # c
  <2>1. req[x].key \in Keys /\ req[x].key # k
    BY <1>21, <1>10, RequestFields DEF SoldTo
  <2> QED BY <2>1, <1>1, <1>10, <1>20, <1>21 DEF SoldTo
<1>22. CallHasOrder'
  <2> SUFFICES ASSUME NEW x \in Calls, pc'[x] \in Sold, x # c PROVE SoldTo(x)'
    BY <1>20 DEF CallHasOrder
  <2>1. pc[x] \in Sold /\ req[x] \in Requests
    BY <1>1 DEF RequestChecked, Sold
  <2> QED BY <2>1, <1>21 DEF CallHasOrder
<1>23. ASSUME NEW v \in Users, NEW i \in 1..Len(ledger[v]) PROVE ledger[v][i].txn # c
  BY <1>20 DEF RowIsOfOrder, Rows
<1>24. RowIsOfOrder'
  <2> SUFFICES ASSUME NEW v \in Users, NEW x \in Calls, NEW i \in 1..Len(ledger'[v]), ledger'[v][i].txn = x
               PROVE  /\ req[x] \in Requests /\ SoldTo(x)' /\ req[x].user = v
                      /\ ledger'[v][i].amount = -Total(req[x])
    BY <1>1 DEF RowIsOfOrder, Rows
  <2>1. CASE i \in 1..Len(ledger[v]) /\ ledger'[v][i] = ledger[v][i]
    BY <2>1, <1>21 DEF RowIsOfOrder, Rows
  <2>2. CASE v = u /\ ledger'[v][i] = row
    BY <2>2, <1>2, <1>6, <1>7, <1>20
  <2> QED BY <2>1, <2>2, <1>8 DEF Appended
<1>25. RowIsUnique'
  <2> SUFFICES ASSUME NEW v \in Users, NEW w \in Users,
                      NEW i \in 1..Len(ledger'[v]), NEW j \in 1..Len(ledger'[w]),
                      ledger'[v][i].txn = ledger'[w][j].txn, ledger'[v][i].txn \in Calls
               PROVE  v = w /\ i = j
    BY DEF RowIsUnique, Rows
  <2>1. \/ i \in 1..Len(ledger[v]) /\ ledger'[v][i] = ledger[v][i]
        \/ v = u /\ i = Len(ledger[u]) + 1 /\ ledger'[v][i] = row
    BY <1>8 DEF Appended
  <2>2. \/ j \in 1..Len(ledger[w]) /\ ledger'[w][j] = ledger[w][j]
        \/ w = u /\ j = Len(ledger[u]) + 1 /\ ledger'[w][j] = row
    BY <1>8 DEF Appended
  <2>3. CASE ledger'[v][i].txn = c
    BY <2>1, <2>2, <2>3, <1>23
  <2>4. CASE ledger'[v][i].txn # c
    BY <2>1, <2>2, <2>4, <1>7 DEF RowIsUnique, Rows
  <2> QED BY <2>3, <2>4
<1>26. OrderHasRow'
  <2> SUFFICES ASSUME NEW j \in Keys, NEW x \in Calls, orders'[j] # NoOrder, orders'[j].orderNo = x
               PROVE  Charged(x)' /\ Announced(x)'
    BY DEF OrderHasRow
  <2>1. CASE x = c
    BY <2>1, <1>7, <1>8, <1>11 DEF Charged, Announced, Appended, Rows
  <2>2. CASE x # c
    <3>1. orders[j] # NoOrder /\ orders[j].orderNo = x
      BY <2>2, <1>9, <1>10
    <3>2. Charged(x) /\ Announced(x)
      BY <3>1 DEF OrderHasRow
    <3> QED BY <3>2, <1>8, <1>11, ChargeStays DEF Announced
  <2> QED BY <2>1, <2>2
<1>27. EventIsOfOrder'
  <2> SUFFICES ASSUME NEW e \in outbox \cup {ev}, NEW x \in Calls, e.orderNo = x
               PROVE  req[x] \in Requests /\ SoldTo(x)'
    BY <1>1, <1>11 DEF EventIsOfOrder
  <2> QED BY <1>2, <1>11, <1>20, <1>21 DEF EventIsOfOrder
<1>28. AnswerIsOrder'
  <2> SUFFICES ASSUME NEW x \in Calls, pc'[x] = "done", outcome'[x] \in Successes
               PROVE  /\ req[x] \in Requests
                      /\ orders'[req[x].key] # NoOrder
                      /\ orders'[req[x].key].orderNo = answered'[x]
                      /\ SameRequest(orders'[req[x].key], req[x])
    BY <1>1 DEF AnswerIsOrder
  <2>1. x # c
    BY <1>1 DEF Successes
  <2>2. /\ req[x] \in Requests /\ orders[req[x].key] # NoOrder
        /\ orders[req[x].key].orderNo = answered[x] /\ SameRequest(orders[req[x].key], req[x])
    BY <2>1, <1>1 DEF AnswerIsOrder
  <2>3. req[x].key \in Keys /\ req[x].key # k
    BY <2>2, <1>10, RequestFields
  <2> QED BY <2>1, <2>2, <2>3, <1>1, <1>10
<1> QED
  BY <1>8, <1>13, <1>14, <1>15, <1>16, <1>17, <1>18, <1>19, <1>22, <1>24, <1>25, <1>26, <1>27, <1>28

-----------------------------------------------------------------------------
LEMMA StutterStep == ASSUME IndInv, UNCHANGED vars PROVE IndInv'
<1> USE DEF IndInv, vars, callVars, tables, locks, creditVars
<1>1. /\ LedgerExplainsBalance' /\ OrderIsOfCall' /\ CallHasOrder' /\ RowIsOfOrder'
      /\ RowIsUnique' /\ OrderHasRow' /\ EventIsOfOrder' /\ RefusalIsPending' /\ AnswerIsOrder'
  BY TablesFrame
<1>2. TypeOK' /\ RequestChecked' /\ KeyHeld' /\ WalletHeld' /\ WorkIsCurrent' /\ CreditIsCurrent' /\ KeyFree'
  BY DEF TypeOK, RequestChecked, KeyHeld, WalletHeld, WorkIsCurrent, CreditIsCurrent, KeyFree
<1> QED BY <1>1, <1>2

LEMMA IndStep == IndInv /\ [Next]_vars => IndInv'
<1> SUFFICES ASSUME IndInv, [Next]_vars PROVE IndInv'
  OBVIOUS
<1>1. ASSUME NEW c \in Calls, NEW r \in Requests, Arrive(c, r) PROVE IndInv'
  BY <1>1, ArriveStep
<1>2. ASSUME NEW c \in Calls, Handle(c) \/ Crash(c) PROVE IndInv'
  BY <1>2, CheckStep, ReplayStep, CreateExitStep, InsertOrderStep, DebitWalletStep, CommitStep,
     RereadStep, AddGiftValueStep, AbortStep DEF Handle
<1>3. ASSUME NEW d \in CreditCalls, NEW q \in Credits, CreditWallet(d, q) PROVE IndInv'
  BY <1>3, CreditWalletStep
<1>4. ASSUME NEW d \in CreditCalls, RefuseCredit(d) \/ HandleCredit(d) PROVE IndInv'
  BY <1>4, AbortCreditStep, CommitCreditStep DEF HandleCredit
<1>5. CASE Finished \/ UNCHANGED vars
  BY <1>5, StutterStep DEF Finished
<1> QED BY <1>1, <1>2, <1>3, <1>4, <1>5 DEF Next

-----------------------------------------------------------------------------
(* Theorems *)

\* The inductive invariant of the money path.
THEOREM GiftOrderInvariant == Spec => []IndInv
  BY IndInit, IndStep, PTL DEF Spec

\* The types hold; no wallet goes negative or beyond an int64.
THEOREM GiftOrderTypes == Spec => []TypeOK
<1>1. IndInv => TypeOK
  BY DEF IndInv
<1> QED BY <1>1, GiftOrderInvariant, PTL

\* wallet_transactions chain from the opening balance to wallets.balance,
\* however purchases and credits of one user interleave, fail and crash.
THEOREM LedgerChains == Spec => []LedgerExplainsBalance
<1>1. IndInv => LedgerExplainsBalance
  BY DEF IndInv
<1> QED BY <1>1, GiftOrderInvariant, PTL

\* An Idempotency-Key is charged at most once.
THEOREM KeyChargedOnce == Spec => []NoDoubleCharge
<1>1. IndInv => NoDoubleCharge
  <2> SUFFICES ASSUME IndInv, NEW u \in Users, NEW v \in Users, NEW i \in Rows(u), NEW j \in Rows(v),
                      ledger[u][i].txn \in Calls, ledger[v][j].txn \in Calls,
                      req[ledger[u][i].txn].key = req[ledger[v][j].txn].key
               PROVE  u = v /\ i = j
    BY DEF NoDoubleCharge
  <2>1. ledger[u][i].txn = ledger[v][j].txn
    BY DEF IndInv, RowIsOfOrder, SoldTo
  <2> QED BY <2>1 DEF IndInv, RowIsUnique
<1> QED BY <1>1, GiftOrderInvariant, PTL

\* The order, its charge and its outbox event exist together or not at all.
THEOREM SaleIsAtomic == Spec => []OrderChargeEventTogether
<1>1. IndInv => OrderChargeEventTogether
  <2> SUFFICES ASSUME IndInv, NEW c \in Calls
               PROVE  (Ordered(c) <=> Charged(c)) /\ (Ordered(c) <=> Announced(c))
    BY DEF OrderChargeEventTogether
  <2>1. Ordered(c) => Charged(c) /\ Announced(c)
    BY DEF IndInv, OrderHasRow, Ordered
  <2>2. ASSUME req[c] \in Requests, SoldTo(c) PROVE Ordered(c)
    BY <2>2, RequestFields DEF SoldTo, Ordered
  <2>3. Charged(c) => Ordered(c)
    BY <2>2 DEF IndInv, RowIsOfOrder, Charged
  <2>4. Announced(c) => Ordered(c)
    BY <2>2 DEF IndInv, EventIsOfOrder, Announced
  <2> QED BY <2>1, <2>3, <2>4
<1> QED BY <1>1, GiftOrderInvariant, PTL

\* Totals and debits are the true product: nothing wraps around.
THEOREM AmountsAreExact == Spec => []ExactAmounts
<1>1. IndInv => ExactAmounts
  <2> SUFFICES ASSUME IndInv PROVE ExactAmounts
    OBVIOUS
  <2>1. ASSUME NEW k \in Keys, orders[k] # NoOrder
        PROVE  /\ orders[k].total = Price[orders[k].gift] * orders[k].count
               /\ Total(req[orders[k].orderNo]) = Price[req[orders[k].orderNo].gift] * req[orders[k].orderNo].count
    <3>1. PICK c \in Calls : c = orders[k].orderNo
      BY <2>1 DEF IndInv, TypeOK, Order
    <3>2. orders[k] = NewOrder(c) /\ req[c] \in Requests /\ ValidRequest(req[c]) /\ TotalFits(req[c])
      BY <2>1, <3>1 DEF IndInv, OrderIsOfCall
    <3>3. Total(req[c]) = Price[req[c].gift] * req[c].count
      BY <3>2, TotalIsExact
    <3> QED BY <3>1, <3>2, <3>3 DEF NewOrder
  <2>2. ASSUME NEW u \in Users, NEW i \in Rows(u), NEW c \in Calls, ledger[u][i].txn = c
        PROVE  req[c].user = u /\ ledger[u][i].amount = -(Price[req[c].gift] * req[c].count)
    <3>1. req[c] \in Requests /\ SoldTo(c) /\ req[c].user = u /\ ledger[u][i].amount = -Total(req[c])
      BY <2>2 DEF IndInv, RowIsOfOrder
    <3>2. req[c].key \in Keys
      BY <3>1, RequestFields
    <3> QED BY <2>1, <3>1, <3>2 DEF SoldTo
  <2> QED BY <2>1, <2>2 DEF ExactAmounts
<1> QED BY <1>1, GiftOrderInvariant, PTL

\* Every answer is true: successes name the key's order, refusals charged nothing.
THEOREM EveryAnswerIsTrue == Spec => []AnswersAreTrue
<1>1. IndInv => AnswersAreTrue
  <2> SUFFICES ASSUME IndInv, NEW c \in Calls, pc[c] = "done"
               PROVE  /\ outcome[c] \in Successes =>
                            /\ orders[req[c].key] # NoOrder
                            /\ orders[req[c].key].orderNo = answered[c]
                            /\ SameRequest(orders[req[c].key], req[c])
                      /\ outcome[c] \notin {"CREATED", "ERROR", "CRASHED"} => ~Charged(c)
    BY DEF AnswersAreTrue
  <2>1. outcome[c] \in Successes =>
            /\ orders[req[c].key] # NoOrder
            /\ orders[req[c].key].orderNo = answered[c]
            /\ SameRequest(orders[req[c].key], req[c])
    BY DEF IndInv, AnswerIsOrder
  <2>2. ASSUME Charged(c) PROVE outcome[c] \in {"CREATED", "ERROR", "CRASHED"}
    <3>1. req[c] \in Requests /\ SoldTo(c)
      BY <2>2 DEF IndInv, RowIsOfOrder, Charged
    <3>2. req[c].key \in Keys
      BY <3>1, RequestFields
    <3> QED BY <3>1, <3>2 DEF IndInv, OrderIsOfCall, SoldTo
  <2> QED BY <2>1, <2>2
<1> QED BY <1>1, GiftOrderInvariant, PTL

\* A call that holds or has sold its key is not refused for the room, the ban,
\* the limit or its wallet; one whose key is sold gets the order.
THEOREM SoldKeyIsReplayed == Spec => SoldKeyIsNeverRefused
<1> DEFINE Refusals == {"NOT_LIVING", "BANNED", "RATE_LIMITED", "INSUFFICIENT"}
           Refused(c) == /\ pc[c] # "done"
                         /\ pc'[c] = "done"
                         /\ outcome'[c] \in Refusals
                         => orders[req[c].key] = NoOrder
<1>1. ASSUME IndInv, [Next]_vars PROVE [\A c \in Calls : Refused(c)]_vars
  <2> SUFFICES ASSUME Next, NEW c \in Calls, pc[c] # "done", pc'[c] = "done", outcome'[c] \in Refusals
               PROVE  orders[req[c].key] = NoOrder
    BY <1>1
  <2>1. pc \in [Calls -> Steps] /\ outcome \in [Calls -> Outcomes]
    BY <1>1 DEF IndInv, TypeOK
  <2>2. ASSUME NEW x \in Calls, NEW r \in Requests, Arrive(x, r) PROVE FALSE
    BY <2>1, <2>2 DEF Arrive, Goto
  <2>3. ASSUME NEW x \in Calls, CheckRoom(x) \/ CheckBan(x) \/ CheckLimit(x) PROVE FALSE
    BY <2>1, <2>3 DEF CheckRoom, CheckBan, CheckLimit, Goto, RefuseUnlessReplay, Fail, Answer
  <2>4. ASSUME NEW x \in Calls, Replay(x) PROVE orders[req[c].key] = NoOrder
    BY <2>1, <2>4 DEF Replay, Fail, AnswerFromOrder, Answer
  <2>5. ASSUME NEW x \in Calls, RefuseGift(x) \/ RefuseAmount(x) \/ ReadDuplicate(x) PROVE FALSE
    BY <2>1, <2>5 DEF RefuseGift, RefuseAmount, ReadDuplicate, Fail, AnswerFromOrder, Answer
  <2>6. ASSUME NEW x \in Calls, InsertOrder(x) PROVE FALSE
    BY <2>1, <2>6 DEF InsertOrder, Goto
  <2>7. ASSUME NEW x \in Calls, DebitWallet(x) PROVE orders[req[c].key] = NoOrder
    <3>1. x = c
      BY <2>1, <2>7 DEF DebitWallet, Goto, Fail, Answer
    <3> QED BY <1>1, <2>7, <3>1 DEF DebitWallet, IndInv, KeyFree, HoldsKey
  <2>8. ASSUME NEW x \in Calls, Commit(x) \/ Reread(x) \/ AddGiftValue(x) \/ TransactionError(x) \/ Crash(x)
        PROVE  FALSE
    BY <2>1, <2>8 DEF Commit, Reread, AddGiftValue, TransactionError, Crash, Goto, Fail, Answer
  <2>9. CASE \E d \in CreditCalls : \/ \E q \in Credits : CreditWallet(d, q)
                                    \/ RefuseCredit(d) \/ HandleCredit(d)
    BY <2>9 DEF CreditWallet, RefuseCredit, HandleCredit, CommitCredit, AbortCredit, callVars
  <2>10. CASE Finished
    BY <2>10 DEF Finished, vars, callVars
  <2> QED BY <2>2, <2>3, <2>4, <2>5, <2>6, <2>7, <2>8, <2>9, <2>10 DEF Next, Handle
<1> QED BY <1>1, GiftOrderInvariant, PTL DEF Spec, SoldKeyIsNeverRefused

-----------------------------------------------------------------------------
(* The refinement *)

\* A step that leaves the orders, the wallets, the events and the requests of
\* announced calls alone is a stutter of the abstract sale.
LEMMA SaleStutters ==
    ASSUME UNCHANGED <<orders, wallets, outbox>>,
           \A e \in outbox : req'[e.orderNo].key = req[e.orderNo].key
    PROVE  UNCHANGED <<SoldRequests, Balances, AnnouncedKeys>>
<1>1. SoldRequests' = SoldRequests /\ Balances' = Balances
  BY DEF SoldRequests, Balances
<1>2. AnnouncedKeys' = AnnouncedKeys
  BY DEF AnnouncedKeys
<1> QED BY <1>1, <1>2

LEMMA SaleInitial == Init => Sale!SaleInit
<1> SUFFICES ASSUME Init PROVE Sale!SaleInit
  OBVIOUS
<1>1. SoldRequests = [k \in Keys |-> NoOrder]
  BY DEF Init, SoldRequests
<1>2. Balances = Opening
  BY GiftOrderAssumption DEF Init, Balances
<1>3. AnnouncedKeys = {}
  BY DEF Init, AnnouncedKeys
<1> QED BY <1>1, <1>2, <1>3 DEF Sale!SaleInit

\* Committing a purchase is a sale.
LEMMA CommitSells == ASSUME IndInv, NEW c \in Calls, Commit(c) PROVE Sale!SaleNext
<1> USE DEF IndInv
<1>1. PICK r \in Requests : r = req[c]
  BY DEF Commit, RequestChecked
<1>2. /\ pc[c] = "commit" /\ ValidRequest(r) /\ TotalFits(r) /\ r.user \in Users /\ r.key \in Keys
      /\ orders[r.key] = NoOrder /\ req' = req
      /\ orders' = [orders EXCEPT ![r.key] = NewOrder(c)]
      /\ wallets' = [wallets EXCEPT ![r.user] =
            [balance |-> work[c].after, version |-> wallets[r.user].version + 1]]
      /\ outbox' = outbox \cup {[event |-> c, orderNo |-> c, room |-> r.room, total |-> Total(r)]}
      /\ work[c].before = wallets[r.user].balance /\ work[c].after = work[c].before - Total(r)
      /\ work[c].after >= 0
  BY <1>1, RequestFields
     DEF Commit, Publish, Goto, Fail, Answer, RequestChecked, HoldsKey, KeyFree, WorkIsCurrent
<1>3. Sale!Cost(r) = Total(r) /\ Total(r) \in Int /\ wallets[r.user].balance \in Int
  BY <1>2, TotalIsExact, GiftOrderAssumption DEF Sale!Cost, TypeOK
<1>4. NewOrder(c) # NoOrder /\ SoldRequests[r.key] = NoOrder
  <2>1. NewOrder(c) \in Order
    BY <1>1, <1>2, RequestFields, TotalIsExact, GiftOrderAssumption DEF NewOrder, Order, Int64
  <2> QED BY <2>1, <1>2, OrderIsPresent DEF SoldRequests
<1>5. [user |-> NewOrder(c).user, room |-> NewOrder(c).room, gift |-> NewOrder(c).gift,
       count |-> NewOrder(c).count, key |-> r.key] = r
  <2>1. r \in [user: Users, room: Rooms, gift: Gifts, count: Int, key: Keys]
    BY GiftOrderAssumption
  <2>2. r = [user |-> r.user, room |-> r.room, gift |-> r.gift, count |-> r.count, key |-> r.key]
    BY <2>1
  <2> QED BY <2>2, <1>1 DEF NewOrder
<1>6. SoldRequests' = [SoldRequests EXCEPT ![r.key] = r]
  <2>1. \A k \in Keys : SoldRequests'[k] = [SoldRequests EXCEPT ![r.key] = r][k]
    <3> SUFFICES ASSUME NEW k \in Keys PROVE SoldRequests'[k] = [SoldRequests EXCEPT ![r.key] = r][k]
      OBVIOUS
    <3>1. CASE k = r.key
      <4>1. orders'[k] = NewOrder(c)
        BY <3>1, <1>2 DEF TypeOK
      <4> QED BY <4>1, <3>1, <1>4, <1>5 DEF SoldRequests
    <3>2. CASE k # r.key
      <4>1. orders'[k] = orders[k]
        BY <3>2, <1>2 DEF TypeOK
      <4> QED BY <4>1, <3>2 DEF SoldRequests
    <3> QED BY <3>1, <3>2
  <2> QED BY <2>1 DEF SoldRequests
<1>7. Balances' = [Balances EXCEPT ![r.user] = @ - Sale!Cost(r)] /\ Balances[r.user] >= Sale!Cost(r)
  <2>1. Balances[r.user] = wallets[r.user].balance /\ DOMAIN Balances = Users
    BY <1>2 DEF Balances
  <2>2. /\ wallets'[r.user].balance = wallets[r.user].balance - Total(r)
        /\ \A u \in Users \ {r.user} : wallets'[u] = wallets[u]
    BY <1>2 DEF TypeOK
  <2>3. \A u \in Users : Balances'[u] = [Balances EXCEPT ![r.user] = @ - Sale!Cost(r)][u]
    BY <2>1, <2>2, <1>2, <1>3 DEF Balances
  <2>4. Balances' = [Balances EXCEPT ![r.user] = @ - Sale!Cost(r)]
    BY <2>3 DEF Balances
  <2>5. wallets[r.user].balance >= Total(r)
    BY <1>2, <1>3
  <2> QED BY <2>1, <2>4, <2>5, <1>3
<1>8. AnnouncedKeys' = AnnouncedKeys \cup {r.key}
  <2> DEFINE ev == [event |-> c, orderNo |-> c, room |-> r.room, total |-> Total(r)]
  <2>1. ev.orderNo = c
    OBVIOUS
  <2> HIDE DEF ev
  <2>2. outbox' = outbox \cup {ev} /\ req'[ev.orderNo].key = r.key
    BY <2>1, <1>1, <1>2 DEF ev
  <2> QED BY <2>2, <1>2 DEF AnnouncedKeys
<1>9. Sale!Sell(r)
  BY <1>4, <1>6, <1>7, <1>8 DEF Sale!Sell
<1> QED BY <1>9 DEF Sale!SaleNext

\* Committing a credit is a deposit.
LEMMA CommitCreditDeposits ==
    ASSUME IndInv, NEW d \in CreditCalls, CommitCredit(d) PROVE Sale!SaleNext
<1> USE DEF IndInv
<1>1. PICK q \in Credits : q = creditReq[d]
  BY DEF CommitCredit, CreditIsCurrent
<1>2. /\ q.user \in Users /\ q.amount \in Int /\ q.amount > 0 /\ req' = req
      /\ creditWork[d].before = wallets[q.user].balance
      /\ creditWork[d].after = creditWork[d].before + q.amount
      /\ wallets' = [wallets EXCEPT ![q.user] =
            [balance |-> creditWork[d].after, version |-> wallets[q.user].version + 1]]
      /\ UNCHANGED <<orders, outbox>>
  BY <1>1, GiftOrderAssumption DEF CommitCredit, CreditIsCurrent, ValidCredit, callVars
<1>3. Balances' = [Balances EXCEPT ![q.user] = @ + q.amount]
  BY <1>2 DEF Balances, TypeOK
<1>4. SoldRequests' = SoldRequests /\ AnnouncedKeys' = AnnouncedKeys
  BY <1>2 DEF SoldRequests, AnnouncedKeys
<1>5. Sale!Deposit(q)
  BY <1>2, <1>3, <1>4 DEF Sale!Deposit
<1> QED BY <1>5 DEF Sale!SaleNext

\* A request arrives at a call that has announced nothing.
LEMMA ArriveStutters ==
    ASSUME IndInv, NEW c \in Calls, NEW r \in Requests, Arrive(c, r)
    PROVE  UNCHANGED <<SoldRequests, Balances, AnnouncedKeys>>
<1>1. ASSUME NEW e \in outbox PROVE req'[e.orderNo] = req[e.orderNo]
  <2>1. PICK x \in Calls : x = e.orderNo
    BY DEF IndInv, TypeOK, Event
  <2>2. req[x] \in Requests /\ SoldTo(x)
    BY <2>1 DEF IndInv, EventIsOfOrder
  <2>3. pc[x] # "idle"
    BY <2>2, RequestFields DEF IndInv, OrderIsOfCall, SoldTo, Sold
  <2> QED BY <2>1, <2>3 DEF Arrive, IndInv, TypeOK
<1> QED BY <1>1, SaleStutters DEF Arrive, tables

LEMMA SaleStep == IndInv /\ [Next]_vars => [Sale!SaleNext]_(Sale!saleVars)
<1> SUFFICES ASSUME IndInv, [Next]_vars
             PROVE  Sale!SaleNext \/ UNCHANGED <<SoldRequests, Balances, AnnouncedKeys>>
  BY DEF Sale!saleVars
<1>1. ASSUME NEW c \in Calls, Commit(c) PROVE Sale!SaleNext
  BY <1>1, CommitSells
<1>2. ASSUME NEW d \in CreditCalls, CommitCredit(d) PROVE Sale!SaleNext
  BY <1>2, CommitCreditDeposits
<1>3. ASSUME NEW c \in Calls, NEW r \in Requests, Arrive(c, r)
      PROVE  UNCHANGED <<SoldRequests, Balances, AnnouncedKeys>>
  BY <1>3, ArriveStutters
<1>4. CASE UNCHANGED <<orders, wallets, outbox, req>>
  BY <1>4, SaleStutters
<1>5. ASSUME NEW c \in Calls, Handle(c) \/ Crash(c), ~Commit(c)
      PROVE  UNCHANGED <<orders, wallets, outbox, req>>
  BY <1>5 DEF Handle, CheckRoom, CheckBan, CheckLimit, Replay, RefuseGift, RefuseAmount, InsertOrder,
     ReadDuplicate, DebitWallet, Reread, AddGiftValue, TransactionError, Crash,
     Fail, Answer, AnswerFromOrder, RefuseUnlessReplay, tables
<1>6. ASSUME NEW d \in CreditCalls, NEW q \in Credits, CreditWallet(d, q) \/ RefuseCredit(d) \/ AbortCredit(d)
      PROVE  UNCHANGED <<orders, wallets, outbox, req>>
  BY <1>6 DEF CreditWallet, RefuseCredit, AbortCredit, tables, callVars
<1>7. ASSUME NEW d \in CreditCalls, RefuseCredit(d) \/ AbortCredit(d)
      PROVE  UNCHANGED <<orders, wallets, outbox, req>>
  BY <1>7 DEF RefuseCredit, AbortCredit, tables, callVars
<1>8. CASE Finished \/ UNCHANGED vars
  BY <1>8, <1>4 DEF Finished, vars, tables, callVars
<1> QED BY <1>1, <1>2, <1>3, <1>4, <1>5, <1>6, <1>7, <1>8 DEF Next, HandleCredit

\* The money path implements the abstract sale.
THEOREM GiftOrderImplementsSale == Spec => ImplementsSale
  BY SaleInitial, SaleStep, GiftOrderInvariant, PTL DEF Spec, ImplementsSale, Sale!SaleSpec
=============================================================================
