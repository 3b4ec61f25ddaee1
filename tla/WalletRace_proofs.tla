--------------------------- MODULE WalletRace_proofs ---------------------------
(***************************************************************************)
(* Proofs about WalletRace, for any number of clients and for every set of *)
(* requests they make: the row locks are enough for the interleaved        *)
(* transactions to follow Wallet, and the only ones that can wait for each *)
(* other in a circle are reviews of remittances.                           *)
(***************************************************************************)
EXTENDS WalletRace, Wallet_proofs

USE DEF Granted, WalletLocks

Reviews == {"approve", "reject"}

\* What a job is about and which rows it locks.
LEMMA JobTyped ==
  ASSUME NEW job \in Jobs
  PROVE  /\ job.kind \in {"recharge", "deduct", "submit", "pay"} \cup Reviews
         /\ job.user \in Users /\ job.amount \in Nat /\ WalletOf(job) \in Wallets
         /\ job.kind \in {"recharge", "deduct", "submit"} => job.amount \in Amounts /\ job.amount > 0
         /\ job.kind \in Reviews => job.ref \in Requests
         /\ job.kind = "pay" => job.ref \in Bills /\ job.key \in Keys
<1>1. job \in JobRow
  BY JobsAssumption
<1>2. job.kind \in {"recharge", "deduct", "submit", "pay"} \cup Reviews
      /\ job.user \in Users /\ job.amount \in Nat
  BY <1>1 DEF JobRow, Reviews
<1>3. WalletOf(job) \in Wallets
  BY <1>2, HomeAssumption DEF WalletOf, Wallets
<1>4. job.kind \in {"recharge", "deduct", "submit"} => job.amount \in Amounts /\ job.amount > 0
  BY <1>2, JobsAssumption
<1> QED
  BY <1>2, <1>3, <1>4, JobsAssumption DEF Reviews

\* The statements of a job, by its kind.
LEMMA PlanOf ==
  ASSUME NEW job \in Jobs
  PROVE  /\ job.kind \in {"recharge", "deduct", "submit"} =>
                Plan(job) = <<<<"wallet", job.user>>>>
         /\ job.kind \in Reviews =>
                Plan(job) = <<<<"request", job.ref>>, <<"user", job.user>>, <<"wallet", job.user>>>>
         /\ job.kind = "pay" =>
                Plan(job) = <<<<"bill", job.ref>>, <<"wallet", job.user>>, <<"payment_no", Null>>>>
  BY JobTyped DEF Plan, Reviews

\* Every plan is short, locks rows there are, each once, and the wallet among them.
LEMMA PlanTyped ==
  ASSUME NEW job \in Jobs
  PROVE  /\ Len(Plan(job)) \in 1 .. 3
         /\ \A i \in 1 .. Len(Plan(job)) : Plan(job)[i] \in Rows
         /\ \A i, j \in 1 .. Len(Plan(job)) : Plan(job)[i] = Plan(job)[j] => i = j
         /\ \E i \in 1 .. Len(Plan(job)) : Plan(job)[i] = <<"wallet", job.user>>
<1> USE JobTyped, PlanOf DEF Reviews
<1>1. CASE job.kind \in {"recharge", "deduct", "submit"}
  <2>1. Plan(job) = <<<<"wallet", job.user>>>> /\ job.user \in Users
    BY <1>1
  <2>2. Len(Plan(job)) = 1 /\ Plan(job)[1] = <<"wallet", job.user>>
    BY <2>1
  <2>3. <<"wallet", job.user>> \in Rows
    BY <2>1 DEF Rows
  <2> QED
    BY <2>2, <2>3
<1>2. CASE job.kind \in Reviews
  <2>1. /\ Plan(job) = <<<<"request", job.ref>>, <<"user", job.user>>, <<"wallet", job.user>>>>
        /\ job.user \in Users /\ job.ref \in Requests
    BY <1>2
  <2>2. /\ Len(Plan(job)) = 3 /\ Plan(job)[1] = <<"request", job.ref>>
        /\ Plan(job)[2] = <<"user", job.user>> /\ Plan(job)[3] = <<"wallet", job.user>>
    BY <2>1
  <2>3. /\ <<"request", job.ref>> \in Rows /\ <<"user", job.user>> \in Rows
        /\ <<"wallet", job.user>> \in Rows
    BY <2>1 DEF Rows
  <2>4. /\ Plan(job)[1] # Plan(job)[2] /\ Plan(job)[1] # Plan(job)[3]
        /\ Plan(job)[2] # Plan(job)[3]
    BY <2>2
  <2> HIDE JobTyped, PlanOf
  <2> QED
    BY <2>2, <2>3, <2>4
<1>3. CASE job.kind = "pay"
  <2>1. /\ Plan(job) = <<<<"bill", job.ref>>, <<"wallet", job.user>>, <<"payment_no", Null>>>>
        /\ job.user \in Users /\ job.ref \in Bills
    BY <1>3
  <2>2. /\ Len(Plan(job)) = 3 /\ Plan(job)[1] = <<"bill", job.ref>>
        /\ Plan(job)[2] = <<"wallet", job.user>> /\ Plan(job)[3] = <<"payment_no", Null>>
    BY <2>1
  <2>3. /\ <<"bill", job.ref>> \in Rows /\ <<"wallet", job.user>> \in Rows
        /\ <<"payment_no", Null>> \in Rows
    BY <2>1 DEF Rows
  <2>4. /\ Plan(job)[1] # Plan(job)[2] /\ Plan(job)[1] # Plan(job)[3]
        /\ Plan(job)[2] # Plan(job)[3]
    BY <2>2
  <2> HIDE JobTyped, PlanOf
  <2> QED
    BY <2>2, <2>3, <2>4
<1> QED
  BY <1>1, <1>2, <1>3

-----------------------------------------------------------------------------
(* The locks. A client holds exactly the rows its transaction has got to.  *)

FirstRows(job, n) == {Plan(job)[i] : i \in 1 .. n}
Held(c) == FirstRows(txn[c].job, txn[c].stage - 1)

LocksOf(c) ==
    IF Running(c)
    THEN /\ txn[c].job \in Jobs /\ txn[c].stage \in 1 .. Len(Plan(txn[c].job)) + 1
         /\ \A row \in Rows : owner[row] = c <=> row \in Held(c)
    ELSE \A row \in Rows : owner[row] # c

TxnRow == [job : Jobs \cup {Null}, stage : 0 .. 4, balance : Nat, due : Nat]
LockInv ==
    /\ owner \in [Rows -> Clients \cup {Null}]
    /\ txn \in [Clients -> TxnRow]
    /\ \A c \in Clients : LocksOf(c)

\* A client that stops owns nothing afterwards, and takes nothing from the others.
LEMMA EndKeepsLocks ==
  ASSUME LockInv, NEW c \in Clients, End(c)
  PROVE  /\ LockInv'
         /\ txn'[c].stage = 0
         /\ \A d \in Clients \ {c} : /\ txn'[d] = txn[d]
                                     /\ \A row \in Rows : owner'[row] = d <=> owner[row] = d
<1> USE NobodyAssumption
<1>1. owner' \in [Rows -> Clients \cup {Null}] /\ txn' \in [Clients -> TxnRow]
  BY DEF LockInv, End, Idle, TxnRow
<1>2. txn'[c].stage = 0 /\ \A d \in Clients \ {c} : txn'[d] = txn[d]
  BY DEF LockInv, End, Idle
<1>3. /\ \A row \in Rows : owner'[row] # c
      /\ \A d \in Clients \ {c} : \A row \in Rows : owner'[row] = d <=> owner[row] = d
  BY DEF LockInv, End
<1>4. LocksOf(c)'
  BY <1>2, <1>3 DEF LocksOf, Running
<1>5. ASSUME NEW d \in Clients \ {c} PROVE LocksOf(d)'
  BY <1>2, <1>3 DEF LockInv, LocksOf, Running, Held
<1> QED
  BY <1>1, <1>2, <1>3, <1>4, <1>5 DEF LockInv

\* A client that starts owns nothing yet.
LEMMA StartKeepsLocks ==
  ASSUME LockInv, NEW c \in Clients, NEW job \in Jobs, Start(c, job)
  PROVE  /\ LockInv'
         /\ txn'[c].job = job /\ txn'[c].stage = 1
         /\ \A row \in Rows : owner'[row] = owner[row] /\ owner[row] # c
         /\ \A d \in Clients \ {c} : txn'[d] = txn[d]
<1> DEFINE new == [Idle EXCEPT !.job = job, !.stage = 1]
<1>1. owner' = owner /\ ~ Running(c) /\ txn' = [txn EXCEPT ![c] = new]
  BY DEF Start
<1>n. new.job = job /\ new.stage = 1 /\ new \in TxnRow
  <2>1. Idle \in TxnRow
    BY DEF Idle, TxnRow
  <2>2. new.job = job /\ new.stage = 1
    BY <2>1 DEF TxnRow
  <2> DEFINE ours == [Idle EXCEPT !.job = job]
  <2>3. ours \in TxnRow
    BY <2>1 DEF TxnRow
  <2> HIDE DEF ours
  <2>4. [ours EXCEPT !.stage = 1] \in TxnRow
    BY <2>3 DEF TxnRow
  <2> USE DEF ours
  <2> QED
    BY <2>2, <2>4
<1> HIDE DEF new
<1>2. /\ txn'[c].job = job /\ txn'[c].stage = 1
      /\ \A d \in Clients \ {c} : txn'[d] = txn[d]
  BY <1>1, <1>n DEF LockInv
<1>t. txn' \in [Clients -> TxnRow]
  BY <1>1, <1>n DEF LockInv
<1>3. \A row \in Rows : owner'[row] = owner[row] /\ owner[row] # c
  BY <1>1 DEF LockInv, LocksOf
<1>4. LocksOf(c)'
  <2>1. Held(c)' = {} /\ Running(c)'
    BY <1>2 DEF Held, Running, FirstRows
  <2> QED
    BY <1>2, <1>3, <2>1, PlanTyped DEF LocksOf
<1>5. ASSUME NEW d \in Clients \ {c} PROVE LocksOf(d)'
  BY <1>1, <1>2 DEF LockInv, LocksOf, Running, Held
<1> QED
  BY <1>1, <1>2, <1>t, <1>3, <1>4, <1>5 DEF LockInv

\* A lock that is granted comes on top of those held, and none is taken away.
LEMMA AcquireKeepsLocks ==
  ASSUME RaceTypeOK, LockInv, NEW c \in Clients, Acquire(c), Proceeds(c)
  PROVE  /\ LockInv' /\ Stage(c) \in Rows /\ txn[c].job \in Jobs
         /\ txn'[c].job = txn[c].job
         /\ txn'[c].balance =
                IF Stage(c)[1] = "wallet" THEN balance[WalletOf(txn[c].job)] ELSE txn[c].balance
         /\ txn'[c].due =
                IF Stage(c)[1] = "bill" THEN bills[txn[c].job.ref].due ELSE txn[c].due
         /\ \A row \in Rows : owner'[row] = c <=> owner[row] = c \/ row = Stage(c)
         /\ \A d \in Clients \ {c} : /\ txn'[d] = txn[d]
                                     /\ \A row \in Rows : owner'[row] = d <=> owner[row] = d
<1> DEFINE job == txn[c].job
           n == txn[c].stage
           row0 == Stage(c)
<1>1. job \in Jobs /\ n \in 1 .. Len(Plan(job)) /\ row0 = Plan(job)[n]
  BY PlanTyped DEF Acquire, Locking, Running, LockInv, LocksOf, Stage
<1>2. Len(Plan(job)) \in 1 .. 3 /\ row0 \in Rows
  BY <1>1, PlanTyped
<1>3. /\ owner' = [owner EXCEPT ![row0] = c] /\ owner[row0] \in {Null, c}
      /\ txn' = [txn EXCEPT
            ![c].stage = @ + 1,
            ![c].balance = IF row0[1] = "wallet" THEN balance[WalletOf(job)] ELSE @,
            ![c].due = IF row0[1] = "bill" THEN bills[job.ref].due ELSE @]
  BY DEF Acquire
<1>4. (row0[1] = "wallet" => balance[WalletOf(job)] \in Nat)
      /\ (row0[1] = "bill" => bills[job.ref].due \in Nat)
  <2>1. balance[WalletOf(job)] \in Nat
    BY <1>1, JobTyped, AmountsAssumption DEF RaceTypeOK, TypeOK
  <2>2. ASSUME row0[1] = "bill" PROVE job.ref \in Bills
    <3>1. CASE job.kind \in {"recharge", "deduct", "submit"}
      BY <1>1, <2>2, <3>1, PlanOf
    <3>2. CASE job.kind \in Reviews
      BY <1>1, <1>2, <2>2, <3>2, PlanOf
    <3>3. CASE job.kind = "pay"
      BY <1>1, <3>3, JobTyped
    <3> QED
      BY <1>1, <3>1, <3>2, <3>3, JobTyped DEF Reviews
  <2> QED
    BY <2>1, <2>2 DEF RaceTypeOK, TypeOK, BillRow
<1> HIDE DEF job, n, row0
<1>5. /\ txn'[c].job = job /\ txn'[c].stage = n + 1
      /\ txn'[c].balance = IF row0[1] = "wallet" THEN balance[WalletOf(job)] ELSE txn[c].balance
      /\ txn'[c].due = IF row0[1] = "bill" THEN bills[job.ref].due ELSE txn[c].due
      /\ \A d \in Clients \ {c} : txn'[d] = txn[d]
  BY <1>3 DEF LockInv, TxnRow, job, n
<1>6. txn' \in [Clients -> TxnRow]
  <2>1. n + 1 \in 0 .. 4
    BY <1>1, <1>2
  <2>2. txn[c] \in TxnRow
    BY DEF LockInv
  <2>3. txn' = [txn EXCEPT ![c] = [txn[c] EXCEPT
            !.stage = n + 1,
            !.balance = IF row0[1] = "wallet" THEN balance[WalletOf(job)] ELSE txn[c].balance,
            !.due = IF row0[1] = "bill" THEN bills[job.ref].due ELSE txn[c].due]]
    BY <1>3 DEF LockInv, n
  <2> QED
    BY <1>4, <2>1, <2>2, <2>3 DEF LockInv, TxnRow
<1>7. owner' \in [Rows -> Clients \cup {Null}]
  BY <1>2, <1>3 DEF LockInv
<1>8. /\ \A row \in Rows : owner'[row] = c <=> owner[row] = c \/ row = row0
      /\ \A d \in Clients \ {c} : \A row \in Rows : owner'[row] = d <=> owner[row] = d
  BY <1>2, <1>3, NobodyAssumption DEF LockInv
<1>9. LocksOf(c)'
  <2>1. Running(c)' /\ n + 1 \in 1 .. Len(Plan(job)) + 1
    BY <1>1, <1>2, <1>5 DEF Running
  <2>2. \A row \in Rows : owner[row] = c <=> row \in FirstRows(job, n - 1)
    BY <1>1 DEF LockInv, LocksOf, Running, Held, Acquire, Locking, job, n
  <2>3. FirstRows(job, n) = FirstRows(job, n - 1) \cup {Plan(job)[n]}
    BY <1>1, <1>2 DEF FirstRows
  <2>4. Held(c)' = FirstRows(job, n)
    <3>1. txn'[c].stage - 1 = n
      BY <1>1, <1>2, <1>5
    <3> QED
      BY <1>5, <3>1 DEF Held
  <2> QED
    BY <1>1, <1>5, <1>8, <2>1, <2>2, <2>3, <2>4 DEF LocksOf
<1>10. ASSUME NEW d \in Clients \ {c} PROVE LocksOf(d)'
  BY <1>5, <1>8 DEF LockInv, LocksOf, Running, Held
<1>11. LockInv'
  BY <1>6, <1>7, <1>9, <1>10 DEF LockInv
<1> QED
  BY <1>1, <1>2, <1>5, <1>8, <1>11 DEF job, row0

\* Before it commits, a client holds every row of its plan.
LEMMA CommitHolds ==
  ASSUME LockInv, NEW c \in Clients, Committing(c)
  PROVE  LET job == txn[c].job
         IN  /\ job \in Jobs
             /\ owner[<<"wallet", job.user>>] = c
             /\ job.kind \in Reviews => owner[<<"request", job.ref>>] = c
             /\ job.kind = "pay" => owner[<<"bill", job.ref>>] = c /\ owner[<<"payment_no", Null>>] = c
<1> DEFINE job == txn[c].job
<1>1. /\ job \in Jobs /\ txn[c].stage - 1 = Len(Plan(job))
      /\ \A row \in Rows : owner[row] = c <=> row \in FirstRows(job, txn[c].stage - 1)
  <2>1. /\ job \in Jobs /\ txn[c].stage \in 1 .. Len(Plan(job)) + 1
        /\ txn[c].stage > Len(Plan(job))
        /\ \A row \in Rows : owner[row] = c <=> row \in FirstRows(job, txn[c].stage - 1)
    BY DEF LockInv, LocksOf, Committing, Running, Held
  <2>2. Len(Plan(job)) \in 1 .. 3
    BY <2>1, PlanTyped
  <2> QED
    BY <2>1, <2>2
<1> HIDE DEF job
<1>2. \A i \in 1 .. Len(Plan(job)) : owner[Plan(job)[i]] = c
  BY <1>1, PlanTyped DEF FirstRows
<1>3. owner[<<"wallet", job.user>>] = c
  BY <1>1, <1>2, PlanTyped
<1>4. ASSUME job.kind \in Reviews PROVE owner[<<"request", job.ref>>] = c
  <2>1. Plan(job)[1] = <<"request", job.ref>> /\ 1 \in 1 .. Len(Plan(job))
    BY <1>1, <1>4, PlanOf
  <2> QED
    BY <1>2, <2>1
<1>5. ASSUME job.kind = "pay"
      PROVE  owner[<<"bill", job.ref>>] = c /\ owner[<<"payment_no", Null>>] = c
  <2>1. /\ Plan(job)[1] = <<"bill", job.ref>> /\ 1 \in 1 .. Len(Plan(job))
        /\ Plan(job)[3] = <<"payment_no", Null>> /\ 3 \in 1 .. Len(Plan(job))
    BY <1>1, <1>5, PlanOf
  <2> QED
    BY <1>2, <2>1
<1> QED
  BY <1>1, <1>3, <1>4, <1>5 DEF job

\* The wallet comes after the row the job is about.
LEMMA WalletComesLater ==
  ASSUME LockInv, NEW c \in Clients, Running(c), owner[<<"wallet", txn[c].job.user>>] = c
  PROVE  LET job == txn[c].job
         IN  /\ job.kind \in Reviews => owner[<<"request", job.ref>>] = c
             /\ job.kind = "pay" => owner[<<"bill", job.ref>>] = c
<1> DEFINE job == txn[c].job
           n == txn[c].stage
           wallet == <<"wallet", job.user>>
<1>1. /\ job \in Jobs /\ n \in 1 .. Len(Plan(job)) + 1
      /\ \A row \in Rows : owner[row] = c <=> row \in FirstRows(job, n - 1)
      /\ owner[wallet] = c
  BY DEF LockInv, LocksOf, Held
<1> HIDE DEF job, n
<1>2. wallet \in Rows /\ Len(Plan(job)) \in 1 .. 3
  BY <1>1, JobTyped, PlanTyped DEF Rows
<1>3. PICK i \in 1 .. n - 1 : Plan(job)[i] = wallet
  BY <1>1, <1>2 DEF FirstRows
<1>4. 1 \in 1 .. n - 1 /\ 1 \in 1 .. Len(Plan(job))
  BY <1>1, <1>2, <1>3
<1>5. owner[Plan(job)[1]] = c
  BY <1>1, <1>4, PlanTyped DEF FirstRows
<1>6. job.kind \in Reviews => Plan(job)[1] = <<"request", job.ref>>
  BY <1>1, PlanOf
<1>7. job.kind = "pay" => Plan(job)[1] = <<"bill", job.ref>>
  BY <1>1, PlanOf
<1> QED
  BY <1>5, <1>6, <1>7 DEF job

-----------------------------------------------------------------------------
(* What a client has read is still so, as long as it holds the row.        *)

\* A request that was not inserted names no wallet; one that was is about some money.
RequestsWhole ==
    \A r \in Requests :
        IF requests[r].status = "NONE" THEN requests[r].wallet = Null ELSE requests[r].amount > 0

\* What a client knows of the request it reviews, and of the rows it holds: each check of
\* Proceeds, kept until the commit.
ReviewSeen(c) ==
    LET job == txn[c].job
    IN  job.kind \in Reviews => requests[job.ref].wallet = WalletOf(job)
BillSeen(c) ==
    LET job == txn[c].job
    IN  job.kind = "pay" /\ owner[<<"bill", job.ref>>] = c =>
            /\ txn[c].due = bills[job.ref].due
            /\ bills[job.ref].status \in {"PENDING_PAYMENT", "SETTLED"}
            /\ bills[job.ref].user = job.user
            /\ orders[job.ref] # Null \/ txn[c].due > 0
WalletSeen(c) ==
    LET job == txn[c].job
    IN  owner[<<"wallet", job.user>>] = c =>
            /\ txn[c].balance = balance[WalletOf(job)]
            /\ Moves(job) => Fits(After(c, txn[c].balance)) /\ Len(ledger[WalletOf(job)]) < MaxRows
            /\ job.kind \in Reviews => Reviewable(job.ref)
            /\ job.kind = "pay" => orders[job.ref] = Null
NumberSeen(c) ==
    LET job == txn[c].job
    IN  job.kind = "pay" /\ owner[<<"payment_no", Null>>] = c =>
            \A other \in Bills : orders[other] # job.key

Seen(c) == ReviewSeen(c) /\ BillSeen(c) /\ WalletSeen(c) /\ NumberSeen(c)

RaceInv ==
    /\ LockInv /\ LedgerInv /\ PaidMeansSettled /\ RequestsWhole
    /\ \A c \in Clients : Running(c) => Seen(c)

\* The parts of RaceTypeOK are parts of the invariant.
LEMMA RaceInvTyped == RaceInv => RaceTypeOK /\ TypeOK
  BY DEF RaceInv, LockInv, LedgerInv, RaceTypeOK, TxnRow

\* The money a commit moves is one movement of Wallet.
LEMMA MoneyPosts ==
  ASSUME RaceInv, NEW c \in Clients, Committing(c), Moves(txn[c].job), NEW ref, Amount(c) > 0,
         LET job == txn[c].job
             wt == WalletOf(job)
             after == After(c, txn[c].balance)
         IN  /\ balance' = [balance EXCEPT ![wt] = after]
             /\ ledger' = [ledger EXCEPT ![wt] = Append(@,
                    [type |-> TxType(job), amount |-> Amount(c), after |-> after, ref |-> ref])]
  PROVE  Post(WalletOf(txn[c].job), TxType(txn[c].job), Amount(c), ref)
<1> DEFINE job == txn[c].job
           wt == WalletOf(job)
<1>1. /\ txn[c].balance = balance[wt] /\ Fits(After(c, txn[c].balance))
      /\ Len(ledger[wt]) < MaxRows
  BY CommitHolds DEF RaceInv, Seen, WalletSeen, Committing
<1> QED
  BY <1>1 DEF Post, After

\* The part of the tables a commit can change.
Touches(job) ==
    /\ \A wt \in Wallets \ {WalletOf(job)} : balance'[wt] = balance[wt] /\ ledger'[wt] = ledger[wt]
    /\ IF job.kind = "pay"
       THEN \A b \in Bills \ {job.ref} : bills'[b] = bills[b] /\ orders'[b] = orders[b]
       ELSE bills' = bills /\ orders' = orders
    /\ \A r \in Requests : requests[r].status # "NONE" =>
            /\ requests'[r].wallet = requests[r].wallet
            /\ ~ (job.kind \in Reviews /\ r = job.ref) => requests'[r] = requests[r]
    /\ RequestsWhole'

\* A commit is a step of Wallet, and touches only what its client has locked.
LEMMA CommitStep ==
  ASSUME RaceInv, NEW c \in Clients, Committing(c), Write(c)
  PROVE  Next /\ Touches(txn[c].job)
<1> DEFINE job == txn[c].job
           wt == WalletOf(job)
           after == After(c, txn[c].balance)
           Money(ref) ==
             /\ balance' = [balance EXCEPT ![wt] = after]
             /\ ledger' = [ledger EXCEPT ![wt] = Append(@,
                    [type |-> TxType(job), amount |-> Amount(c), after |-> after, ref |-> ref])]
           NewRequest(r, status) ==
             /\ requests[r].status = "NONE"
             /\ requests' = [requests EXCEPT ![r] = [status |-> status, wallet |-> wt,
                    amount |-> job.amount, proof |-> job.kind = "submit"]]
<1>1. TypeOK /\ RowsFilled /\ RequestsWhole /\ PaidMeansSettled
  BY DEF RaceInv, LedgerInv
<1>2. /\ job \in Jobs /\ Seen(c)
      /\ owner[<<"wallet", job.user>>] = c
      /\ job.kind = "pay" => owner[<<"bill", job.ref>>] = c /\ owner[<<"payment_no", Null>>] = c
  BY CommitHolds DEF RaceInv, Committing
<1>3. /\ job.kind \in {"recharge", "deduct", "submit", "pay"} \cup Reviews
      /\ wt \in Wallets
      /\ job.kind \in {"recharge", "deduct", "submit"} => job.amount \in Amounts /\ job.amount > 0
      /\ job.kind \in Reviews => job.ref \in Requests
      /\ job.kind = "pay" => job.ref \in Bills /\ job.key \in Keys
  BY <1>2, JobTyped
<1>4. ASSUME NEW ref, Money(ref)
      PROVE  \A other \in Wallets \ {wt} :
                balance'[other] = balance[other] /\ ledger'[other] = ledger[other]
  BY <1>1, <1>4 DEF TypeOK
<1>5. ASSUME NEW ref, Money(ref), Moves(job), Amount(c) > 0
      PROVE  Post(wt, TxType(job), Amount(c), ref)
  BY <1>5, MoneyPosts
<1> HIDE DEF Money
<1>6. ASSUME NEW r \in Requests, NEW status \in {"PENDING", "COMPLETED"}, NewRequest(r, status),
             job.amount > 0
      PROVE  /\ RequestsWhole'
             /\ \A q \in Requests : requests[q].status # "NONE" => requests'[q] = requests[q]
  BY <1>1, <1>6 DEF TypeOK, RequestsWhole
<1>r. ASSUME NEW status \in {"COMPLETED", "CANCELLED"}, job.kind \in Reviews,
             requests' = [requests EXCEPT ![job.ref].status = status], Reviewable(job.ref)
      PROVE  /\ RequestsWhole'
             /\ requests'[job.ref].wallet = requests[job.ref].wallet
             /\ \A q \in Requests \ {job.ref} : requests'[q] = requests[q]
  <2>1. /\ requests'[job.ref].status = status /\ requests'[job.ref].amount = requests[job.ref].amount
        /\ requests'[job.ref].wallet = requests[job.ref].wallet
        /\ \A q \in Requests \ {job.ref} : requests'[q] = requests[q]
    BY <1>1, <1>3, <1>r DEF TypeOK, RequestRow
  <2>2. requests[job.ref].amount > 0
    BY <1>1, <1>3, <1>r DEF RequestsWhole, Reviewable
  <2> QED
    BY <1>1, <2>1, <2>2 DEF RequestsWhole
<1>7. CASE job.kind = "recharge"
  <2>1. PICK r \in Requests : NewRequest(r, "COMPLETED") /\ Money(r)
    BY <1>7 DEF Write, Money
  <2>2. bills' = bills /\ orders' = orders
    BY <1>7 DEF Write
  <2>3. Amount(c) = job.amount /\ TxType(job) = "ADMIN_RECHARGE" /\ Moves(job)
    BY <1>7 DEF Amount, TxType, Moves
  <2>4. Post(wt, "ADMIN_RECHARGE", job.amount, r)
    BY <1>3, <1>5, <1>7, <2>1, <2>3
  <2>5. requests' = [requests EXCEPT ![r] =
            [status |-> "COMPLETED", wallet |-> wt, amount |-> job.amount, proof |-> FALSE]]
    <3>1. (job.kind = "submit") = FALSE
      BY <1>7
    <3> QED
      BY <2>1, <3>1
  <2>6. AdminRecharge(r, wt, job.amount)
    BY <2>1, <2>2, <2>4, <2>5 DEF AdminRecharge
  <2>7. Next
    BY <1>3, <1>7, <2>6 DEF Next
  <2>8. Touches(job)
    BY <1>3, <1>4, <1>6, <1>7, <2>1, <2>2 DEF Touches, Reviews
  <2> QED
    BY <2>7, <2>8
<1>8. CASE job.kind = "submit"
  <2>1. PICK r \in Requests : NewRequest(r, "PENDING")
    BY <1>8 DEF Write
  <2>2. balance' = balance /\ ledger' = ledger /\ bills' = bills /\ orders' = orders
    BY <1>8 DEF Write
  <2>3. requests' = [requests EXCEPT ![r] =
            [status |-> "PENDING", wallet |-> wt, amount |-> job.amount, proof |-> TRUE]]
    <3>1. (job.kind = "submit") = TRUE
      BY <1>8
    <3> QED
      BY <2>1, <3>1
  <2>4. SubmitRemittance(r, wt, job.amount)
    BY <1>3, <1>8, <2>1, <2>2, <2>3 DEF SubmitRemittance
  <2>5. Next
    BY <1>3, <1>8, <2>4 DEF Next
  <2>6. Touches(job)
    BY <1>3, <1>6, <1>8, <2>1, <2>2 DEF Touches, Reviews
  <2> QED
    BY <2>5, <2>6
<1>9. CASE job.kind = "deduct"
  <2>1. Money(Null) /\ bills' = bills /\ orders' = orders /\ requests' = requests
    BY <1>9 DEF Write, Money
  <2>2. Amount(c) = job.amount /\ TxType(job) = "ADMIN_DEDUCT" /\ Moves(job)
    BY <1>9 DEF Amount, TxType, Moves
  <2>3. Post(wt, "ADMIN_DEDUCT", job.amount, Null)
    BY <1>3, <1>5, <1>9, <2>1, <2>2
  <2>4. Next
    BY <1>3, <1>9, <2>1, <2>3 DEF Next, AdminDeduct
  <2>5. Touches(job)
    BY <1>1, <1>4, <1>9, <2>1 DEF Touches, RequestsWhole, Reviews
  <2> QED
    BY <2>4, <2>5
<1>10. CASE job.kind = "approve"
  <2>1. /\ Money(job.ref) /\ bills' = bills /\ orders' = orders
        /\ requests' = [requests EXCEPT ![job.ref].status = "COMPLETED"]
    BY <1>10 DEF Write, Money
  <2>2. /\ Amount(c) = requests[job.ref].amount /\ TxType(job) = "OFFLINE_REMITTANCE" /\ Moves(job)
    BY <1>10 DEF Amount, TxType, Moves
  <2>3. Reviewable(job.ref) /\ requests[job.ref].wallet = wt
    BY <1>2, <1>10 DEF Seen, WalletSeen, ReviewSeen, Reviews
  <2>4. requests[job.ref].amount > 0
    BY <1>1, <1>3, <1>10, <2>3 DEF RequestsWhole, Reviewable, Reviews
  <2>5. Post(wt, "OFFLINE_REMITTANCE", requests[job.ref].amount, job.ref)
    BY <1>5, <2>1, <2>2, <2>4
  <2>6. ApproveRemittance(job.ref)
    BY <2>1, <2>3, <2>5 DEF ApproveRemittance
  <2>7. Next
    BY <1>3, <1>10, <2>6 DEF Next, Reviews
  <2>8. Touches(job)
    BY <1>r, <1>4, <1>10, <2>1, <2>3 DEF Touches, Reviews
  <2> QED
    BY <2>7, <2>8
<1>11. CASE job.kind = "reject"
  <2>1. /\ balance' = balance /\ ledger' = ledger /\ bills' = bills /\ orders' = orders
        /\ requests' = [requests EXCEPT ![job.ref].status = "CANCELLED"]
    BY <1>11 DEF Write
  <2>2. Reviewable(job.ref)
    BY <1>2, <1>11 DEF Seen, WalletSeen, Reviews
  <2>3. Next
    BY <1>3, <1>11, <2>1, <2>2 DEF Next, CancelRemittance, Reviews
  <2>4. Touches(job)
    BY <1>r, <1>11, <2>1, <2>2 DEF Touches, Reviews
  <2> QED
    BY <2>3, <2>4
<1>12. CASE job.kind = "pay"
  <2>1. /\ Money(job.ref) /\ requests' = requests
        /\ orders' = [orders EXCEPT ![job.ref] = job.key]
        /\ bills' = [bills EXCEPT ![job.ref].status = "SETTLED"]
    BY <1>12 DEF Write, Money
  <2>2. Amount(c) = txn[c].due /\ TxType(job) = PaymentType(job.ref) /\ Moves(job)
    BY <1>12 DEF Amount, TxType, Moves
  <2>3. /\ orders[job.ref] = Null /\ txn[c].due = bills[job.ref].due
        /\ bills[job.ref].status \in {"PENDING_PAYMENT", "SETTLED"}
        /\ bills[job.ref].user = job.user /\ txn[c].due > 0
        /\ \A other \in Bills : orders[other] # job.key
    BY <1>2, <1>12 DEF Seen, WalletSeen, BillSeen, NumberSeen
  <2>4. Payable(job.ref) /\ wt = <<bills[job.ref].user, Home>>
    BY <1>1, <1>3, <1>12, <2>3 DEF Payable, PaidMeansSettled, WalletOf
  <2>5. Post(wt, PaymentType(job.ref), bills[job.ref].due, job.ref)
    BY <1>5, <2>1, <2>2, <2>3
  <2>6. Pay(job.ref, job.key)
    BY <2>1, <2>3, <2>4, <2>5 DEF Pay
  <2>7. Next
    BY <1>3, <1>12, <2>6 DEF Next
  <2>8. Touches(job)
    BY <1>1, <1>4, <1>12, <2>1 DEF Touches, TypeOK, RequestsWhole, Reviews
  <2> QED
    BY <2>7, <2>8
<1> QED
  BY <1>3, <1>7, <1>8, <1>9, <1>10, <1>11, <1>12 DEF Reviews

\* Of whoever keeps its transaction and its rows, what was read stays as long as the
\* tables do.
LEMMA SeenStays ==
  ASSUME NEW d \in Clients, Seen(d), UNCHANGED vars, txn'[d] = txn[d], txn[d].job \in Jobs,
         \A row \in Rows : owner'[row] = d <=> owner[row] = d
  PROVE  Seen(d)'
<1> DEFINE job == txn[d].job
<1>1. txn'[d].job = job /\ txn'[d].balance = txn[d].balance /\ txn'[d].due = txn[d].due
  OBVIOUS
<1>2. balance' = balance /\ ledger' = ledger /\ bills' = bills /\ orders' = orders /\ requests' = requests
  BY DEF vars
<1>3. /\ owner'[<<"wallet", job.user>>] = d <=> owner[<<"wallet", job.user>>] = d
      /\ owner'[<<"payment_no", Null>>] = d <=> owner[<<"payment_no", Null>>] = d
      /\ job.kind = "pay" =>
            (owner'[<<"bill", job.ref>>] = d <=> owner[<<"bill", job.ref>>] = d)
  BY JobTyped DEF Rows
<1>4. ReviewSeen(d)'
  BY <1>1, <1>2 DEF Seen, ReviewSeen, WalletOf
<1>5. BillSeen(d)'
  BY <1>1, <1>2, <1>3 DEF Seen, BillSeen
<1>6. WalletSeen(d)'
  BY <1>1, <1>2, <1>3 DEF Seen, WalletSeen, WalletOf, Moves, Fits, After, Signed, TxType, PaymentType,
                          Amount, Reviewable
<1>7. NumberSeen(d)'
  BY <1>1, <1>2, <1>3 DEF Seen, NumberSeen
<1> QED
  BY <1>4, <1>5, <1>6, <1>7 DEF Seen

\* What a client has read is still so after another has committed.
LEMMA SeenOverCommit ==
  ASSUME RaceInv, NEW c \in Clients, NEW d \in Clients \ {c}, Running(d), Committing(c),
         Touches(txn[c].job), txn'[d] = txn[d],
         \A row \in Rows : owner'[row] = d <=> owner[row] = d
  PROVE  Seen(d)'
<1> DEFINE job == txn[d].job
           his == txn[c].job
<1>1. txn'[d].job = job /\ txn'[d].balance = txn[d].balance /\ txn'[d].due = txn[d].due
  OBVIOUS
<1>2. /\ job \in Jobs /\ his \in Jobs /\ Seen(d)
      /\ owner[<<"wallet", his.user>>] = c
      /\ his.kind \in Reviews => owner[<<"request", his.ref>>] = c
      /\ his.kind = "pay" => owner[<<"bill", his.ref>>] = c /\ owner[<<"payment_no", Null>>] = c
  BY CommitHolds DEF RaceInv, LockInv, LocksOf
<1>3. /\ owner'[<<"wallet", job.user>>] = d <=> owner[<<"wallet", job.user>>] = d
      /\ owner'[<<"payment_no", Null>>] = d <=> owner[<<"payment_no", Null>>] = d
      /\ job.kind = "pay" =>
            (owner'[<<"bill", job.ref>>] = d <=> owner[<<"bill", job.ref>>] = d)
  BY <1>2, JobTyped DEF Rows
<1>4. /\ job.kind \in Reviews => job.ref \in Requests
      /\ job.kind = "pay" => job.ref \in Bills
      /\ WalletOf(job) \in Wallets
  BY <1>2, JobTyped
<1>5. /\ owner[<<"wallet", job.user>>] = d =>
            /\ job.kind \in Reviews => owner[<<"request", job.ref>>] = d
            /\ job.kind = "pay" => owner[<<"bill", job.ref>>] = d
  BY WalletComesLater DEF RaceInv
<1>6. job.kind \in Reviews => requests[job.ref].wallet # Null /\ requests[job.ref].status # "NONE"
  BY <1>2, <1>4, NobodyAssumption DEF RaceInv, RequestsWhole, Seen, ReviewSeen
<1>7. ReviewSeen(d)'
  BY <1>1, <1>2, <1>4, <1>6 DEF Touches, Seen, ReviewSeen, WalletOf
<1>8. ASSUME job.kind = "pay", owner[<<"bill", job.ref>>] = d
      PROVE  bills'[job.ref] = bills[job.ref] /\ orders'[job.ref] = orders[job.ref]
  BY <1>2, <1>4, <1>8 DEF Touches
<1>9. BillSeen(d)'
  BY <1>1, <1>2, <1>3, <1>8 DEF Seen, BillSeen
<1>10. ASSUME owner[<<"wallet", job.user>>] = d
       PROVE  /\ balance'[WalletOf(job)] = balance[WalletOf(job)]
              /\ ledger'[WalletOf(job)] = ledger[WalletOf(job)]
              /\ job.kind \in Reviews => requests'[job.ref] = requests[job.ref]
              /\ job.kind = "pay" => orders'[job.ref] = orders[job.ref]
  <2>1. job.user # his.user
    BY <1>2, <1>10
  <2>2. WalletOf(job) # WalletOf(his)
    BY <2>1 DEF WalletOf
  <2>3. job.kind \in Reviews => ~ (his.kind \in Reviews /\ his.ref = job.ref)
    BY <1>2, <1>5, <1>10
  <2> QED
    BY <1>4, <1>5, <1>6, <1>8, <1>10, <2>2, <2>3 DEF Touches
<1>11. WalletSeen(d)'
  <2> SUFFICES ASSUME owner[<<"wallet", job.user>>] = d PROVE WalletSeen(d)'
    BY <1>1, <1>3 DEF WalletSeen
  <2>1. After(d, txn[d].balance)' = After(d, txn[d].balance) /\ Moves(txn[d].job)' = Moves(job)
    BY <1>1, <1>10 DEF After, Signed, TxType, PaymentType, Amount, Reviews, Moves
  <2>2. WalletOf(txn[d].job)' = WalletOf(job)
    BY <1>1 DEF WalletOf
  <2>3. job.kind \in Reviews => (Reviewable(txn[d].job.ref)' <=> Reviewable(job.ref))
    BY <1>1, <1>10 DEF Reviewable
  <2> QED
    BY <1>1, <1>2, <1>10, <2>1, <2>2, <2>3 DEF Seen, WalletSeen, Fits
<1>12. NumberSeen(d)'
  <2> SUFFICES ASSUME job.kind = "pay", owner[<<"payment_no", Null>>] = d PROVE NumberSeen(d)'
    BY <1>1, <1>3 DEF NumberSeen
  <2>1. orders' = orders
    BY <1>2 DEF Touches
  <2> QED
    BY <1>1, <1>2, <2>1 DEF Seen, NumberSeen
<1> QED
  BY <1>7, <1>9, <1>11, <1>12 DEF Seen

\* What a lock is granted on is checked, and then seen.
LEMMA SeenAfterAcquire ==
  ASSUME RaceInv, NEW c \in Clients, Acquire(c), Proceeds(c)
  PROVE  Seen(c)'
<1> DEFINE job == txn[c].job
           row == Stage(c)
<1>1. /\ job \in Jobs /\ row \in Rows /\ txn'[c].job = job
      /\ txn'[c].balance = IF row[1] = "wallet" THEN balance[WalletOf(job)] ELSE txn[c].balance
      /\ txn'[c].due = IF row[1] = "bill" THEN bills[job.ref].due ELSE txn[c].due
      /\ \A r \in Rows : owner'[r] = c <=> owner[r] = c \/ r = row
  BY AcquireKeepsLocks, RaceInvTyped DEF RaceInv
<1>2. balance' = balance /\ ledger' = ledger /\ bills' = bills /\ orders' = orders /\ requests' = requests
  BY DEF Acquire, vars
<1>3. /\ Running(c) /\ Seen(c) /\ txn[c].stage \in 1 .. Len(Plan(job)) /\ row = Plan(job)[txn[c].stage]
      /\ \A r \in Rows : owner[r] = c <=> r \in FirstRows(job, txn[c].stage - 1)
      /\ Len(Plan(job)) \in 1 .. 3
  BY <1>1, PlanTyped DEF Acquire, Locking, Running, RaceInv, LockInv, LocksOf, Held, Stage
<1>4. /\ job.kind \in {"recharge", "deduct", "submit", "pay"} \cup Reviews
      /\ <<"wallet", job.user>> \in Rows /\ <<"payment_no", Null>> \in Rows
      /\ job.kind = "pay" => <<"bill", job.ref>> \in Rows
  BY <1>1, JobTyped DEF Rows
<1>5. /\ row[1] = "wallet" <=> row = <<"wallet", job.user>>
      /\ row[1] = "bill" <=> job.kind = "pay" /\ row = <<"bill", job.ref>>
      /\ row[1] = "payment_no" <=> row = <<"payment_no", Null>>
  <2>1. CASE job.kind \in {"recharge", "deduct", "submit"}
    BY <1>1, <1>3, <2>1, PlanOf
  <2>2. CASE job.kind \in Reviews
    <3>1. row \in {<<"request", job.ref>>, <<"user", job.user>>, <<"wallet", job.user>>}
      BY <1>1, <1>3, <2>2, PlanOf
    <3> QED
      BY <2>2, <3>1 DEF Reviews
  <2>3. CASE job.kind = "pay"
    <3>1. row \in {<<"bill", job.ref>>, <<"wallet", job.user>>, <<"payment_no", Null>>}
      BY <1>1, <1>3, <2>3, PlanOf
    <3> QED
      BY <2>3, <3>1
  <2> QED
    BY <1>4, <2>1, <2>2, <2>3
<1>6. row[1] = "bill" => owner[<<"wallet", job.user>>] # c
  <2> SUFFICES ASSUME row[1] = "bill", owner[<<"wallet", job.user>>] = c PROVE FALSE
    OBVIOUS
  <2>1. job.kind = "pay" /\ owner[<<"bill", job.ref>>] = c
    BY <1>3, <1>5, WalletComesLater DEF RaceInv
  <2>2. PICK i \in 1 .. txn[c].stage - 1 : Plan(job)[i] = row
    BY <1>3, <1>4, <1>5, <2>1 DEF FirstRows
  <2>3. /\ i \in 1 .. Len(Plan(job)) /\ i # txn[c].stage
    BY <1>3
  <2> QED
    BY <1>1, <1>3, <2>2, <2>3, PlanTyped
<1> HIDE DEF job, row
<1>7. ReviewSeen(c)'
  BY <1>1, <1>2, <1>3 DEF Seen, ReviewSeen, WalletOf, job
<1>8. BillSeen(c)'
  <2>1. CASE row[1] = "bill"
    <3>1. /\ bills[job.ref].status \in {"PENDING_PAYMENT", "SETTLED"}
          /\ bills[job.ref].user = job.user
          /\ orders[job.ref] # Null \/ bills[job.ref].due > 0
      BY <2>1 DEF Proceeds, job, row
    <3> QED
      BY <1>1, <1>2, <2>1, <3>1 DEF BillSeen
  <2>2. CASE row[1] # "bill"
    BY <1>1, <1>2, <1>3, <1>4, <1>5, <2>2 DEF Seen, BillSeen, job
  <2> QED
    BY <2>1, <2>2
<1>9. WalletSeen(c)'
  <2>1. CASE row[1] = "wallet"
    <3>1. /\ Moves(job) =>
                /\ job.kind = "approve" => Reviewable(job.ref)
                /\ job.kind = "pay" => orders[job.ref] = Null
                /\ Fits(After(c, balance[WalletOf(job)]))
                /\ Len(ledger[WalletOf(job)]) < MaxRows
          /\ job.kind = "reject" => Reviewable(job.ref)
      BY <2>1 DEF Proceeds, Moves, job, row
    <3>2. After(c, txn[c].balance)' = After(c, balance[WalletOf(job)])
      BY <1>1, <1>2, <2>1 DEF After, Signed, TxType, PaymentType, Amount, job
    <3>3. WalletOf(txn[c].job)' = WalletOf(job) /\ (Moves(txn[c].job)' <=> Moves(job))
          /\ (Reviewable(txn[c].job.ref)' <=> Reviewable(job.ref))
      BY <1>1, <1>2 DEF WalletOf, Moves, Reviewable
    <3>4. job.kind \in {"approve", "pay"} => Moves(job)
      BY DEF Moves
    <3> QED
      BY <1>1, <1>2, <2>1, <3>1, <3>2, <3>3, <3>4 DEF WalletSeen, Fits, Reviews
  <2>2. CASE row[1] # "wallet"
    <3> SUFFICES ASSUME owner[<<"wallet", job.user>>] = c PROVE WalletSeen(c)'
      BY <1>1, <1>4, <1>5, <2>2 DEF WalletSeen
    <3>1. txn'[c].balance = txn[c].balance /\ txn'[c].due = txn[c].due
      BY <1>1, <1>6, <2>2
    <3> QED
      BY <1>1, <1>2, <1>3, <3>1 DEF Seen, WalletSeen, WalletOf, Moves, Fits, After, Signed, TxType,
                                    PaymentType, Amount, Reviewable, job
  <2> QED
    BY <2>1, <2>2
<1>10. NumberSeen(c)'
  <2>1. CASE row[1] = "payment_no"
    <3>1. \A other \in Bills : orders[other] # job.key
      BY <2>1 DEF Proceeds, job, row
    <3> QED
      BY <1>1, <1>2, <3>1 DEF NumberSeen
  <2>2. CASE row[1] # "payment_no"
    BY <1>1, <1>2, <1>3, <1>4, <1>5, <2>2 DEF Seen, NumberSeen, job
  <2> QED
    BY <2>1, <2>2
<1> QED
  BY <1>7, <1>8, <1>9, <1>10 DEF Seen

\* What a client has read is still so after a bill it has not locked came or went.
LEMMA SeenOverElsewhere ==
  ASSUME RaceInv, NEW d \in Clients, Running(d), Elsewhere
  PROVE  Seen(d)'
<1> DEFINE job == txn[d].job
<1>1. /\ balance' = balance /\ ledger' = ledger /\ orders' = orders /\ requests' = requests
      /\ owner' = owner /\ txn' = txn
  BY DEF Elsewhere, PresentBill, CancelBill
<1>2. PICK b \in Bills : owner[<<"bill", b>>] = Null /\ \A c \in Bills \ {b} : bills'[c] = bills[c]
  BY DEF Elsewhere, PresentBill, CancelBill, RaceInv, LedgerInv, TypeOK
<1>3. job \in Jobs /\ Seen(d)
  BY DEF RaceInv, LockInv, LocksOf
<1>4. ASSUME job.kind = "pay", owner[<<"bill", job.ref>>] = d PROVE bills'[job.ref] = bills[job.ref]
  BY <1>2, <1>3, <1>4, JobTyped, NobodyAssumption
<1>5. ReviewSeen(d)' /\ NumberSeen(d)'
  BY <1>1, <1>3 DEF Seen, ReviewSeen, NumberSeen, WalletOf
<1>6. BillSeen(d)'
  BY <1>1, <1>3, <1>4 DEF Seen, BillSeen
<1>7. WalletSeen(d)'
  BY <1>1, <1>3 DEF Seen, WalletSeen, WalletOf, Moves, Fits, After, Signed, TxType, PaymentType,
                    Amount, Reviewable
<1> QED
  BY <1>5, <1>6, <1>7 DEF Seen

\* The end of a transaction that wrote nothing keeps the invariant.
LEMMA EndKeepsAll ==
  ASSUME RaceInv, NEW c \in Clients, End(c), UNCHANGED vars
  PROVE  RaceInv'
<1>1. /\ LockInv' /\ txn'[c].stage = 0
      /\ \A d \in Clients \ {c} : /\ txn'[d] = txn[d]
                                  /\ \A row \in Rows : owner'[row] = d <=> owner[row] = d
  BY EndKeepsLocks DEF RaceInv
<1>2. LedgerInv' /\ PaidMeansSettled'
  BY LedgerStep, PaidMeansSettledStep DEF RaceInv, LedgerInv
<1>3. RequestsWhole'
  BY DEF RaceInv, RequestsWhole, vars
<1>4. ASSUME NEW d \in Clients, Running(d)' PROVE Seen(d)'
  <2>1. d # c
    BY <1>1, <1>4 DEF Running
  <2>2. Running(d) /\ txn[d].job \in Jobs /\ Seen(d)
    BY <1>1, <1>4, <2>1 DEF Running, RaceInv, LockInv, LocksOf
  <2> QED
    BY <1>1, <2>1, <2>2, SeenStays
<1> QED
  BY <1>1, <1>2, <1>3, <1>4 DEF RaceInv

\* Every step keeps the invariant and is a step of Wallet or none.
LEMMA RaceStep == RaceInv /\ [RaceNext]_raceVars => RaceInv' /\ [Next]_vars
<1> SUFFICES ASSUME RaceInv, [RaceNext]_raceVars PROVE RaceInv' /\ [Next]_vars
  OBVIOUS
<1>0. ASSUME [Next]_vars PROVE LedgerInv' /\ PaidMeansSettled'
  BY <1>0, LedgerStep, PaidMeansSettledStep DEF RaceInv, LedgerInv
<1>u. ASSUME UNCHANGED vars PROVE RequestsWhole'
  BY <1>u DEF RaceInv, RequestsWhole, vars
<1>1. ASSUME NEW c \in Clients, NEW job \in Jobs, Start(c, job) PROVE RaceInv' /\ [Next]_vars
  <2>1. UNCHANGED vars
    BY <1>1 DEF Start
  <2>2. /\ LockInv' /\ txn'[c].job = job
        /\ \A row \in Rows : owner'[row] = owner[row] /\ owner[row] # c
        /\ \A d \in Clients \ {c} : txn'[d] = txn[d]
    BY <1>1, StartKeepsLocks DEF RaceInv
  <2>3. /\ owner'[<<"wallet", job.user>>] # c /\ owner'[<<"payment_no", Null>>] # c
        /\ job.kind = "pay" => owner'[<<"bill", job.ref>>] # c
    BY <2>2, JobTyped DEF Rows
  <2>4. Seen(c)'
    <3>1. job.kind \in Reviews => requests'[job.ref].wallet = WalletOf(job)
      BY <1>1, <2>1 DEF Start, Reviews, vars
    <3>2. ReviewSeen(c)'
      BY <2>2, <3>1 DEF ReviewSeen, WalletOf
    <3> QED
      BY <2>2, <2>3, <3>2 DEF Seen, BillSeen, WalletSeen, NumberSeen
  <2>5. ASSUME NEW d \in Clients \ {c}, Running(d)' PROVE Seen(d)'
    <3>1. Running(d) /\ txn[d].job \in Jobs /\ Seen(d)
      BY <2>2, <2>5 DEF Running, RaceInv, LockInv, LocksOf
    <3> QED
      BY <2>1, <2>2, <3>1, SeenStays
  <2> QED
    BY <1>0, <1>u, <2>1, <2>2, <2>4, <2>5 DEF RaceInv
<1>2. ASSUME NEW c \in Clients, Acquire(c) PROVE RaceInv' /\ [Next]_vars
  <2>1. UNCHANGED vars
    BY <1>2 DEF Acquire
  <2>2. CASE ~ Proceeds(c)
    BY <1>2, <2>1, <2>2, EndKeepsAll DEF Acquire
  <2>3. CASE Proceeds(c)
    <3>1. /\ LockInv'
          /\ \A d \in Clients \ {c} : /\ txn'[d] = txn[d]
                                      /\ \A row \in Rows : owner'[row] = d <=> owner[row] = d
      BY <1>2, <2>3, AcquireKeepsLocks, RaceInvTyped DEF RaceInv
    <3>2. Seen(c)'
      BY <1>2, <2>3, SeenAfterAcquire
    <3>3. ASSUME NEW d \in Clients \ {c}, Running(d)' PROVE Seen(d)'
      <4>1. Running(d) /\ txn[d].job \in Jobs /\ Seen(d)
        BY <3>1, <3>3 DEF Running, RaceInv, LockInv, LocksOf
      <4> QED
        BY <2>1, <3>1, <4>1, SeenStays
    <3> QED
      BY <1>0, <1>u, <2>1, <3>1, <3>2, <3>3 DEF RaceInv
  <2> QED
    BY <2>2, <2>3
<1>3. ASSUME NEW c \in Clients, Commit(c) PROVE RaceInv' /\ [Next]_vars
  <2>1. Committing(c) /\ End(c)
    BY <1>3 DEF Commit
  <2>2. CASE UNCHANGED vars
    BY <2>1, <2>2, EndKeepsAll
  <2>3. CASE Write(c)
    <3>1. Next /\ Touches(txn[c].job)
      BY <2>1, <2>3, CommitStep
    <3>2. /\ LockInv' /\ txn'[c].stage = 0
          /\ \A d \in Clients \ {c} : /\ txn'[d] = txn[d]
                                      /\ \A row \in Rows : owner'[row] = d <=> owner[row] = d
      BY <2>1, EndKeepsLocks DEF RaceInv
    <3>3. ASSUME NEW d \in Clients, Running(d)' PROVE Seen(d)'
      <4>1. d # c
        BY <3>2, <3>3 DEF Running
      <4>2. Running(d)
        BY <3>2, <3>3, <4>1 DEF Running
      <4> QED
        BY <2>1, <3>1, <3>2, <4>1, <4>2, SeenOverCommit
    <3>4. RequestsWhole'
      BY <3>1 DEF Touches
    <3> QED
      BY <1>0, <3>1, <3>2, <3>3, <3>4 DEF RaceInv
  <2> QED
    BY <1>3, <2>2, <2>3 DEF Commit
<1>4. ASSUME NEW c \in Clients, Abort(c) PROVE RaceInv' /\ [Next]_vars
  BY <1>4, EndKeepsAll DEF Abort
<1>5. CASE Elsewhere
  <2>1. Next
    BY <1>5 DEF Elsewhere, Next
  <2>2. owner' = owner /\ txn' = txn /\ requests' = requests
    BY <1>5 DEF Elsewhere, PresentBill, CancelBill
  <2>3. LockInv'
    BY <2>2 DEF RaceInv, LockInv, LocksOf, Running, Held
  <2>4. ASSUME NEW d \in Clients, Running(d)' PROVE Seen(d)'
    BY <1>5, <2>2, <2>4, SeenOverElsewhere DEF Running
  <2>5. RequestsWhole'
    BY <2>2 DEF RaceInv, RequestsWhole
  <2> QED
    BY <1>0, <2>1, <2>3, <2>4, <2>5 DEF RaceInv
<1>6. CASE UNCHANGED raceVars
  <2>1. UNCHANGED vars /\ owner' = owner /\ txn' = txn
    BY <1>6 DEF raceVars
  <2>2. LockInv'
    BY <2>1 DEF RaceInv, LockInv, LocksOf, Running, Held
  <2>3. ASSUME NEW d \in Clients, Running(d)' PROVE Seen(d)'
    <3>1. Running(d) /\ txn[d].job \in Jobs /\ Seen(d)
      BY <2>1, <2>3 DEF Running, RaceInv, LockInv, LocksOf
    <3> QED
      BY <2>1, <3>1, SeenStays
  <2> QED
    BY <1>0, <1>u, <2>1, <2>2, <2>3 DEF RaceInv
<1> QED
  BY <1>1, <1>2, <1>3, <1>4, <1>5, <1>6 DEF RaceNext, Serve

\* Before the first request nothing is locked, and nothing has been read.
LEMMA RaceInitInv == RaceInit => RaceInv
<1> SUFFICES ASSUME RaceInit PROVE RaceInv
  OBVIOUS
<1>1. LedgerInv /\ PaidMeansSettled /\ RequestsWhole
  BY LedgerInit DEF RaceInit, Init, PaidMeansSettled, RequestsWhole
<1>2. \A c \in Clients : txn[c] = Idle
  BY DEF RaceInit
<1>3. Idle \in TxnRow /\ Idle.stage = 0
  BY DEF Idle, TxnRow
<1>4. LockInv /\ \A c \in Clients : ~ Running(c)
  BY <1>2, <1>3, NobodyAssumption DEF RaceInit, LockInv, LocksOf, Running
<1> QED
  BY <1>1, <1>4 DEF RaceInv

\* Locks are held as planned, and what is read under them stays.
THEOREM RaceCorrect == RaceSpec => []RaceInv
<1>1. RaceInv /\ [RaceNext]_raceVars => RaceInv'
  BY RaceStep
<1> QED
  BY <1>1, RaceInitInv, PTL DEF RaceSpec

\* Every row, lock and transaction has a legal value.
THEOREM AlwaysRaceTypeOK == RaceSpec => []RaceTypeOK
  BY RaceCorrect, RaceInvTyped, PTL

\* The interleaved transactions, of however many clients, do what the atomic ones of
\* Wallet do: no update is lost and nothing is charged or credited twice.
THEOREM RaceImplementsWallet == RaceSpec => ImplementsWallet
<1>1. RaceInit => Init
  BY DEF RaceInit
<1> QED
  BY <1>1, RaceCorrect, RaceStep, PTL DEF RaceSpec, ImplementsWallet, Spec

\* So every interleaving keeps the books.
COROLLARY RaceKeepsBooks ==
    RaceSpec => [](LedgerExplainsBalance /\ ChargedOnce /\ CreditedOnce /\ PaidMeansSettled)
  BY RaceImplementsWallet, LedgerCorrect, AlwaysChargedOnce, AlwaysCreditedOnce,
     AlwaysPaidMeansSettled, PTL DEF ImplementsWallet

\* What a transaction writes is computed from what is committed at that moment.
THEOREM AlwaysNothingStale == RaceSpec => []NothingStale
<1>1. RaceInv => NothingStale
  <2> SUFFICES ASSUME RaceInv, NEW c \in Clients, Committing(c)
               PROVE  /\ txn[c].balance = balance[WalletOf(txn[c].job)]
                      /\ txn[c].job.kind = "pay" =>
                            /\ txn[c].due = bills[txn[c].job.ref].due
                            /\ bills[txn[c].job.ref].status = "PENDING_PAYMENT"
    BY DEF NothingStale
  <2> DEFINE job == txn[c].job
  <2>1. /\ job \in Jobs /\ owner[<<"wallet", job.user>>] = c /\ Seen(c) /\ PaidMeansSettled
        /\ job.kind = "pay" => owner[<<"bill", job.ref>>] = c
    BY CommitHolds DEF RaceInv, Committing
  <2>2. job.kind = "pay" => job.ref \in Bills
    BY <2>1, JobTyped
  <2> QED
    BY <2>1, <2>2 DEF Seen, WalletSeen, BillSeen, PaidMeansSettled
<1> QED
  BY <1>1, RaceCorrect, PTL

-----------------------------------------------------------------------------
(* Deadlocks. Bill, wallet, payment number: whoever waits for one of them  *)
(* holds only earlier ones, unless it reviews a remittance.                *)

\* Who blocks a client that is not blocked by a review is waiting for a later row.
LEMMA BlockedInOrder ==
  ASSUME LockInv, NEW c \in Clients, NEW d \in Clients, Blocker(c) = d,
         Running(d), txn[c].job.kind \notin Reviews, txn[d].job.kind \notin Reviews
  PROVE  /\ Locking(c)
         /\ Stage(c)[1] \in {"bill", "wallet", "payment_no"}
         /\ Stage(c)[1] = "payment_no" => ~ Locking(d)
         /\ Stage(c)[1] = "wallet" => ~ Locking(d) \/ Stage(d)[1] = "payment_no"
         /\ Stage(c)[1] = "bill" => ~ Locking(d) \/ Stage(d)[1] \in {"wallet", "payment_no"}
<1> DEFINE his == txn[d].job
           n == txn[d].stage
<1>1. /\ his \in Jobs /\ n \in 1 .. Len(Plan(his)) + 1
      /\ \A row \in Rows : owner[row] = d <=> row \in FirstRows(his, n - 1)
  BY DEF LockInv, LocksOf, Held
<1>2. \/ Locking(c) /\ owner[Stage(c)] = d
      \/ Committing(c) /\ owner[<<"user", txn[c].job.user>>] = d
  BY NobodyAssumption DEF Blocker
<1>3. txn[c].job \in Jobs /\ txn[c].stage \in 1 .. Len(Plan(txn[c].job)) + 1
  BY <1>2 DEF Locking, Committing, LockInv, LocksOf
<1> HIDE DEF his, n
<1>4. \/ /\ Len(Plan(his)) = 1 /\ Plan(his)[1][1] = "wallet"
      \/ /\ Len(Plan(his)) = 3 /\ Plan(his)[1][1] = "bill" /\ Plan(his)[2][1] = "wallet"
         /\ Plan(his)[3][1] = "payment_no"
  <2>1. his.kind \in {"recharge", "deduct", "submit", "pay"}
    BY <1>1, JobTyped DEF his
  <2>2. CASE his.kind = "pay"
    BY <1>1, <2>2, PlanOf
  <2>3. CASE his.kind # "pay"
    BY <1>1, <2>1, <2>3, PlanOf
  <2> QED
    BY <2>2, <2>3
<1>5. ASSUME NEW row \in Rows, owner[row] = d
      PROVE  \E i \in 1 .. n - 1 : row = Plan(his)[i]
  BY <1>1, <1>5 DEF FirstRows
<1>6. Locking(c) /\ owner[Stage(c)] = d
  <2> SUFFICES ASSUME owner[<<"user", txn[c].job.user>>] = d PROVE FALSE
    BY <1>2
  <2>1. owner[<<"user", txn[c].job.user>>] = d /\ <<"user", txn[c].job.user>> \in Rows
    BY <1>3, JobTyped DEF Rows
  <2>2. PICK i \in 1 .. n - 1 : <<"user", txn[c].job.user>> = Plan(his)[i]
    BY <1>5, <2>1
  <2>3. i \in 1 .. Len(Plan(his)) /\ Plan(his)[i][1] = "user"
    BY <1>1, <1>4, <2>2
  <2> QED
    BY <1>4, <2>3
<1>7. Stage(c) \in Rows /\ owner[Stage(c)] = d
  <2>1. txn[c].stage \in 1 .. Len(Plan(txn[c].job))
    BY <1>3, <1>6, PlanTyped DEF Locking
  <2> QED
    BY <1>2, <1>3, <1>6, <2>1, PlanTyped DEF Stage
<1>8. PICK i \in 1 .. n - 1 : Stage(c) = Plan(his)[i]
  BY <1>5, <1>7
<1>9. Locking(d) => n <= Len(Plan(his)) /\ Stage(d) = Plan(his)[n]
  BY DEF Locking, Stage, his, n
<1>10. i \in 1 .. Len(Plan(his)) /\ (Locking(d) => n \in i + 1 .. Len(Plan(his)))
  BY <1>1, <1>4, <1>9
<1>11. CASE Len(Plan(his)) = 1
  BY <1>4, <1>6, <1>8, <1>10, <1>11
<1>12. CASE Len(Plan(his)) = 3
  <2>1. Stage(c)[1] = Plan(his)[i][1] /\ i \in {1, 2, 3}
    BY <1>8, <1>10, <1>12
  <2>2. Locking(d) => n \in {2, 3} /\ i < n /\ Stage(d)[1] = Plan(his)[n][1]
    BY <1>9, <1>10, <1>12
  <2> QED
    BY <1>4, <1>6, <1>12, <2>1, <2>2
<1> QED
  BY <1>4, <1>11, <1>12

\* So there is no set of clients without a review in which everybody waits for a member.
LEMMA NobodyWaitsInside ==
  ASSUME LockInv, NEW cs \in SUBSET Clients, cs # {},
         \A c \in cs : Blocker(c) \in cs /\ txn[c].job.kind \notin Reviews
  PROVE  FALSE
<1>1. \A c \in cs : Running(c)
  <2> SUFFICES ASSUME NEW c \in cs PROVE Running(c)
    OBVIOUS
  <2>1. Blocker(c) # Null
    BY NobodyAssumption
  <2> QED
    BY <2>1 DEF Blocker, Locking, Committing
<1>2. \A c \in cs :
        /\ Locking(c) /\ Locking(Blocker(c))
        /\ Stage(c)[1] \in {"bill", "wallet", "payment_no"}
        /\ Stage(c)[1] # "payment_no"
        /\ Stage(c)[1] = "wallet" => Stage(Blocker(c))[1] = "payment_no"
        /\ Stage(c)[1] = "bill" => Stage(Blocker(c))[1] \in {"wallet", "payment_no"}
  <2>1. ASSUME NEW c \in cs
        PROVE  /\ Locking(c) /\ Stage(c)[1] \in {"bill", "wallet", "payment_no"}
               /\ Stage(c)[1] = "payment_no" => ~ Locking(Blocker(c))
               /\ Stage(c)[1] = "wallet" =>
                      ~ Locking(Blocker(c)) \/ Stage(Blocker(c))[1] = "payment_no"
               /\ Stage(c)[1] = "bill" =>
                      ~ Locking(Blocker(c)) \/ Stage(Blocker(c))[1] \in {"wallet", "payment_no"}
    BY <1>1, BlockedInOrder
  <2> QED
    BY <2>1
<1>3. \A c \in cs : Stage(c)[1] # "wallet"
  BY <1>2
<1>4. \A c \in cs : Stage(c)[1] # "bill"
  BY <1>2, <1>3
<1> QED
  BY <1>2, <1>3, <1>4

\* Payments, recharges and deductions alone never wait for each other in a circle.
THEOREM AlwaysOnlyReviewsDeadlock == RaceSpec => []OnlyReviewsDeadlock
<1>1. LockInv => OnlyReviewsDeadlock
  BY NobodyWaitsInside DEF OnlyReviewsDeadlock, IsCircle, Reviews
<1>2. RaceInv => LockInv
  BY DEF RaceInv
<1> QED
  BY <1>1, <1>2, RaceCorrect, PTL

\* While no remittance is under review, some request of those at work waits for nobody:
\* not only no circle, but no endless row of waiting requests, however many there are.
SomebodyProceeds ==
    /\ \E c \in Clients : Running(c)
    /\ \A c \in Clients : Running(c) => txn[c].job.kind \notin Reviews
    => \E c \in Clients : Running(c) /\ Blocker(c) = Null

\* A request that is at work waits only for one that is at work, so that all of them
\* together would be such a set.
THEOREM AlwaysSomebodyProceeds == RaceSpec => []SomebodyProceeds
<1>1. LockInv => SomebodyProceeds
  <2> SUFFICES ASSUME LockInv, \E c \in Clients : Running(c),
                      \A c \in Clients : Running(c) => txn[c].job.kind \notin Reviews,
                      \A c \in Clients : Running(c) => Blocker(c) # Null
               PROVE  FALSE
    BY DEF SomebodyProceeds
  <2> DEFINE cs == {c \in Clients : Running(c)}
  <2>1. ASSUME NEW c \in cs PROVE Blocker(c) \in cs
    <3>1. /\ txn[c].job \in Jobs /\ txn[c].stage \in 1 .. Len(Plan(txn[c].job)) + 1
          /\ Blocker(c) # Null
      BY DEF LockInv, LocksOf
    <3>2. PICK row \in Rows : Blocker(c) = owner[row]
      <4>1. Locking(c) => Stage(c) \in Rows
        <5>1. Locking(c) => txn[c].stage \in 1 .. Len(Plan(txn[c].job))
          BY <3>1, PlanTyped DEF Locking
        <5> QED
          BY <3>1, <5>1, PlanTyped DEF Stage
      <4>2. <<"user", txn[c].job.user>> \in Rows
        BY <3>1, JobTyped DEF Rows
      <4> QED
        BY <3>1, <4>1, <4>2 DEF Blocker
    <3>3. owner[row] \in Clients
      BY <3>1, <3>2 DEF LockInv
    <3> QED
      BY <3>2, <3>3 DEF LockInv, LocksOf
  <2>2. cs \in SUBSET Clients /\ cs # {} /\ \A c \in cs : txn[c].job.kind \notin Reviews
    OBVIOUS
  <2> HIDE DEF cs
  <2> QED
    BY <2>1, <2>2, NobodyWaitsInside
<1>2. RaceInv => LockInv
  BY DEF RaceInv
<1> QED
  BY <1>1, <1>2, RaceCorrect, PTL
=============================================================================
