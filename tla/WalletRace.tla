------------------------------ MODULE WalletRace ------------------------------
(***************************************************************************)
(* The transactions of Wallet, taken apart: requests of several clients    *)
(* run at once, each locks its rows one after the other, computes from     *)
(* what it read and writes when it commits. Wallet's variables are the     *)
(* committed rows; the theorem to hold is that they still follow Wallet.   *)
(*                                                                         *)
(* Source: the lock statements of backend/apps/finance/services.py. The    *)
(* database underneath is PostgreSQL at READ COMMITTED, as the production  *)
(* plan has it: row locks last until the end of the transaction, a row     *)
(* is read in its newest version once its lock is granted, the foreign     *)
(* keys of inserted rows are checked at COMMIT and lock the referenced     *)
(* user row in share mode, and a deadlock is resolved by failing one of    *)
(* the transactions in it. On SQLite writers take turns and every          *)
(* transaction here runs alone.                                            *)
(***************************************************************************)
EXTENDS Wallet

CONSTANTS
    Clients,    \* workers that serve requests
    Jobs        \* the requests that are made, again and again

JobRow == [kind : {"recharge", "deduct", "submit", "approve", "reject", "pay"},
           user : Users, amount : Nat, ref : Bills \cup Requests \cup {Null},
           key : Keys \cup {Null}]

\* _assert_positive_amount comes before any lock; a review is about a request, a payment
\* about a bill.
ASSUME JobsAssumption ==
    /\ Jobs \subseteq JobRow
    /\ \A job \in Jobs :
        /\ job.kind \in {"recharge", "deduct", "submit"} => job.amount \in Amounts \ {0}
        /\ job.kind \in {"approve", "reject"} => job.ref \in Requests
        /\ job.kind = "pay" => job.ref \in Bills /\ job.key \in Keys
ASSUME NobodyAssumption == Null \notin Clients /\ Null \notin Wallets

VARIABLES
    owner,      \* who holds the FOR UPDATE lock on each row
    txn         \* the transaction of each client: its job, its next statement, what it read

raceVars == <<vars, owner, txn>>

\* Rows that are locked. Inserting a payment order with the placeholder number
\* "PENDING" waits for every other transaction that has done so: a lock in effect.
Rows == ({"wallet", "user"} \X Users) \cup ({"bill"} \X Bills) \cup ({"request"} \X Requests)
        \cup {<<"payment_no", Null>>}

Idle == [job |-> Null, stage |-> 0, balance |-> 0, due |-> 0]

RaceTypeOK ==
    /\ TypeOK
    /\ owner \in [Rows -> Clients \cup {Null}]
    /\ txn \in [Clients -> [job : Jobs \cup {Null}, stage : 0 .. 4, balance : Nat, due : Nat]]

RaceInit == Init /\ owner = [row \in Rows |-> Null] /\ txn = [c \in Clients |-> Idle]

Running(c) == txn[c].stage > 0
WalletOf(job) == <<job.user, Home>>

\* _locked_wallet
WalletLocks_UserFirst(job) == <<<<"user", job.user>>, <<"wallet", job.user>>>>   \* mutant: select_related("user")
WalletLocks(job) == <<<<"wallet", job.user>>>>

\* The rows a job locks, in the order of its statements. Reviewing a remittance is
\* select_for_update().select_related("user", "wallet"), which locks all three rows.
Plan(job) ==
    CASE job.kind \in {"recharge", "deduct", "submit"} -> WalletLocks(job)
      [] job.kind \in {"approve", "reject"} ->
            <<<<"request", job.ref>>, <<"user", job.user>>, <<"wallet", job.user>>>>
      [] job.kind = "pay" ->
            <<<<"bill", job.ref>>, <<"wallet", job.user>>, <<"payment_no", Null>>>>

Stage(c) == Plan(txn[c].job)[txn[c].stage]
Locking(c) == Running(c) /\ txn[c].stage <= Len(Plan(txn[c].job))
Committing(c) == Running(c) /\ txn[c].stage > Len(Plan(txn[c].job))

\* The end of a transaction, in whatever way: all its locks go.
End(c) ==
    /\ owner' = [row \in Rows |-> IF owner[row] = c THEN Null ELSE owner[row]]
    /\ txn' = [txn EXCEPT ![c] = Idle]

\* A request arrives. The reviews find their row before they lock it.
Start(c, job) ==
    /\ ~ Running(c)
    /\ job.kind \in {"approve", "reject"} => requests[job.ref].wallet = WalletOf(job)
    /\ txn' = [txn EXCEPT ![c] = [Idle EXCEPT !.job = job, !.stage = 1]]
    /\ UNCHANGED <<vars, owner>>

TxType(job) ==
    CASE job.kind = "recharge" -> "ADMIN_RECHARGE"
      [] job.kind = "deduct" -> "ADMIN_DEDUCT"
      [] job.kind = "approve" -> "OFFLINE_REMITTANCE"
      [] job.kind = "pay" -> PaymentType(job.ref)

Moves(job) == job.kind \in {"recharge", "deduct", "approve", "pay"}
Amount(c) ==
    LET job == txn[c].job
    IN  CASE job.kind = "pay" -> txn[c].due
          [] job.kind = "approve" -> requests[job.ref].amount
          [] OTHER -> job.amount
After(c, seen) == seen + Signed(TxType(txn[c].job), Amount(c))

\* The checks that follow the granting of a lock. A request that fails one, or finds
\* its bill paid already, ends without writing. The last two of a wallet are bounds:
\* what the decimal column holds, and MaxRows.
Proceeds(c) ==
    LET job == txn[c].job
        table == Stage(c)[1]
    IN  CASE table = "bill" ->
                /\ bills[job.ref].status \in {"PENDING_PAYMENT", "SETTLED"}
                /\ bills[job.ref].user = job.user
                /\ orders[job.ref] # Null \/ bills[job.ref].due > 0
          [] table = "wallet" /\ Moves(job) ->
                /\ job.kind = "approve" => Reviewable(job.ref)
                /\ job.kind = "pay" => orders[job.ref] = Null
                /\ Fits(After(c, balance[WalletOf(job)]))
                /\ Len(ledger[WalletOf(job)]) < MaxRows
          [] table = "wallet" /\ job.kind = "reject" -> Reviewable(job.ref)
          [] table = "payment_no" -> \A other \in Bills : orders[other] # job.key
          [] OTHER -> TRUE

\* Two mutants: a wallet, or a bill, read by a plain SELECT that waits for nobody.
Granted_WalletUnlocked(c) == Stage(c)[1] = "wallet" \/ owner[Stage(c)] \in {Null, c}
Granted_BillUnlocked(c) == Stage(c)[1] = "bill" \/ owner[Stage(c)] \in {Null, c}
Granted(c) == owner[Stage(c)] \in {Null, c}

\* Lock the next row, read what is committed now, and check it.
Acquire(c) ==
    /\ Locking(c)
    /\ Granted(c)
    /\ IF Proceeds(c)
       THEN /\ owner' = [owner EXCEPT ![Stage(c)] = c]
            /\ txn' = [txn EXCEPT
                ![c].stage = @ + 1,
                ![c].balance = IF Stage(c)[1] = "wallet" THEN balance[WalletOf(txn[c].job)] ELSE @,
                ![c].due = IF Stage(c)[1] = "bill" THEN bills[txn[c].job.ref].due ELSE @]
       ELSE End(c)
    /\ UNCHANGED vars

\* The writes of a job, computed from what it read.
Write(c) ==
    LET job == txn[c].job
        wt == WalletOf(job)
        after == After(c, txn[c].balance)
        Money(ref) ==
            /\ balance' = [balance EXCEPT ![wt] = after]
            /\ ledger' = [ledger EXCEPT ![wt] = Append(@,
                    [type |-> TxType(job), amount |-> Amount(c), after |-> after, ref |-> ref])]
        NewRequest(r, status) ==
            /\ requests[r].status = "NONE"
            /\ requests' = [requests EXCEPT ![r] = [status |-> status, wallet |-> wt,
                    amount |-> job.amount, proof |-> job.kind = "submit"]]
    IN  CASE job.kind = "recharge" ->
                /\ \E r \in Requests : NewRequest(r, "COMPLETED") /\ Money(r)
                /\ UNCHANGED <<bills, orders>>
          [] job.kind = "submit" ->
                /\ \E r \in Requests : NewRequest(r, "PENDING")
                /\ UNCHANGED <<balance, ledger, bills, orders>>
          [] job.kind = "deduct" -> Money(Null) /\ UNCHANGED <<bills, orders, requests>>
          [] job.kind = "approve" ->
                /\ Money(job.ref)
                /\ requests' = [requests EXCEPT ![job.ref].status = "COMPLETED"]
                /\ UNCHANGED <<bills, orders>>
          [] job.kind = "reject" ->
                /\ requests' = [requests EXCEPT ![job.ref].status = "CANCELLED"]
                /\ UNCHANGED <<balance, ledger, bills, orders>>
          [] job.kind = "pay" ->
                /\ Money(job.ref)
                /\ orders' = [orders EXCEPT ![job.ref] = job.key]
                /\ bills' = [bills EXCEPT ![job.ref].status = "SETTLED"]
                /\ UNCHANGED requests

\* The bound on Requests is used up: the transaction fails instead of inserting.
OutOfRequests(c) ==
    /\ txn[c].job.kind \in {"recharge", "submit"}
    /\ \A r \in Requests : requests[r].status # "NONE"

\* At COMMIT the inserted rows' foreign key to the user is checked.
Commit(c) ==
    /\ Committing(c)
    /\ owner[<<"user", txn[c].job.user>>] \in {Null, c}
    /\ IF OutOfRequests(c) THEN UNCHANGED vars ELSE Write(c)
    /\ End(c)

\* The connection or the worker is lost: the database rolls back.
Abort(c) == Running(c) /\ End(c) /\ UNCHANGED vars

-----------------------------------------------------------------------------
\* Who a client waits for, and the waiting circles the database looks for.
Blocker(c) ==
    IF Locking(c) /\ owner[Stage(c)] # c THEN owner[Stage(c)]
    ELSE IF Committing(c) /\ owner[<<"user", txn[c].job.user>>] # c
         THEN owner[<<"user", txn[c].job.user>>]
    ELSE Null

IsCircle(cs) == cs # {} /\ {Blocker(c) : c \in cs} = cs
Deadlocked_Unseen(c) == FALSE       \* mutant: locks kept where the database does not look
Deadlocked(c) == \E cs \in SUBSET Clients : c \in cs /\ IsCircle(cs)

ResolveDeadlock(c) == Deadlocked(c) /\ Abort(c)

\* Bills come and go in short transactions of other components.
Elsewhere ==
    /\ \E b \in Bills :
        /\ owner[<<"bill", b>>] = Null
        /\ (\E u \in Users, due \in Amounts \cup {0} : PresentBill(b, u, due)) \/ CancelBill(b)
    /\ UNCHANGED <<owner, txn>>

Serve(c) == (\E job \in Jobs : Start(c, job)) \/ Acquire(c) \/ Commit(c) \/ Abort(c)

RaceNext == (\E c \in Clients : Serve(c)) \/ Elsewhere

\* A lock is queued for, so a transaction that can go on again and again does so (SF),
\* and the database does look for deadlocks (WF).
Fairness ==
    /\ \A c \in Clients : SF_raceVars(Acquire(c)) /\ SF_raceVars(Commit(c))
    /\ WF_raceVars(\E c \in Clients : ResolveDeadlock(c))

RaceSpec == RaceInit /\ [][RaceNext]_raceVars /\ Fairness

-----------------------------------------------------------------------------
\* The interleaved transactions do what the atomic ones of Wallet do: no update is
\* lost, nothing is charged or credited twice, no balance is overdrawn.
ImplementsWallet == Spec

\* What a transaction computes from is still what is committed when it writes.
NothingStale ==
    \A c \in Clients : Committing(c) =>
        /\ txn[c].balance = balance[WalletOf(txn[c].job)]
        /\ txn[c].job.kind = "pay" =>
                /\ txn[c].due = bills[txn[c].job.ref].due
                /\ bills[txn[c].job.ref].status = "PENDING_PAYMENT"

\* Payments, recharges and deductions lock in one order and never wait in a circle;
\* a circle always has the review of a remittance in it.
OnlyReviewsDeadlock ==
    \A cs \in SUBSET Clients :
        IsCircle(cs) => \E c \in cs : txn[c].job.kind \in {"approve", "reject"}

\* Every request is answered, if only with a failure.
EveryRequestEnds == \A c \in Clients : Running(c) ~> ~ Running(c)
=============================================================================
