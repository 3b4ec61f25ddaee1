---------------------------- MODULE Wallet_proofs ----------------------------
(***************************************************************************)
(* Proofs about Wallet, for every set of members, currencies, bills,       *)
(* requests and keys, and for every amount.                                *)
(***************************************************************************)
EXTENDS Wallet, TLAPS

\* An inserted row names its member or its wallet.
RowsFilled ==
    /\ \A b \in Bills : bills[b].status # "NONE" => bills[b].user \in Users
    /\ \A r \in Requests : requests[r].status # "NONE" => requests[r].wallet \in Wallets

LedgerInv == TypeOK /\ RowsFilled /\ LedgerExplainsBalance

\* Empty wallets with no rows are explained.
LEMMA LedgerInit == Init => LedgerInv
<1> SUFFICES ASSUME Init PROVE LedgerInv
  OBVIOUS
<1>1. TypeOK
  BY AmountsAssumption DEF Init, TypeOK, BillRow, RequestRow
<1>2. RowsFilled
  BY DEF Init, RowsFilled
<1>3. LedgerExplainsBalance
  BY DEF Init, LedgerExplainsBalance
<1> QED
  BY <1>1, <1>2, <1>3 DEF LedgerInv

\* One movement keeps the tables well typed and the ledger explaining the balance.
LEMMA PostKeepsLedger ==
  ASSUME TypeOK, LedgerExplainsBalance,
         NEW wt \in Wallets, NEW type \in Credits \cup Payments \cup {"ADMIN_DEDUCT"},
         NEW amount \in Nat, NEW ref \in Bills \cup Requests \cup {Null},
         Post(wt, type, amount, ref)
  PROVE  /\ balance' \in [Wallets -> 0 .. MaxBalance]
         /\ ledger' \in [Wallets -> Seq(LedgerRow)]
         /\ LedgerExplainsBalance'
<1> DEFINE after == balance[wt] + Signed(type, amount)
           row == [type |-> type, amount |-> amount, after |-> after, ref |-> ref]
<1>1. /\ after \in 0 .. MaxBalance
      /\ balance' = [balance EXCEPT ![wt] = after]
      /\ ledger' = [ledger EXCEPT ![wt] = Append(@, row)]
  BY DEF Post, Fits
<1>2. row \in LedgerRow
  BY <1>1, AmountsAssumption DEF LedgerRow
<1> HIDE DEF after, row
<1>3. balance' \in [Wallets -> 0 .. MaxBalance]
  BY <1>1 DEF TypeOK
<1>4. ledger[wt] \in Seq(LedgerRow) /\ ledger' \in [Wallets -> Seq(LedgerRow)]
  BY <1>1, <1>2 DEF TypeOK
<1>5. LedgerExplainsBalance'
  <2> SUFFICES ASSUME NEW other \in Wallets
               PROVE  LET rows == ledger'[other]
                          Left(i) == IF i = 0 THEN 0 ELSE rows[i].after
                      IN  /\ \A i \in DOMAIN rows :
                               rows[i].after = Left(i - 1) + Signed(rows[i].type, rows[i].amount)
                          /\ balance'[other] = Left(Len(rows))
    BY DEF LedgerExplainsBalance
  <2>1. CASE other # wt
    <3>1. ledger'[other] = ledger[other] /\ balance'[other] = balance[other]
      BY <1>1, <2>1 DEF TypeOK
    <3> QED
      BY <3>1 DEF LedgerExplainsBalance
  <2>2. CASE other = wt
    <3> DEFINE old == ledger[wt]
               new == ledger'[wt]
               n == Len(old)
    <3>1. new = Append(old, row) /\ balance'[wt] = after
      BY <1>1 DEF TypeOK
    <3>2. /\ n \in Nat /\ Len(new) = n + 1 /\ DOMAIN new = 1 .. n + 1
          /\ new[n + 1] = row /\ \A i \in 1 .. n : new[i] = old[i]
          /\ DOMAIN old = 1 .. n
      BY <1>2, <1>4, <3>1
    <3>3. /\ \A i \in 1 .. n : old[i].after =
                (IF i - 1 = 0 THEN 0 ELSE old[i - 1].after) + Signed(old[i].type, old[i].amount)
          /\ balance[wt] = IF n = 0 THEN 0 ELSE old[n].after
      BY <3>2 DEF LedgerExplainsBalance
    <3>4. row.after = balance[wt] + Signed(row.type, row.amount) /\ row.after = after
      BY DEF row, after
    <3> HIDE DEF old, new, n
    <3>5. \A i \in 1 .. n + 1 : new[i].after =
                (IF i - 1 = 0 THEN 0 ELSE new[i - 1].after) + Signed(new[i].type, new[i].amount)
      <4> SUFFICES ASSUME NEW i \in 1 .. n + 1
                   PROVE  new[i].after = (IF i - 1 = 0 THEN 0 ELSE new[i - 1].after)
                                            + Signed(new[i].type, new[i].amount)
        OBVIOUS
      <4>1. CASE i \in 1 .. n
        <5>1. new[i] = old[i] /\ (i - 1 # 0 => new[i - 1] = old[i - 1])
          BY <3>2, <4>1
        <5> QED
          BY <3>3, <4>1, <5>1
      <4>2. CASE i = n + 1
        <5>1. new[i] = row /\ (n # 0 => new[n] = old[n]) /\ i - 1 = n
          BY <3>2, <4>2
        <5> QED
          BY <3>3, <3>4, <5>1
      <4> QED
        BY <3>2, <4>1, <4>2
    <3>6. balance'[wt] = IF Len(new) = 0 THEN 0 ELSE new[Len(new)].after
      BY <3>1, <3>2, <3>4
    <3> QED
      BY <2>2, <3>2, <3>5, <3>6 DEF new
  <2> QED
    BY <2>1, <2>2
<1> QED
  BY <1>3, <1>4, <1>5

\* Every operation keeps the ledger explaining the balance.
LEMMA LedgerStep == LedgerInv /\ [Next]_vars => LedgerInv'
<1> SUFFICES ASSUME LedgerInv, [Next]_vars PROVE LedgerInv'
  OBVIOUS
<1> USE DEF LedgerInv
<1>0. ASSUME UNCHANGED <<balance, ledger>> PROVE LedgerExplainsBalance'
  BY <1>0 DEF LedgerExplainsBalance
<1>1. ASSUME NEW r \in Requests, NEW wt \in Wallets, NEW amount \in Amounts,
             AdminRecharge(r, wt, amount)
      PROVE  LedgerInv'
  <2>1. amount \in Nat
    BY AmountsAssumption
  <2>2. Post(wt, "ADMIN_RECHARGE", amount, r)
    BY <1>1 DEF AdminRecharge
  <2>3. /\ balance' \in [Wallets -> 0 .. MaxBalance] /\ ledger' \in [Wallets -> Seq(LedgerRow)]
        /\ LedgerExplainsBalance'
    BY <2>1, <2>2, PostKeepsLedger DEF Credits
  <2>4. requests' \in [Requests -> RequestRow]
    BY <1>1, <2>1 DEF AdminRecharge, TypeOK, RequestRow
  <2> QED
    BY <1>1, <2>3, <2>4 DEF AdminRecharge, TypeOK, RowsFilled
<1>2. ASSUME NEW r \in Requests, NEW wt \in Wallets, NEW amount \in Amounts,
             SubmitRemittance(r, wt, amount)
      PROVE  LedgerInv'
  <2>1. requests' \in [Requests -> RequestRow]
    BY <1>2, AmountsAssumption DEF SubmitRemittance, TypeOK, RequestRow
  <2> QED
    BY <1>0, <1>2, <2>1 DEF SubmitRemittance, TypeOK, RowsFilled
<1>3. ASSUME NEW r \in Requests, ApproveRemittance(r) PROVE LedgerInv'
  <2>1. requests[r].amount \in Nat /\ requests[r].wallet \in Wallets
    BY <1>3 DEF ApproveRemittance, Reviewable, TypeOK, RequestRow, RowsFilled
  <2>2. Post(requests[r].wallet, "OFFLINE_REMITTANCE", requests[r].amount, r)
    BY <1>3 DEF ApproveRemittance
  <2>3. /\ balance' \in [Wallets -> 0 .. MaxBalance] /\ ledger' \in [Wallets -> Seq(LedgerRow)]
        /\ LedgerExplainsBalance'
    BY <2>1, <2>2, PostKeepsLedger DEF Credits
  <2>4. requests' \in [Requests -> RequestRow]
    BY <1>3 DEF ApproveRemittance, TypeOK, RequestRow
  <2>5. RowsFilled'
    BY <1>3, <2>1 DEF ApproveRemittance, TypeOK, RequestRow, RowsFilled
  <2> QED
    BY <1>3, <2>3, <2>4, <2>5 DEF ApproveRemittance, TypeOK
<1>4. ASSUME NEW r \in Requests, CancelRemittance(r) PROVE LedgerInv'
  <2>1. requests' \in [Requests -> RequestRow]
    BY <1>4 DEF CancelRemittance, TypeOK, RequestRow
  <2>2. RowsFilled'
    BY <1>4 DEF CancelRemittance, Reviewable, TypeOK, RequestRow, RowsFilled
  <2> QED
    BY <1>0, <1>4, <2>1, <2>2 DEF CancelRemittance, TypeOK
<1>5. ASSUME NEW wt \in Wallets, NEW amount \in Amounts, AdminDeduct(wt, amount) PROVE LedgerInv'
  <2>1. amount \in Nat /\ Post(wt, "ADMIN_DEDUCT", amount, Null)
    BY <1>5, AmountsAssumption DEF AdminDeduct
  <2>2. /\ balance' \in [Wallets -> 0 .. MaxBalance] /\ ledger' \in [Wallets -> Seq(LedgerRow)]
        /\ LedgerExplainsBalance'
    BY <2>1, PostKeepsLedger
  <2> QED
    BY <1>5, <2>2 DEF AdminDeduct, TypeOK, RowsFilled
<1>6. ASSUME NEW b \in Bills, NEW u \in Users, NEW due \in Amounts \cup {0}, PresentBill(b, u, due)
      PROVE  LedgerInv'
  <2>1. bills' \in [Bills -> BillRow]
    BY <1>6, AmountsAssumption DEF PresentBill, TypeOK, BillRow
  <2> QED
    BY <1>0, <1>6, <2>1 DEF PresentBill, TypeOK, RowsFilled
<1>7. ASSUME NEW b \in Bills, CancelBill(b) PROVE LedgerInv'
  <2>1. bills' \in [Bills -> BillRow]
    BY <1>7 DEF CancelBill, TypeOK, BillRow
  <2>2. RowsFilled'
    BY <1>7 DEF CancelBill, MayCancel, TypeOK, BillRow, RowsFilled
  <2> QED
    BY <1>0, <1>7, <2>1, <2>2 DEF CancelBill, TypeOK
<1>8. ASSUME NEW b \in Bills, NEW key \in Keys, Pay(b, key) PROVE LedgerInv'
  <2>1. bills[b].user \in Users /\ bills[b].due \in Nat
    BY <1>8 DEF Pay, Payable, TypeOK, BillRow, RowsFilled
  <2>2. <<bills[b].user, Home>> \in Wallets
    BY <2>1, HomeAssumption DEF Wallets
  <2>3. Post(<<bills[b].user, Home>>, PaymentType(b), bills[b].due, b)
    BY <1>8 DEF Pay
  <2>4. PaymentType(b) \in Credits \cup Payments \cup {"ADMIN_DEDUCT"}
    BY DEF PaymentType, Payments
  <2>5. /\ balance' \in [Wallets -> 0 .. MaxBalance] /\ ledger' \in [Wallets -> Seq(LedgerRow)]
        /\ LedgerExplainsBalance'
    BY <2>1, <2>2, <2>3, <2>4, PostKeepsLedger
  <2>6. bills' \in [Bills -> BillRow] /\ orders' \in [Bills -> Keys \cup {Null}]
    BY <1>8 DEF Pay, TypeOK, BillRow
  <2>7. RowsFilled'
    BY <1>8, <2>1 DEF Pay, TypeOK, BillRow, RowsFilled
  <2> QED
    BY <1>8, <2>5, <2>6, <2>7 DEF Pay, TypeOK
<1>9. CASE UNCHANGED vars
  BY <1>0, <1>9 DEF vars, TypeOK, RowsFilled
<1> QED
  BY <1>1, <1>2, <1>3, <1>4, <1>5, <1>6, <1>7, <1>8, <1>9 DEF Next

\* The ledger explains the balance of every reachable state.
THEOREM LedgerInvariant == Spec => []LedgerInv
  BY LedgerInit, LedgerStep, PTL DEF Spec

\* Balances stay between 0 and what the column holds, and the transactions of every
\* wallet account for its balance.
THEOREM LedgerCorrect == Spec => [](TypeOK /\ LedgerExplainsBalance)
  BY LedgerInvariant, PTL DEF LedgerInv

\* Every row has a legal status, legal references and an amount its column holds.
COROLLARY AlwaysTypeOK == Spec => []TypeOK
  BY LedgerCorrect, PTL

\* Every operation keeps bills and orders in step.
LEMMA PaidMeansSettledStep == TypeOK /\ PaidMeansSettled /\ [Next]_vars => PaidMeansSettled'
<1> USE DEF PaidMeansSettled
<1> SUFFICES ASSUME TypeOK, PaidMeansSettled, [Next]_vars PROVE PaidMeansSettled'
  OBVIOUS
<1>1. ASSUME UNCHANGED <<bills, orders>> PROVE PaidMeansSettled'
  BY <1>1
<1>2. ASSUME NEW b \in Bills, NEW u \in Users, NEW due \in Amounts \cup {0}, PresentBill(b, u, due)
      PROVE  PaidMeansSettled'
  BY <1>2 DEF PresentBill, TypeOK, BillRow
<1>3. ASSUME NEW b \in Bills, CancelBill(b) PROVE PaidMeansSettled'
  BY <1>3 DEF CancelBill, MayCancel, TypeOK, BillRow, Bills
<1>4. ASSUME NEW b \in Bills, NEW key \in Keys, Pay(b, key) PROVE PaidMeansSettled'
  BY <1>4, NullAssumption DEF Pay, TypeOK, BillRow
<1> QED
  BY <1>1, <1>2, <1>3, <1>4
     DEF Next, AdminRecharge, SubmitRemittance, ApproveRemittance, CancelRemittance, AdminDeduct, vars

\* A bill moves on exactly when it is paid, save a purchase called off afterwards.
THEOREM AlwaysPaidMeansSettled == Spec => []PaidMeansSettled
<1>1. Init => PaidMeansSettled
  BY DEF Init, PaidMeansSettled
<1> QED
  BY <1>1, PaidMeansSettledStep, LedgerCorrect, PTL DEF Spec
-----------------------------------------------------------------------------
(* Which rows mention what. A row is only ever added at the end of its     *)
(* wallet, for one bill or one request, so that the rows of all others     *)
(* stay where and what they are.                                           *)

\* One movement adds one row, about ref.
LEMMA PostAddsRow ==
  ASSUME TypeOK, NEW wt \in Wallets, NEW type \in Credits \cup Payments \cup {"ADMIN_DEDUCT"},
         NEW amount \in Nat, NEW ref \in Bills \cup Requests \cup {Null},
         Post(wt, type, amount, ref)
  PROVE  /\ \A other : other # ref => RowsOf(other)' = RowsOf(other)
         /\ \A other : \A row \in RowsOf(other) :
                ledger'[row[1]][row[2]] = ledger[row[1]][row[2]]
         /\ RowsOf(ref) = {} => \E i \in 1 .. MaxRows :
                /\ RowsOf(ref)' = {<<wt, i>>}
                /\ ledger'[wt][i].amount = amount
                /\ ledger'[wt][i].type = type
<1> DEFINE new == [type |-> type, amount |-> amount, after |-> balance[wt] + Signed(type, amount), ref |-> ref]
           n == Len(ledger[wt])
<1>1. n < MaxRows /\ ledger' = [ledger EXCEPT ![wt] = Append(@, new)]
  BY DEF Post
<1>2. new.ref = ref /\ new.amount = amount /\ new.type = type
  OBVIOUS
<1>3. ledger[wt] \in Seq(LedgerRow) /\ n \in Nat
  BY DEF TypeOK
<1>4. new \in LedgerRow
  BY AmountsAssumption DEF Post, Fits, LedgerRow
<1> HIDE DEF new
<1>5. /\ Len(ledger'[wt]) = n + 1 /\ ledger'[wt][n + 1] = new
      /\ \A j \in 1 .. n : ledger'[wt][j] = ledger[wt][j]
      /\ \A v \in Wallets \ {wt} : ledger'[v] = ledger[v]
  <2>1. ledger'[wt] = Append(ledger[wt], new) /\ \A v \in Wallets \ {wt} : ledger'[v] = ledger[v]
    BY <1>1 DEF TypeOK
  <2> QED
    BY <1>3, <1>4, <2>1
<1>6. n + 1 \in 1 .. MaxRows
  BY <1>1, <1>3, AmountsAssumption
<1> DEFINE Added(other) == IF other = ref THEN {<<wt, n + 1>>} ELSE {}
<1>7. ASSUME NEW other, NEW v \in Wallets, NEW j \in 1 .. MaxRows
      PROVE  (j <= Len(ledger'[v]) /\ ledger'[v][j].ref = other)
                <=> \/ j <= Len(ledger[v]) /\ ledger[v][j].ref = other
                    \/ other = ref /\ v = wt /\ j = n + 1
  <2>1. CASE v # wt
    BY <1>5, <2>1
  <2>2. CASE v = wt /\ j = n + 1
    BY <1>2, <1>3, <1>5, <2>2
  <2>3. CASE v = wt /\ j # n + 1
    <3>1. j <= Len(ledger'[v]) <=> j \in 1 .. n
      BY <1>3, <1>5, <2>3, AmountsAssumption
    <3>2. j <= Len(ledger[v]) <=> j \in 1 .. n
      BY <1>3, <2>3, AmountsAssumption
    <3> HIDE DEF n
    <3> QED
      BY <1>5, <2>3, <3>1, <3>2
  <2> QED
    BY <2>1, <2>2, <2>3
<1>8. ASSUME NEW other PROVE RowsOf(other)' = RowsOf(other) \cup Added(other)
  <2> HIDE DEF n
  <2>1. ASSUME NEW row \in RowsOf(other)' PROVE row \in RowsOf(other) \cup Added(other)
    <3>1. PICK v \in Wallets, j \in 1 .. MaxRows :
            row = <<v, j>> /\ j <= Len(ledger'[v]) /\ ledger'[v][j].ref = other
      BY <2>1 DEF RowsOf
    <3>2. \/ j <= Len(ledger[v]) /\ ledger[v][j].ref = other
          \/ other = ref /\ v = wt /\ j = n + 1
      BY <1>7, <3>1
    <3>3. j <= Len(ledger[v]) /\ ledger[v][j].ref = other => row \in RowsOf(other)
      BY <3>1 DEF RowsOf
    <3> QED
      BY <3>1, <3>2, <3>3
  <2>2. ASSUME NEW row \in RowsOf(other) PROVE row \in RowsOf(other)'
    <3>1. /\ row \in Wallets \X (1 .. MaxRows) /\ row[1] \in Wallets /\ row[2] \in 1 .. MaxRows
          /\ row[2] <= Len(ledger[row[1]]) /\ ledger[row[1]][row[2]].ref = other
      BY <2>2 DEF RowsOf
    <3>2. row[2] <= Len(ledger'[row[1]]) /\ ledger'[row[1]][row[2]].ref = other
      BY <1>7, <3>1
    <3> QED
      BY <3>1, <3>2 DEF RowsOf
  <2>3. ASSUME other = ref PROVE <<wt, n + 1>> \in RowsOf(other)'
    <3>1. n + 1 <= Len(ledger'[wt]) /\ ledger'[wt][n + 1].ref = other
      BY <1>6, <1>7, <2>3
    <3> QED
      BY <1>6, <3>1 DEF RowsOf
  <2> QED
    BY <2>1, <2>2, <2>3
<1>9. ASSUME NEW other, NEW row \in RowsOf(other)
      PROVE  ledger'[row[1]][row[2]] = ledger[row[1]][row[2]]
  <2>1. row[1] \in Wallets /\ row[2] \in 1 .. MaxRows /\ row[2] <= Len(ledger[row[1]])
    BY <1>9 DEF RowsOf
  <2>2. CASE row[1] = wt
    <3>1. row[2] \in 1 .. n
      BY <1>3, <2>1, <2>2, AmountsAssumption
    <3> QED
      BY <1>5, <2>2, <3>1
  <2>3. CASE row[1] # wt
    BY <1>5, <2>1, <2>3
  <2> QED
    BY <2>2, <2>3
<1>10. ASSUME RowsOf(ref) = {}
       PROVE  \E i \in 1 .. MaxRows : /\ RowsOf(ref)' = {<<wt, i>>}
                                      /\ ledger'[wt][i].amount = amount
                                      /\ ledger'[wt][i].type = type
  <2>1. RowsOf(ref)' = {<<wt, n + 1>>}
    BY <1>8, <1>10
  <2> QED
    BY <1>2, <1>5, <1>6, <2>1
<1> QED
  BY <1>8, <1>9, <1>10

\* Together inductive: an order and its row are written in one step, for a bill that has
\* no row yet, and so are the completion of a request and its row.
MoneyInv == ChargedOnce /\ CreditedOnce

\* What ChargedOnce says of one bill, and CreditedOnce of one request.
ChargedAs(b) ==
    IF orders[b] = Null THEN RowsOf(b) = {}
    ELSE \E i \in 1 .. MaxRows :
            LET wt == <<bills[b].user, Home>>
            IN  /\ RowsOf(b) = {<<wt, i>>}
                /\ ledger[wt][i].amount = bills[b].due
                /\ ledger[wt][i].type = PaymentType(b)
CreditedAs(r) ==
    IF requests[r].status # "COMPLETED" THEN RowsOf(r) = {}
    ELSE \E i \in 1 .. MaxRows :
            /\ RowsOf(r) = {<<requests[r].wallet, i>>}
            /\ ledger[requests[r].wallet][i].amount = requests[r].amount
            /\ ledger[requests[r].wallet][i].type \in Credits

\* Rows of ref stay, and so does what they say.
RowsStay(ref) ==
    /\ RowsOf(ref)' = RowsOf(ref)
    /\ \A row \in RowsOf(ref) : ledger'[row[1]][row[2]] = ledger[row[1]][row[2]]

\* A bill whose own columns and rows stay is charged as it was.
LEMMA ChargeStays ==
  ASSUME NEW b \in Bills, ChargedAs(b), RowsStay(b), orders'[b] = orders[b],
         orders[b] # Null => bills'[b].user = bills[b].user /\ bills'[b].due = bills[b].due
  PROVE  ChargedAs(b)'
<1>1. CASE orders[b] = Null
  BY <1>1 DEF ChargedAs, RowsStay
<1>2. CASE orders[b] # Null
  <2> DEFINE wt == <<bills[b].user, Home>>
  <2>1. PICK i \in 1 .. MaxRows : /\ RowsOf(b) = {<<wt, i>>}
                                  /\ ledger[wt][i].amount = bills[b].due
                                  /\ ledger[wt][i].type = PaymentType(b)
    BY <1>2 DEF ChargedAs
  <2>2. <<bills'[b].user, Home>> = wt /\ bills'[b].due = bills[b].due
    BY <1>2
  <2> HIDE DEF wt
  <2>3. RowsOf(b)' = {<<wt, i>>} /\ ledger'[wt][i] = ledger[wt][i]
    <3>1. <<wt, i>> \in RowsOf(b) /\ <<wt, i>>[1] = wt /\ <<wt, i>>[2] = i
      BY <2>1
    <3> QED
      BY <2>1, <3>1 DEF RowsStay
  <2> QED
    BY <1>2, <2>1, <2>2, <2>3 DEF ChargedAs, PaymentType
<1> QED
  BY <1>1, <1>2

\* A request whose own columns and rows stay is credited as it was.
LEMMA CreditStays ==
  ASSUME NEW r \in Requests, CreditedAs(r), RowsStay(r),
         \/ requests'[r] = requests[r]
         \/ requests[r].status # "COMPLETED" /\ requests'[r].status # "COMPLETED"
  PROVE  CreditedAs(r)'
<1>1. CASE requests[r].status # "COMPLETED" /\ requests'[r].status # "COMPLETED"
  BY <1>1 DEF CreditedAs, RowsStay
<1>2. CASE requests'[r] = requests[r] /\ requests[r].status = "COMPLETED"
  <2> DEFINE wt == requests[r].wallet
  <2>1. PICK i \in 1 .. MaxRows : /\ RowsOf(r) = {<<wt, i>>}
                                  /\ ledger[wt][i].amount = requests[r].amount
                                  /\ ledger[wt][i].type \in Credits
    BY <1>2 DEF CreditedAs
  <2>2. requests'[r].wallet = wt
    BY <1>2
  <2> HIDE DEF wt
  <2>3. RowsOf(r)' = {<<wt, i>>} /\ ledger'[wt][i] = ledger[wt][i]
    <3>1. <<wt, i>> \in RowsOf(r) /\ <<wt, i>>[1] = wt /\ <<wt, i>>[2] = i
      BY <2>1
    <3> QED
      BY <2>1, <3>1 DEF RowsStay
  <2> QED
    BY <1>2, <2>1, <2>2, <2>3 DEF CreditedAs
<1> QED
  BY <1>1, <1>2 DEF CreditedAs, RowsStay

\* Every operation charges and credits once.
LEMMA MoneyStep == LedgerInv /\ PaidMeansSettled /\ MoneyInv /\ [Next]_vars => MoneyInv'
<1> SUFFICES ASSUME LedgerInv, PaidMeansSettled, MoneyInv, [Next]_vars PROVE MoneyInv'
  OBVIOUS
<1>0. TypeOK /\ RowsFilled
  BY DEF LedgerInv
<1>a. (\A b \in Bills : ChargedAs(b)) /\ (\A r \in Requests : CreditedAs(r))
  BY DEF MoneyInv, ChargedOnce, CreditedOnce, ChargedAs, CreditedAs
<1>b. SUFFICES (\A b \in Bills : ChargedAs(b)') /\ (\A r \in Requests : CreditedAs(r)')
  BY DEF MoneyInv, ChargedOnce, CreditedOnce, ChargedAs, CreditedAs
<1>c. ASSUME ledger' = ledger, NEW ref PROVE RowsStay(ref)
  BY <1>c DEF RowsStay, RowsOf
<1>d. Null \notin Bills /\ Null \notin Requests /\ Null \notin Keys /\ Bills \cap Requests = {}
  BY NullAssumption, BillsAssumption
<1>1. ASSUME NEW r \in Requests, NEW wt \in Wallets, NEW amount \in Amounts,
             AdminRecharge(r, wt, amount)
      PROVE  (\A b \in Bills : ChargedAs(b)') /\ (\A q \in Requests : CreditedAs(q)')
  <2>1. /\ amount \in Nat /\ Post(wt, "ADMIN_RECHARGE", amount, r) /\ bills' = bills /\ orders' = orders
        /\ requests[r].status = "NONE"
    BY <1>1, AmountsAssumption DEF AdminRecharge
  <2>2. /\ requests'[r].status = "COMPLETED" /\ requests'[r].wallet = wt /\ requests'[r].amount = amount
        /\ \A q \in Requests \ {r} : requests'[q] = requests[q]
    BY <1>0, <1>1 DEF AdminRecharge, TypeOK
  <2>3. /\ \A other : other # r => RowsStay(other)
        /\ RowsOf(r) = {} => \E i \in 1 .. MaxRows :
                /\ RowsOf(r)' = {<<wt, i>>}
                /\ ledger'[wt][i].amount = amount
                /\ ledger'[wt][i].type = "ADMIN_RECHARGE"
    BY <1>0, <2>1, PostAddsRow DEF Credits, RowsStay
  <2>4. RowsOf(r) = {}
    BY <1>a, <2>1 DEF CreditedAs
  <2>5. CreditedAs(r)'
    BY <2>2, <2>3, <2>4 DEF CreditedAs, Credits
  <2>6. \A q \in Requests \ {r} : CreditedAs(q)'
    BY <1>a, <2>2, <2>3, CreditStays
  <2>7. \A b \in Bills : ChargedAs(b)'
    BY <1>a, <1>d, <2>1, <2>3, ChargeStays
  <2> QED
    BY <2>5, <2>6, <2>7
<1>2. ASSUME NEW r \in Requests, ApproveRemittance(r)
      PROVE  (\A b \in Bills : ChargedAs(b)') /\ (\A q \in Requests : CreditedAs(q)')
  <2> DEFINE wt == requests[r].wallet
             amount == requests[r].amount
  <2>1. /\ requests[r].status = "PENDING" /\ Post(wt, "OFFLINE_REMITTANCE", amount, r)
        /\ bills' = bills /\ orders' = orders
    BY <1>2 DEF ApproveRemittance, Reviewable
  <2>2. wt \in Wallets /\ amount \in Nat
    BY <1>0, <2>1 DEF TypeOK, RequestRow, RowsFilled
  <2>3. /\ requests'[r].status = "COMPLETED" /\ requests'[r].wallet = wt /\ requests'[r].amount = amount
        /\ \A q \in Requests \ {r} : requests'[q] = requests[q]
    BY <1>0, <1>2 DEF ApproveRemittance, TypeOK, RequestRow
  <2> HIDE DEF wt, amount
  <2>4. /\ \A other : other # r => RowsStay(other)
        /\ RowsOf(r) = {} => \E i \in 1 .. MaxRows :
                /\ RowsOf(r)' = {<<wt, i>>}
                /\ ledger'[wt][i].amount = amount
                /\ ledger'[wt][i].type = "OFFLINE_REMITTANCE"
    BY <1>0, <2>1, <2>2, PostAddsRow DEF Credits, RowsStay
  <2>5. RowsOf(r) = {}
    BY <1>a, <2>1 DEF CreditedAs
  <2>6. CreditedAs(r)'
    BY <2>3, <2>4, <2>5 DEF CreditedAs, Credits
  <2>7. \A q \in Requests \ {r} : CreditedAs(q)'
    BY <1>a, <2>3, <2>4, CreditStays
  <2>8. \A b \in Bills : ChargedAs(b)'
    BY <1>a, <1>d, <2>1, <2>4, ChargeStays
  <2> QED
    BY <2>6, <2>7, <2>8
<1>3. ASSUME NEW r \in Requests,
             \/ CancelRemittance(r)
             \/ \E wt \in Wallets, amount \in Amounts : SubmitRemittance(r, wt, amount)
      PROVE  (\A b \in Bills : ChargedAs(b)') /\ (\A q \in Requests : CreditedAs(q)')
  <2>1. /\ ledger' = ledger /\ bills' = bills /\ orders' = orders
        /\ requests[r].status # "COMPLETED" /\ requests'[r].status # "COMPLETED"
        /\ \A q \in Requests \ {r} : requests'[q] = requests[q]
    BY <1>0, <1>3 DEF CancelRemittance, SubmitRemittance, Reviewable, TypeOK, RequestRow
  <2>2. \A ref : RowsStay(ref)
    BY <1>c, <2>1
  <2>3. \A q \in Requests : CreditedAs(q)'
    BY <1>a, <2>1, <2>2, CreditStays
  <2>4. \A b \in Bills : ChargedAs(b)'
    BY <1>a, <2>1, <2>2, ChargeStays
  <2> QED
    BY <2>3, <2>4
<1>4. ASSUME NEW wt \in Wallets, NEW amount \in Amounts, AdminDeduct(wt, amount)
      PROVE  (\A b \in Bills : ChargedAs(b)') /\ (\A q \in Requests : CreditedAs(q)')
  <2>1. /\ amount \in Nat /\ Post(wt, "ADMIN_DEDUCT", amount, Null)
        /\ bills' = bills /\ orders' = orders /\ requests' = requests
    BY <1>4, AmountsAssumption DEF AdminDeduct
  <2>2. \A other : other # Null => RowsStay(other)
    BY <1>0, <2>1, PostAddsRow DEF RowsStay
  <2>3. \A q \in Requests : CreditedAs(q)'
    BY <1>a, <1>d, <2>1, <2>2, CreditStays
  <2>4. \A b \in Bills : ChargedAs(b)'
    BY <1>a, <1>d, <2>1, <2>2, ChargeStays
  <2> QED
    BY <2>3, <2>4
<1>5. ASSUME NEW b \in Bills,
             \/ \E u \in Users, due \in Amounts \cup {0} : PresentBill(b, u, due)
             \/ CancelBill(b)
      PROVE  (\A c \in Bills : ChargedAs(c)') /\ (\A q \in Requests : CreditedAs(q)')
  <2>1. /\ ledger' = ledger /\ orders' = orders /\ requests' = requests
        /\ \A c \in Bills \ {b} : bills'[c] = bills[c]
    BY <1>0, <1>5 DEF PresentBill, CancelBill, TypeOK
  <2>2. orders[b] # Null => bills'[b].user = bills[b].user /\ bills'[b].due = bills[b].due
    <3>1. CASE CancelBill(b)
      BY <1>0, <3>1 DEF CancelBill, TypeOK, BillRow
    <3>2. CASE \E u \in Users, due \in Amounts \cup {0} : PresentBill(b, u, due)
      BY <3>2 DEF PresentBill, PaidMeansSettled
    <3> QED
      BY <1>5, <3>1, <3>2
  <2>3. \A ref : RowsStay(ref)
    BY <1>c, <2>1
  <2>4. \A q \in Requests : CreditedAs(q)'
    BY <1>a, <2>1, <2>3, CreditStays
  <2>5. \A c \in Bills : ChargedAs(c)'
    BY <1>a, <2>1, <2>2, <2>3, ChargeStays
  <2> QED
    BY <2>4, <2>5
<1>6. ASSUME NEW b \in Bills, NEW key \in Keys, Pay(b, key)
      PROVE  (\A c \in Bills : ChargedAs(c)') /\ (\A q \in Requests : CreditedAs(q)')
  <2> DEFINE wt == <<bills[b].user, Home>>
             due == bills[b].due
             type == PaymentType(b)
  <2>1. /\ orders[b] = Null /\ requests' = requests /\ bills[b].status = "PENDING_PAYMENT"
        /\ Post(wt, type, due, b)
    BY <1>6 DEF Pay, Payable
  <2>2. wt \in Wallets /\ due \in Nat
    BY <1>0, <2>1, HomeAssumption DEF TypeOK, BillRow, RowsFilled, Wallets
  <2>3. type \in Credits \cup Payments \cup {"ADMIN_DEDUCT"}
    BY DEF PaymentType, Payments
  <2>4. /\ orders'[b] = key /\ \A c \in Bills \ {b} : orders'[c] = orders[c] /\ bills'[c] = bills[c]
        /\ bills'[b].user = bills[b].user /\ bills'[b].due = due
    BY <1>0, <1>6 DEF Pay, TypeOK, BillRow
  <2>5. <<bills'[b].user, Home>> = wt
    BY <2>4
  <2> HIDE DEF wt, due, type
  <2>6. /\ \A other : other # b => RowsStay(other)
        /\ RowsOf(b) = {} => \E i \in 1 .. MaxRows :
                /\ RowsOf(b)' = {<<wt, i>>}
                /\ ledger'[wt][i].amount = due
                /\ ledger'[wt][i].type = type
    BY <1>0, <2>1, <2>2, <2>3, PostAddsRow DEF RowsStay
  <2>7. RowsOf(b) = {}
    BY <1>a, <2>1 DEF ChargedAs
  <2>8. ChargedAs(b)'
    <3>1. type = PaymentType(b) /\ orders'[b] # Null
      BY <1>d, <2>4 DEF type
    <3> QED
      BY <2>4, <2>5, <2>6, <2>7, <3>1 DEF ChargedAs, PaymentType
  <2>9. \A c \in Bills \ {b} : ChargedAs(c)'
    BY <1>a, <2>4, <2>6, ChargeStays
  <2>10. \A q \in Requests : CreditedAs(q)'
    BY <1>a, <1>d, <2>1, <2>6, CreditStays
  <2> QED
    BY <2>8, <2>9, <2>10
<1>7. CASE UNCHANGED vars
  <2>1. \A ref : RowsStay(ref)
    BY <1>c, <1>7 DEF vars
  <2> QED
    BY <1>7, <1>a, <2>1, ChargeStays, CreditStays DEF vars
<1> QED
  BY <1>1, <1>2, <1>3, <1>4, <1>5, <1>6, <1>7 DEF Next

\* Every bill and every request is in step with the rows that are about it.
THEOREM MoneyCorrect == Spec => []MoneyInv
<1>1. Init => MoneyInv
  BY DEF Init, MoneyInv, ChargedOnce, CreditedOnce, RowsOf
<1> QED
  BY <1>1, LedgerInvariant, AlwaysPaidMeansSettled, MoneyStep, PTL DEF Spec

\* A payment order exists exactly when its bill was charged, once, in full, to its member.
THEOREM AlwaysChargedOnce == Spec => []ChargedOnce
  BY MoneyCorrect, PTL DEF MoneyInv

\* A recharge request is completed exactly when its amount was credited, once, to its wallet.
THEOREM AlwaysCreditedOnce == Spec => []CreditedOnce
  BY MoneyCorrect, PTL DEF MoneyInv
=============================================================================
