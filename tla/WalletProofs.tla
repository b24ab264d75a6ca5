---------------------------- MODULE WalletProofs ----------------------------
(***************************************************************************)
(* What the wallet guarantees under any callers, for every set of orders,  *)
(* payees and requests.                                                    *)
(***************************************************************************)
EXTENDS Wallet, TLAPS

-----------------------------------------------------------------------------
(* Types.                                                                  *)

\* The share of a whole amount is a whole number, and a part of the amount unless
\* the percentage is above 100.
LEMMA ShareBounds ==
  ASSUME NEW a \in Nat, NEW q \in Int
  PROVE  Share(a, q) \in Int /\ (q <= 100 => Share(a, q) <= a)
<1>1. CASE q < 0
  <2>1. a * (-q) \in Nat
    BY <1>1
  <2> DEFINE n == a * (-q)
  <2>2. n \in Nat
    BY <2>1
  <2> HIDE DEF n
  <2>3. n \div 100 \in Nat
    BY <2>2
  <2> QED BY <1>1, <2>3 DEF Share, n
<1>2. CASE q >= 0
  <2>1. a * q \in Nat /\ (q <= 100 => a * q <= a * 100)
    BY <1>2
  <2> DEFINE n == a * q
  <2>2. n \in Nat /\ (q <= 100 => n <= a * 100)
    BY <2>1
  <2> HIDE DEF n
  <2>3. n \div 100 \in Int /\ (q <= 100 => n \div 100 <= a)
    BY <2>2
  <2> QED BY <1>2, <2>3 DEF Share, n
<1> QED BY <1>1, <1>2

\* A request that names a pair names one that exists: what every caller sends,
\* and no step of the wallet changes.
Shaped(k) == k.op \in {"create", "release"} => <<k.order, k.payee>> \in Pairs
CallShape == \A c \in Calls : Shaped(call[c])
CallsOK == call \in [Calls -> CallRec] /\ CallShape

\* Replacing one request by a well-formed one.
LEMMA CallUpdate ==
  ASSUME CallsOK, NEW c \in Calls, NEW k \in CallRec, Shaped(k),
         call' = [call EXCEPT ![c] = k]
  PROVE  CallsOK'
BY DEF CallsOK, CallShape, Shaped

\* A free request slot is well formed.
LEMMA IdleCallOK == IdleCall \in CallRec /\ Shaped(IdleCall)
BY DEF IdleCall, CallRec, Shaped

\* A response leaves the requests well formed.
LEMMA ReplyOK ==
  ASSUME CallsOK, NEW c \in Calls,
         NEW res \in {"ok", "declined", "notFound", "invalid", "error"},
         Reply(c, res)
  PROVE  CallsOK'
<1>1. call[c] \in CallRec /\ Shaped(call[c])
  BY DEF CallsOK, CallShape
<1> DEFINE k == [call[c] EXCEPT !.pc = "replied", !.result = res]
<1>2. k \in CallRec /\ Shaped(k)
  BY <1>1 DEF CallRec, Shaped
<1>3. call' = [call EXCEPT ![c] = k] \/ call' = [call EXCEPT ![c] = IdleCall]
  BY DEF Reply
<1> QED BY <1>2, <1>3, IdleCallOK, CallUpdate

\* So does moving on to the next statement.
LEMMA GotoOK ==
  ASSUME CallsOK, NEW c \in Calls,
         NEW next \in {"charge", "commission", "insert"}, Goto(c, next)
  PROVE  CallsOK'
<1>1. call[c] \in CallRec /\ Shaped(call[c])
  BY DEF CallsOK, CallShape
<1> DEFINE k == [call[c] EXCEPT !.pc = next]
<1>2. k \in CallRec /\ Shaped(k)
  BY <1>1 DEF CallRec, Shaped
<1>3. call' = [call EXCEPT ![c] = k]
  BY DEF Goto
<1> QED BY <1>2, <1>3, CallUpdate

\* A new request is well formed when it names existing ids.
LEMMA ArriveOK ==
  ASSUME CallsOK, NEW c \in Calls, NEW op \in {"create", "release", "refund"},
         NEW o \in Orders, NEW p \in Payees \cup {None}, NEW a \in Int,
         op # "refund" => p \in Payees,
         Arrive(c, op, o, p, a)
  PROVE  CallsOK'
<1> DEFINE k == [op |-> op, pc |-> "start", order |-> o, payee |-> p,
                 amount |-> a, fee |-> 0, open |-> TRUE, result |-> "none"]
<1>1. k \in CallRec /\ Shaped(k)
  BY DEF CallRec, Shaped, Pairs
<1>2. call' = [call EXCEPT ![c] = k]
  BY DEF Arrive
<1> QED BY <1>1, <1>2, CallUpdate

\* Closing a connection leaves its request well formed.
LEMMA ClosedOK ==
  ASSUME NEW k \in CallRec, Shaped(k)
  PROVE  Closed(k) \in CallRec /\ Shaped(Closed(k))
<1>1. [k EXCEPT !.open = FALSE] \in CallRec /\ Shaped([k EXCEPT !.open = FALSE])
  BY DEF CallRec, Shaped
<1> QED BY <1>1, IdleCallOK DEF Closed

\* The answer is read, or given up on.
LEMMA HangupOK ==
  ASSUME CallsOK, NEW c \in Calls, Receive(c) \/ Hangup(c)
  PROVE  CallsOK'
<1>1. call[c] \in CallRec /\ Shaped(call[c])
  BY DEF CallsOK, CallShape
<1>2. CASE Receive(c)
  BY <1>2, IdleCallOK, CallUpdate DEF Receive
<1>3. CASE Hangup(c)
  BY <1>1, <1>3, ClosedOK, CallUpdate DEF Hangup
<1> QED BY <1>2, <1>3

-----------------------------------------------------------------------------
\* The tables of the wallet, and its requests.
WalletOK == WalletTypeOK /\ CallShape

\* The statements that write the table keep it well typed.
LEMMA WritesType ==
  ASSUME WalletOK, NEW c \in Calls,
         UNCHANGED tx \/ Inserted(c) \/ Paid(c) \/ GivenBack(c)
  PROVE  tx' \in [Pairs -> TxRow]
<1>0. tx \in [Pairs -> TxRow] /\ call[c] \in CallRec
  BY DEF WalletOK, WalletTypeOK
<1>1. CASE UNCHANGED tx
  BY <1>0, <1>1
<1>2. CASE Inserted(c)
  BY <1>0, <1>2 DEF Inserted, TxRow, TxStatus, CallRec
<1>3. CASE Paid(c)
  BY <1>0, <1>3 DEF Paid, TxRow, TxStatus
<1>4. CASE GivenBack(c)
  BY <1>0, <1>4 DEF GivenBack, TxRow, TxStatus
<1> QED BY <1>1, <1>2, <1>3, <1>4

\* The steps of the wallet itself keep it well typed.
LEMMA ServeType ==
  ASSUME WalletOK, NEW c \in Calls, Serve(c) \/ Fail(c)
  PROVE  WalletOK'
<1> USE WalletAssumption
<1>a. CallsOK
  BY DEF WalletOK, WalletTypeOK, CallsOK
<1>b. ASSUME CallsOK', tx' \in [Pairs -> TxRow],
             charges' \in [Pairs -> 0..MaxCharges], pct' \in Pcts
      PROVE  WalletOK'
  BY <1>b DEF WalletOK, WalletTypeOK, CallsOK
<1>1. CASE Lookup(c)
  BY <1>a, <1>b, <1>1, ReplyOK, GotoOK DEF WalletOK, WalletTypeOK, Lookup
<1>2. CASE Charge(c)
  <2>1. charges' \in [Pairs -> 0..MaxCharges]
    BY <1>2 DEF WalletOK, WalletTypeOK, CallShape, Shaped, Pair, Charge
  <2> QED BY <1>a, <1>b, <1>2, <2>1, ReplyOK, GotoOK
          DEF WalletOK, WalletTypeOK, Charge
<1>3. CASE CommissionPct(c)
  <2> DEFINE k == [call[c] EXCEPT !.pc = "insert",
                                  !.fee = Commission(call[c].amount)]
  <2>1. call[c] \in CallRec /\ Shaped(call[c]) /\ pct \in Int
    BY DEF WalletOK, WalletTypeOK, CallShape
  <2>2. Commission(call[c].amount) \in Int
    BY <2>1 DEF Commission, Share, CallRec
  <2>3. k \in CallRec /\ Shaped(k)
    BY <2>1, <2>2 DEF CallRec, Shaped
  <2>4. call' = [call EXCEPT ![c] = k]
    BY <1>3 DEF CommissionPct
  <2> QED BY <1>a, <1>b, <1>3, <2>3, <2>4, CallUpdate
          DEF WalletOK, WalletTypeOK, CommissionPct
<1>4. CASE Create(c)
  BY <1>a, <1>b, <1>4, WritesType, ReplyOK DEF WalletOK, WalletTypeOK, Create
<1>5. CASE Release(c)
  BY <1>a, <1>b, <1>5, WritesType, ReplyOK DEF WalletOK, WalletTypeOK, Release
<1>6. CASE RefundOrder(c)
  BY <1>a, <1>b, <1>6, WritesType, ReplyOK
     DEF WalletOK, WalletTypeOK, RefundOrder
<1>7. CASE Fail(c)
  BY <1>a, <1>b, <1>7, WritesType, ReplyOK DEF WalletOK, WalletTypeOK, Fail
<1> QED BY <1>1, <1>2, <1>3, <1>4, <1>5, <1>6, <1>7 DEF Serve

\* The wallet starts well typed, with no request.
LEMMA WalletInitType == WalletInit => WalletOK
BY WalletAssumption, IdleCallOK
   DEF WalletInit, WalletOK, WalletTypeOK, CallShape, NoRow, TxRow, TxStatus

\* One step of the wallet under any caller.
LEMMA WalletNextType ==
  ASSUME WalletOK, [WalletNext]_walletVars
  PROVE  WalletOK'
<1> USE WalletAssumption
<1>a. CallsOK
  BY DEF WalletOK, WalletTypeOK, CallsOK
<1>1. ASSUME NEW c \in Calls, Serve(c) \/ Fail(c)
      PROVE  WalletOK'
  BY <1>1, ServeType
<1>2. ASSUME NEW c \in Calls, Caller(c)
      PROVE  WalletOK'
  <2>1. CallsOK'
    <3>1. ASSUME NEW o \in Orders, NEW p \in Payees,
                 \/ \E a \in Amounts : Arrive(c, "create", o, p, a)
                 \/ Arrive(c, "release", o, p, 0)
          PROVE  CallsOK'
      BY <1>a, <3>1, ArriveOK
    <3>2. ASSUME NEW o \in Orders, Arrive(c, "refund", o, None, 0)
          PROVE  CallsOK'
      BY <1>a, <3>2, ArriveOK
    <3>3. CASE Receive(c) \/ Hangup(c)
      BY <1>a, <3>3, HangupOK
    <3> QED BY <1>2, <3>1, <3>2, <3>3 DEF Caller
  <2>2. UNCHANGED <<tx, charges, pct>>
    BY <1>2 DEF Caller, Arrive, Receive, Hangup
  <2> QED BY <2>1, <2>2 DEF WalletOK, WalletTypeOK, CallsOK
<1>3. ASSUME NEW x \in Pcts, SetCommissionPct(x)
      PROVE  WalletOK'
  BY <1>3 DEF SetCommissionPct, WalletOK, WalletTypeOK, CallShape
<1>4. CASE \E C \in SUBSET Calls : CallerStops(C)
  <2>1. \A c \in Calls : Closed(call[c]) \in CallRec /\ Shaped(Closed(call[c]))
    BY ClosedOK DEF WalletOK, WalletTypeOK, CallShape
  <2> QED BY <1>4, <2>1 DEF CallerStops, WalletOK, WalletTypeOK, CallShape
<1>5. CASE UNCHANGED walletVars
  BY <1>5 DEF walletVars, WalletOK, WalletTypeOK, CallShape
<1> QED BY <1>1, <1>2, <1>3, <1>4, <1>5 DEF WalletNext

\* Every reachable state of the wallet is well typed.
THEOREM WalletTypeCorrect == WalletSpec => []WalletTypeOK
<1>1. WalletInit => WalletOK
  BY WalletInitType
<1>2. WalletOK /\ [WalletNext]_walletVars => WalletOK'
  BY WalletNextType
<1>3. WalletOK => WalletTypeOK
  BY DEF WalletOK
<1> QED BY <1>1, <1>2, <1>3, PTL DEF WalletSpec

-----------------------------------------------------------------------------
(* Money.                                                                  *)

\* How far a create request has got, and what that says of its money: the
\* amount is not negative once looked up, the card is charged before the
\* commission is read, and what is to be inserted is a share of the amount.
CallMoney(k, ch) ==
  k.op = "create" =>
    /\ k.pc \in {"charge", "commission", "insert"} => k.amount >= 0
    /\ k.pc \in {"commission", "insert"} => ch[<<k.order, k.payee>>] >= 1
    /\ k.pc = "insert" => \E x \in Pcts : k.fee = Share(k.amount, x)

\* The inductive invariant: the two properties, and what each request knows.
MoneyInv ==
  /\ RowsAreCharged
  /\ CommissionIsShare
  /\ \A c \in Calls : CallMoney(call[c], charges)

\* Charges are never taken back, so what a request knows stays true.
LEMMA CallMoneyUpdate ==
  ASSUME WalletOK, MoneyInv, NEW c \in Calls, NEW k \in CallRec,
         call' = [call EXCEPT ![c] = k],
         charges' \in [Pairs -> 0..MaxCharges],
         \A p \in Pairs : charges'[p] >= charges[p],
         CallMoney(k, charges')
  PROVE  (\A d \in Calls : CallMoney(call[d], charges))'
<1> SUFFICES ASSUME NEW d \in Calls PROVE CallMoney(call'[d], charges')
  OBVIOUS
<1>1. CASE d = c
  BY <1>1 DEF WalletOK, WalletTypeOK
<1>2. CASE d # c
  <2>1. call'[d] = call[d] /\ CallMoney(call[d], charges) /\ Shaped(call[d])
    BY <1>2 DEF WalletOK, WalletTypeOK, MoneyInv, CallShape
  <2>2. \A p \in Pairs : charges[p] \in Int /\ charges'[p] \in Int
    BY WalletAssumption DEF WalletOK, WalletTypeOK
  <2> QED BY <2>1, <2>2 DEF CallMoney, Shaped
<1> QED BY <1>1, <1>2

\* Nothing is left to know of a request that is answered or gone.
LEMMA ReplyMoney ==
  ASSUME WalletOK, MoneyInv, NEW c \in Calls,
         NEW res \in {"ok", "declined", "notFound", "invalid", "error"},
         Reply(c, res), UNCHANGED charges
  PROVE  (\A d \in Calls : CallMoney(call[d], charges))'
<1> DEFINE k == [call[c] EXCEPT !.pc = "replied", !.result = res]
<1>0. call[c] \in CallRec /\ charges' \in [Pairs -> 0..MaxCharges]
      /\ \A p \in Pairs : charges'[p] >= charges[p]
  BY WalletAssumption DEF WalletOK, WalletTypeOK
<1>1. k \in CallRec /\ CallMoney(k, charges')
  BY <1>0 DEF CallRec, CallMoney
<1>2. IdleCall \in CallRec /\ CallMoney(IdleCall, charges')
  BY IdleCallOK DEF IdleCall, CallMoney
<1>3. call' = [call EXCEPT ![c] = k] \/ call' = [call EXCEPT ![c] = IdleCall]
  BY DEF Reply
<1> QED BY <1>0, <1>1, <1>2, <1>3, CallMoneyUpdate

\* The statements that write the table: the one that inserts does so for a
\* request that knows the card charged and the commission a share of the amount,
\* and only when that is not negative.
LEMMA WritesMoney ==
  ASSUME WalletOK, MoneyInv, NEW c \in Calls, UNCHANGED charges,
         UNCHANGED tx \/ Inserted(c) \/ Paid(c) \/ GivenBack(c)
  PROVE  RowsAreCharged' /\ CommissionIsShare'
<1>0. tx \in [Pairs -> TxRow] /\ call[c] \in CallRec /\ CallMoney(call[c], charges)
      /\ RowsAreCharged /\ CommissionIsShare
  BY DEF WalletOK, WalletTypeOK, MoneyInv
<1>1. CASE UNCHANGED tx
  BY <1>0, <1>1 DEF RowsAreCharged, CommissionIsShare, Opened
<1>2. CASE Inserted(c)
  <2>1. call[c].op = "create" /\ call[c].pc = "insert" /\ 0 <= call[c].fee
    BY <1>0, <1>2 DEF Inserted, CallRec
  <2>2. call[c].amount \in Nat
    <3>1. call[c].amount \in Int
      BY <1>0 DEF CallRec
    <3>2. call[c].amount >= 0
      BY <1>0, <2>1 DEF CallMoney
    <3> QED BY <3>1, <3>2
  <2>3. \E x \in Pcts : /\ call[c].fee = Share(call[c].amount, x)
                        /\ x <= 100 => call[c].fee <= call[c].amount
    <3>1. PICK x \in Pcts : call[c].fee = Share(call[c].amount, x)
      BY <1>0, <2>1 DEF CallMoney
    <3>2. x \in Int
      BY WalletAssumption
    <3> QED BY <2>2, <3>1, <3>2, ShareBounds
  <2>4. RowsAreCharged'
    BY <1>0, <1>2, <2>1 DEF Inserted, CallMoney, RowsAreCharged, Opened, Pair
  <2>5. CommissionIsShare'
    <3> DEFINE Good(row) ==
          /\ 0 <= row.commission
          /\ \E x \in Pcts : /\ row.commission = Share(row.amount, x)
                             /\ x <= 100 => row.commission <= row.amount
    <3>1. \A p \in Pairs : tx[p].status # "absent" => Good(tx[p])
      BY <1>0 DEF CommissionIsShare, Opened
    <3> DEFINE new == [status |-> "held", amount |-> call[c].amount,
                       commission |-> call[c].fee]
    <3>2. \A p \in Pairs : tx'[p] = tx[p] \/ tx'[p] = new
      BY <1>0, <1>2 DEF Inserted
    <3>3. new.commission = call[c].fee /\ new.amount = call[c].amount
      OBVIOUS
    <3> HIDE DEF new
    <3>4. Good(new)
      BY <2>1, <2>3, <3>3
    <3>5. \A p \in Pairs : tx'[p].status # "absent" => Good(tx'[p])
      BY <3>1, <3>2, <3>4
    <3> QED BY <3>5 DEF CommissionIsShare, Opened
  <2> QED BY <2>4, <2>5
<1>3. CASE Paid(c)
  BY <1>0, <1>3 DEF Paid, TxRow, RowsAreCharged, CommissionIsShare, Opened
<1>4. CASE GivenBack(c)
  BY <1>0, <1>4 DEF GivenBack, TxRow, RowsAreCharged, CommissionIsShare,
                    Opened
<1> QED BY <1>1, <1>2, <1>3, <1>4

\* A step of the wallet on one request.
LEMMA ServeMoney ==
  ASSUME WalletOK, MoneyInv, NEW c \in Calls, Serve(c) \/ Fail(c)
  PROVE  MoneyInv'
<1> USE WalletAssumption
<1>0. /\ call[c] \in CallRec /\ CallMoney(call[c], charges)
      /\ charges \in [Pairs -> 0..MaxCharges]
      /\ \A p \in Pairs : charges[p] \in Int /\ charges[p] >= charges[p]
      /\ call[c].op = "create" => Pair(c) \in Pairs
  BY DEF WalletOK, WalletTypeOK, MoneyInv, CallShape, Shaped, Pair
<1> DEFINE at(pc) == [call[c] EXCEPT !.pc = pc]
<1>1. CASE Lookup(c)
  <2>1. (\A d \in Calls : CallMoney(call[d], charges))'
    <3>1. CASE \E res \in {"invalid", "ok"} : Reply(c, res)
      BY <1>1, <3>1, ReplyMoney DEF Lookup
    <3>2. CASE Goto(c, "charge") /\ call[c].amount >= 0
      <4>1. at("charge") \in CallRec /\ CallMoney(at("charge"), charges)
        BY <1>0, <3>2 DEF CallRec, CallMoney
      <4>2. charges' = charges /\ call' = [call EXCEPT ![c] = at("charge")]
        BY <1>1, <3>2 DEF Lookup, Goto
      <4> QED BY <1>0, <4>1, <4>2, CallMoneyUpdate
    <3>3. call[c].amount \in Int
      BY <1>0 DEF CallRec
    <3> QED BY <1>1, <3>1, <3>2, <3>3 DEF Lookup
  <2> QED BY <1>1, <2>1
          DEF Lookup, MoneyInv, RowsAreCharged, CommissionIsShare, Opened
<1>2. CASE Charge(c)
  <2>1. CASE Reply(c, "declined") /\ UNCHANGED charges
    <3>1. (\A d \in Calls : CallMoney(call[d], charges))'
      BY <2>1, ReplyMoney
    <3> QED BY <1>2, <2>1, <3>1
            DEF Charge, MoneyInv, RowsAreCharged, CommissionIsShare, Opened
  <2>2. CASE /\ Goto(c, "commission") /\ charges[Pair(c)] < MaxCharges
             /\ charges' = [charges EXCEPT ![Pair(c)] = @ + 1]
    <3>1. /\ charges' \in [Pairs -> 0..MaxCharges]
          /\ \A p \in Pairs : charges'[p] >= charges[p] /\ charges'[p] \in Int
          /\ charges'[Pair(c)] >= 1
      BY <1>0, <1>2, <2>2 DEF Charge
    <3>2. at("commission") \in CallRec
      BY <1>0 DEF CallRec
    <3>3. call[c].op = "create" /\ call[c].pc = "charge"
      BY <1>2 DEF Charge
    <3>4. CallMoney(at("commission"), charges')
      BY <1>0, <3>1, <3>3 DEF CallRec, CallMoney, Pair
    <3>5. call' = [call EXCEPT ![c] = at("commission")]
      BY <2>2 DEF Goto
    <3>6. (\A d \in Calls : CallMoney(call[d], charges))'
      BY <3>1, <3>2, <3>4, <3>5, CallMoneyUpdate
    <3> QED BY <1>0, <1>2, <3>1, <3>6
            DEF Charge, MoneyInv, RowsAreCharged, CommissionIsShare, Opened
  <2> QED BY <1>2, <2>1, <2>2 DEF Charge
<1>3. CASE CommissionPct(c)
  <2> DEFINE k == [call[c] EXCEPT !.pc = "insert",
                                  !.fee = Commission(call[c].amount)]
  <2>1. call[c].op = "create" /\ call[c].pc = "commission"
    BY <1>3 DEF CommissionPct
  <2>2. call[c].amount \in Nat /\ pct \in Pcts /\ pct \in Int
    BY <1>0, <2>1 DEF CallMoney, CallRec, WalletOK, WalletTypeOK
  <2>3. /\ Commission(call[c].amount) \in Int
        /\ \E x \in Pcts : Commission(call[c].amount) = Share(call[c].amount, x)
    BY <2>2, ShareBounds DEF Commission
  <2>4. k \in CallRec /\ CallMoney(k, charges)
    BY <1>0, <2>1, <2>3 DEF CallRec, CallMoney
  <2>5. charges' = charges /\ call' = [call EXCEPT ![c] = k]
    BY <1>3 DEF CommissionPct
  <2>6. (\A d \in Calls : CallMoney(call[d], charges))'
    BY <1>0, <2>4, <2>5, CallMoneyUpdate
  <2> QED BY <1>3, <2>6 DEF CommissionPct, MoneyInv, RowsAreCharged,
                            CommissionIsShare, Opened
<1>4. ASSUME Create(c) \/ Release(c) \/ RefundOrder(c) \/ Fail(c)
      PROVE  MoneyInv'
  <2>1. (\A d \in Calls : CallMoney(call[d], charges))'
    BY <1>4, ReplyMoney DEF Create, Release, RefundOrder, Fail
  <2>2. RowsAreCharged' /\ CommissionIsShare'
    BY <1>4, WritesMoney DEF Create, Release, RefundOrder, Fail
  <2> QED BY <2>1, <2>2 DEF MoneyInv
<1> QED BY <1>1, <1>2, <1>3, <1>4 DEF Serve

\* Arriving, reading the answer and hanging up touch no money.
LEMMA CallerMoney ==
  ASSUME WalletOK, MoneyInv, NEW c \in Calls, Caller(c)
  PROVE  MoneyInv'
<1> USE WalletAssumption
<1>0. UNCHANGED <<tx, charges, pct>>
  BY DEF Caller, Arrive, Receive, Hangup
<1>1. \E k : /\ call' = [call EXCEPT ![c] = k]
             /\ CallMoney(k, charges)
             /\ k \in CallRec
  <2>1. CallMoney(call[c], charges) /\ call[c] \in CallRec
    BY DEF WalletOK, WalletTypeOK, MoneyInv
  <2>2. CallMoney(IdleCall, charges) /\ IdleCall \in CallRec
    BY IdleCallOK DEF IdleCall, CallMoney
  <2>3. ASSUME NEW op \in {"create", "release", "refund"}, NEW o \in Orders,
               NEW p \in Payees \cup {None}, NEW a \in Int,
               Arrive(c, op, o, p, a)
        PROVE  <1>1
    <3> DEFINE k == [op |-> op, pc |-> "start", order |-> o, payee |-> p,
                     amount |-> a, fee |-> 0, open |-> TRUE, result |-> "none"]
    <3>1. k \in CallRec /\ CallMoney(k, charges)
      BY DEF CallRec, CallMoney
    <3>2. call' = [call EXCEPT ![c] = k]
      BY <2>3 DEF Arrive
    <3> QED BY <3>1, <3>2
  <2>4. CASE Receive(c)
    BY <2>2, <2>4 DEF Receive
  <2>5. CASE Hangup(c)
    <3>1. Closed(call[c]) \in CallRec
      BY <2>1, ClosedOK DEF WalletOK, CallShape
    <3>2. CallMoney(Closed(call[c]), charges)
      BY <2>1, <2>2 DEF Closed, CallRec, CallMoney
    <3> QED BY <2>5, <3>1, <3>2 DEF Hangup
  <2>6. \A a \in Amounts : a \in Int
    OBVIOUS
  <2> QED BY <2>3, <2>4, <2>5, <2>6 DEF Caller
<1>2. charges \in [Pairs -> 0..MaxCharges] /\ \A p \in Pairs : charges[p] >= charges[p]
  BY DEF WalletOK, WalletTypeOK
<1>3. (\A d \in Calls : CallMoney(call[d], charges))'
  BY <1>0, <1>1, <1>2, CallMoneyUpdate
<1> QED BY <1>0, <1>3
        DEF MoneyInv, RowsAreCharged, CommissionIsShare, Opened

\* One step of the wallet under any caller.
LEMMA MoneyNext ==
  ASSUME WalletOK, MoneyInv, [WalletNext]_walletVars
  PROVE  MoneyInv'
<1>1. ASSUME NEW c \in Calls, Serve(c) \/ Fail(c) PROVE MoneyInv'
  BY <1>1, ServeMoney
<1>2. ASSUME NEW c \in Calls, Caller(c) PROVE MoneyInv'
  BY <1>2, CallerMoney
<1>3. ASSUME NEW x \in Pcts, SetCommissionPct(x) PROVE MoneyInv'
  BY <1>3 DEF SetCommissionPct, MoneyInv, RowsAreCharged,
              CommissionIsShare, Opened
<1>4. CASE \E C \in SUBSET Calls : CallerStops(C)
  <2>1. \A c \in Calls : CallMoney(Closed(call[c]), charges)
    BY DEF Closed, IdleCall, CallMoney, MoneyInv, WalletOK, WalletTypeOK, CallRec
  <2> QED BY <1>4, <2>1 DEF CallerStops, MoneyInv, RowsAreCharged,
                            CommissionIsShare, Opened
<1>5. CASE UNCHANGED walletVars
  BY <1>5 DEF walletVars, MoneyInv, RowsAreCharged, CommissionIsShare, Opened
<1> QED BY <1>1, <1>2, <1>3, <1>4, <1>5 DEF WalletNext

\* The wallet starts with no row and no request.
LEMMA MoneyInit == WalletInit => MoneyInv
BY DEF WalletInit, MoneyInv, RowsAreCharged, CommissionIsShare, Opened,
       NoRow, IdleCall, CallMoney

\* No row exists without a successful charge for its pair, however requests
\* interleave, fail or are abandoned.
THEOREM RowsAlwaysCharged == WalletSpec => []RowsAreCharged
<1>1. WalletInit => WalletOK /\ MoneyInv
  BY WalletInitType, MoneyInit
<1>2. (WalletOK /\ MoneyInv) /\ [WalletNext]_walletVars => (WalletOK /\ MoneyInv)'
  BY WalletNextType, MoneyNext
<1>3. MoneyInv => RowsAreCharged
  BY DEF MoneyInv
<1> QED BY <1>1, <1>2, <1>3, PTL DEF WalletSpec

\* Whatever percentages the back office sets, and whenever: the commission of
\* every row is the share of its amount at one of them, never negative, and within
\* the amount unless that one is above 100.
THEOREM CommissionAlwaysShare == WalletSpec => []CommissionIsShare
<1>1. WalletInit => WalletOK /\ MoneyInv
  BY WalletInitType, MoneyInit
<1>2. (WalletOK /\ MoneyInv) /\ [WalletNext]_walletVars => (WalletOK /\ MoneyInv)'
  BY WalletNextType, MoneyNext
<1>3. MoneyInv => CommissionIsShare
  BY DEF MoneyInv
<1> QED BY <1>1, <1>2, <1>3, PTL DEF WalletSpec

-----------------------------------------------------------------------------
(* What a step may never do.                                               *)

\* What RowsSettleOnce says of one pair.
SettlesOnce(p) ==
  Opened(p) =>
    /\ tx'[p].amount = tx[p].amount
    /\ tx'[p].commission = tx[p].commission
    /\ tx'[p].status # tx[p].status =>
         tx[p].status = "held" /\ tx'[p].status \in {"released", "refunded"}

\* Rows are only written by an insert, on a pair without one, and by the two
\* updates, on held rows.
LEMMA SettleStep ==
  ASSUME WalletOK, [WalletNext]_walletVars, NEW p \in Pairs
  PROVE  SettlesOnce(p)
<1>0. tx \in [Pairs -> TxRow] /\ tx[p] \in TxRow
  BY DEF WalletOK, WalletTypeOK
<1>1. CASE UNCHANGED tx
  BY <1>1 DEF SettlesOnce
<1>2. ASSUME NEW c \in Calls, Inserted(c) PROVE SettlesOnce(p)
  BY <1>0, <1>2 DEF Inserted, SettlesOnce, Opened
<1>3. ASSUME NEW c \in Calls, Paid(c) PROVE SettlesOnce(p)
  BY <1>0, <1>3 DEF Paid, SettlesOnce, TxRow
<1>4. ASSUME NEW c \in Calls, GivenBack(c) PROVE SettlesOnce(p)
  BY <1>0, <1>4 DEF GivenBack, SettlesOnce, TxRow
<1>5. UNCHANGED tx \/ \E c \in Calls : Inserted(c) \/ Paid(c) \/ GivenBack(c)
  BY DEF WalletNext, Serve, Fail, Caller, Lookup, Charge, CommissionPct, Create,
         Release, RefundOrder, Arrive, Receive, Hangup, SetCommissionPct,
         CallerStops, walletVars
<1> QED BY <1>1, <1>2, <1>3, <1>4, <1>5

\* A row that changes is there afterwards.
LEMMA RowsMove ==
  ASSUME WalletOK, [WalletNext]_walletVars, NEW p \in Pairs
  PROVE  tx'[p] = tx[p] \/ tx'[p].status \in TxStatus
<1>0. tx \in [Pairs -> TxRow] /\ tx[p] \in TxRow
  BY DEF WalletOK, WalletTypeOK
<1>1. ASSUME NEW c \in Calls, Inserted(c) \/ Paid(c) \/ GivenBack(c)
      PROVE  tx'[p] = tx[p] \/ tx'[p].status \in TxStatus
  BY <1>0, <1>1 DEF Inserted, Paid, GivenBack, TxRow, TxStatus
<1>2. UNCHANGED tx \/ \E c \in Calls : Inserted(c) \/ Paid(c) \/ GivenBack(c)
  BY DEF WalletNext, Serve, Fail, Caller, Lookup, Charge, CommissionPct, Create,
         Release, RefundOrder, Arrive, Receive, Hangup, SetCommissionPct,
         CallerStops, walletVars
<1> QED BY <1>1, <1>2

\* A row keeps its amount and commission, and is paid out or given back once.
THEOREM RowsAlwaysSettleOnce == WalletSpec => RowsSettleOnce
<1>1. WalletInit => WalletOK
  BY WalletInitType
<1>2. WalletOK /\ [WalletNext]_walletVars => WalletOK'
  BY WalletNextType
<1>3. WalletOK /\ [WalletNext]_walletVars =>
        [\A p \in Pairs : Opened(p) =>
           /\ tx'[p].amount = tx[p].amount
           /\ tx'[p].commission = tx[p].commission
           /\ tx'[p].status # tx[p].status =>
                tx[p].status = "held" /\ tx'[p].status \in {"released", "refunded"}
        ]_walletVars
  BY SettleStep DEF SettlesOnce
<1> QED BY <1>1, <1>2, <1>3, PTL DEF WalletSpec, RowsSettleOnce

\* What RetriesNeverCharge says of one pair.
StaysCharged(p) ==
  ChargedForGood(p) => ChargedForGood(p)' /\ charges'[p] = charges[p]

\* Where a request can come to be on its way to a charge: it was already, or
\* it is a create request that looked its pair up in vain.
LEMMA PastLookupFrom ==
  ASSUME WalletOK, [WalletNext]_walletVars, NEW c \in Calls, NEW p \in Pairs,
         PastLookup(c, p)'
  PROVE  PastLookup(c, p) \/ (Lookup(c) /\ Pair(c) = p /\ ~Opened(p))
<1>0. call \in [Calls -> CallRec]
  BY DEF WalletOK, WalletTypeOK
<1> DEFINE Past(k) == /\ k.op = "create" /\ <<k.order, k.payee>> = p
                      /\ k.pc \in {"charge", "commission", "insert"}
<1>1. PastLookup(c, p) <=> Past(call[c])
  BY DEF PastLookup, Pair
<1>2. PastLookup(c, p)' <=> Past(call'[c])
  BY DEF PastLookup, Pair
<1>3. ASSUME NEW d \in Calls, NEW res, Reply(d, res) PROVE Past(call[c])
  BY <1>0, <1>2, <1>3 DEF Reply, CallRec, IdleCall
<1>4. ASSUME NEW d \in Calls, Caller(d) PROVE Past(call[c])
  BY <1>0, <1>2, <1>4
     DEF Caller, Arrive, Receive, Hangup, Closed, CallRec, IdleCall
<1>5. ASSUME NEW d \in Calls, Lookup(d)
      PROVE  Past(call[c]) \/ (Lookup(c) /\ Pair(c) = p /\ ~Opened(p))
  <2>1. CASE \E res \in {"invalid", "ok"} : Reply(d, res)
    BY <1>3, <2>1
  <2>2. CASE Goto(d, "charge") /\ ~Opened(Pair(d))
    <3>1. CASE d = c
      <4>1. Pair(c) = p
        BY <1>0, <1>2, <2>2, <3>1 DEF Goto, CallRec, Pair
      <4> QED BY <1>5, <2>2, <3>1, <4>1
    <3>2. CASE d # c
      BY <1>0, <1>2, <2>2, <3>2 DEF Goto
    <3> QED BY <3>1, <3>2
  <2>3. call[d].amount \in Int
    BY <1>0 DEF CallRec
  <2> QED BY <1>5, <2>1, <2>2, <2>3 DEF Lookup
<1>6. ASSUME NEW d \in Calls, Charge(d) PROVE Past(call[c])
  <2>1. CASE Reply(d, "declined")
    BY <1>3, <2>1
  <2>2. CASE Goto(d, "commission")
    BY <1>0, <1>2, <1>6, <2>2 DEF Charge, Goto, CallRec
  <2> QED BY <1>6, <2>1, <2>2 DEF Charge
<1>7. ASSUME NEW d \in Calls, CommissionPct(d) PROVE Past(call[c])
  BY <1>0, <1>2, <1>7 DEF CommissionPct, CallRec
<1>8. CASE \E C \in SUBSET Calls : CallerStops(C)
  BY <1>0, <1>1, <1>2, <1>8 DEF CallerStops, Closed, CallRec, IdleCall
<1>9. CASE UNCHANGED call
  BY <1>1, <1>2, <1>9
<1>10. ASSUME NEW d \in Calls, Create(d) \/ Release(d) \/ RefundOrder(d) \/ Fail(d)
       PROVE  Past(call[c])
  <2>1. \E res : Reply(d, res)
    BY <1>10 DEF Create, Release, RefundOrder, Fail
  <2> QED BY <1>3, <2>1
<1>11. \/ \E d \in Calls :
            \/ Caller(d) \/ Lookup(d) \/ Charge(d) \/ CommissionPct(d)
            \/ Create(d) \/ Release(d) \/ RefundOrder(d) \/ Fail(d)
       \/ \E C \in SUBSET Calls : CallerStops(C)
       \/ UNCHANGED call
  BY DEF WalletNext, Serve, SetCommissionPct, walletVars
<1> HIDE DEF Past
<1> QED BY <1>1, <1>4, <1>5, <1>6, <1>7, <1>8, <1>9, <1>10, <1>11

\* Only a request past its lookup charges.
LEMMA ChargedStep ==
  ASSUME WalletOK, [WalletNext]_walletVars, NEW p \in Pairs
  PROVE  StaysCharged(p)
<1> SUFFICES ASSUME ChargedForGood(p)
             PROVE  ChargedForGood(p)' /\ charges'[p] = charges[p]
  BY DEF StaysCharged
<1>1. Opened(p)'
  <2>1. SettlesOnce(p) /\ Opened(p)
    BY SettleStep DEF ChargedForGood
  <2> QED BY <2>1 DEF SettlesOnce, Opened
<1>2. ASSUME NEW c \in Calls, PastLookup(c, p)' PROVE FALSE
  BY <1>2, PastLookupFrom DEF ChargedForGood
<1>3. charges'[p] = charges[p]
  <2>1. ASSUME NEW c \in Calls, Charge(c) PROVE charges'[p] = charges[p]
    <3>1. Pair(c) # p
      BY <2>1 DEF Charge, ChargedForGood, PastLookup
    <3>2. charges \in [Pairs -> 0..MaxCharges]
      BY DEF WalletOK, WalletTypeOK
    <3> QED BY <2>1, <3>1, <3>2 DEF Charge
  <2>2. UNCHANGED charges \/ \E c \in Calls : Charge(c)
    BY DEF WalletNext, Serve, Fail, Caller, Lookup, CommissionPct, Create,
           Release, RefundOrder, Arrive, Receive, Hangup, SetCommissionPct,
           CallerStops, walletVars
  <2> QED BY <2>1, <2>2
<1> QED BY <1>1, <1>2, <1>3 DEF ChargedForGood

\* Once the row of a pair exists and nobody is on the way to a charge, the pair
\* is never charged again.
THEOREM RetriesAreSafe == WalletSpec => RetriesNeverCharge
<1>1. WalletInit => WalletOK
  BY WalletInitType
<1>2. WalletOK /\ [WalletNext]_walletVars => WalletOK'
  BY WalletNextType
<1>3. WalletOK /\ [WalletNext]_walletVars =>
        [\A p \in Pairs : ChargedForGood(p) =>
           ChargedForGood(p)' /\ charges'[p] = charges[p]]_walletVars
  BY ChargedStep DEF StaysCharged
<1> QED BY <1>1, <1>2, <1>3, PTL DEF WalletSpec, RetriesNeverCharge

-----------------------------------------------------------------------------
(* What an answer means.                                                   *)

\* The answer "ok" to a create request: the pair has its row.
OkMeansRow ==
  \A c \in Calls : call[c].op = "create" /\ call[c].result = "ok" => Opened(Pair(c))

\* No step takes a row away, and only a row that is there is answered "ok".
LEMMA OkMeansRowNext ==
  ASSUME WalletOK, OkMeansRow, [WalletNext]_walletVars
  PROVE  OkMeansRow'
<1>0. /\ call \in [Calls -> CallRec] /\ tx \in [Pairs -> TxRow]
      /\ \A p \in Pairs : Opened(p) => tx'[p].status # "absent"
      /\ \A c \in Calls : call[c].op = "create" => Pair(c) \in Pairs
  BY SettleStep DEF WalletOK, WalletTypeOK, SettlesOnce, Opened, CallShape, Shaped, Pair
<1> DEFINE Row(p) == tx'[p].status # "absent"
           Ok(k) == k.op = "create" /\ k.result = "ok" => Row(<<k.order, k.payee>>)
<1>1. ASSUME \A c \in Calls : Ok(call'[c]) PROVE OkMeansRow'
  BY <1>1 DEF OkMeansRow, Opened, Pair
<1>2. \A c \in Calls : Ok(call[c])
  BY <1>0 DEF OkMeansRow, Pair
<1>3. Ok(IdleCall)
  BY DEF IdleCall
<1>4. ASSUME NEW c \in Calls, NEW k, Ok(k), call' = [call EXCEPT ![c] = k]
      PROVE  OkMeansRow'
  <2> HIDE DEF Ok
  <2>1. \A d \in Calls : call'[d] = k \/ call'[d] = call[d]
    BY <1>0, <1>4
  <2> QED BY <1>1, <1>2, <1>4, <2>1
<1>5. ASSUME NEW c \in Calls, NEW res, Reply(c, res),
             call[c].op = "create" /\ res = "ok" => Row(Pair(c))
      PROVE  OkMeansRow'
  <2> DEFINE k == [call[c] EXCEPT !.pc = "replied", !.result = res]
  <2>1. /\ k.op = call[c].op /\ k.result = res
        /\ k.order = call[c].order /\ k.payee = call[c].payee
    BY <1>0 DEF CallRec
  <2>2. call' = [call EXCEPT ![c] = k] \/ call' = [call EXCEPT ![c] = IdleCall]
    BY <1>5 DEF Reply
  <2> HIDE DEF k
  <2>3. Ok(k)
    BY <1>5, <2>1 DEF Opened, Pair
  <2> HIDE DEF Ok
  <2> QED BY <1>3, <1>4, <2>2, <2>3
<1>6. ASSUME NEW c \in Calls, NEW pc, Goto(c, pc) PROVE OkMeansRow'
  <2> DEFINE k == [call[c] EXCEPT !.pc = pc]
  <2>1. /\ k.op = call[c].op /\ k.result = call[c].result
        /\ k.order = call[c].order /\ k.payee = call[c].payee
    BY <1>0 DEF CallRec
  <2>2. call' = [call EXCEPT ![c] = k]
    BY <1>6 DEF Goto
  <2> HIDE DEF k
  <2>3. Ok(k)
    BY <1>2, <2>1
  <2> HIDE DEF Ok
  <2> QED BY <1>4, <2>2, <2>3
<1>7. ASSUME NEW c \in Calls, CommissionPct(c) PROVE OkMeansRow'
  <2> DEFINE k == [call[c] EXCEPT !.pc = "insert",
                                  !.fee = Commission(call[c].amount)]
  <2>1. /\ k.op = call[c].op /\ k.result = call[c].result
        /\ k.order = call[c].order /\ k.payee = call[c].payee
    BY <1>0 DEF CallRec
  <2>2. call' = [call EXCEPT ![c] = k]
    BY <1>7 DEF CommissionPct
  <2> HIDE DEF k
  <2>3. Ok(k)
    BY <1>2, <2>1
  <2> HIDE DEF Ok
  <2> QED BY <1>4, <2>2, <2>3
<1>8. ASSUME NEW c \in Calls, Lookup(c) PROVE OkMeansRow'
  <2>1. call[c].op = "create" /\ call[c].amount \in Int
    BY <1>0, <1>8 DEF Lookup, CallRec
  <2>2. \/ Reply(c, "invalid")
        \/ Reply(c, "ok") /\ Opened(Pair(c))
        \/ Goto(c, "charge")
    BY <1>8, <2>1 DEF Lookup
  <2> QED BY <1>0, <1>5, <1>6, <2>1, <2>2
<1>9. ASSUME NEW c \in Calls, Charge(c) PROVE OkMeansRow'
  BY <1>5, <1>6, <1>9 DEF Charge
<1>10. ASSUME NEW c \in Calls, Create(c) PROVE OkMeansRow'
  <2>1. CASE Inserted(c) /\ Reply(c, "ok")
    <3>1. Row(Pair(c))
      BY <1>0, <2>1 DEF Inserted, Opened
    <3> QED BY <1>5, <2>1, <3>1
  <2>2. CASE Reply(c, "error")
    BY <1>5, <2>2
  <2> QED BY <1>10, <2>1, <2>2 DEF Create
<1>11. ASSUME NEW c \in Calls, Release(c) \/ RefundOrder(c) PROVE OkMeansRow'
  <2>1. call[c].op # "create" /\ \E res : Reply(c, res)
    BY <1>11 DEF Release, Paid, RefundOrder, GivenBack
  <2> QED BY <1>5, <2>1
<1>12. ASSUME NEW c \in Calls, Fail(c) PROVE OkMeansRow'
  BY <1>5, <1>12 DEF Fail
<1>13. ASSUME NEW k \in CallRec, Ok(k) PROVE Ok(Closed(k))
  <2>1. /\ [k EXCEPT !.open = FALSE].op = k.op
        /\ [k EXCEPT !.open = FALSE].result = k.result
        /\ [k EXCEPT !.open = FALSE].order = k.order
        /\ [k EXCEPT !.open = FALSE].payee = k.payee
    BY DEF CallRec
  <2>2. Ok([k EXCEPT !.open = FALSE])
    BY <1>13, <2>1
  <2> HIDE DEF Ok
  <2> QED BY <1>3, <2>2 DEF Closed
<1>14. ASSUME NEW c \in Calls, Caller(c) PROVE OkMeansRow'
  <2>1. ASSUME NEW op, NEW o, NEW p, NEW a, Arrive(c, op, o, p, a) PROVE OkMeansRow'
    <3> DEFINE k == [op |-> op, pc |-> "start", order |-> o, payee |-> p,
                     amount |-> a, fee |-> 0, open |-> TRUE, result |-> "none"]
    <3>1. Ok(k) /\ call' = [call EXCEPT ![c] = k]
      BY <2>1 DEF Arrive
    <3> QED BY <1>4, <3>1
  <2>2. CASE Receive(c)
    BY <1>3, <1>4, <2>2 DEF Receive
  <2>3. CASE Hangup(c)
    <3>1. Ok(Closed(call[c]))
      BY <1>0, <1>2, <1>13
    <3> QED BY <1>4, <2>3, <3>1 DEF Hangup
  <2> QED BY <1>14, <2>1, <2>2, <2>3 DEF Caller
<1>15. CASE \E C \in SUBSET Calls : CallerStops(C)
  <2>1. \A c \in Calls : Ok(Closed(call[c]))
    BY <1>0, <1>2, <1>13
  <2> HIDE DEF Ok
  <2>2. \A c \in Calls : call'[c] = Closed(call[c]) \/ call'[c] = call[c]
    BY <1>15 DEF CallerStops
  <2> QED BY <1>1, <1>2, <2>1, <2>2
<1>16. CASE UNCHANGED call
  <2> HIDE DEF Ok
  <2> QED BY <1>1, <1>2, <1>16
<1> HIDE DEF Ok
<1> QED BY <1>7, <1>8, <1>9, <1>10, <1>11, <1>12, <1>14, <1>15, <1>16
        DEF WalletNext, Serve, SetCommissionPct, walletVars

-----------------------------------------------------------------------------
(* The abstract promise.                                                   *)

\* The pairs that have been charged, as Ledger sees them.
Charged == {p \in Pairs : charges[p] >= 1}

\* A statement that writes the table is a step of Ledger or none.
LEMMA WritesKeepLedger ==
  ASSUME WalletOK, MoneyInv, NEW c \in Calls, UNCHANGED charges,
         UNCHANGED tx \/ Inserted(c) \/ Paid(c) \/ GivenBack(c)
  PROVE  [Promise!LedgerNext]_<<tx, Charged>>
<1>0. /\ tx \in [Pairs -> TxRow] /\ call[c] \in CallRec
      /\ CallMoney(call[c], charges) /\ Shaped(call[c])
      /\ Promise!EscrowPairs = Pairs /\ Charged' = Charged
  BY DEF WalletOK, WalletTypeOK, MoneyInv, CallShape, Pairs, Promise!EscrowPairs,
         Charged
<1>1. CASE UNCHANGED tx
  BY <1>0, <1>1
<1>2. CASE Inserted(c) /\ ~Opened(Pair(c))
  <2> DEFINE p == Pair(c)
             row == [status |-> "held", amount |-> call[c].amount,
                     commission |-> call[c].fee]
  <2>1. /\ call[c].op = "create" /\ call[c].pc = "insert"
        /\ tx' = [tx EXCEPT ![p] = row]
    BY <1>2 DEF Inserted
  <2>2. p \in Pairs /\ p \in Charged
    BY <1>0, <2>1 DEF Shaped, Pair, CallMoney, Charged
  <2>3. row \in Promise!HeldEscrow
    <3>1. call[c].amount \in Nat /\ call[c].fee \in Nat
      BY <1>0, <1>2, <2>1 DEF Inserted, CallMoney, CallRec
    <3> QED BY <3>1 DEF Promise!HeldEscrow
  <2>4. tx'[p] = row /\ tx[p].status = "absent"
    BY <1>0, <1>2, <2>1, <2>2 DEF Opened
  <2>5. Promise!Open(p)
    BY <1>0, <2>1, <2>2, <2>3, <2>4 DEF Promise!Open, Promise!Is, Charged
  <2> QED BY <1>0, <2>2, <2>5 DEF Promise!LedgerNext
<1>3. CASE Inserted(c) /\ Opened(Pair(c))
  BY <1>0, <1>3 DEF Inserted
<1>4. CASE Paid(c) /\ tx[Pair(c)].status = "held"
  <2>1. Pair(c) \in Pairs
    BY <1>0, <1>4 DEF Paid, Shaped, Pair
  <2>2. Promise!PayOut(Pair(c))
    BY <1>0, <1>4 DEF Paid, Promise!PayOut, Promise!Is, Charged
  <2> QED BY <1>0, <2>1, <2>2 DEF Promise!LedgerNext
<1>5. CASE Paid(c) /\ tx[Pair(c)].status # "held"
  BY <1>0, <1>5 DEF Paid
<1>6. CASE GivenBack(c) /\ call[c].order \in Orders
  <2>1. Promise!GiveBack(call[c].order)
    BY <1>0, <1>6 DEF GivenBack, Promise!GiveBack, Promise!Is, Charged
  <2> QED BY <1>6, <2>1 DEF Promise!LedgerNext
<1>7. CASE GivenBack(c) /\ call[c].order \notin Orders
  <2>1. \A p \in Pairs : tx'[p] = tx[p]
    BY <1>7 DEF GivenBack, Pairs
  <2>2. tx' = tx
    BY <1>0, <1>7, <2>1 DEF GivenBack
  <2> QED BY <1>0, <2>2
<1> QED BY <1>1, <1>2, <1>3, <1>4, <1>5, <1>6, <1>7

\* So is every step of the wallet.
LEMMA StepsKeepLedger ==
  ASSUME WalletOK, MoneyInv, [WalletNext]_walletVars
  PROVE  [Promise!LedgerNext]_<<tx, Charged>>
<1>1. ASSUME NEW c \in Calls, Create(c) \/ Release(c) \/ RefundOrder(c) \/ Fail(c)
      PROVE  [Promise!LedgerNext]_<<tx, Charged>>
  BY <1>1, WritesKeepLedger DEF Create, Release, RefundOrder, Fail
<1>2. CASE UNCHANGED <<tx, charges>>
  BY <1>2 DEF Charged
<1>3. ASSUME NEW c \in Calls, Charge(c), charges' # charges
      PROVE  [Promise!LedgerNext]_<<tx, Charged>>
  <2>1. PICK p \in Pairs : charges' = [charges EXCEPT ![p] = @ + 1]
    BY <1>3 DEF Charge, WalletOK, CallShape, Shaped, Pair
  <2>2. charges \in [Pairs -> Nat] /\ UNCHANGED tx
    BY <1>3 DEF Charge, WalletOK, WalletTypeOK
  <2>3. Charged' = Charged \cup {p}
    BY <2>1, <2>2 DEF Charged
  <2>4. Promise!ChargePayer(p)
    BY <2>2, <2>3 DEF Promise!ChargePayer, Charged
  <2>5. p \in Promise!EscrowPairs
    BY DEF Promise!EscrowPairs, Pairs
  <2> QED BY <2>4, <2>5 DEF Promise!LedgerNext
<1>4. \/ UNCHANGED <<tx, charges>>
      \/ \E c \in Calls : \/ Charge(c) \/ Create(c) \/ Release(c)
                          \/ RefundOrder(c) \/ Fail(c)
  BY DEF WalletNext, Serve, Caller, Lookup, CommissionPct, Arrive, Receive,
         Hangup, SetCommissionPct, CallerStops, walletVars
<1>5. \A c \in Calls : Charge(c) /\ charges' = charges => UNCHANGED tx
  BY DEF Charge
<1> QED BY <1>1, <1>2, <1>3, <1>4, <1>5

\* The wallet implements Ledger: from any callers' point of view every pair is
\* charged, then opened at most once, then closed at most once.
THEOREM WalletKeepsLedger == WalletSpec => KeepsLedger
<1>1. WalletInit => WalletOK /\ MoneyInv
  BY WalletInitType, MoneyInit
<1>2. (WalletOK /\ MoneyInv) /\ [WalletNext]_walletVars => (WalletOK /\ MoneyInv)'
  BY WalletNextType, MoneyNext
<1>3. WalletInit => Promise!LedgerInit
  <2>1. WalletInit => {p \in Pairs : charges[p] >= 1} = {}
    BY DEF WalletInit
  <2> QED BY <2>1 DEF WalletInit, NoRow, Pairs, Promise!LedgerInit, Promise!EscrowPairs
<1>4. (WalletOK /\ MoneyInv) /\ [WalletNext]_walletVars =>
        [Promise!LedgerNext]_(Promise!ledgerVars)
  BY StepsKeepLedger DEF Charged, Promise!ledgerVars
<1> QED BY <1>1, <1>2, <1>3, <1>4, PTL DEF WalletSpec, KeepsLedger, Promise!LedgerSpec
=============================================================================
