------------------------------- MODULE Wallet -------------------------------
(***************************************************************************)
(* The wallet service: escrow rows keyed on (order, payee), opened by      *)
(* charging the payer's card, then paid out or given back.                 *)
(*                                                                         *)
(* Every HTTP request the service works on is one element of Calls.  A     *)
(* create request runs as the separate statements of Handler.create (look  *)
(* the pair up, charge the provider, read the commission, insert), so the  *)
(* steps of two requests interleave and a request may die between any two  *)
(* of them.  The caller waits on the connection, and may hang up first.    *)
(***************************************************************************)
EXTENDS Integers

CONSTANTS
  Orders,          \* order ids
  Payees,          \* executors that can be paid
  Calls,           \* the wallet's request slots
  Amounts,         \* amounts a caller may send (UZS, any sign: a parsed string)
  Pcts,            \* the commission percentages that are ever set (a bigint, unchecked)
  DeclinedAmount,  \* the amount the provider declines
  MaxCharges,      \* bound on the charges of one pair
  None             \* the absent id

ASSUME WalletAssumption ==
  /\ None \notin Orders
  /\ None \notin Payees
  /\ Amounts \subseteq Int
  /\ Pcts \subseteq Int /\ Pcts # {}
  /\ MaxCharges \in Nat

VARIABLES
  tx,       \* wallet.transactions: one row per pair, absent until inserted
  charges,  \* the provider's side: how many times a pair was charged
  pct,      \* wallet.settings platform_commission_pct
  call      \* the requests in flight

walletVars == <<tx, charges, pct, call>>

Pairs == Orders \X Payees

TxStatus == {"held", "released", "refunded"}

TxRow == [status : TxStatus \cup {"absent"}, amount : Int, commission : Int]
NoRow == [status |-> "absent", amount |-> 0, commission |-> 0]

\* pc is the next statement of the handler; "replied" is a response on the
\* wire.  open is whether the caller is still connected.
CallRec ==
  [op : {"none", "create", "release", "refund"},
   pc : {"idle", "start", "charge", "commission", "insert", "replied"},
   order : Orders \cup {None}, payee : Payees \cup {None},
   amount : Int, fee : Int, open : BOOLEAN,
   result : {"none", "ok", "declined", "notFound", "invalid", "error"}]

IdleCall == [op |-> "none", pc |-> "idle", order |-> None, payee |-> None,
             amount |-> 0, fee |-> 0, open |-> FALSE, result |-> "none"]

Pair(c) == <<call[c].order, call[c].payee>>
Opened(p) == tx[p].status # "absent"

WalletTypeOK ==
  /\ tx \in [Pairs -> TxRow]
  /\ charges \in [Pairs -> 0..MaxCharges]
  /\ pct \in Pcts
  /\ call \in [Calls -> CallRec]

WalletInit ==
  /\ tx = [p \in Pairs |-> NoRow]
  /\ charges = [p \in Pairs |-> 0]
  /\ pct \in Pcts
  /\ call = [c \in Calls |-> IdleCall]

-----------------------------------------------------------------------------
(* The connection: a caller sends a request, and then either reads the     *)
(* answer or gives up (svc.Client's 5 s timeout, its context cancelled).   *)

Arrive(c, op, o, p, a) ==
  /\ call[c] = IdleCall
  /\ call' = [call EXCEPT ![c] = [op |-> op, pc |-> "start", order |-> o,
                                  payee |-> p, amount |-> a, fee |-> 0,
                                  open |-> TRUE, result |-> "none"]]
  /\ UNCHANGED <<tx, charges, pct>>

Receive(c) ==
  /\ call[c].pc = "replied"
  /\ call' = [call EXCEPT ![c] = IdleCall]
  /\ UNCHANGED <<tx, charges, pct>>

\* A closed connection does not stop the handler: its context is cancelled,
\* and whichever statement notices that fails (see Fail).
Closed(k) == IF k.pc \in {"idle", "replied"} THEN IdleCall
             ELSE [k EXCEPT !.open = FALSE]

Hangup(c) ==
  /\ call[c].open
  /\ call' = [call EXCEPT ![c] = Closed(@)]
  /\ UNCHANGED <<tx, charges, pct>>

\* A caller's process stops, and all its connections with it.
CallerStops(C) ==
  /\ call' = [c \in Calls |-> IF c \in C THEN Closed(call[c]) ELSE call[c]]
  /\ UNCHANGED <<tx, charges, pct>>

\* The handler writes its response; with the caller gone nobody reads it.
Reply(c, res) ==
  call' = [call EXCEPT ![c] = IF @.open
                              THEN [@ EXCEPT !.pc = "replied", !.result = res]
                              ELSE IdleCall]

\* Moving on to the next statement.
Goto(c, next) == call' = [call EXCEPT ![c].pc = next]

-----------------------------------------------------------------------------
(* POST /wallet/transactions: Handler.create.                              *)

\* Mutant: no lookup before the charge.
LookupUnchecked(c) ==
  /\ call[c].op = "create" /\ call[c].pc = "start"
  /\ IF call[c].amount < 0 THEN Reply(c, "invalid") ELSE Goto(c, "charge")
  /\ UNCHANGED <<tx, charges, pct>>

\* A retried request finds the row its first attempt left and goes no further.
\* An amount that is not a whole non-negative number is refused.
Lookup(c) ==
  /\ call[c].op = "create" /\ call[c].pc = "start"
  /\ CASE call[c].amount < 0 -> Reply(c, "invalid")
       [] call[c].amount >= 0 /\ Opened(Pair(c)) -> Reply(c, "ok")
       [] OTHER -> Goto(c, "charge")
  /\ UNCHANGED <<tx, charges, pct>>

\* Mutant: a declined charge is taken for a successful one.
ChargeIgnoringDecline(c) ==
  /\ call[c].op = "create" /\ call[c].pc = "charge"
  /\ Goto(c, "commission")
  /\ charges' = IF call[c].amount = DeclinedAmount THEN charges
                ELSE [charges EXCEPT ![Pair(c)] = @ + 1]
  /\ charges[Pair(c)] < MaxCharges
  /\ UNCHANGED <<tx, pct>>

\* provider.Charge: declined, or the card is charged.
Charge(c) ==
  /\ call[c].op = "create" /\ call[c].pc = "charge"
  /\ \/ /\ call[c].amount = DeclinedAmount
        /\ Reply(c, "declined")
        /\ UNCHANGED charges
     \/ /\ call[c].amount # DeclinedAmount
        /\ charges[Pair(c)] < MaxCharges
        /\ Goto(c, "commission")
        /\ charges' = [charges EXCEPT ![Pair(c)] = @ + 1]
  /\ UNCHANGED <<tx, pct>>

\* Mutant: the percentage is not divided by 100.
CommissionUnscaled(amount) == amount * pct
\* A percentage of an amount; Go's division drops the fraction, of a negative
\* product as well.
Share(amount, x) == IF x >= 0 THEN (amount * x) \div 100
                    ELSE -((amount * (-x)) \div 100)
\* The platform's cut, computed from the percentage in force now.
Commission(amount) == Share(amount, pct)

CommissionPct(c) ==
  /\ call[c].op = "create" /\ call[c].pc = "commission"
  /\ call' = [call EXCEPT ![c].pc = "insert",
                          ![c].fee = Commission(call[c].amount)]
  /\ UNCHANGED <<tx, charges, pct>>

\* Mutant: the row is inserted in a status the Go constants do not know.
InsertedPending(c) ==
  /\ call[c].op = "create" /\ call[c].pc = "insert"
  /\ tx' = [tx EXCEPT ![Pair(c)].status = "pending"]
\* INSERT ... ON CONFLICT DO NOTHING: an existing row of the pair is kept.  The
\* table's CHECK refuses a negative commission.
Inserted(c) ==
  /\ call[c].op = "create" /\ call[c].pc = "insert"
  /\ call[c].fee >= 0
  /\ tx' = IF Opened(Pair(c)) THEN tx
           ELSE [tx EXCEPT ![Pair(c)] = [status |-> "held",
                                         amount |-> call[c].amount,
                                         commission |-> call[c].fee]]

\* Store.Create: whichever row the pair now has is the answer, unless the INSERT
\* is refused, with the card charged.
Create(c) ==
  /\ \/ Inserted(c) /\ Reply(c, "ok")
     \/ /\ call[c].op = "create" /\ call[c].pc = "insert" /\ call[c].fee < 0
        /\ Reply(c, "error") /\ UNCHANGED tx
  /\ UNCHANGED <<charges, pct>>

-----------------------------------------------------------------------------
(* Paying out and giving back: one UPDATE each.                            *)

\* Mutant: the UPDATE forgets AND status = 'held'.
PaidAnyStatus(c) ==
  /\ call[c].op = "release" /\ call[c].pc = "start"
  /\ tx' = IF Opened(Pair(c))
           THEN [tx EXCEPT ![Pair(c)].status = "released"] ELSE tx
\* A held row is paid, a settled one left as it is.
Paid(c) ==
  /\ call[c].op = "release" /\ call[c].pc = "start"
  /\ tx' = IF tx[Pair(c)].status = "held"
           THEN [tx EXCEPT ![Pair(c)].status = "released"] ELSE tx

\* Store.Release: the row of the pair, or 404.  (When nothing was held the row
\* is read by a second statement; rows never go away, and the one caller goes
\* on in the same way after either answer.)
Release(c) ==
  /\ Paid(c)
  /\ Reply(c, IF Opened(Pair(c)) THEN "ok" ELSE "notFound")
  /\ UNCHANGED <<charges, pct>>

\* Mutant: the UPDATE of a refund forgets AND status = 'held'.
GivenBackAnyStatus(c) ==
  /\ call[c].op = "refund" /\ call[c].pc = "start"
  /\ tx' = [p \in Pairs |->
              IF p[1] = call[c].order /\ Opened(p)
              THEN [tx[p] EXCEPT !.status = "refunded"] ELSE tx[p]]
\* Every row of the order that is still held goes back to the payer.
GivenBack(c) ==
  /\ call[c].op = "refund" /\ call[c].pc = "start"
  /\ tx' = [p \in Pairs |->
              IF p[1] = call[c].order /\ tx[p].status = "held"
              THEN [tx[p] EXCEPT !.status = "refunded"] ELSE tx[p]]

RefundOrder(c) == GivenBack(c) /\ Reply(c, "ok") /\ UNCHANGED <<charges, pct>>

-----------------------------------------------------------------------------
(* A statement or the provider fails, the process dies, or the context of  *)
(* a caller that hung up is noticed: 500, and nothing is undone.  A failed *)
(* write may have been executed all the same.                              *)

Fail(c) ==
  /\ call[c].pc \in {"start", "charge", "commission", "insert"}
  /\ Reply(c, "error")
  /\ UNCHANGED tx \/ Inserted(c) \/ Paid(c) \/ GivenBack(c)
  /\ UNCHANGED <<charges, pct>>

\* The back office edits wallet.settings; there is no restart.
SetCommissionPct(x) ==
  /\ x # pct
  /\ pct' = x
  /\ UNCHANGED <<tx, charges, call>>

\* One step of the service on a request it holds.
Serve(c) ==
  \/ Lookup(c) \/ Charge(c) \/ CommissionPct(c) \/ Create(c)
  \/ Release(c) \/ RefundOrder(c)

\* Any caller, any request: what the service must withstand by itself.
Caller(c) ==
  \/ \E o \in Orders, p \in Payees :
       \/ \E a \in Amounts : Arrive(c, "create", o, p, a)
       \/ Arrive(c, "release", o, p, 0)
  \/ \E o \in Orders : Arrive(c, "refund", o, None, 0)
  \/ Receive(c)
  \/ Hangup(c)

WalletNext ==
  \/ \E c \in Calls : Serve(c) \/ Fail(c) \/ Caller(c)
  \/ \E x \in Pcts : SetCommissionPct(x)
  \/ \E C \in SUBSET Calls : CallerStops(C)

WalletSpec == WalletInit /\ [][WalletNext]_walletVars

-----------------------------------------------------------------------------
(* Properties.                                                             *)

\* No escrow without money: a row exists only if the provider really charged
\* the card for its pair, whatever died or was declined on the way
\* (Handler.create charges before Store.Create inserts).
RowsAreCharged == \A p \in Pairs : Opened(p) => charges[p] >= 1

\* A row's commission is the share of its own amount at a percentage that has
\* been set, although the back office may set another between the statement that
\* reads it and the one that stores the result.  It is never negative, and payoutAmount =
\* amount - commission is negative only if a percentage above 100 was set, which
\* nothing in wallet.settings or CommissionPct refuses.
CommissionIsShare ==
  \A p \in Pairs : Opened(p) =>
    /\ 0 <= tx[p].commission
    /\ \E x \in Pcts : /\ tx[p].commission = Share(tx[p].amount, x)
                       /\ x <= 100 => tx[p].commission <= tx[p].amount

\* A row is never deleted, its amount and commission never change, and it
\* leaves "held" once, for good: what was paid out is not refunded and what
\* was refunded is not paid out, under any retry or race of Release and
\* RefundOrder.
RowsSettleOnce ==
  [][\A p \in Pairs : Opened(p) =>
        /\ tx'[p].amount = tx[p].amount
        /\ tx'[p].commission = tx[p].commission
        /\ tx'[p].status # tx[p].status =>
             tx[p].status = "held" /\ tx'[p].status \in {"released", "refunded"}
    ]_walletVars

\* A create request that has passed its lookup without finding a row.
PastLookup(c, p) ==
  call[c].op = "create" /\ Pair(c) = p
    /\ call[c].pc \in {"charge", "commission", "insert"}

\* The pair is settled with the provider: its row exists and no request is on
\* its way to a charge.
ChargedForGood(p) == Opened(p) /\ \A c \in Calls : ~PastLookup(c, p)

\* Once a pair is settled with the provider it stays so, and is never charged
\* again, however often the accept is retried: the lookup that Handler.create
\* does first stops every later request.
RetriesNeverCharge ==
  [][\A p \in Pairs : ChargedForGood(p) =>
        ChargedForGood(p)' /\ charges'[p] = charges[p]]_walletVars

\* handler.go says a retried accept must not charge the card twice, and
\* store.go that it returns the existing row "rather than double-charging":
\* the provider would charge a pair at most once.  Lookup and charge are two
\* steps, and a charge whose insert fails leaves nothing for a retry to find.
ChargedAtMostOnce == \A p \in Pairs : charges[p] <= 1

\* The wallet keeps the promises of Ledger: whatever requests meet in it, are
\* repeated or abandoned, and whichever statements fail, seen from its tables
\* every pair is charged, then opened once, then closed once.
Promise == INSTANCE Ledger WITH
  escrow  <- tx,
  charged <- {p \in Pairs : charges[p] >= 1}
KeepsLedger == Promise!LedgerSpec
=============================================================================
