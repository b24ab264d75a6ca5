------------------------------- MODULE Escrow -------------------------------
(***************************************************************************)
(* The orders service and its settlement with the wallet.                  *)
(*                                                                         *)
(* orders.order_legs is the variable leg.  Each request an HTTP handler of *)
(* internal/orders/handler.go works on is an element of Slots and runs as  *)
(* the separate statements of that handler: it loads the order and checks  *)
(* its guards on that snapshot, later writes through Store, and calls the  *)
(* wallet over HTTP.  Statements of overlapping requests interleave, calls *)
(* time out while the wallet still works on them, statements fail, and the *)
(* process may stop between any two of them.                               *)
(*                                                                         *)
(* The wallet is module Wallet: its requests are named <<slot, payee>>, so *)
(* the caller of each is known, and its steps are steps of this system.    *)
(* Users may also open and release an escrow themselves: those endpoints   *)
(* are public, and look neither at the order nor at who asks.              *)
(***************************************************************************)
EXTENDS Wallet, LegStatus

CONSTANTS
  Slots,       \* requests the orders service serves at a time
  UserCalls,   \* wallet requests that users send themselves
  Shapes,      \* the orders a client may place: functions from legs to prices
  Targets,     \* statuses an executor may ask for
  Unlicensed,  \* <<order, executor>> pairs that fail the second licence gate
  Overlap,     \* may requests on one order overlap in time?
  Faults       \* what may go wrong, a subset of FaultKinds

\* "context": a wait for the wallet ends early, by the timeout of svc.Client or
\* because the client left and the request's context is cancelled, and then so
\* may every statement that uses that context, in this service and in the
\* wallet; "statement": a statement, or any step of the wallet, fails by
\* itself; "stop": the orders process stops; "auth": the auth service cannot
\* be reached.
FaultKinds == {"context", "statement", "stop", "auth"}

\* The wallet requests of the orders service.
OrderCalls == Slots \X (Payees \cup {None})

ASSUME EscrowAssumption ==
  /\ Calls = OrderCalls \cup UserCalls /\ OrderCalls \cap UserCalls = {}
  /\ \A sh \in Shapes : /\ DOMAIN sh \subseteq LegNames /\ DOMAIN sh # {}
                        /\ \A l \in DOMAIN sh : sh[l] \in Amounts
  /\ Targets \subseteq Statuses
  /\ Overlap \in BOOLEAN /\ Faults \subseteq FaultKinds

VARIABLES
  leg,        \* orders.order_legs, by <<order, leg name>>
  req,        \* the requests in flight
  orphaned,   \* history: claims whose accept ended without settling them
  delivered,  \* history: legs that have been delivered
  cancelled,  \* history: orders that Store.Cancel has cancelled
  byUser      \* history: the money that users' own requests have moved

historyVars == <<orphaned, delivered, cancelled, byUser>>
orderVars == <<leg, req, historyVars>>
vars == <<walletVars, orderVars>>

LegIds == Orders \X LegNames

LegRow == [status : Statuses \cup {"absent"}, executor : Payees \cup {None},
           price : Int]
NoLeg == [status |-> "absent", executor |-> None, price |-> 0]

\* pc is the next statement of the handler; pay holds the payees of the
\* snapshot that confirm has still to pay.
ReqRec ==
  [op : {"none", "accept", "status", "cancel", "confirm"},
   pc : {"idle", "claim", "open", "rollback", "write", "mark", "refund",
         "complete", "pay", "paying"},
   order : Orders \cup {None}, name : LegNames \cup {None},
   executor : Payees \cup {None}, to : Statuses \cup {None},
   pay : SUBSET Payees]

IdleReq == [op |-> "none", pc |-> "idle", order |-> None, name |-> None,
            executor |-> None, to |-> None, pay |-> {}]

\* Money moves: a pair is charged, or its row opened, paid out or given back.
Moves == {"charged", "held", "released", "refunded"} \X Pairs

TypeOK ==
  /\ WalletTypeOK
  /\ leg \in [LegIds -> LegRow]
  /\ req \in [Slots -> ReqRec]
  /\ orphaned \subseteq LegIds
  /\ delivered \subseteq LegIds
  /\ cancelled \subseteq Orders
  /\ byUser \subseteq Moves

Init ==
  /\ WalletInit
  /\ leg = [i \in LegIds |-> NoLeg]
  /\ req = [s \in Slots |-> IdleReq]
  /\ orphaned = {} /\ delivered = {} /\ cancelled = {} /\ byUser = {}

-----------------------------------------------------------------------------
(* Reading the tables.                                                     *)

Has(i) == leg[i].status # "absent"
LegsOf(o) == {i \in LegIds : i[1] = o /\ Has(i)}
LegId(s) == <<req[s].order, req[s].name>>

\* Mutant: only the primary leg's executor is owed money.
payeesPrimary(o) == {leg[<<o, "transport">>].executor} \ {None}
\* payees: the distinct executors of an order.
payees(o) == {leg[i].executor : i \in LegsOf(o)} \ {None}

-----------------------------------------------------------------------------
(* Plumbing of the handlers.                                               *)

\* The wallet request through which slot s pays, refunds or charges.
CallOf(s) == <<s, IF req[s].op = "cancel" THEN None ELSE req[s].executor>>

\* A new request may take slot s.  Its previous wallet calls are over, so a
\* call that outlives its caller keeps its name.
Free(s, o) ==
  /\ req[s] = IdleReq
  /\ \A p \in Payees \cup {None} : call[<<s, p>>] = IdleCall
  /\ Overlap \/ \A t \in Slots : req[t].order # o

\* A statement of this service may fail, whatever the cause.
Failing == Faults \cap {"context", "statement"} # {}

Start(s, r) == req' = [req EXCEPT ![s] = r]
Step(s, next) == req' = [req EXCEPT ![s].pc = next]
End(s) == req' = [req EXCEPT ![s] = IdleReq]

\* Mutant: any answer is taken for success.
AnsweredAnyhow(s, ok) == ok \in BOOLEAN /\ Receive(CallOf(s))
\* An answer from the wallet, or none: the client timed out, or the caller's
\* own context was cancelled.
Answered(s, ok) ==
  Receive(CallOf(s)) /\ (call[CallOf(s)].result = "ok") = ok
Unanswered(s) == "context" \in Faults /\ Hangup(CallOf(s))

-----------------------------------------------------------------------------
(* POST /orders: the order and all its legs in one transaction, every leg  *)
(* published at its share of the price.                                    *)

CreateOrder(o, shape) ==
  /\ LegsOf(o) = {}
  /\ leg' = [i \in LegIds |->
               IF i[1] = o /\ i[2] \in DOMAIN shape
               THEN [status |-> "published", executor |-> None,
                     price |-> shape[i[2]]]
               ELSE leg[i]]
  /\ UNCHANGED <<req, historyVars, walletVars>>

-----------------------------------------------------------------------------
(* POST /orders/{id}/accept.                                               *)

\* The licence gate reads the executor's categories from auth for a transport
\* leg, and lets the accept through when auth cannot be reached.
LicenceGate(i, e) ==
  \/ i[2] # "transport"
  \/ <<i[1], e>> \notin Unlicensed
  \/ "auth" \in Faults

AcceptLoad(s, i, e) ==
  /\ Free(s, i[1])
  /\ Has(i)
  /\ LicenceGate(i, e)
  /\ Start(s, [IdleReq EXCEPT !.op = "accept", !.pc = "claim", !.order = i[1],
                              !.name = i[2], !.executor = e])
  /\ UNCHANGED <<leg, historyVars, walletVars>>

\* Mutant: the WHERE clause only looks for a leg that is not over.
ClaimableByStatus(i) == leg[i].status \notin {"completed", "cancelled"}
\* The WHERE clause of ClaimLeg.
Claimable(i) == leg[i].executor = None /\ leg[i].status = "published"

Claimed(i, e) == [leg EXCEPT ![i].executor = e, ![i].status = "accepted"]

\* Mutant: the escrow is opened for the order's price.
EscrowAmountOfOrder(i) ==
  leg[<<i[1], "transport">>].price + leg[<<i[1], "equipment">>].price
    + leg[<<i[1], "labor">>].price
EscrowAmount(i) == leg[i].price

\* ClaimLeg, and on success the escrow request for THIS leg's price.  The
\* loser of a race, or an accept of a leg no longer published, ends with 409.
ClaimLeg(s) ==
  /\ req[s].pc = "claim"
  /\ \/ /\ Claimable(LegId(s))
        /\ leg' = Claimed(LegId(s), req[s].executor)
        /\ Step(s, "open")
        /\ Arrive(CallOf(s), "create", req[s].order, req[s].executor,
                  EscrowAmount(LegId(s)))
     \/ /\ ~Claimable(LegId(s))
        /\ End(s)
        /\ UNCHANGED <<leg, walletVars>>
  /\ UNCHANGED historyVars

\* ClaimLeg returns an error, so the handler gives up; the statement may have
\* been executed all the same.
ClaimLegError(s) ==
  /\ Failing
  /\ req[s].pc = "claim"
  /\ End(s)
  /\ \/ UNCHANGED <<leg, orphaned>>
     \/ /\ Claimable(LegId(s))
        /\ leg' = Claimed(LegId(s), req[s].executor)
        /\ orphaned' = orphaned \cup {LegId(s)}
  /\ UNCHANGED <<delivered, cancelled, byUser, walletVars>>

\* Escrow is open: the executor has the leg.
AcceptPaid(s) ==
  /\ req[s].pc = "open"
  /\ Answered(s, TRUE)
  /\ End(s)
  /\ UNCHANGED <<leg, historyVars>>

\* Mutant: the claim is kept when no money could be held.
AcceptUnpaidKept(s) ==
  /\ req[s].pc = "open"
  /\ Answered(s, FALSE) \/ Unanswered(s)
  /\ End(s)
  /\ UNCHANGED <<leg, historyVars>>

\* Declined, refused, failed, or no answer in time: roll the claim back.
AcceptUnpaid(s) ==
  /\ req[s].pc = "open"
  /\ Answered(s, FALSE) \/ Unanswered(s)
  /\ Step(s, "rollback")
  /\ UNCHANGED <<leg, historyVars>>

\* Mutant: the executor becomes the empty string, not NULL.
ReleasedClaimEmpty(i) == [leg EXCEPT ![i].executor = "", ![i].status = "published"]
ReleasedClaim(i) == [leg EXCEPT ![i].executor = None, ![i].status = "published"]

ReleaseLegClaim(s) ==
  /\ req[s].pc = "rollback"
  /\ leg' = ReleasedClaim(LegId(s))
  /\ End(s)
  /\ UNCHANGED <<historyVars, walletVars>>

\* The rollback runs on the request's own context.  When that is cancelled,
\* or the statement fails, the error is logged and the claim stays.
ReleaseLegClaimError(s) ==
  /\ Failing
  /\ req[s].pc = "rollback"
  /\ orphaned' = orphaned \cup {LegId(s)}
  /\ End(s)
  /\ UNCHANGED <<leg, delivered, cancelled, byUser, walletVars>>

-----------------------------------------------------------------------------
(* PATCH /orders/{id}/status.                                              *)

\* The caller is the assigned executor, or an admin, of the snapshot; the
\* transition is judged on the snapshot too.
StatusLoad(s, i, to) ==
  /\ Free(s, i[1])
  /\ Has(i)
  /\ leg[i].executor # None
  /\ CanTransition(leg[i].status, to)
  /\ Start(s, [IdleReq EXCEPT !.op = "status", !.pc = "write", !.order = i[1],
                              !.name = i[2], !.to = to])
  /\ UNCHANGED <<leg, historyVars, walletVars>>

\* The UPDATE names the leg only: neither the status nor the executor it was
\* allowed for.
UpdateLegStatus(s) ==
  /\ req[s].pc = "write"
  /\ leg' = [leg EXCEPT ![LegId(s)].status = req[s].to]
  /\ delivered' = IF req[s].to = "delivered" THEN delivered \cup {LegId(s)}
                  ELSE delivered
  /\ End(s)
  /\ UNCHANGED <<orphaned, cancelled, byUser, walletVars>>

-----------------------------------------------------------------------------
(* POST /orders/{id}/cancel, by the client or an admin.                    *)

\* Mutant: no check that work has not started.
CancelUnchecked(o) == LegsOf(o) # {}
CancelAllowed(o) == \A i \in LegsOf(o) : cancellable(leg[i].status)

CancelLoad(s, o) ==
  /\ Free(s, o)
  /\ LegsOf(o) # {}
  /\ CancelAllowed(o)
  /\ Start(s, [IdleReq EXCEPT !.op = "cancel", !.pc = "mark", !.order = o])
  /\ UNCHANGED <<leg, historyVars, walletVars>>

\* Every leg of an order to one status.
AllLegs(o, status) ==
  [i \in LegIds |-> IF i \in LegsOf(o) THEN [leg[i] EXCEPT !.status = status]
                    ELSE leg[i]]

\* Mutant: the refund is forgotten.
CancelWithoutRefund(s) ==
  /\ req[s].pc = "mark"
  /\ leg' = AllLegs(req[s].order, "cancelled")
  /\ cancelled' = cancelled \cup {req[s].order}
  /\ End(s)
  /\ UNCHANGED <<orphaned, delivered, byUser, walletVars>>

\* Mutant: the refund is requested although Store.Cancel failed.
CancelIgnoringError(s) ==
  /\ req[s].pc = "mark"
  /\ Step(s, "refund") /\ Arrive(CallOf(s), "refund", req[s].order, None, 0)
  /\ UNCHANGED <<leg, historyVars>>

\* Store.Cancel is two statements.  With both done the refund is requested;
\* when the second fails the handler gives up with the legs cancelled.
Cancel(s) ==
  /\ req[s].pc = "mark"
  /\ leg' = AllLegs(req[s].order, "cancelled")
  /\ cancelled' = cancelled \cup {req[s].order}
  /\ \/ Step(s, "refund") /\ Arrive(CallOf(s), "refund", req[s].order, None, 0)
     \/ Failing /\ End(s) /\ UNCHANGED walletVars
  /\ UNCHANGED <<orphaned, delivered, byUser>>

\* A refund that failed is only logged.
CancelEnd(s) ==
  /\ req[s].pc = "refund"
  /\ Answered(s, TRUE) \/ Answered(s, FALSE) \/ Unanswered(s)
  /\ End(s)
  /\ UNCHANGED <<leg, historyVars>>

-----------------------------------------------------------------------------
(* POST /orders/{id}/confirm-completion, by the client or an admin.        *)

\* Mutant: one delivered leg is enough.
ConfirmAnyReady(o) ==
  \E i \in LegsOf(o) : leg[i].status \in {"delivered", "completed"}
ConfirmAllowed(o) ==
  IsReadyForClientConfirmation({leg[i].status : i \in LegsOf(o)})

ConfirmLoad(s, o) ==
  /\ Free(s, o)
  /\ ConfirmAllowed(o)
  /\ Start(s, [IdleReq EXCEPT !.op = "confirm", !.pc = "complete",
                              !.order = o, !.pay = payees(o)])
  /\ UNCHANGED <<leg, historyVars, walletVars>>

\* CompleteAllLegs: when its second statement fails nobody is paid.
CompleteAllLegs(s) ==
  /\ req[s].pc = "complete"
  /\ leg' = AllLegs(req[s].order, "completed")
  /\ Step(s, "pay") \/ (Failing /\ End(s))
  /\ UNCHANGED <<historyVars, walletVars>>

\* One release per payee of the snapshot; a release that failed is logged and
\* the next payee is paid.
PayNext(s, p) ==
  /\ req[s].pc = "pay"
  /\ p \in req[s].pay
  /\ req' = [req EXCEPT ![s].pc = "paying", ![s].executor = p,
                        ![s].pay = @ \ {p}]
  /\ Arrive(<<s, p>>, "release", req[s].order, p, 0)
  /\ UNCHANGED <<leg, historyVars>>

PayEnd(s) ==
  /\ req[s].pc = "paying"
  /\ Answered(s, TRUE) \/ Answered(s, FALSE) \/ Unanswered(s)
  /\ Step(s, "pay")
  /\ UNCHANGED <<leg, historyVars>>

ConfirmEnd(s) ==
  /\ req[s].pc = "pay"
  /\ req[s].pay = {}
  /\ End(s)
  /\ UNCHANGED <<leg, historyVars, walletVars>>

-----------------------------------------------------------------------------
(* Failures of the orders service itself.                                  *)

\* The write of a status, cancel or confirm request fails: 500, no change.
WriteError(s) ==
  /\ Failing
  /\ req[s].pc \in {"write", "mark", "complete"}
  /\ End(s)
  /\ UNCHANGED <<leg, historyVars, walletVars>>

\* The process stops: every request is gone and every connection to the
\* wallet closed.  What the tables hold stays.
Crash ==
  /\ "stop" \in Faults
  /\ \E s \in Slots : req[s] # IdleReq
  /\ req' = [s \in Slots |-> IdleReq]
  /\ CallerStops(OrderCalls)
  /\ orphaned' = orphaned \cup
       {LegId(s) : s \in {t \in Slots : req[t].pc \in {"open", "rollback"}}}
  /\ UNCHANGED <<leg, delivered, cancelled, byUser>>

-----------------------------------------------------------------------------
\* What clients and executors ask for.
Request(s) ==
  \/ \E i \in LegIds :
       \/ \E e \in Payees : AcceptLoad(s, i, e)
       \/ \E to \in Targets : StatusLoad(s, i, to)
  \/ \E o \in Orders : CancelLoad(s, o) \/ ConfirmLoad(s, o)

\* The next statement of the handler in slot s.
Handle(s) ==
  \/ ClaimLeg(s) \/ ClaimLegError(s) \/ AcceptPaid(s) \/ AcceptUnpaid(s)
  \/ ReleaseLegClaim(s) \/ ReleaseLegClaimError(s)
  \/ UpdateLegStatus(s)
  \/ Cancel(s) \/ CancelEnd(s)
  \/ CompleteAllLegs(s) \/ (\E p \in Payees : PayNext(s, p)) \/ PayEnd(s)
  \/ ConfirmEnd(s)
  \/ WriteError(s)

\* POST /wallet/transactions and POST /wallet/transactions/release are open to
\* every signed-in user, for any order, executor and amount; the user reads the
\* answer or leaves.  (The refund is the orders service's alone.)
UserCall(c) ==
  /\ \/ \E o \in Orders, p \in Payees :
          \/ \E a \in Amounts : Arrive(c, "create", o, p, a)
          \/ Arrive(c, "release", o, p, 0)
     \/ Receive(c) \/ Hangup(c)
  /\ UNCHANGED orderVars

\* What a step of the wallet does with the money of each pair.
MovesNow ==
  {<<"charged", p>> : p \in {q \in Pairs : charges'[q] # charges[q]}}
    \cup {<<tx'[p].status, p>> : p \in {q \in Pairs : tx'[q] # tx[q]}}

\* The wallet at work on one request.  A caller that hung up cancels the
\* context its request runs on.
WalletServes(c) ==
  /\ Serve(c) \/ (("statement" \in Faults \/ ~call[c].open) /\ Fail(c))
  /\ byUser' = IF c \in UserCalls THEN byUser \cup MovesNow ELSE byUser
  /\ UNCHANGED <<leg, req, orphaned, delivered, cancelled>>

WalletStep ==
  \/ \E c \in Calls : WalletServes(c)
  \/ (\E x \in Pcts : SetCommissionPct(x)) /\ UNCHANGED orderVars

Next ==
  \/ \E o \in Orders, shape \in Shapes : CreateOrder(o, shape)
  \/ \E s \in Slots : Request(s) \/ Handle(s)
  \/ Crash
  \/ \E c \in UserCalls : UserCall(c)
  \/ WalletStep

Spec == Init /\ [][Next]_vars

\* A handler always gets on: its statements run on a context that the server
\* or the client ends, and its calls carry the 5 s timeout of svc.Client, so
\* none waits for ever.  The wallet, the clients and the back office owe
\* nothing.
FairSpec == Spec /\ \A s \in Slots : WF_vars(Handle(s))

-----------------------------------------------------------------------------
(* Properties: claims.                                                     *)

\* Slot s has claimed leg i and not yet settled the claim.
Holds(s, i) == req[s].pc \in {"open", "rollback"} /\ LegId(s) = i

\* Two executors racing for a leg cannot both win: at most one accept is past
\* ClaimLeg on a leg, and the row names its executor until it settles, so the
\* unconditional rollback of ReleaseLegClaim can only undo its own claim.
ClaimExclusive ==
  \A i \in LegIds : \A s \in Slots : Holds(s, i) =>
    /\ leg[i].executor = req[s].executor
    /\ \A t \in Slots : Holds(t, i) => t = s

\* A leg never passes from one executor to another: whatever requests do, a
\* claim ends only by being given up.
ClaimNeverStolen ==
  [][\A i \in LegIds : leg[i].executor # None =>
        leg'[i].executor \in {leg[i].executor, None}]_vars

\* Money behind every claim, at its weakest but under all faults: an assigned
\* leg that no accept is still working on has an escrow row of its executor,
\* unless its accept was cut off (a failed rollback, a lost reply of ClaimLeg,
\* a stop of the process).
EscrowBehindClaim ==
  \A i \in LegIds :
    (leg[i].executor # None /\ i \notin orphaned /\ \A s \in Slots : ~Holds(s, i))
      => Opened(<<i[1], leg[i].executor>>)

\* README.md: "a leg never sits assigned with no money behind it".  A leg at
\* rest and not cancelled has its executor's escrow held or paid out.
ClaimHasMoney ==
  \A i \in LegIds :
    (/\ leg[i].executor # None /\ leg[i].status # "cancelled"
     /\ \A s \in Slots : req[s].order # i[1])
      => tx[<<i[1], leg[i].executor>>].status \in {"held", "released"}

\* A claim with no row behind it does not last: the accept that made it opens
\* the escrow or rolls back, unless it was cut off.
Unbacked(i) == leg[i].executor # None /\ ~Opened(<<i[1], leg[i].executor>>)
ClaimSettles ==
  \A i \in LegIds : Unbacked(i) ~> (~Unbacked(i) \/ i \in orphaned)

-----------------------------------------------------------------------------
(* Properties: money.                                                      *)

\* README.md: the parts "sum to the total exactly".  Every escrow row holds the
\* price of one leg, which its executor has: as a leg has one executor, what
\* stands against an order never exceeds the price its client agreed to.
EscrowIsLegPrice ==
  \A p \in Pairs : Opened(p) =>
    \E i \in LegsOf(p[1]) : leg[i].executor = p[2] /\ leg[i].price = tx[p].amount

\* Nobody is paid for an order before all its legs have been delivered: every
\* released row belongs to an order each of whose legs was delivered at some
\* time, however stale the snapshot confirm worked from, unless a user's own
\* request released it.
PaidOnlyAfterDelivery ==
  \A p \in Pairs : tx[p].status = "released" =>
    LegsOf(p[1]) \subseteq delivered \/ <<"released", p>> \in byUser

\* Money goes back to the client only for an order that was cancelled.
RefundOnlyAfterCancel ==
  \A p \in Pairs : tx[p].status = "refunded" => p[1] \in cancelled

\* No order is both called off and paid for, unless a user's own request paid.
CancelledOrPaid ==
  \A p \in Pairs : tx[p].status = "released" =>
    p[1] \notin cancelled \/ <<"released", p>> \in byUser

\* Nothing is going on about order o.
AtRest(o) ==
  /\ \A s \in Slots : req[s].order # o
  /\ \A c \in Calls : call[c].order # o

\* BACKEND_NOTES.md: on cancellation "held escrow is refunded".  A cancelled
\* order at rest has no money held.
CancelRefunds ==
  \A p \in Pairs : p[1] \in cancelled /\ AtRest(p[1]) => tx[p].status # "held"

\* When confirm-completion has gone through, each executor on the order has
\* been paid and nothing of the order is left in escrow.
ConfirmPays ==
  [][\A s \in Slots : req[s].pc = "pay" /\ req'[s].pc = "idle" =>
        \A p \in Pairs : p[1] = req[s].order =>
          /\ tx[p].status # "held"
          /\ p[2] \in payees(p[1]) => tx[p].status = "released"]_vars

-----------------------------------------------------------------------------
(* Properties: the life of a leg.                                          *)

\* legs.go: "a leg never moves backwards"; BACKEND_NOTES.md: "Backward
\* transitions are always rejected".  Between two statuses of the ladder a leg
\* only goes up, save for a claim that is rolled back.
NeverBackwards ==
  [][\A i \in LegIds :
       (/\ Rank(leg[i].status) \in 0..8 /\ Rank(leg'[i].status) \in 0..8
        /\ leg'[i].executor # None)
       => Rank(leg[i].status) <= Rank(leg'[i].status)]_vars

\* The whole life of a leg while requests on an order do not overlap: it goes
\* up the ladder, is cancelled before work starts (BACKEND_NOTES.md: "Once work
\* has started, ORDER_NOT_CANCELLABLE"), or returns to published when its claim
\* is undone; cancelled and completed are final.
LegLifecycle ==
  [][\A i \in LegIds : Has(i) /\ leg'[i].status # leg[i].status =>
       \/ /\ leg'[i].status = "cancelled"
          /\ cancellable(leg[i].status)
       \/ /\ leg[i].status # "cancelled" /\ leg'[i].status # "cancelled"
          /\ Rank(leg[i].status) < Rank(leg'[i].status)
       \/ /\ leg[i].status = "accepted" /\ leg'[i].status = "published"
          /\ leg'[i].executor = None]_vars
-----------------------------------------------------------------------------
(* The abstract contract.                                                  *)

\* Where a leg stands: free, claimed by an accept still at work, cut off when
\* that accept ended half way, or settled.
Phase(i) ==
  IF ~Has(i) THEN "unposted"
  ELSE IF leg[i].executor = None THEN "open"
  ELSE IF \E s \in Slots : Holds(s, i) THEN "claimed"
  ELSE IF i \in orphaned THEN "cutoff" ELSE "settled"

Posting(i) == [phase |-> Phase(i), executor |-> leg[i].executor,
               price |-> leg[i].price]
Board == [i \in LegIds |-> Posting(i)]

\* The charges the orders service has asked for and the wallet has not given up.
Asked == {<<call[c].order, call[c].payee, call[c].amount>> :
            c \in {d \in OrderCalls : call[d].op = "create"}}

\* Orders and wallet keep the contract: whatever requests overlap, time out,
\* fail or die, seen from the tables every leg is taken by one executor at a
\* time and settled only over an open escrow, every charge and every row was
\* asked for by a claim at its leg's price, and money is paid and returned only
\* for orders delivered and called off; save for the money that users charged,
\* put up or released themselves, which is on record as theirs.
Terms == INSTANCE Contract WITH
  escrow  <- tx,
  charged <- {p \in Pairs : charges[p] >= 1},
  board   <- Board,
  asked   <- Asked,
  done    <- delivered,
  off     <- cancelled,
  own     <- byUser
KeepsContract == Terms!ContractSpec
=============================================================================
