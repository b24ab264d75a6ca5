---------------------------- MODULE EscrowProofs ----------------------------
(***************************************************************************)
(* What holds of orders and escrow together, for every set of orders,      *)
(* executors and request slots: first whatever overlaps and fails; then    *)
(* when requests on one order do not overlap, with every fault and with    *)
(* none; then the amounts, when nothing fails but requests overlap; last   *)
(* the refinement of Contract, again whatever overlaps and fails, and what *)
(* it shows.                                                               *)
(***************************************************************************)
EXTENDS Escrow, WalletProofs

-----------------------------------------------------------------------------
(* Types.                                                                  *)

\* A leg nobody created has no executor; one that exists costs an amount.
LegShape(l) == IF l.status = "absent" THEN l.executor = None ELSE l.price \in Amounts
LegsOK == leg \in [LegIds -> LegRow] /\ \A i \in LegIds : LegShape(leg[i])

\* The statements that name a leg.
LegPcs == {"claim", "open", "rollback", "write"}

\* What a request holds at each statement.
ReqShape(r) ==
  /\ r.pc # "idle" => r.order \in Orders
  /\ r.pc \in LegPcs => r.name \in LegNames
  /\ r.pc \in {"claim", "open", "rollback"} => r.op = "accept" /\ r.executor \in Payees
  /\ r.pc = "write" => r.to \in Statuses
  /\ r.pc \in {"mark", "refund"} => r.op = "cancel"
  /\ r.pc \in {"complete", "pay", "paying"} => r.op = "confirm"
  /\ r.pc = "paying" => r.executor \in Payees

\* A request works on a leg that exists.
ReqsOK ==
  /\ req \in [Slots -> ReqRec]
  /\ \A s \in Slots : /\ ReqShape(req[s])
                      /\ req[s].pc \in LegPcs => Has(LegId(s))

HistoryOK == /\ orphaned \subseteq LegIds /\ delivered \subseteq LegIds
             /\ cancelled \subseteq Orders /\ byUser \subseteq Moves

EscrowOK == WalletOK /\ LegsOK /\ ReqsOK /\ HistoryOK

\* Everybody but the orders service at work: the users and the wallet.
Outside == WalletStep \/ (\E c \in UserCalls : UserCall(c))

\* They leave the tables and the requests of the orders service alone.
LEMMA OutsideLeaves ==
  ASSUME Outside \/ UNCHANGED vars
  PROVE  UNCHANGED <<leg, req, orphaned, delivered, cancelled>>
BY DEF Outside, WalletStep, WalletServes, UserCall, vars, orderVars, historyVars

\* No leg is ever deleted.
LegsStay == \A i \in LegIds : Has(i) => Has(i)'

\* The parts of a request that names a leg.
LEMMA ReqParts ==
  ASSUME ReqsOK, NEW s \in Slots
  PROVE  /\ req[s] \in ReqRec
         /\ req[s].pc # "idle" => req[s].order \in Orders
         /\ req[s].pc \in LegPcs => LegId(s) \in LegIds /\ Has(LegId(s))
BY DEF ReqsOK, ReqShape, LegId, LegIds, LegPcs

\* A user's own request: no money moves yet, and no other request is touched.
LEMMA UserSends ==
  ASSUME call \in [Calls -> CallRec], NEW c \in UserCalls, UserCall(c)
  PROVE  /\ c \in Calls \ OrderCalls
         /\ UNCHANGED <<tx, charges, pct, orderVars>>
         /\ \A d \in Calls : d # c => call'[d] = call[d]
         /\ \/ call'[c].op \in {"none", "create", "release"}
            \/ call'[c].op = call[c].op /\ call'[c].order = call[c].order
<1>1. c \in Calls \ OrderCalls
  BY EscrowAssumption
<1>2. UNCHANGED <<tx, charges, pct, orderVars>>
  BY DEF UserCall, Arrive, Receive, Hangup
<1>3. \A d \in Calls : d # c => call'[d] = call[d]
  BY DEF UserCall, Arrive, Receive, Hangup
<1>4. \/ call'[c].op \in {"none", "create", "release"}
      \/ call'[c].op = call[c].op /\ call'[c].order = call[c].order
  <2>1. ASSUME NEW op, NEW o, NEW p, NEW a, Arrive(c, op, o, p, a)
        PROVE  call'[c].op = op
    BY <1>1, <2>1 DEF Arrive
  <2>2. CASE Receive(c)
    BY <1>1, <2>2 DEF Receive, IdleCall
  <2>3. CASE Hangup(c)
    BY <1>1, <2>3 DEF Hangup, Closed, IdleCall, CallRec
  <2> QED BY <2>1, <2>2, <2>3 DEF UserCall
<1> QED BY <1>1, <1>2, <1>3, <1>4

\* Replacing one request by a well-formed one.
LEMMA ReqUpdate ==
  ASSUME ReqsOK, LegsStay, NEW s \in Slots, NEW r \in ReqRec, ReqShape(r),
         r.pc \in LegPcs => leg[<<r.order, r.name>>].status # "absent",
         req' = [req EXCEPT ![s] = r]
  PROVE  ReqsOK'
<1>1. req' \in [Slots -> ReqRec]
  BY DEF ReqsOK
<1>2. ASSUME NEW t \in Slots
      PROVE  /\ ReqShape(req'[t])
             /\ req'[t].pc \in LegPcs => leg'[<<req'[t].order, req'[t].name>>].status # "absent"
  <2>1. CASE t = s
    <3>1. req'[t] = r
      BY <2>1 DEF ReqsOK
    <3>2. r.pc \in LegPcs => <<r.order, r.name>> \in LegIds
      BY DEF ReqShape, LegIds, LegPcs
    <3> QED BY <3>1, <3>2 DEF LegsStay, Has
  <2>2. CASE t # s
    <3>1. req'[t] = req[t] /\ ReqShape(req[t])
      BY <2>2 DEF ReqsOK
    <3>2. req[t].pc \in LegPcs => LegId(t) \in LegIds /\ Has(LegId(t))
      BY ReqParts
    <3> QED BY <3>1, <3>2 DEF LegsStay, Has, LegId
  <2> QED BY <2>1, <2>2
<1> QED BY <1>1, <1>2 DEF ReqsOK, Has, LegId

\* A free slot is well formed.
LEMMA IdleReqOK == IdleReq \in ReqRec /\ ReqShape(IdleReq) /\ IdleReq.pc \notin LegPcs
BY DEF IdleReq, ReqRec, ReqShape, LegPcs

\* A request that ends leaves the others well formed.
LEMMA EndOK ==
  ASSUME ReqsOK, LegsStay, NEW s \in Slots, End(s)
  PROVE  ReqsOK'
BY IdleReqOK, ReqUpdate DEF End

\* Going on to the next statement, on the data the request already has.
LEMMA StepOK ==
  ASSUME ReqsOK, LegsStay, NEW s \in Slots,
         \/ Step(s, "rollback") /\ req[s].pc = "open"
         \/ Step(s, "open") /\ req[s].pc = "claim"
         \/ Step(s, "refund") /\ req[s].pc = "mark"
         \/ Step(s, "pay") /\ req[s].pc \in {"complete", "paying"}
  PROVE  ReqsOK'
<1> DEFINE r(pc) == [req[s] EXCEPT !.pc = pc]
<1>1. /\ req[s] \in ReqRec /\ ReqShape(req[s])
      /\ req[s].pc \in LegPcs => leg[<<req[s].order, req[s].name>>].status # "absent"
  BY DEF ReqsOK, Has, LegId
<1>2. ASSUME NEW pc \in {"rollback", "open", "refund", "pay"},
             req' = [req EXCEPT ![s] = r(pc)],
             ReqShape(r(pc)), pc \in LegPcs => req[s].pc \in LegPcs
      PROVE  ReqsOK'
  <2>1. /\ r(pc) \in ReqRec /\ r(pc).pc = pc
        /\ r(pc).order = req[s].order /\ r(pc).name = req[s].name
    BY <1>1 DEF ReqRec
  <2> QED BY <1>1, <1>2, <2>1, ReqUpdate
<1>3. CASE Step(s, "rollback") /\ req[s].pc = "open"
  <2>1. ReqShape(r("rollback"))
    BY <1>1, <1>3 DEF ReqShape, ReqRec, LegPcs
  <2> QED BY <1>2, <1>3, <2>1 DEF Step, LegPcs
<1>4. CASE Step(s, "open") /\ req[s].pc = "claim"
  <2>1. ReqShape(r("open"))
    BY <1>1, <1>4 DEF ReqShape, ReqRec, LegPcs
  <2> QED BY <1>2, <1>4, <2>1 DEF Step, LegPcs
<1>5. CASE Step(s, "refund") /\ req[s].pc = "mark"
  <2>1. ReqShape(r("refund"))
    BY <1>1, <1>5 DEF ReqShape, ReqRec, LegPcs
  <2> QED BY <1>2, <1>5, <2>1 DEF Step, LegPcs
<1>6. CASE Step(s, "pay") /\ req[s].pc \in {"complete", "paying"}
  <2>1. ReqShape(r("pay"))
    BY <1>1, <1>6 DEF ReqShape, ReqRec, LegPcs
  <2> QED BY <1>2, <1>6, <2>1 DEF Step, LegPcs
<1> QED BY <1>3, <1>4, <1>5, <1>6

-----------------------------------------------------------------------------
(* The wallet within the whole system.                                     *)

\* The call of a request that names its executor is a slot of the wallet.
LEMMA CallOfOK ==
  ASSUME NEW s \in Slots, req[s].op # "cancel" => req[s].executor \in Payees
  PROVE  CallOf(s) \in OrderCalls /\ CallOf(s) \in Calls
BY EscrowAssumption DEF CallOf, OrderCalls

\* Whatever the orders service does is, seen from the wallet, a caller at work
\* or nothing.
LEMMA WalletSteps ==
  ASSUME EscrowOK, [Next]_vars
  PROVE  [WalletNext]_walletVars
<1> USE EscrowAssumption
<1>1. CASE UNCHANGED walletVars
  BY <1>1
<1>2. CASE WalletStep
  BY <1>2 DEF WalletStep, WalletServes, WalletNext
<1>3. CASE Crash
  <2>1. OrderCalls \subseteq Calls
    OBVIOUS
  <2> QED BY <1>3, <2>1 DEF Crash, WalletNext
<1>4. ASSUME NEW c \in Calls, Caller(c) PROVE WalletNext
  BY <1>4 DEF WalletNext
<1>5. ASSUME NEW s \in Slots, ClaimLeg(s) PROVE [WalletNext]_walletVars
  <2>1. /\ req[s].op = "accept" /\ req[s].order \in Orders /\ req[s].executor \in Payees
        /\ LegId(s) \in LegIds
    BY <1>5, ReqParts DEF EscrowOK, ReqsOK, ReqShape, ClaimLeg, LegPcs
  <2>2. CASE Claimable(LegId(s)) /\ Arrive(CallOf(s), "create", req[s].order,
                                         req[s].executor, EscrowAmount(LegId(s)))
    <3>1. EscrowAmount(LegId(s)) \in Amounts
      BY <2>1, <2>2 DEF EscrowOK, LegsOK, LegShape, Claimable, EscrowAmount
    <3>2. CallOf(s) \in Calls
      BY <2>1, CallOfOK
    <3>3. Caller(CallOf(s))
      BY <2>1, <2>2, <3>1 DEF Caller
    <3> QED BY <1>4, <3>2, <3>3
  <2> QED BY <1>1, <1>5, <2>2 DEF ClaimLeg
<1>6. ASSUME NEW s \in Slots, Receive(CallOf(s)) \/ Hangup(CallOf(s)),
             req[s].op # "cancel" => req[s].executor \in Payees
      PROVE  WalletNext
  BY <1>4, <1>6, CallOfOK DEF Caller
<1>7. ASSUME NEW s \in Slots, AcceptPaid(s) \/ AcceptUnpaid(s) \/ CancelEnd(s) \/ PayEnd(s)
      PROVE  WalletNext
  <2>1. Receive(CallOf(s)) \/ Hangup(CallOf(s))
    BY <1>7 DEF AcceptPaid, AcceptUnpaid, CancelEnd, PayEnd, Answered, Unanswered
  <2>2. req[s].op # "cancel" => req[s].executor \in Payees
    BY <1>7 DEF AcceptPaid, AcceptUnpaid, CancelEnd, PayEnd, EscrowOK, ReqsOK, ReqShape
  <2> QED BY <1>6, <2>1, <2>2
<1>8. ASSUME NEW s \in Slots, Cancel(s) PROVE [WalletNext]_walletVars
  <2>1. req[s].op = "cancel" /\ req[s].order \in Orders
    BY <1>8 DEF Cancel, EscrowOK, ReqsOK, ReqShape
  <2>2. CASE Arrive(CallOf(s), "refund", req[s].order, None, 0)
    BY <1>4, <2>1, <2>2, CallOfOK DEF Caller
  <2> QED BY <1>1, <1>8, <2>2 DEF Cancel
<1>9. ASSUME NEW s \in Slots, NEW p \in Payees, PayNext(s, p) PROVE WalletNext
  <2>1. <<s, p>> \in Calls /\ req[s].order \in Orders
    BY <1>9 DEF PayNext, EscrowOK, ReqsOK, ReqShape, OrderCalls
  <2>2. Caller(<<s, p>>)
    BY <1>9, <2>1 DEF PayNext, Caller
  <2> QED BY <1>4, <2>1, <2>2
<1>10. ASSUME NEW s \in Slots, Request(s) PROVE UNCHANGED walletVars
  BY <1>10 DEF Request, AcceptLoad, StatusLoad, CancelLoad, ConfirmLoad
<1>11. ASSUME NEW s \in Slots,
              \/ ClaimLegError(s) \/ ReleaseLegClaim(s) \/ ReleaseLegClaimError(s)
              \/ UpdateLegStatus(s) \/ CompleteAllLegs(s) \/ ConfirmEnd(s)
              \/ WriteError(s)
       PROVE  UNCHANGED walletVars
  BY <1>11 DEF ClaimLegError, ReleaseLegClaim, ReleaseLegClaimError,
     UpdateLegStatus, CompleteAllLegs, ConfirmEnd, WriteError
<1>12. ASSUME NEW s \in Slots, Handle(s) PROVE [WalletNext]_walletVars
  BY <1>1, <1>5, <1>7, <1>8, <1>9, <1>11, <1>12 DEF Handle
<1>13. ASSUME NEW o \in Orders, NEW sh \in Shapes, CreateOrder(o, sh)
       PROVE  UNCHANGED walletVars
  BY <1>13 DEF CreateOrder
<1>14. CASE UNCHANGED vars
  BY <1>1, <1>14 DEF vars
<1>15. ASSUME NEW c \in UserCalls, UserCall(c) PROVE WalletNext
  BY <1>4, <1>15 DEF UserCall, Caller
<1> QED BY <1>1, <1>2, <1>3, <1>10, <1>12, <1>13, <1>14, <1>15 DEF Next

-----------------------------------------------------------------------------
(* The table of legs.                                                      *)

\* What any step may do to a leg: it stays a well-formed row, is not deleted,
\* is only created with its order, and an executor it names is not replaced by
\* another.
LegMoves(i) ==
  /\ leg'[i] \in LegRow /\ LegShape(leg'[i])
  /\ Has(i) => Has(i)'
  /\ Has(i)' => Has(i) \/ LegsOf(i[1]) = {}
  /\ leg[i].executor # None => leg'[i].executor \in {leg[i].executor, None}
LegsMove == leg' \in [LegIds -> LegRow] /\ \A i \in LegIds : LegMoves(i)

\* A leg that is read is a well-formed row.
LEMMA LegRead ==
  ASSUME LegsOK, NEW i \in LegIds
  PROVE  leg[i] \in LegRow /\ LegShape(leg[i])
BY DEF LegsOK

\* One leg written, with an executor it already has, or none, or its first.
LEMMA LegWrite ==
  ASSUME LegsOK, NEW i \in LegIds, Has(i), NEW r \in LegRow,
         leg' = [leg EXCEPT ![i] = r],
         r.status # "absent", r.price = leg[i].price,
         leg[i].executor # None => r.executor \in {leg[i].executor, None}
  PROVE  LegsMove
<1>1. leg' \in [LegIds -> LegRow]
  BY DEF LegsOK
<1>2. ASSUME NEW j \in LegIds PROVE LegMoves(j)
  <2>1. leg[i] \in LegRow /\ LegShape(leg[i]) /\ leg[j] \in LegRow /\ LegShape(leg[j])
    BY LegRead
  <2>2. CASE j = i
    <3>1. leg'[j] = r
      BY <2>2 DEF LegsOK
    <3> QED BY <2>1, <2>2, <3>1 DEF LegMoves, LegShape, Has
  <2>3. CASE j # i
    <3>1. leg'[j] = leg[j]
      BY <2>3 DEF LegsOK
    <3> QED BY <2>1, <3>1 DEF LegMoves, LegShape, Has
  <2> QED BY <2>2, <2>3
<1> QED BY <1>1, <1>2 DEF LegsMove

\* All legs of an order set to one status.
LEMMA AllLegsWrite ==
  ASSUME LegsOK, NEW o, NEW st \in Statuses, leg' = AllLegs(o, st)
  PROVE  LegsMove
<1>0. "absent" \notin Statuses
  BY DEF Statuses
<1>1. ASSUME NEW i \in LegIds PROVE LegMoves(i)
  <2>1. leg[i] \in LegRow /\ LegShape(leg[i])
    BY LegRead
  <2>2. leg'[i] = leg[i] \/ (Has(i) /\ leg'[i] = [leg[i] EXCEPT !.status = st])
    BY DEF AllLegs, LegsOf
  <2>3. [leg[i] EXCEPT !.status = st] \in LegRow
    BY <2>1 DEF LegRow
  <2> QED BY <1>0, <2>1, <2>2, <2>3 DEF LegMoves, LegShape, LegRow, Has
<1>2. leg' \in [LegIds -> LegRow]
  BY <1>1 DEF AllLegs, LegMoves
<1> QED BY <1>1, <1>2 DEF LegsMove

\* A new order writes only rows that were not there.
LEMMA CreateWrite ==
  ASSUME LegsOK, NEW o \in Orders, NEW sh \in Shapes, CreateOrder(o, sh)
  PROVE  LegsMove
<1>0. \A l \in DOMAIN sh : sh[l] \in Amounts /\ sh[l] \in Int
  BY EscrowAssumption, WalletAssumption
<1>1. ASSUME NEW i \in LegIds PROVE LegMoves(i)
  <2>1. leg[i] \in LegRow /\ LegShape(leg[i])
    BY LegRead
  <2>2. CASE i[1] = o /\ i[2] \in DOMAIN sh
    <3>1. leg'[i] = [status |-> "published", executor |-> None, price |-> sh[i[2]]]
      BY <2>2 DEF CreateOrder
    <3>2. ~Has(i) /\ LegsOf(i[1]) = {}
      BY <2>2 DEF CreateOrder, LegsOf
    <3> QED BY <1>0, <2>1, <2>2, <3>1, <3>2
            DEF LegMoves, LegShape, LegRow, Has, Statuses
  <2>3. CASE ~(i[1] = o /\ i[2] \in DOMAIN sh)
    <3>1. leg'[i] = leg[i]
      BY <2>3 DEF CreateOrder
    <3> QED BY <2>1, <3>1 DEF LegMoves, LegShape, Has
  <2> QED BY <2>2, <2>3
<1>2. leg' \in [LegIds -> LegRow]
  BY <1>1 DEF CreateOrder, LegMoves
<1> QED BY <1>1, <1>2 DEF LegsMove

\* Nothing written.
LEMMA NoWrite ==
  ASSUME LegsOK, UNCHANGED leg
  PROVE  LegsMove
BY LegRead DEF LegsOK, LegsMove, LegMoves, Has

\* A claim: the leg had no executor.
LEMMA ClaimWrite ==
  ASSUME LegsOK, NEW i \in LegIds, Claimable(i), NEW e \in Payees,
         leg' = Claimed(i, e)
  PROVE  LegsMove
<1> DEFINE r == [leg[i] EXCEPT !.executor = e, !.status = "accepted"]
<1>1. leg[i] \in LegRow
  BY LegRead
<1>2. r \in LegRow /\ r.status # "absent" /\ r.price = leg[i].price
  BY <1>1 DEF LegRow, Statuses
<1>3. leg' = [leg EXCEPT ![i] = r]
  BY DEF Claimed, LegsOK
<1>4. Has(i) /\ leg[i].executor = None
  BY DEF Claimable, Has
<1> QED BY <1>2, <1>3, <1>4, LegWrite

\* One step of the system on the legs.
LEMMA LegsNext ==
  ASSUME EscrowOK, [Next]_vars
  PROVE  LegsMove
<1>0. LegsOK /\ ReqsOK
  BY DEF EscrowOK
<1>1. CASE UNCHANGED leg
  BY <1>0, <1>1, NoWrite
<1>2. ASSUME NEW s \in Slots, ClaimLeg(s) \/ ClaimLegError(s) PROVE LegsMove
  <2>1. LegId(s) \in LegIds /\ req[s].executor \in Payees
    BY <1>0, <1>2, ReqParts DEF ClaimLeg, ClaimLegError, ReqsOK, ReqShape, LegPcs
  <2> QED BY <1>0, <1>1, <1>2, <2>1, ClaimWrite DEF ClaimLeg, ClaimLegError
<1>3. ASSUME NEW s \in Slots, ReleaseLegClaim(s) PROVE LegsMove
  <2> DEFINE i == LegId(s)
             r == [leg[i] EXCEPT !.executor = None, !.status = "published"]
  <2>1. i \in LegIds /\ Has(i)
    BY <1>0, <1>3, ReqParts DEF ReleaseLegClaim, LegPcs
  <2>2. leg[i] \in LegRow
    BY <1>0, <2>1, LegRead
  <2>3. r \in LegRow /\ r.status # "absent" /\ r.price = leg[i].price /\ r.executor = None
    BY <2>2 DEF LegRow, Statuses
  <2>4. leg' = [leg EXCEPT ![i] = r]
    BY <1>0, <1>3 DEF ReleaseLegClaim, ReleasedClaim, LegsOK
  <2> QED BY <1>0, <2>1, <2>3, <2>4, LegWrite
<1>4. ASSUME NEW s \in Slots, UpdateLegStatus(s) PROVE LegsMove
  <2> DEFINE i == LegId(s)
             r == [leg[i] EXCEPT !.status = req[s].to]
  <2>1. i \in LegIds /\ Has(i) /\ req[s].to \in Statuses
    BY <1>0, <1>4, ReqParts DEF UpdateLegStatus, LegPcs, ReqsOK, ReqShape
  <2>2. leg[i] \in LegRow /\ "absent" \notin Statuses
    BY <1>0, <2>1, LegRead DEF Statuses
  <2>3. r \in LegRow /\ r.status # "absent" /\ r.price = leg[i].price
        /\ r.executor = leg[i].executor
    BY <2>1, <2>2 DEF LegRow
  <2>4. leg' = [leg EXCEPT ![i] = r]
    BY <1>4 DEF UpdateLegStatus
  <2> QED BY <1>0, <2>1, <2>3, <2>4, LegWrite
<1>5. ASSUME NEW s \in Slots, Cancel(s) \/ CompleteAllLegs(s) PROVE LegsMove
  <2>1. {"cancelled", "completed"} \subseteq Statuses
    BY DEF Statuses
  <2> QED BY <1>0, <1>5, <2>1, AllLegsWrite DEF Cancel, CompleteAllLegs
<1>6. ASSUME NEW s \in Slots, Handle(s) PROVE LegsMove
  BY <1>1, <1>2, <1>3, <1>4, <1>5, <1>6
     DEF Handle, AcceptPaid, AcceptUnpaid, ReleaseLegClaimError, CancelEnd,
         PayNext, PayEnd, ConfirmEnd, WriteError
<1>7. ASSUME NEW s \in Slots, Request(s) PROVE UNCHANGED leg
  BY <1>7 DEF Request, AcceptLoad, StatusLoad, CancelLoad, ConfirmLoad
<1>8. Outside \/ Crash \/ UNCHANGED vars => UNCHANGED leg
  BY OutsideLeaves DEF Crash
<1> QED BY <1>0, <1>1, <1>6, <1>7, <1>8, CreateWrite DEF Next, Outside

-----------------------------------------------------------------------------
(* The requests in flight.                                                 *)

\* Legs that move as they may stay.
LEMMA MoveStay == LegsMove => LegsStay
BY DEF LegsMove, LegMoves, LegsStay

\* A request that starts.
LEMMA RequestReqs ==
  ASSUME LegsOK, ReqsOK, LegsStay, NEW s \in Slots, Request(s)
  PROVE  ReqsOK'
<1>1. ASSUME NEW i \in LegIds, NEW e \in Payees, AcceptLoad(s, i, e)
      PROVE  ReqsOK'
  <2> DEFINE r == [IdleReq EXCEPT !.op = "accept", !.pc = "claim", !.order = i[1],
                                  !.name = i[2], !.executor = e]
  <2>0. i[1] \in Orders /\ i[2] \in LegNames /\ i = <<i[1], i[2]>>
    BY DEF LegIds
  <2>1. r \in ReqRec /\ ReqShape(r)
    BY <2>0 DEF IdleReq, ReqRec, ReqShape, LegPcs
  <2>2. <<r.order, r.name>> = i
    BY <2>0 DEF IdleReq
  <2>3. leg[<<r.order, r.name>>].status # "absent" /\ req' = [req EXCEPT ![s] = r]
    BY <1>1, <2>2 DEF AcceptLoad, Start, Has
  <2> HIDE DEF r
  <2> QED BY <2>1, <2>3, ReqUpdate
<1>2. ASSUME NEW i \in LegIds, NEW to \in Targets, StatusLoad(s, i, to)
      PROVE  ReqsOK'
  <2> DEFINE r == [IdleReq EXCEPT !.op = "status", !.pc = "write", !.order = i[1],
                                  !.name = i[2], !.to = to]
  <2>0. i[1] \in Orders /\ i[2] \in LegNames /\ i = <<i[1], i[2]>>
    BY DEF LegIds
  <2>1. r \in ReqRec /\ ReqShape(r)
    BY <2>0, EscrowAssumption DEF IdleReq, ReqRec, ReqShape, LegPcs
  <2>2. <<r.order, r.name>> = i
    BY <2>0 DEF IdleReq
  <2>3. leg[<<r.order, r.name>>].status # "absent" /\ req' = [req EXCEPT ![s] = r]
    BY <1>2, <2>2 DEF StatusLoad, Start, Has
  <2> HIDE DEF r
  <2> QED BY <2>1, <2>3, ReqUpdate
<1>3. ASSUME NEW o \in Orders, CancelLoad(s, o)
      PROVE  ReqsOK'
  <2> DEFINE r == [IdleReq EXCEPT !.op = "cancel", !.pc = "mark", !.order = o]
  <2>1. r \in ReqRec /\ ReqShape(r) /\ r.pc \notin LegPcs
    BY DEF IdleReq, ReqRec, ReqShape, LegPcs
  <2>2. req' = [req EXCEPT ![s] = r]
    BY <1>3 DEF CancelLoad, Start
  <2> HIDE DEF r
  <2> QED BY <2>1, <2>2, ReqUpdate
<1>4. ASSUME NEW o \in Orders, ConfirmLoad(s, o)
      PROVE  ReqsOK'
  <2> DEFINE r == [IdleReq EXCEPT !.op = "confirm", !.pc = "complete",
                                  !.order = o, !.pay = payees(o)]
  <2>1. payees(o) \subseteq Payees
    BY LegRead DEF payees, LegsOf, LegRow
  <2>2. r \in ReqRec /\ ReqShape(r) /\ r.pc \notin LegPcs
    BY <2>1 DEF IdleReq, ReqRec, ReqShape, LegPcs
  <2>3. req' = [req EXCEPT ![s] = r]
    BY <1>4 DEF ConfirmLoad, Start
  <2> HIDE DEF r
  <2> QED BY <2>2, <2>3, ReqUpdate
<1> QED BY <1>1, <1>2, <1>3, <1>4 DEF Request

\* The next statement of a handler.
LEMMA HandleReqs ==
  ASSUME ReqsOK, LegsStay, NEW s \in Slots, Handle(s)
  PROVE  ReqsOK'
<1>1. CASE ClaimLeg(s) \/ AcceptUnpaid(s) \/ Cancel(s) \/ CompleteAllLegs(s) \/ PayEnd(s)
  BY <1>1, EndOK, StepOK DEF ClaimLeg, AcceptUnpaid, Cancel, CompleteAllLegs, PayEnd
<1>2. CASE \/ ClaimLegError(s) \/ AcceptPaid(s) \/ ReleaseLegClaim(s)
           \/ ReleaseLegClaimError(s) \/ UpdateLegStatus(s) \/ CancelEnd(s)
           \/ ConfirmEnd(s) \/ WriteError(s)
  BY <1>2, EndOK DEF ClaimLegError, AcceptPaid, ReleaseLegClaim,
     ReleaseLegClaimError, UpdateLegStatus, CancelEnd, ConfirmEnd, WriteError
<1>3. ASSUME NEW p \in Payees, PayNext(s, p) PROVE ReqsOK'
  <2> DEFINE r == [req[s] EXCEPT !.pc = "paying", !.executor = p, !.pay = @ \ {p}]
  <2>1. req[s] \in ReqRec /\ ReqShape(req[s]) /\ req[s].pc = "pay"
    BY <1>3 DEF ReqsOK, PayNext
  <2>2. r \in ReqRec
    BY <2>1 DEF ReqRec
  <2>3. ReqShape(r) /\ r.pc \notin LegPcs
    BY <2>1 DEF ReqRec, ReqShape, LegPcs
  <2>4. req' = [req EXCEPT ![s] = r]
    BY <1>3 DEF PayNext
  <2> HIDE DEF r
  <2> QED BY <2>2, <2>3, <2>4, ReqUpdate
<1> QED BY <1>1, <1>2, <1>3 DEF Handle

\* One step of the system on the requests.
LEMMA ReqsNext ==
  ASSUME EscrowOK, LegsStay, [Next]_vars
  PROVE  ReqsOK'
<1>0. LegsOK /\ ReqsOK
  BY DEF EscrowOK
<1>1. CASE UNCHANGED req
  <2>1. \A s \in Slots : req[s].pc \in LegPcs => LegId(s) \in LegIds /\ Has(LegId(s))
    BY <1>0, ReqParts
  <2> QED BY <1>0, <1>1, <2>1 DEF ReqsOK, LegsStay, LegId, Has
<1>2. CASE Crash
  BY <1>2, IdleReqOK DEF Crash, ReqsOK
<1>3. ASSUME NEW s \in Slots, Request(s) \/ Handle(s) PROVE ReqsOK'
  BY <1>0, <1>3, RequestReqs, HandleReqs
<1>4. ASSUME NEW o \in Orders, NEW sh \in Shapes, CreateOrder(o, sh) PROVE UNCHANGED req
  BY <1>4 DEF CreateOrder
<1>5. Outside \/ UNCHANGED vars => UNCHANGED req
  BY OutsideLeaves
<1> QED BY <1>1, <1>2, <1>3, <1>4, <1>5 DEF Next, Outside

-----------------------------------------------------------------------------
(* Type correctness, and the wallet inside the system.                     *)

\* The histories name legs and orders that exist.
LEMMA HistoryNext ==
  ASSUME EscrowOK, [Next]_vars
  PROVE  HistoryOK'
<1>0. ReqsOK /\ HistoryOK
  BY DEF EscrowOK
<1>1. CASE UNCHANGED historyVars
  BY <1>0, <1>1 DEF HistoryOK, historyVars
<1>2. ASSUME NEW s \in Slots, ClaimLegError(s) \/ ReleaseLegClaimError(s)
      PROVE  HistoryOK'
  <2>1. LegId(s) \in LegIds
    BY <1>0, <1>2, ReqParts DEF ClaimLegError, ReleaseLegClaimError, LegPcs
  <2> QED BY <1>0, <1>2, <2>1 DEF ClaimLegError, ReleaseLegClaimError, HistoryOK
<1>3. ASSUME NEW s \in Slots, UpdateLegStatus(s) PROVE HistoryOK'
  <2>1. LegId(s) \in LegIds
    BY <1>0, <1>3, ReqParts DEF UpdateLegStatus, LegPcs
  <2> QED BY <1>0, <1>3, <2>1 DEF UpdateLegStatus, HistoryOK
<1>4. ASSUME NEW s \in Slots, Cancel(s) PROVE HistoryOK'
  <2>1. req[s].order \in Orders
    BY <1>0, <1>4, ReqParts DEF Cancel
  <2> QED BY <1>0, <1>4, <2>1 DEF Cancel, HistoryOK
<1>5. CASE Crash
  <2>1. {LegId(s) : s \in {t \in Slots : req[t].pc \in {"open", "rollback"}}} \subseteq LegIds
    BY <1>0, ReqParts DEF LegPcs
  <2> QED BY <1>0, <1>5, <2>1 DEF Crash, HistoryOK
<1>6. ASSUME NEW s \in Slots, Handle(s) PROVE HistoryOK'
  BY <1>1, <1>2, <1>3, <1>4, <1>6
     DEF Handle, ClaimLeg, AcceptPaid, AcceptUnpaid, ReleaseLegClaim, CancelEnd,
         CompleteAllLegs, PayNext, PayEnd, ConfirmEnd, WriteError
<1>7. ASSUME NEW s \in Slots, Request(s) PROVE UNCHANGED historyVars
  BY <1>7 DEF Request, AcceptLoad, StatusLoad, CancelLoad, ConfirmLoad
<1>8. ASSUME NEW o \in Orders, NEW sh \in Shapes, CreateOrder(o, sh)
      PROVE  UNCHANGED historyVars
  BY <1>8 DEF CreateOrder
<1>9. CASE Outside
  <2>1. byUser' \subseteq byUser \cup MovesNow
    BY <1>9 DEF Outside, WalletStep, WalletServes, UserCall, orderVars, historyVars
  <2>2. MovesNow \subseteq Moves
    <3>1. \A p \in Pairs : tx'[p] = tx[p] \/ tx'[p].status \in TxStatus
      BY WalletSteps, RowsMove DEF EscrowOK
    <3> QED BY <3>1 DEF MovesNow, Moves, TxStatus
  <2> QED BY <1>0, <1>9, <2>1, <2>2, OutsideLeaves DEF HistoryOK
<1>10. CASE UNCHANGED vars
  BY <1>1, <1>10 DEF vars, orderVars
<1> QED BY <1>1, <1>5, <1>6, <1>7, <1>8, <1>9, <1>10 DEF Next, Outside

\* The invariant is inductive.
LEMMA EscrowNext ==
  ASSUME EscrowOK, [Next]_vars
  PROVE  EscrowOK'
<1>1. WalletOK'
  BY WalletSteps, WalletNextType DEF EscrowOK
<1>2. LegsMove
  BY LegsNext
<1>3. LegsOK'
  BY <1>2 DEF LegsMove, LegMoves, LegsOK
<1>4. ReqsOK'
  BY <1>2, MoveStay, ReqsNext
<1> QED BY <1>1, <1>3, <1>4, HistoryNext DEF EscrowOK

\* The system starts with no order and no request.
LEMMA EscrowInit == Init => EscrowOK
<1> SUFFICES ASSUME Init PROVE EscrowOK
  OBVIOUS
<1>1. WalletOK
  BY WalletInitType DEF Init
<1>2. LegsOK
  BY DEF Init, LegsOK, NoLeg, LegRow, LegShape
<1>3. ReqsOK
  BY IdleReqOK DEF Init, ReqsOK
<1> QED BY <1>1, <1>2, <1>3 DEF Init, EscrowOK, HistoryOK

\* Every reachable state is well typed, for all orders, executors and slots.
THEOREM TypeCorrect == Spec => []TypeOK
<1>1. EscrowOK => TypeOK
  BY DEF EscrowOK, WalletOK, LegsOK, ReqsOK, HistoryOK, TypeOK
<1> QED BY <1>1, EscrowInit, EscrowNext, PTL DEF Spec

\* The orders service is a caller the wallet is ready for: every behaviour of
\* the whole system is, on the wallet's variables, a behaviour of the wallet
\* alone, so all that WalletProofs shows of WalletSpec holds here.
THEOREM OrdersUseWallet == Spec => WalletSpec
<1>1. Init => WalletInit
  BY DEF Init
<1> QED BY <1>1, EscrowInit, EscrowNext, WalletSteps, PTL DEF Spec, WalletSpec

\* No escrow row of any order exists without a successful charge of its pair,
\* whatever the handlers, the timeouts and the failures do.
THEOREM EscrowIsCharged == Spec => []RowsAreCharged
BY OrdersUseWallet, RowsAlwaysCharged, PTL

\* Seen from the wallet's tables the whole system is a ledger: every pair is
\* charged, then opened once, then closed once.
THEOREM OrdersKeepLedger == Spec => KeepsLedger
BY OrdersUseWallet, WalletKeepsLedger, PTL

\* A leg never passes from one executor to another.
THEOREM ClaimsNeverStolen == Spec => ClaimNeverStolen
<1>1. EscrowOK /\ [Next]_vars =>
        [\A i \in LegIds : leg[i].executor # None =>
           leg'[i].executor \in {leg[i].executor, None}]_vars
  BY LegsNext DEF LegsMove, LegMoves
<1> QED BY <1>1, EscrowInit, EscrowNext, PTL DEF Spec, ClaimNeverStolen

-----------------------------------------------------------------------------
(* Claims are exclusive.                                                   *)

\* A step after which whoever holds a claim held it before, under the same
\* executor, and the executors of claimed legs are what they were.
HoldsStay ==
  \A s \in Slots, i \in LegIds : Holds(s, i)' =>
    /\ Holds(s, i)
    /\ req'[s].executor = req[s].executor
    /\ leg'[i].executor = leg[i].executor

\* Such a step keeps claims exclusive.
LEMMA HoldsStayExclusive ==
  ASSUME ClaimExclusive, HoldsStay
  PROVE  ClaimExclusive'
BY DEF ClaimExclusive, HoldsStay

\* A step of one request that does not begin or end a claim by name, while all
\* executors stay.
LEMMA OtherHolds ==
  ASSUME ReqsOK, NEW s \in Slots, NEW r,
         req' = [req EXCEPT ![s] = r],
         r.pc \in {"open", "rollback"} =>
           /\ req[s].pc \in {"open", "rollback"}
           /\ <<r.order, r.name>> = LegId(s) /\ r.executor = req[s].executor,
         \A i \in LegIds : Has(i) => leg'[i].executor = leg[i].executor
  PROVE  HoldsStay
<1> SUFFICES ASSUME NEW t \in Slots, NEW i \in LegIds, Holds(t, i)'
             PROVE  /\ Holds(t, i)
                    /\ req'[t].executor = req[t].executor
                    /\ leg'[i].executor = leg[i].executor
  BY DEF HoldsStay
<1>1. req'[t].pc \in {"open", "rollback"} /\ <<req'[t].order, req'[t].name>> = i
  BY DEF Holds, LegId
<1>2. req' \in [Slots -> {r} \cup ReqRec] /\ req \in [Slots -> ReqRec]
  BY DEF ReqsOK
<1>3. Holds(t, i) /\ req'[t].executor = req[t].executor
  <2>1. CASE t = s
    <3>1. req'[t] = r
      BY <1>2, <2>1
    <3> QED BY <1>1, <2>1, <3>1 DEF Holds
  <2>2. CASE t # s
    <3>1. req'[t] = req[t]
      BY <1>2, <2>2
    <3> QED BY <1>1, <3>1 DEF Holds, LegId
  <2> QED BY <2>1, <2>2
<1>4. Has(i)
  BY <1>3, ReqParts DEF Holds, LegPcs
<1> QED BY <1>3, <1>4

\* The executors of an order's legs survive a change of their status.
LEMMA StatusKeepsExecutor ==
  ASSUME LegsOK, NEW o, NEW st, leg' = AllLegs(o, st), NEW i \in LegIds
  PROVE  leg'[i].executor = leg[i].executor
<1>1. leg[i] \in LegRow
  BY LegRead
<1> QED BY <1>1 DEF AllLegs, LegRow

\* The two statements that write an executor: a claim finds the leg without
\* one, so nobody holds it; a rollback undoes the claim its slot holds, and no
\* other slot holds that leg.
LEMMA ExclusiveWrite ==
  ASSUME EscrowOK, ClaimExclusive, NEW s \in Slots,
         ClaimLeg(s) \/ ClaimLegError(s) \/ ReleaseLegClaim(s)
  PROVE  ClaimExclusive'
<1> USE EscrowAssumption, WalletAssumption
<1> DEFINE l == LegId(s)
<1>0. /\ LegsOK /\ ReqsOK
      /\ req[s].pc \in {"claim", "rollback"}
      /\ l \in LegIds /\ Has(l) /\ req[s].executor \in Payees
      /\ req \in [Slots -> ReqRec] /\ leg \in [LegIds -> LegRow]
  BY ReqParts DEF EscrowOK, LegsOK, ReqsOK, ReqShape, ClaimLeg, ClaimLegError,
                  ReleaseLegClaim, LegPcs
<1>h. \A t \in Slots, i \in LegIds : Holds(t, i) =>
        leg[i].executor = req[t].executor /\ req[t].executor \in Payees
  BY <1>0 DEF ClaimExclusive, Holds, ReqsOK, ReqShape
<1>1. CASE UNCHANGED leg /\ End(s)
  BY <1>0, <1>1, OtherHolds, HoldsStayExclusive DEF End, IdleReq
<1>2. CASE /\ Claimable(l) /\ leg' = Claimed(l, req[s].executor)
           /\ req' = [req EXCEPT ![s].pc = "open"] \/ req' = [req EXCEPT ![s] = IdleReq]
  <2>1. \A t \in Slots : ~Holds(t, l)
    BY <1>0, <1>2, <1>h DEF Claimable
  <2>2. /\ leg'[l].executor = req[s].executor
        /\ \A i \in LegIds : i # l => leg'[i] = leg[i]
    BY <1>0, <1>2 DEF Claimed, LegRow
  <2>3. /\ \A t \in Slots : t # s => req'[t] = req[t]
        /\ \/ /\ req'[s].pc = "open" /\ req'[s].order = req[s].order
              /\ req'[s].name = req[s].name /\ req'[s].executor = req[s].executor
           \/ req'[s] = IdleReq
    BY <1>0, <1>2 DEF ReqRec
  <2>4. \A t \in Slots, i \in LegIds : t # s => (Holds(t, i)' <=> Holds(t, i))
    BY <2>3 DEF Holds, LegId
  <2>5. \A i \in LegIds : Holds(s, i)' => i = l /\ req'[s].executor = req[s].executor
    BY <2>3 DEF Holds, LegId, IdleReq
  <2> QED BY <2>1, <2>2, <2>3, <2>4, <2>5 DEF ClaimExclusive
<1>3. CASE ReleaseLegClaim(s)
  <2>1. req[s].pc = "rollback" /\ leg' = ReleasedClaim(l) /\ req' = [req EXCEPT ![s] = IdleReq]
    BY <1>3 DEF ReleaseLegClaim, End
  <2>2. \A t \in Slots : Holds(t, l) => t = s
    BY <1>0, <2>1 DEF ClaimExclusive, Holds
  <2>3. /\ req'[s] = IdleReq /\ \A t \in Slots : t # s => req'[t] = req[t]
        /\ \A i \in LegIds : i # l => leg'[i] = leg[i]
    BY <1>0, <2>1 DEF ReleasedClaim
  <2>4. \A t \in Slots, i \in LegIds : Holds(t, i)' => t # s /\ Holds(t, i)
    BY <2>3 DEF Holds, LegId, IdleReq
  <2>5. HoldsStay
    BY <2>2, <2>3, <2>4 DEF HoldsStay
  <2> QED BY <2>5, HoldsStayExclusive
<1> QED BY <1>1, <1>2, <1>3 DEF ClaimLeg, ClaimLegError, Step, End

\* One step of the system.
LEMMA ExclusiveNext ==
  ASSUME EscrowOK, ClaimExclusive, [Next]_vars
  PROVE  ClaimExclusive'
<1>0. LegsOK /\ ReqsOK /\ leg \in [LegIds -> LegRow] /\ req \in [Slots -> ReqRec]
  BY DEF EscrowOK, LegsOK, ReqsOK
<1> DEFINE Executors == \A i \in LegIds : Has(i) => leg'[i].executor = leg[i].executor
<1>1. UNCHANGED leg => Executors
  OBVIOUS
<1>2. ASSUME NEW s \in Slots, Executors, End(s) PROVE HoldsStay
  BY <1>0, <1>2, OtherHolds DEF End, IdleReq
<1>3. ASSUME NEW s \in Slots, Executors, NEW pc \in {"rollback", "refund", "pay"},
             Step(s, pc), pc = "rollback" => req[s].pc = "open"
      PROVE  HoldsStay
  <2> DEFINE r == [req[s] EXCEPT !.pc = pc]
  <2>1. req' = [req EXCEPT ![s] = r] /\ req[s] \in ReqRec
    BY <1>0, <1>3 DEF Step
  <2>2. r.pc = pc /\ r.order = req[s].order /\ r.name = req[s].name
        /\ r.executor = req[s].executor
    BY <2>1 DEF ReqRec
  <2> HIDE DEF r
  <2> QED BY <1>0, <1>3, <2>1, <2>2, OtherHolds DEF LegId
<1>4. ASSUME NEW s \in Slots, NEW p \in Payees, PayNext(s, p) PROVE HoldsStay
  <2> DEFINE r == [req[s] EXCEPT !.pc = "paying", !.executor = p, !.pay = @ \ {p}]
  <2>1. req' = [req EXCEPT ![s] = r] /\ req[s] \in ReqRec /\ UNCHANGED leg
    BY <1>0, <1>4 DEF PayNext
  <2>2. r.pc = "paying"
    BY <2>1 DEF ReqRec
  <2> HIDE DEF r
  <2> QED BY <1>0, <2>1, <2>2, OtherHolds
<1>5. ASSUME NEW s \in Slots, UpdateLegStatus(s) PROVE HoldsStay
  <2>1. Executors
    BY <1>0, <1>5 DEF UpdateLegStatus, LegRow
  <2> QED BY <1>2, <1>5, <2>1 DEF UpdateLegStatus
<1>6. ASSUME NEW s \in Slots, Cancel(s) \/ CompleteAllLegs(s) PROVE HoldsStay
  <2>1. Executors
    BY <1>0, <1>6, StatusKeepsExecutor DEF Cancel, CompleteAllLegs
  <2> QED BY <1>2, <1>3, <1>6, <2>1 DEF Cancel, CompleteAllLegs
<1>7. ASSUME NEW s \in Slots,
             \/ AcceptPaid(s) \/ AcceptUnpaid(s) \/ ReleaseLegClaimError(s)
             \/ CancelEnd(s) \/ PayEnd(s) \/ ConfirmEnd(s) \/ WriteError(s)
      PROVE  HoldsStay
  BY <1>1, <1>2, <1>3, <1>7
     DEF AcceptPaid, AcceptUnpaid, ReleaseLegClaimError, CancelEnd, PayEnd,
         ConfirmEnd, WriteError
<1>8. ASSUME NEW s \in Slots, Handle(s) PROVE ClaimExclusive'
  BY <1>4, <1>5, <1>6, <1>7, <1>8, ExclusiveWrite, HoldsStayExclusive DEF Handle
<1>9. ASSUME NEW s \in Slots, Request(s) PROVE HoldsStay
  <2>1. UNCHANGED leg
    BY <1>9 DEF Request, AcceptLoad, StatusLoad, CancelLoad, ConfirmLoad
  <2>2. ASSUME NEW r, Start(s, r), r.pc \in {"claim", "write", "mark", "complete"}
        PROVE  HoldsStay
    BY <1>0, <2>1, <2>2, OtherHolds DEF Start
  <2>3. ASSUME NEW i \in LegIds, NEW e \in Payees, AcceptLoad(s, i, e)
        PROVE  HoldsStay
    BY <2>2, <2>3 DEF AcceptLoad, IdleReq
  <2>4. ASSUME NEW i \in LegIds, NEW to \in Targets, StatusLoad(s, i, to)
        PROVE  HoldsStay
    BY <2>2, <2>4 DEF StatusLoad, IdleReq
  <2>5. ASSUME NEW o \in Orders, CancelLoad(s, o) PROVE HoldsStay
    BY <2>2, <2>5 DEF CancelLoad, IdleReq
  <2>6. ASSUME NEW o \in Orders, ConfirmLoad(s, o) PROVE HoldsStay
    BY <2>2, <2>6 DEF ConfirmLoad, IdleReq
  <2> QED BY <1>9, <2>3, <2>4, <2>5, <2>6 DEF Request
<1>10. CASE UNCHANGED <<leg, req>>
  BY <1>10 DEF ClaimExclusive, Holds, LegId
<1>11. CASE Crash
  BY <1>11 DEF Crash, ClaimExclusive, Holds, IdleReq
<1>12. ASSUME NEW o \in Orders, NEW sh \in Shapes, CreateOrder(o, sh) PROVE HoldsStay
  <2>1. UNCHANGED req /\ \A i \in LegIds : Has(i) => leg'[i] = leg[i]
    BY <1>12 DEF CreateOrder, LegsOf
  <2>2. \A s \in Slots, i \in LegIds : Holds(s, i)' => Holds(s, i)
    BY <2>1 DEF Holds, LegId
  <2>3. \A s \in Slots, i \in LegIds : Holds(s, i) => Has(i)
    BY <1>0, ReqParts DEF Holds, LegPcs
  <2> QED BY <2>1, <2>2, <2>3 DEF HoldsStay
<1>13. Outside \/ UNCHANGED vars => UNCHANGED <<leg, req>>
  BY OutsideLeaves
<1> QED BY <1>8, <1>9, <1>10, <1>11, <1>12, <1>13, HoldsStayExclusive DEF Next, Outside

\* Two executors racing for a leg cannot both win it, and the unconditional
\* rollback of one accept never undoes the claim of another.
THEOREM ClaimsAlwaysExclusive == Spec => []ClaimExclusive
<1>1. Init => ClaimExclusive
  BY DEF Init, ClaimExclusive, Holds, IdleReq
<1> QED BY <1>1, EscrowInit, EscrowNext, ExclusiveNext, PTL DEF Spec

-----------------------------------------------------------------------------
(* Where the wallet's requests come from, and who settles a row.           *)

\* A row is settled by a request for it.
LEMMA SettledFrom ==
  ASSUME WalletOK, [WalletNext]_walletVars, NEW p \in Pairs,
         tx'[p].status # tx[p].status
  PROVE  /\ tx'[p].status = "released" =>
              \E c \in Calls : call[c].op = "release" /\ call[c].order = p[1]
         /\ tx'[p].status = "refunded" =>
              \E c \in Calls : call[c].op = "refund" /\ call[c].order = p[1]
<1>0. tx \in [Pairs -> TxRow] /\ call \in [Calls -> CallRec]
  BY DEF WalletOK, WalletTypeOK
<1> DEFINE Settled ==
      /\ tx'[p].status = "released" =>
           \E c \in Calls : call[c].op = "release" /\ call[c].order = p[1]
      /\ tx'[p].status = "refunded" =>
           \E c \in Calls : call[c].op = "refund" /\ call[c].order = p[1]
<1>1. ASSUME NEW c \in Calls, Inserted(c) PROVE Settled
  BY <1>0, <1>1 DEF Inserted, TxRow
<1>2. ASSUME NEW c \in Calls, Paid(c) PROVE Settled
  <2>1. p = Pair(c)
    BY <1>0, <1>2 DEF Paid
  <2>2. tx'[p].status = "released"
    BY <1>0, <1>2, <2>1 DEF Paid, TxRow
  <2> QED BY <1>2, <2>1, <2>2 DEF Paid, Pair
<1>3. ASSUME NEW c \in Calls, GivenBack(c) PROVE Settled
  <2>1. p[1] = call[c].order /\ tx'[p] = [tx[p] EXCEPT !.status = "refunded"]
    BY <1>3 DEF GivenBack
  <2>2. tx'[p].status = "refunded"
    BY <1>0, <2>1 DEF TxRow
  <2> QED BY <1>3, <2>1, <2>2 DEF GivenBack
<1>4. \E c \in Calls : Inserted(c) \/ Paid(c) \/ GivenBack(c)
  BY DEF WalletNext, Serve, Fail, Caller, Lookup, Charge, CommissionPct, Create,
         Release, RefundOrder, Arrive, Receive, Hangup, SetCommissionPct,
         CallerStops, walletVars
<1> QED BY <1>1, <1>2, <1>3, <1>4

\* A row that a step pays out is paid by a request of the orders service for its
\* order, or by a user and on record as such.
LEMMA PaidFrom ==
  ASSUME EscrowOK, [Next]_vars, NEW p \in Pairs,
         tx'[p].status # tx[p].status, tx'[p].status = "released"
  PROVE  \/ \E c \in OrderCalls : call[c].op = "release" /\ call[c].order = p[1]
         \/ <<"released", p>> \in byUser'
<1>0. tx \in [Pairs -> TxRow] /\ call \in [Calls -> CallRec]
  BY DEF EscrowOK, WalletOK, WalletTypeOK
<1>1. ASSUME NEW c \in Calls, Serve(c) \/ Fail(c)
      PROVE  call[c].op = "release" /\ call[c].order = p[1]
  <2>1. CASE Inserted(c)
    BY <1>0, <2>1 DEF Inserted, TxRow
  <2>2. CASE Paid(c)
    <3>1. p = Pair(c)
      BY <1>0, <2>2 DEF Paid
    <3> QED BY <2>2, <3>1 DEF Paid, Pair
  <2>3. CASE GivenBack(c)
    <3>1. tx'[p] = [tx[p] EXCEPT !.status = "refunded"]
      BY <2>3 DEF GivenBack
    <3> QED BY <1>0, <3>1 DEF TxRow
  <2>4. CASE UNCHANGED tx
    BY <2>4
  <2> QED BY <1>1, <2>1, <2>2, <2>3, <2>4
          DEF Serve, Fail, Lookup, Charge, CommissionPct, Create, Release, RefundOrder
<1>2. ASSUME NEW c \in Calls, WalletServes(c)
      PROVE  \/ \E d \in OrderCalls : call[d].op = "release" /\ call[d].order = p[1]
             \/ <<"released", p>> \in byUser'
  <2>1. call[c].op = "release" /\ call[c].order = p[1]
    BY <1>1, <1>2 DEF WalletServes
  <2>2. CASE c \in UserCalls
    <3>1. <<tx'[p].status, p>> \in MovesNow
      BY DEF MovesNow
    <3> QED BY <1>2, <2>2, <3>1 DEF WalletServes
  <2>3. CASE c \notin UserCalls
    BY <2>1, <2>3, EscrowAssumption
  <2> QED BY <2>2, <2>3
<1>3. UNCHANGED tx \/ \E c \in Calls : WalletServes(c)
  <2>1. ASSUME NEW c \in UserCalls, UserCall(c) PROVE UNCHANGED tx
    BY <1>0, <2>1, UserSends
  <2>2. WalletStep => UNCHANGED tx \/ \E c \in Calls : WalletServes(c)
    BY DEF WalletStep, SetCommissionPct
  <2>3. ASSUME NEW s \in Slots, Request(s) \/ Handle(s) PROVE UNCHANGED tx
    BY <2>3 DEF Request, AcceptLoad, StatusLoad, CancelLoad, ConfirmLoad, Handle,
       ClaimLeg, ClaimLegError, AcceptPaid, AcceptUnpaid, ReleaseLegClaim,
       ReleaseLegClaimError, UpdateLegStatus, Cancel, CancelEnd, CompleteAllLegs,
       PayNext, PayEnd, ConfirmEnd, WriteError, Answered, Unanswered, Arrive,
       Receive, Hangup, walletVars
  <2>4. Crash \/ (\E o \in Orders, sh \in Shapes : CreateOrder(o, sh)) \/ UNCHANGED vars
          => UNCHANGED tx
    BY DEF Crash, CallerStops, CreateOrder, vars, walletVars
  <2> QED BY <2>1, <2>2, <2>3, <2>4 DEF Next
<1> QED BY <1>2, <1>3

\* A step that starts no request of the wallet.
KeepsCalls ==
  \A c \in Calls : \/ call'[c].op = "none"
                   \/ call'[c].op = call[c].op /\ call'[c].order = call[c].order

\* Only arrivals start requests.
LEMMA ServedCalls ==
  ASSUME WalletOK, NEW c \in Calls, Serve(c) \/ Fail(c) \/ Receive(c) \/ Hangup(c)
  PROVE  KeepsCalls
<1>0. call \in [Calls -> CallRec]
  BY DEF WalletOK, WalletTypeOK
<1>1. ASSUME NEW res, Reply(c, res) PROVE KeepsCalls
  BY <1>0, <1>1 DEF Reply, KeepsCalls, CallRec, IdleCall
<1>2. ASSUME NEW pc, Goto(c, pc) PROVE KeepsCalls
  BY <1>0, <1>2 DEF Goto, KeepsCalls, CallRec
<1>3. CASE CommissionPct(c)
  <2> DEFINE k == [call[c] EXCEPT !.pc = "insert",
                                  !.fee = Commission(call[c].amount)]
  <2>1. call' = [call EXCEPT ![c] = k]
    BY <1>3 DEF CommissionPct
  <2>2. k.op = call[c].op /\ k.order = call[c].order
    BY <1>0 DEF CallRec
  <2> HIDE DEF k
  <2> QED BY <1>0, <2>1, <2>2 DEF KeepsCalls
<1>4. CASE Receive(c)
  BY <1>0, <1>4 DEF Receive, KeepsCalls, IdleCall
<1>5. CASE Hangup(c)
  BY <1>0, <1>5 DEF Hangup, Closed, KeepsCalls, CallRec, IdleCall
<1>6. CASE Lookup(c)
  BY <1>1, <1>2, <1>6 DEF Lookup
<1>7. CASE Charge(c)
  BY <1>1, <1>2, <1>7 DEF Charge
<1>8. CASE Create(c) \/ Release(c) \/ RefundOrder(c) \/ Fail(c)
  BY <1>1, <1>8 DEF Create, Release, RefundOrder, Fail
<1> QED BY <1>3, <1>4, <1>5, <1>6, <1>7, <1>8 DEF Serve

\* The requests to pay and to refund that a step leaves: they were there, or
\* confirm-completion pays, or cancel refunds.  (Users send some of their own, but
\* none to refund.)
CameFrom(c) ==
  /\ c \in OrderCalls /\ call'[c].op = "release" =>
       \/ call[c].op = "release" /\ call'[c].order = call[c].order
       \/ \E s \in Slots : req[s].pc = "pay" /\ call'[c].order = req[s].order
  /\ call'[c].op = "refund" =>
       \/ call[c].op = "refund" /\ call'[c].order = call[c].order
       \/ c \in OrderCalls /\ \E s \in Slots : Cancel(s) /\ call'[c].order = req[s].order

\* One step of the system.
LEMMA CallsFrom ==
  ASSUME EscrowOK, [Next]_vars, NEW c \in Calls
  PROVE  CameFrom(c)
<1>0. /\ WalletOK /\ call \in [Calls -> CallRec]
      /\ \A s \in Slots : req[s].pc \in {"open", "refund", "paying"} => CallOf(s) \in Calls
  BY CallOfOK DEF EscrowOK, WalletOK, WalletTypeOK, ReqsOK, ReqShape
<1>1. KeepsCalls => CameFrom(c)
  BY DEF KeepsCalls, CameFrom
<1>2. UNCHANGED call => CameFrom(c)
  BY DEF CameFrom
<1>3. CASE WalletStep
  BY <1>0, <1>1, <1>2, <1>3, ServedCalls DEF WalletStep, WalletServes, SetCommissionPct
<1>4. CASE Crash
  <2>1. KeepsCalls
    BY <1>0, <1>4 DEF Crash, CallerStops, Closed, KeepsCalls, CallRec, IdleCall
  <2> QED BY <1>1, <2>1
<1>5. ASSUME NEW s \in Slots,
             AcceptPaid(s) \/ AcceptUnpaid(s) \/ CancelEnd(s) \/ PayEnd(s)
      PROVE  CameFrom(c)
  <2>1. CallOf(s) \in Calls /\ (Receive(CallOf(s)) \/ Hangup(CallOf(s)))
    BY <1>0, <1>5 DEF AcceptPaid, AcceptUnpaid, CancelEnd, PayEnd, Answered, Unanswered
  <2> QED BY <1>0, <1>1, <2>1, ServedCalls
<1>6. ASSUME NEW d, NEW op, NEW o, NEW p, NEW a, Arrive(d, op, o, p, a),
             op \in {"create", "release", "refund"}
      PROVE  \/ call'[c].op = call[c].op /\ call'[c].order = call[c].order
             \/ call'[c].op = op /\ call'[c].order = o /\ c = d
  <2> DEFINE k == [op |-> op, pc |-> "start", order |-> o, payee |-> p,
                   amount |-> a, fee |-> 0, open |-> TRUE, result |-> "none"]
  <2>1. call' = [call EXCEPT ![d] = k] /\ k.op = op /\ k.order = o
    BY <1>6 DEF Arrive
  <2> HIDE DEF k
  <2> QED BY <1>0, <2>1
<1>7. ASSUME NEW s \in Slots, ClaimLeg(s) PROVE CameFrom(c)
  <2>1. \/ UNCHANGED call
        \/ call'[c].op = call[c].op /\ call'[c].order = call[c].order
        \/ call'[c].op = "create"
    BY <1>6, <1>7 DEF ClaimLeg, walletVars
  <2> QED BY <1>2, <2>1 DEF CameFrom
<1>8. ASSUME NEW s \in Slots, Cancel(s) PROVE CameFrom(c)
  <2>1. \/ UNCHANGED call
        \/ call'[c].op = call[c].op /\ call'[c].order = call[c].order
        \/ call'[c].op = "refund" /\ call'[c].order = req[s].order /\ c = CallOf(s)
    BY <1>6, <1>8 DEF Cancel, walletVars
  <2>2. CallOf(s) \in OrderCalls
    BY <1>8, CallOfOK DEF Cancel, EscrowOK, ReqsOK, ReqShape
  <2> QED BY <1>8, <2>1, <2>2 DEF CameFrom
<1>9. ASSUME NEW s \in Slots, NEW p \in Payees, PayNext(s, p) PROVE CameFrom(c)
  <2>1. req[s].pc = "pay" /\ Arrive(<<s, p>>, "release", req[s].order, p, 0)
    BY <1>9 DEF PayNext
  <2>2. \/ call'[c].op = call[c].op /\ call'[c].order = call[c].order
        \/ call'[c].op = "release" /\ call'[c].order = req[s].order
    BY <1>6, <2>1
  <2> QED BY <2>1, <2>2 DEF CameFrom
<1>10. ASSUME NEW s \in Slots,
              \/ Request(s) \/ ClaimLegError(s) \/ ReleaseLegClaim(s)
              \/ ReleaseLegClaimError(s) \/ UpdateLegStatus(s) \/ CompleteAllLegs(s)
              \/ ConfirmEnd(s) \/ WriteError(s)
       PROVE  UNCHANGED call
  BY <1>10 DEF Request, AcceptLoad, StatusLoad, CancelLoad, ConfirmLoad,
     ClaimLegError, ReleaseLegClaim, ReleaseLegClaimError, UpdateLegStatus,
     CompleteAllLegs, ConfirmEnd, WriteError, walletVars
<1>11. ASSUME NEW o \in Orders, NEW sh \in Shapes, CreateOrder(o, sh)
       PROVE  UNCHANGED call
  BY <1>11 DEF CreateOrder, walletVars
<1>12. UNCHANGED vars => UNCHANGED call
  BY DEF vars, walletVars
<1>13. ASSUME NEW s \in Slots, Handle(s) PROVE CameFrom(c)
  BY <1>2, <1>5, <1>7, <1>8, <1>9, <1>10, <1>13 DEF Handle
<1>14. ASSUME NEW d \in UserCalls, UserCall(d) PROVE CameFrom(c)
  <2>1. CASE c = d
    BY <1>0, <1>14, <2>1, UserSends DEF CameFrom
  <2>2. CASE c # d
    BY <1>0, <1>14, <2>2, UserSends DEF CameFrom
  <2> QED BY <2>1, <2>2
<1> HIDE DEF CameFrom
<1> QED BY <1>2, <1>3, <1>4, <1>10, <1>11, <1>12, <1>13, <1>14 DEF Next

-----------------------------------------------------------------------------
(* Nobody is paid before delivery; nobody gets money back without a        *)
(* cancellation.                                                           *)

\* What has happened to an order stays so.
LEMMA HistoryGrows ==
  ASSUME [Next]_vars
  PROVE  /\ delivered \subseteq delivered' /\ cancelled \subseteq cancelled'
         /\ byUser \subseteq byUser'
<1>1. ASSUME NEW s \in Slots, Handle(s)
      PROVE  /\ delivered \subseteq delivered' /\ cancelled \subseteq cancelled'
             /\ UNCHANGED byUser
  BY <1>1 DEF Handle, ClaimLeg, ClaimLegError, AcceptPaid, AcceptUnpaid,
     ReleaseLegClaim, ReleaseLegClaimError, UpdateLegStatus, Cancel, CancelEnd,
     CompleteAllLegs, PayNext, PayEnd, ConfirmEnd, WriteError, historyVars
<1>2. ASSUME NEW s \in Slots, Request(s) PROVE UNCHANGED historyVars
  BY <1>2 DEF Request, AcceptLoad, StatusLoad, CancelLoad, ConfirmLoad
<1>3. ASSUME NEW o \in Orders, NEW sh \in Shapes, CreateOrder(o, sh)
      PROVE  UNCHANGED historyVars
  BY <1>3 DEF CreateOrder
<1>4. Outside \/ UNCHANGED vars => UNCHANGED <<orphaned, delivered, cancelled>>
  BY OutsideLeaves
<1>5. Outside \/ UNCHANGED vars => byUser \subseteq byUser'
  BY DEF Outside, WalletStep, WalletServes, UserCall, vars, orderVars, historyVars
<1> QED BY <1>1, <1>2, <1>3, <1>4, <1>5 DEF Next, Outside, Crash, historyVars

\* An order that exists, each of whose legs has been delivered.
Done(o) == LegsOf(o) # {} /\ LegsOf(o) \subseteq delivered

\* An order is complete from its creation on, so a delivered order stays so.
LEMMA DoneStays ==
  ASSUME LegsMove, delivered \subseteq delivered', NEW o, Done(o)
  PROVE  Done(o)'
<1>1. \A i \in LegIds : i[1] = o => (Has(i)' <=> Has(i))
  BY DEF LegsMove, LegMoves, Done
<1>2. LegsOf(o)' = LegsOf(o)
  BY <1>1 DEF LegsOf
<1> QED BY <1>2 DEF Done

\* Where the knowledge that a leg or an order was delivered is kept: in the
\* rows, in the requests that write "completed" on an old snapshot, in those
\* that confirm, in their requests to pay, and in the rows the wallet paid on
\* these.
LegsDelivered ==
  \A i \in LegIds : leg[i].status \in {"delivered", "completed"} => i \in delivered
ReqsDelivered ==
  \A s \in Slots :
    /\ req[s].pc = "write" /\ req[s].to = "completed" => LegId(s) \in delivered
    /\ req[s].pc \in {"complete", "pay", "paying"} => Done(req[s].order)
CallsDelivered ==
  \A c \in OrderCalls : call[c].op = "release" => Done(call[c].order)
RowsDelivered ==
  \A p \in Pairs : tx[p].status = "released" => Done(p[1]) \/ <<"released", p>> \in byUser
DeliveryInv == LegsDelivered /\ ReqsDelivered /\ CallsDelivered /\ RowsDelivered

\* A row becomes delivered or completed by a request that may say so.
LEMMA LegsDeliveredNext ==
  ASSUME EscrowOK, DeliveryInv, [Next]_vars
  PROVE  LegsDelivered'
<1>0. /\ LegsOK /\ ReqsOK /\ leg \in [LegIds -> LegRow]
      /\ LegsDelivered /\ ReqsDelivered /\ delivered \subseteq delivered'
  BY HistoryGrows DEF EscrowOK, LegsOK, DeliveryInv
<1>1. CASE UNCHANGED leg
  BY <1>0, <1>1 DEF LegsDelivered
<1>2. ASSUME NEW i \in LegIds, NEW r \in LegRow, leg' = [leg EXCEPT ![i] = r],
             r.status \in {"delivered", "completed"} => i \in delivered'
      PROVE  LegsDelivered'
  BY <1>0, <1>2 DEF LegsDelivered
<1>3. ASSUME NEW s \in Slots, ClaimLeg(s) \/ ClaimLegError(s) PROVE LegsDelivered'
  <2> DEFINE i == LegId(s)
             r == [leg[i] EXCEPT !.executor = req[s].executor, !.status = "accepted"]
  <2>1. i \in LegIds /\ req[s].executor \in Payees
    BY <1>0, <1>3, ReqParts DEF ClaimLeg, ClaimLegError, ReqsOK, ReqShape, LegPcs
  <2>2. r \in LegRow /\ r.status = "accepted"
    BY <1>0, <2>1 DEF LegRow, Statuses
  <2>3. UNCHANGED leg \/ leg' = [leg EXCEPT ![i] = r]
    BY <1>0, <1>3, <2>1 DEF ClaimLeg, ClaimLegError, Claimed
  <2> HIDE DEF r
  <2> QED BY <1>1, <1>2, <2>1, <2>2, <2>3
<1>4. ASSUME NEW s \in Slots, ReleaseLegClaim(s) PROVE LegsDelivered'
  <2> DEFINE i == LegId(s)
             r == [leg[i] EXCEPT !.executor = None, !.status = "published"]
  <2>1. i \in LegIds
    BY <1>0, <1>4, ReqParts DEF ReleaseLegClaim, LegPcs
  <2>2. r \in LegRow /\ r.status = "published"
    BY <1>0, <2>1 DEF LegRow, Statuses
  <2>3. leg' = [leg EXCEPT ![i] = r]
    BY <1>0, <1>4, <2>1 DEF ReleaseLegClaim, ReleasedClaim
  <2> HIDE DEF r
  <2> QED BY <1>2, <2>1, <2>2, <2>3
<1>5. ASSUME NEW s \in Slots, UpdateLegStatus(s) PROVE LegsDelivered'
  <2> DEFINE i == LegId(s)
             r == [leg[i] EXCEPT !.status = req[s].to]
  <2>1. i \in LegIds /\ req[s].to \in Statuses
    BY <1>0, <1>5, ReqParts DEF UpdateLegStatus, LegPcs, ReqsOK, ReqShape
  <2>2. r \in LegRow /\ r.status = req[s].to
    BY <1>0, <2>1 DEF LegRow
  <2>3. leg' = [leg EXCEPT ![i] = r]
    BY <1>5 DEF UpdateLegStatus
  <2>4. req[s].to \in {"delivered", "completed"} => i \in delivered'
    BY <1>0, <1>5 DEF UpdateLegStatus, ReqsDelivered
  <2> HIDE DEF r
  <2> QED BY <1>2, <2>1, <2>2, <2>3, <2>4
<1>6. ASSUME NEW s \in Slots, Cancel(s) PROVE LegsDelivered'
  <2>1. \A i \in LegIds : leg'[i] = leg[i] \/ leg'[i] = [leg[i] EXCEPT !.status = "cancelled"]
    BY <1>6 DEF Cancel, AllLegs
  <2>2. \A i \in LegIds : leg'[i].status \in {leg[i].status, "cancelled"}
    BY <1>0, <2>1 DEF LegRow
  <2> QED BY <1>0, <2>2 DEF LegsDelivered
<1>7. ASSUME NEW s \in Slots, CompleteAllLegs(s) PROVE LegsDelivered'
  <2>1. LegsOf(req[s].order) \subseteq delivered
    BY <1>0, <1>7 DEF CompleteAllLegs, ReqsDelivered, Done
  <2>2. \A i \in LegIds : leg'[i] = leg[i] \/ i \in LegsOf(req[s].order)
    BY <1>7 DEF CompleteAllLegs, AllLegs
  <2> QED BY <1>0, <2>1, <2>2 DEF LegsDelivered
<1>8. ASSUME NEW s \in Slots, Handle(s) PROVE LegsDelivered'
  BY <1>1, <1>3, <1>4, <1>5, <1>6, <1>7, <1>8
     DEF Handle, AcceptPaid, AcceptUnpaid, ReleaseLegClaimError, CancelEnd,
         PayNext, PayEnd, ConfirmEnd, WriteError
<1>9. ASSUME NEW s \in Slots, Request(s) PROVE UNCHANGED leg
  BY <1>9 DEF Request, AcceptLoad, StatusLoad, CancelLoad, ConfirmLoad
<1>10. ASSUME NEW o \in Orders, NEW sh \in Shapes, CreateOrder(o, sh)
       PROVE  LegsDelivered'
  <2>1. \A i \in LegIds : leg'[i] = leg[i] \/ leg'[i].status = "published"
    BY <1>10 DEF CreateOrder
  <2> QED BY <1>0, <2>1 DEF LegsDelivered
<1>11. Outside \/ Crash \/ UNCHANGED vars => UNCHANGED leg
  BY OutsideLeaves DEF Crash
<1> QED BY <1>1, <1>8, <1>9, <1>10, <1>11 DEF Next, Outside

\* A request knows of a delivery from the rows it read.
LEMMA ReqsDeliveredNext ==
  ASSUME EscrowOK, DeliveryInv, [Next]_vars
  PROVE  ReqsDelivered'
<1> DEFINE Knows(r) ==
      /\ r.pc = "write" /\ r.to = "completed" => <<r.order, r.name>> \in delivered
      /\ r.pc \in {"complete", "pay", "paying"} => Done(r.order)
<1>0. /\ LegsOK /\ ReqsOK /\ req \in [Slots -> ReqRec] /\ LegsDelivered
      /\ \A s \in Slots : Knows(req[s])
      /\ delivered \subseteq delivered' /\ LegsMove
  BY HistoryGrows, LegsNext DEF EscrowOK, ReqsOK, DeliveryInv, ReqsDelivered, LegId
<1>1. ASSUME \A s \in Slots : Knows(req'[s]) PROVE ReqsDelivered'
  BY <1>0, <1>1, DoneStays DEF ReqsDelivered, LegId
<1>2. ASSUME NEW s \in Slots, NEW r, req' = [req EXCEPT ![s] = r], Knows(r)
      PROVE  ReqsDelivered'
  <2> HIDE DEF Knows
  <2>1. \A t \in Slots : req'[t] = r \/ req'[t] = req[t]
    BY <1>0, <1>2
  <2> QED BY <1>0, <1>1, <1>2, <2>1
<1>3. Knows(IdleReq)
  BY DEF IdleReq
<1>4. CASE UNCHANGED req
  BY <1>0, <1>1, <1>4
<1>5. CASE Crash
  <2> HIDE DEF Knows
  <2> QED BY <1>1, <1>3, <1>5 DEF Crash
<1>6. ASSUME NEW s \in Slots, End(s) PROVE ReqsDelivered'
  <2> HIDE DEF Knows
  <2> QED BY <1>2, <1>3, <1>6 DEF End
<1>7. ASSUME NEW s \in Slots, NEW pc, Step(s, pc),
             \/ pc \in {"open", "rollback", "refund"}
             \/ pc = "pay" /\ req[s].pc \in {"complete", "paying"}
      PROVE  ReqsDelivered'
  <2> DEFINE r == [req[s] EXCEPT !.pc = pc]
  <2>1. r.pc = pc /\ r.order = req[s].order
    BY <1>0 DEF ReqRec
  <2>2. req' = [req EXCEPT ![s] = r]
    BY <1>7 DEF Step
  <2> HIDE DEF r
  <2>3. Knows(r)
    BY <1>0, <1>7, <2>1
  <2> QED BY <1>2, <2>2, <2>3
<1>8. ASSUME NEW s \in Slots, NEW p \in Payees, PayNext(s, p) PROVE ReqsDelivered'
  <2> DEFINE r == [req[s] EXCEPT !.pc = "paying", !.executor = p, !.pay = @ \ {p}]
  <2>1. r.pc = "paying" /\ r.order = req[s].order
    BY <1>0 DEF ReqRec
  <2>2. req' = [req EXCEPT ![s] = r] /\ req[s].pc = "pay"
    BY <1>8 DEF PayNext
  <2> HIDE DEF r
  <2>3. Knows(r)
    BY <1>0, <2>1, <2>2
  <2> QED BY <1>2, <2>2, <2>3
<1>9. ASSUME NEW s \in Slots, Handle(s) PROVE ReqsDelivered'
  BY <1>6, <1>7, <1>8, <1>9
     DEF Handle, ClaimLeg, ClaimLegError, AcceptPaid, AcceptUnpaid,
         ReleaseLegClaim, ReleaseLegClaimError, UpdateLegStatus, Cancel,
         CancelEnd, CompleteAllLegs, PayEnd, ConfirmEnd, WriteError
<1>10. ASSUME NEW s \in Slots, NEW r, Start(s, r), Knows(r) PROVE ReqsDelivered'
  BY <1>2, <1>10 DEF Start
<1>11. ASSUME NEW s \in Slots, NEW i \in LegIds, NEW e \in Payees, AcceptLoad(s, i, e)
       PROVE  ReqsDelivered'
  BY <1>10, <1>11 DEF AcceptLoad, IdleReq
<1>12. ASSUME NEW s \in Slots, NEW i \in LegIds, NEW to \in Targets, StatusLoad(s, i, to)
       PROVE  ReqsDelivered'
  <2> DEFINE r == [IdleReq EXCEPT !.op = "status", !.pc = "write", !.order = i[1],
                                  !.name = i[2], !.to = to]
  <2>1. i = <<i[1], i[2]>>
    BY DEF LegIds
  <2>2. r.pc = "write" /\ r.to = to /\ <<r.order, r.name>> = i
    BY <2>1 DEF IdleReq
  <2>3. to = "completed" => leg[i].status = "delivered"
    BY <1>12 DEF StatusLoad, CanTransition, nextAllowed
  <2>4. Knows(r)
    BY <1>0, <2>2, <2>3 DEF LegsDelivered
  <2> QED BY <1>10, <1>12, <2>4 DEF StatusLoad
<1>13. ASSUME NEW s \in Slots, NEW o \in Orders, CancelLoad(s, o) PROVE ReqsDelivered'
  BY <1>10, <1>13 DEF CancelLoad, IdleReq
<1>14. ASSUME NEW s \in Slots, NEW o \in Orders, ConfirmLoad(s, o) PROVE ReqsDelivered'
  <2> DEFINE r == [IdleReq EXCEPT !.op = "confirm", !.pc = "complete",
                                  !.order = o, !.pay = payees(o)]
  <2>1. r.pc = "complete" /\ r.order = o
    BY DEF IdleReq
  <2>2. Done(o)
    BY <1>0, <1>14 DEF ConfirmLoad, ConfirmAllowed, IsReadyForClientConfirmation,
       LegsDelivered, Done, LegsOf
  <2>3. Knows(r)
    BY <2>1, <2>2
  <2> QED BY <1>10, <1>14, <2>3 DEF ConfirmLoad
<1>15. ASSUME NEW s \in Slots, Request(s) PROVE ReqsDelivered'
  BY <1>11, <1>12, <1>13, <1>14, <1>15 DEF Request
<1>16. ASSUME NEW o \in Orders, NEW sh \in Shapes, CreateOrder(o, sh) PROVE UNCHANGED req
  BY <1>16 DEF CreateOrder
<1>17. Outside \/ UNCHANGED vars => UNCHANGED req
  BY OutsideLeaves
<1> QED BY <1>4, <1>5, <1>9, <1>15, <1>16, <1>17 DEF Next, Outside

\* One step of the system.
LEMMA DeliveryNext ==
  ASSUME EscrowOK, DeliveryInv, [Next]_vars
  PROVE  DeliveryInv'
<1>0. /\ CallsDelivered /\ RowsDelivered /\ ReqsDelivered
      /\ \A o : Done(o) => Done(o)'
      /\ byUser \subseteq byUser'
  BY HistoryGrows, LegsNext, DoneStays DEF DeliveryInv
<1>1. CallsDelivered'
  <2>1. ASSUME NEW c \in OrderCalls, call'[c].op = "release" PROVE Done(call'[c].order)
    <3>1. c \in Calls
      BY EscrowAssumption
    <3> QED BY <1>0, <2>1, <3>1, CallsFrom DEF CameFrom, CallsDelivered, ReqsDelivered
  <2> HIDE DEF Done
  <2> QED BY <1>0, <2>1 DEF CallsDelivered
<1>2. RowsDelivered'
  <2>1. ASSUME NEW p \in Pairs, tx'[p].status = "released"
        PROVE  Done(p[1]) \/ <<"released", p>> \in byUser'
    <3>1. CASE tx[p].status = "released"
      BY <1>0, <3>1 DEF RowsDelivered
    <3>2. CASE tx[p].status # "released"
      BY <1>0, <2>1, <3>2, PaidFrom DEF CallsDelivered
    <3> QED BY <3>1, <3>2
  <2> QED BY <1>0, <2>1 DEF RowsDelivered
<1> QED BY <1>1, <1>2, LegsDeliveredNext, ReqsDeliveredNext DEF DeliveryInv

\* Nobody is ever paid for an order before each of its legs was delivered, unless
\* a user's own request paid: whatever users send the wallet, at any time.
THEOREM PaidOnlyDelivered == Spec => []PaidOnlyAfterDelivery
<1>1. Init => DeliveryInv
  BY EscrowAssumption DEF Init, WalletInit, NoLeg, IdleReq, IdleCall, NoRow, DeliveryInv,
         LegsDelivered, ReqsDelivered, CallsDelivered, RowsDelivered
<1>2. DeliveryInv => PaidOnlyAfterDelivery
  BY DEF DeliveryInv, RowsDelivered, Done, PaidOnlyAfterDelivery
<1> QED BY <1>1, <1>2, EscrowInit, EscrowNext, DeliveryNext, PTL DEF Spec

\* The requests to refund, and the rows refunded, belong to cancelled orders.
RefundInv ==
  /\ \A c \in Calls : call[c].op = "refund" => call[c].order \in cancelled
  /\ RefundOnlyAfterCancel

\* One step of the system.
LEMMA RefundNext ==
  ASSUME EscrowOK, RefundInv, [Next]_vars
  PROVE  RefundInv'
<1>0. cancelled \subseteq cancelled'
  BY HistoryGrows
<1>1. ASSUME NEW c \in Calls, call'[c].op = "refund" PROVE call'[c].order \in cancelled'
  BY <1>0, <1>1, CallsFrom DEF CameFrom, RefundInv, Cancel
<1>2. ASSUME NEW p \in Pairs, tx'[p].status = "refunded" PROVE p[1] \in cancelled'
  BY <1>0, <1>2, SettledFrom, WalletSteps DEF EscrowOK, RefundInv, RefundOnlyAfterCancel
<1> QED BY <1>1, <1>2 DEF RefundInv, RefundOnlyAfterCancel

\* Money goes back to the client only for an order that was cancelled.
THEOREM RefundOnlyCancelled == Spec => []RefundOnlyAfterCancel
<1>1. Init => RefundInv
  BY DEF Init, WalletInit, IdleCall, NoRow, RefundInv, RefundOnlyAfterCancel
<1>2. RefundInv => RefundOnlyAfterCancel
  BY DEF RefundInv
<1> QED BY <1>1, <1>2, EscrowInit, EscrowNext, RefundNext, PTL DEF Spec

-----------------------------------------------------------------------------
(* Money behind every claim.                                               *)

\* An accept that waits for its escrow is connected to a request for it.
Linked(s) ==
  LET k == call[CallOf(s)]
  IN  /\ k.op = "create" /\ k.open = TRUE
      /\ k.order = req[s].order /\ k.payee = req[s].executor
CallLinks == \A s \in Slots : req[s].pc = "open" => Linked(s)

\* A request somebody waits for stays what it is while the wallet works on it.
LEMMA ServedStays ==
  ASSUME WalletOK, NEW c \in Calls, Serve(c) \/ Fail(c),
         NEW d \in Calls, call[d].open = TRUE
  PROVE  /\ call'[d].open = TRUE /\ call'[d].op = call[d].op
         /\ call'[d].order = call[d].order /\ call'[d].payee = call[d].payee
<1>0. call \in [Calls -> CallRec]
  BY DEF WalletOK, WalletTypeOK
<1> DEFINE Stays ==
      /\ call'[d].open = TRUE /\ call'[d].op = call[d].op
      /\ call'[d].order = call[d].order /\ call'[d].payee = call[d].payee
<1>1. ASSUME NEW res, Reply(c, res) PROVE Stays
  BY <1>0, <1>1 DEF Reply, CallRec
<1>2. ASSUME NEW pc, Goto(c, pc) PROVE Stays
  BY <1>0, <1>2 DEF Goto, CallRec
<1>3. CASE CommissionPct(c)
  <2> DEFINE k == [call[c] EXCEPT !.pc = "insert",
                                  !.fee = Commission(call[c].amount)]
  <2>1. call' = [call EXCEPT ![c] = k]
    BY <1>3 DEF CommissionPct
  <2>2. /\ k.op = call[c].op /\ k.open = call[c].open
        /\ k.order = call[c].order /\ k.payee = call[c].payee
    BY <1>0 DEF CallRec
  <2> HIDE DEF k
  <2> QED BY <1>0, <2>1, <2>2
<1>4. CASE Lookup(c)
  BY <1>1, <1>2, <1>4 DEF Lookup
<1>5. CASE Charge(c)
  BY <1>1, <1>2, <1>5 DEF Charge
<1>6. CASE Create(c) \/ Release(c) \/ RefundOrder(c) \/ Fail(c)
  BY <1>1, <1>6 DEF Create, Release, RefundOrder, Fail
<1> QED BY <1>3, <1>4, <1>5, <1>6 DEF Serve

\* What a slot does leaves the requests and the calls of the others alone.
OthersStay(s) ==
  \A t \in Slots : t # s =>
    /\ req'[t] = req[t]
    /\ \A p \in Payees \cup {None} : call'[<<t, p>>] = call[<<t, p>>]

\* One step of a slot on the requests and the calls.
LEMMA SlotStep ==
  ASSUME EscrowOK, NEW s \in Slots, Request(s) \/ Handle(s)
  PROVE  OthersStay(s)
<1> USE EscrowAssumption
<1>0. req \in [Slots -> ReqRec] /\ call \in [Calls -> CallRec]
  BY DEF EscrowOK, ReqsOK, WalletOK, WalletTypeOK
<1>1. ASSUME NEW t \in Slots, t # s PROVE req'[t] = req[t]
  BY <1>0, <1>1
     DEF Request, AcceptLoad, StatusLoad, CancelLoad, ConfirmLoad, Start, Handle,
     ClaimLeg, ClaimLegError, AcceptPaid, AcceptUnpaid, ReleaseLegClaim,
     ReleaseLegClaimError, UpdateLegStatus, Cancel, CancelEnd, CompleteAllLegs,
     PayNext, PayEnd, ConfirmEnd, WriteError, Step, End
<1>2. ASSUME NEW t \in Slots, t # s, NEW q \in Payees \cup {None}
      PROVE  call'[<<t, q>>] = call[<<t, q>>]
  <2>1. <<t, q>> \in Calls /\ <<t, q>> # CallOf(s) /\ \A p : <<t, q>> # <<s, p>>
    BY <1>2 DEF CallOf, OrderCalls
  <2>2. ASSUME NEW d, d # <<t, q>>,
               \/ Receive(d) \/ Hangup(d)
               \/ \E op, o, p, a : Arrive(d, op, o, p, a)
        PROVE  call'[<<t, q>>] = call[<<t, q>>]
    BY <1>0, <2>1, <2>2 DEF Receive, Hangup, Arrive
  <2>3. CASE UNCHANGED call
    BY <2>3
  <2>4. CASE \E p \in Payees : PayNext(s, p)
    BY <2>1, <2>2, <2>4 DEF PayNext
  <2>5. CASE \/ ClaimLeg(s) \/ AcceptPaid(s) \/ AcceptUnpaid(s) \/ Cancel(s)
             \/ CancelEnd(s) \/ PayEnd(s)
    BY <2>1, <2>2, <2>3, <2>5 DEF ClaimLeg, AcceptPaid, AcceptUnpaid, Cancel, CancelEnd,
       PayEnd, Answered, Unanswered, walletVars
  <2>6. CASE \/ Request(s) \/ ClaimLegError(s) \/ ReleaseLegClaim(s)
             \/ ReleaseLegClaimError(s) \/ UpdateLegStatus(s) \/ CompleteAllLegs(s)
             \/ ConfirmEnd(s) \/ WriteError(s)
    BY <2>3, <2>6 DEF Request, AcceptLoad, StatusLoad, CancelLoad, ConfirmLoad,
       ClaimLegError, ReleaseLegClaim, ReleaseLegClaimError, UpdateLegStatus,
       CompleteAllLegs, ConfirmEnd, WriteError, walletVars
  <2> QED BY <2>4, <2>5, <2>6 DEF Handle
<1> QED BY <1>1, <1>2 DEF OthersStay

\* One step of the system on the links.
LEMMA LinksNext ==
  ASSUME EscrowOK, CallLinks, [Next]_vars
  PROVE  CallLinks'
<1> USE EscrowAssumption
<1>0. /\ WalletOK /\ ReqsOK /\ req \in [Slots -> ReqRec] /\ call \in [Calls -> CallRec]
      /\ \A s \in Slots : req[s].pc = "open" =>
           /\ req[s].op = "accept" /\ req[s].executor \in Payees
           /\ CallOf(s) = <<s, req[s].executor>> /\ CallOf(s) \in Calls
  BY DEF EscrowOK, WalletOK, WalletTypeOK, ReqsOK, ReqShape, CallOf, OrderCalls
<1>1. ASSUME NEW s \in Slots, req'[s] = req[s],
             req[s].pc = "open" => LET d == CallOf(s) IN
               /\ call'[d].open = TRUE /\ call'[d].op = call[d].op
               /\ call'[d].order = call[d].order /\ call'[d].payee = call[d].payee
      PROVE  req'[s].pc = "open" => Linked(s)'
  BY <1>1 DEF CallLinks, Linked, CallOf
<1>2. CASE UNCHANGED <<req, call>>
  BY <1>2 DEF CallLinks, Linked, CallOf
<1>3. ASSUME NEW c \in Calls, Serve(c) \/ Fail(c), UNCHANGED req
      PROVE  CallLinks'
  <2>1. ASSUME NEW s \in Slots PROVE req'[s].pc = "open" => Linked(s)'
    BY <1>0, <1>1, <1>3, ServedStays DEF CallLinks, Linked
  <2> QED BY <2>1 DEF CallLinks
<1>4. ASSUME NEW s \in Slots, Request(s) \/ Handle(s),
             req'[s].pc = "open" => Linked(s)'
      PROVE  CallLinks'
  <2>1. ASSUME NEW t \in Slots, t # s PROVE req'[t].pc = "open" => Linked(t)'
    <3>1. req'[t] = req[t] /\ \A p \in Payees \cup {None} : call'[<<t, p>>] = call[<<t, p>>]
      BY <1>4, <2>1, SlotStep DEF OthersStay
    <3>2. req[t].pc = "open" => call'[CallOf(t)] = call[CallOf(t)] /\ call[CallOf(t)].open = TRUE
      BY <1>0, <3>1 DEF CallLinks, Linked
    <3> QED BY <1>1, <3>1, <3>2
  <2> QED BY <1>4, <2>1 DEF CallLinks
<1>5. ASSUME NEW s \in Slots, ClaimLeg(s) PROVE req'[s].pc = "open" => Linked(s)'
  <2>1. CASE End(s)
    BY <1>0, <2>1 DEF End, IdleReq
  <2>2. CASE /\ Step(s, "open")
             /\ Arrive(CallOf(s), "create", req[s].order, req[s].executor,
                       EscrowAmount(LegId(s)))
    <3>1. /\ req[s].op = "accept" /\ req[s].executor \in Payees
          /\ CallOf(s) = <<s, req[s].executor>> /\ CallOf(s) \in Calls
      BY <1>0, <1>5 DEF ClaimLeg, ReqsOK, ReqShape, CallOf, OrderCalls
    <3> DEFINE r == [req[s] EXCEPT !.pc = "open"]
    <3>2. req'[s] = r /\ r.op = req[s].op /\ r.order = req[s].order
          /\ r.executor = req[s].executor
      BY <1>0, <2>2 DEF Step, ReqRec
    <3> HIDE DEF r
    <3>3. CallOf(s)' = CallOf(s)
      BY <3>1, <3>2 DEF CallOf
    <3> DEFINE k == [op |-> "create", pc |-> "start", order |-> req[s].order,
                     payee |-> req[s].executor, amount |-> EscrowAmount(LegId(s)),
                     fee |-> 0, open |-> TRUE, result |-> "none"]
    <3>4. call' = [call EXCEPT ![CallOf(s)] = k] /\ k.op = "create" /\ k.open = TRUE
          /\ k.order = req[s].order /\ k.payee = req[s].executor
      BY <2>2 DEF Arrive
    <3> HIDE DEF k
    <3>5. call'[CallOf(s)'] = k
      BY <1>0, <3>1, <3>3, <3>4
    <3> QED BY <3>2, <3>4, <3>5 DEF Linked
  <2> QED BY <1>5, <2>1, <2>2 DEF ClaimLeg
<1>6. ASSUME NEW s \in Slots, NEW r, req' = [req EXCEPT ![s] = r], r.pc # "open"
      PROVE  req'[s].pc # "open"
  BY <1>0, <1>6
<1>7. ASSUME NEW s \in Slots, Handle(s), ~ClaimLeg(s) PROVE req'[s].pc # "open"
  <2>1. CASE End(s)
    <3>1. IdleReq.pc # "open"
      BY DEF IdleReq
    <3> QED BY <1>6, <2>1, <3>1 DEF End
  <2>2. ASSUME NEW pc, Step(s, pc), pc # "open" PROVE req'[s].pc # "open"
    BY <1>0, <2>2 DEF Step, ReqRec
  <2>3. ASSUME NEW p \in Payees, PayNext(s, p) PROVE req'[s].pc # "open"
    <3> DEFINE r == [req[s] EXCEPT !.pc = "paying", !.executor = p, !.pay = @ \ {p}]
    <3>1. req' = [req EXCEPT ![s] = r] /\ r.pc = "paying"
      BY <1>0, <2>3 DEF PayNext, ReqRec
    <3> HIDE DEF r
    <3> QED BY <1>6, <3>1
  <2> QED BY <1>7, <2>1, <2>2, <2>3
          DEF Handle, ClaimLegError, AcceptPaid, AcceptUnpaid, ReleaseLegClaim,
              ReleaseLegClaimError, UpdateLegStatus, Cancel, CancelEnd,
              CompleteAllLegs, PayEnd, ConfirmEnd, WriteError
<1>8. ASSUME NEW s \in Slots, Request(s) PROVE req'[s].pc # "open"
  <2>1. ASSUME NEW r, Start(s, r), r.pc # "open" PROVE req'[s].pc # "open"
    BY <1>6, <2>1 DEF Start
  <2>2. ASSUME NEW i \in LegIds, NEW e \in Payees, AcceptLoad(s, i, e)
        PROVE  req'[s].pc # "open"
    BY <2>1, <2>2 DEF AcceptLoad, IdleReq
  <2>3. ASSUME NEW i \in LegIds, NEW to \in Targets, StatusLoad(s, i, to)
        PROVE  req'[s].pc # "open"
    BY <2>1, <2>3 DEF StatusLoad, IdleReq
  <2>4. ASSUME NEW o \in Orders, CancelLoad(s, o) \/ ConfirmLoad(s, o)
        PROVE  req'[s].pc # "open"
    BY <2>1, <2>4 DEF CancelLoad, ConfirmLoad, IdleReq
  <2> QED BY <1>8, <2>2, <2>3, <2>4 DEF Request
<1>9. CASE Crash
  BY <1>9 DEF Crash, IdleReq, CallLinks
<1>10. ASSUME NEW o \in Orders, NEW sh \in Shapes, CreateOrder(o, sh)
       PROVE  UNCHANGED <<req, call>>
  BY <1>10 DEF CreateOrder, walletVars
<1>11. CASE WalletStep
  BY <1>2, <1>3, <1>11, OutsideLeaves DEF Outside, WalletStep, WalletServes, SetCommissionPct
<1>12. UNCHANGED vars => UNCHANGED <<req, call>>
  BY DEF vars, walletVars, orderVars
<1>13. ASSUME NEW s \in Slots, Request(s) \/ Handle(s) PROVE CallLinks'
  BY <1>4, <1>5, <1>7, <1>8, <1>13
<1>14. ASSUME NEW c \in UserCalls, UserCall(c) PROVE CallLinks'
  <2>1. UNCHANGED req /\ \A d \in Calls : d # c => call'[d] = call[d]
    BY <1>0, <1>14, UserSends DEF orderVars
  <2>2. \A s \in Slots : req[s].pc = "open" => CallOf(s) # c
    BY <1>0, <1>14, UserSends DEF OrderCalls
  <2> QED BY <1>0, <1>1, <2>1, <2>2 DEF CallLinks, Linked
<1> QED BY <1>2, <1>9, <1>10, <1>11, <1>12, <1>13, <1>14 DEF Next

\* A claim at rest before and after a step, under one executor, or one whose
\* row is there.
Rests(i) == leg[i].executor # None /\ i \notin orphaned /\ \A s \in Slots : ~Holds(s, i)
StaysBacked(i) ==
  Rests(i)' => \/ Rests(i) /\ leg'[i].executor = leg[i].executor
               \/ Opened(<<i[1], leg'[i].executor>>)

\* A slot that has not claimed leg i neither settles nor gives up a claim on it.
LEMMA OtherLegs ==
  ASSUME EscrowOK, NEW s \in Slots, Request(s) \/ Handle(s), NEW i \in LegIds,
         ~Holds(s, i), orphaned \subseteq orphaned',
         leg'[i].executor \in {leg[i].executor, None}
  PROVE  StaysBacked(i)
<1> SUFFICES ASSUME Rests(i)' PROVE Rests(i) /\ leg'[i].executor = leg[i].executor
  BY DEF StaysBacked
<1>1. leg'[i].executor = leg[i].executor /\ leg[i].executor # None /\ i \notin orphaned
  BY DEF Rests
<1>2. ASSUME NEW t \in Slots, Holds(t, i) PROVE FALSE
  <2>1. req'[t] = req[t]
    BY <1>2, SlotStep DEF OthersStay
  <2>2. Holds(t, i)'
    BY <1>2, <2>1 DEF Holds, LegId
  <2> QED BY <2>2 DEF Rests
<1> QED BY <1>1, <1>2 DEF Rests

\* What a slot does about its own claim: it keeps holding it, gives it up, is
\* cut off, or has read the answer that says the row is there.
LEMMA OwnLeg ==
  ASSUME EscrowOK, ClaimExclusive, CallLinks, OkMeansRow,
         NEW s \in Slots, Handle(s), NEW i \in LegIds, Holds(s, i)
  PROVE  StaysBacked(i)
<1>0. /\ req[s].pc \in {"open", "rollback"} /\ LegId(s) = i
      /\ leg[i].executor = req[s].executor /\ req[s].executor \in Payees
      /\ req[s].op = "accept" /\ i[1] = req[s].order
      /\ req \in [Slots -> ReqRec] /\ leg \in [LegIds -> LegRow]
  BY DEF Holds, ClaimExclusive, EscrowOK, LegsOK, ReqsOK, ReqShape, LegId
<1>1. CASE AcceptPaid(s)
  <2>1. /\ req[s].pc = "open" /\ call[CallOf(s)].result = "ok" /\ UNCHANGED leg
    BY <1>1 DEF AcceptPaid, Answered
  <2>2. CallOf(s) \in Calls
    BY <1>0, CallOfOK
  <2>3. Opened(Pair(CallOf(s))) /\ Pair(CallOf(s)) = <<i[1], leg[i].executor>>
    BY <1>0, <2>1, <2>2 DEF OkMeansRow, CallLinks, Linked, Pair
  <2> QED BY <2>1, <2>3 DEF StaysBacked
<1>2. CASE AcceptUnpaid(s)
  <2> DEFINE r == [req[s] EXCEPT !.pc = "rollback"]
  <2>1. req'[s] = r
    BY <1>0, <1>2 DEF AcceptUnpaid, Step
  <2>2. r.pc = "rollback" /\ r.order = req[s].order /\ r.name = req[s].name
    BY <1>0 DEF ReqRec
  <2> HIDE DEF r
  <2>3. Holds(s, i)'
    BY <1>0, <2>1, <2>2 DEF Holds, LegId
  <2> QED BY <2>3 DEF StaysBacked, Rests
<1>3. CASE ReleaseLegClaim(s)
  <2>1. leg'[i].executor = None
    BY <1>0, <1>3 DEF ReleaseLegClaim, ReleasedClaim, LegRow
  <2> QED BY <2>1 DEF StaysBacked, Rests
<1>4. CASE ReleaseLegClaimError(s)
  BY <1>0, <1>4 DEF ReleaseLegClaimError, StaysBacked, Rests
<1> QED BY <1>0, <1>1, <1>2, <1>3, <1>4
        DEF Handle, ClaimLeg, ClaimLegError, UpdateLegStatus, Cancel, CancelEnd,
            CompleteAllLegs, PayNext, PayEnd, ConfirmEnd, WriteError

\* A claim made in this step is held by its slot, or was cut off.
LEMMA NewClaim ==
  ASSUME EscrowOK, NEW s \in Slots, ClaimLeg(s) \/ ClaimLegError(s),
         NEW i \in LegIds, ~(leg'[i].executor \in {leg[i].executor, None})
  PROVE  StaysBacked(i)
<1>0. req \in [Slots -> ReqRec] /\ leg \in [LegIds -> LegRow]
  BY DEF EscrowOK, LegsOK, ReqsOK
<1>1. i = LegId(s)
  BY <1>0 DEF ClaimLeg, ClaimLegError, Claimed
<1>2. CASE ClaimLegError(s)
  BY <1>1, <1>2 DEF ClaimLegError, StaysBacked, Rests
<1>3. CASE ClaimLeg(s)
  <2> DEFINE r == [req[s] EXCEPT !.pc = "open"]
  <2>1. req'[s] = r
    BY <1>0, <1>3 DEF ClaimLeg, Step
  <2>2. r.pc = "open" /\ r.order = req[s].order /\ r.name = req[s].name
    BY <1>0 DEF ReqRec
  <2> HIDE DEF r
  <2>3. Holds(s, i)'
    BY <1>1, <2>1, <2>2 DEF Holds, LegId
  <2> QED BY <2>3 DEF StaysBacked, Rests
<1> QED BY <1>2, <1>3

\* Claims whose accept was cut off are never forgotten.
LEMMA OrphansStay ==
  ASSUME [Next]_vars
  PROVE  orphaned \subseteq orphaned'
<1>1. ASSUME NEW s \in Slots, Handle(s) PROVE orphaned \subseteq orphaned'
  BY <1>1 DEF Handle, ClaimLeg, ClaimLegError, AcceptPaid, AcceptUnpaid,
     ReleaseLegClaim, ReleaseLegClaimError, UpdateLegStatus, Cancel, CancelEnd,
     CompleteAllLegs, PayNext, PayEnd, ConfirmEnd, WriteError, historyVars
<1>2. ASSUME NEW s \in Slots, Request(s) PROVE UNCHANGED historyVars
  BY <1>2 DEF Request, AcceptLoad, StatusLoad, CancelLoad, ConfirmLoad
<1>3. ASSUME NEW o \in Orders, NEW sh \in Shapes, CreateOrder(o, sh)
      PROVE  UNCHANGED historyVars
  BY <1>3 DEF CreateOrder
<1>4. Outside \/ UNCHANGED vars => UNCHANGED <<orphaned, delivered, cancelled>>
  BY OutsideLeaves
<1> QED BY <1>1, <1>2, <1>3, <1>4 DEF Next, Outside, Crash, historyVars

\* Only a claim gives a leg an executor it did not have.
LEMMA ExecutorFrom ==
  ASSUME EscrowOK, NEW s \in Slots, Request(s) \/ Handle(s),
         ~(ClaimLeg(s) \/ ClaimLegError(s)), NEW i \in LegIds
  PROVE  leg'[i].executor \in {leg[i].executor, None}
<1>0. LegsOK /\ leg \in [LegIds -> LegRow]
  BY DEF EscrowOK, LegsOK
<1>1. CASE ReleaseLegClaim(s)
  BY <1>0, <1>1 DEF ReleaseLegClaim, ReleasedClaim, LegRow
<1>2. CASE UpdateLegStatus(s)
  BY <1>0, <1>2 DEF UpdateLegStatus, LegRow
<1>3. CASE Cancel(s) \/ CompleteAllLegs(s)
  BY <1>0, <1>3, StatusKeepsExecutor DEF Cancel, CompleteAllLegs
<1>4. CASE Request(s)
  BY <1>4 DEF Request, AcceptLoad, StatusLoad, CancelLoad, ConfirmLoad
<1> QED BY <1>1, <1>2, <1>3, <1>4
        DEF Handle, AcceptPaid, AcceptUnpaid, ReleaseLegClaimError, CancelEnd,
            PayNext, PayEnd, ConfirmEnd, WriteError

\* The inductive invariant: the claims at rest have money behind them, those
\* that wait are linked to their request, and its answer can be believed.
BackingInv == ClaimExclusive /\ CallLinks /\ OkMeansRow /\ EscrowBehindClaim

\* One step of the system.
LEMMA BackingNext ==
  ASSUME EscrowOK, BackingInv, [Next]_vars
  PROVE  BackingInv'
<1>0. ClaimExclusive /\ CallLinks /\ OkMeansRow /\ EscrowBehindClaim
  BY DEF BackingInv
<1>1. ClaimExclusive' /\ CallLinks'
  BY <1>0, ExclusiveNext, LinksNext
<1>2. OkMeansRow'
  BY <1>0, WalletSteps, OkMeansRowNext DEF EscrowOK
<1>3. \A p \in Pairs : Opened(p) => tx'[p].status # "absent"
  BY WalletSteps, SettleStep DEF EscrowOK, SettlesOnce, Opened
<1>4. ASSUME NEW i \in LegIds PROVE StaysBacked(i)
  <2>1. ASSUME NEW s \in Slots, Request(s) \/ Handle(s) PROVE StaysBacked(i)
    <3>1. CASE leg'[i].executor \in {leg[i].executor, None} /\ ~Holds(s, i)
      BY <2>1, <3>1, OrphansStay, OtherLegs
    <3>2. CASE Holds(s, i) /\ Handle(s)
      BY <1>0, <3>2, OwnLeg
    <3>3. CASE ~(leg'[i].executor \in {leg[i].executor, None})
      <4>1. ClaimLeg(s) \/ ClaimLegError(s)
        BY <2>1, <3>3, ExecutorFrom
      <4> QED BY <3>3, <4>1, NewClaim
    <3>4. Request(s) => ~Holds(s, i)
      <4>1. Request(s) => req[s] = IdleReq
        BY DEF Request, AcceptLoad, StatusLoad, CancelLoad, ConfirmLoad, Free
      <4> QED BY <4>1 DEF IdleReq, Holds
    <3> QED BY <2>1, <3>1, <3>2, <3>3, <3>4
  <2>2. ASSUME leg'[i].executor \in {leg[i].executor, None},
               orphaned \subseteq orphaned',
               \A s \in Slots : Holds(s, i) => Holds(s, i)' \/ i \in orphaned'
        PROVE  StaysBacked(i)
    BY <2>2 DEF StaysBacked, Rests
  <2>3. CASE Crash
    <3>1. \A s \in Slots : Holds(s, i) => i \in orphaned'
      BY <2>3 DEF Crash, Holds
    <3> QED BY <2>2, <2>3, <3>1 DEF Crash
  <2>4. ASSUME NEW o \in Orders, NEW sh \in Shapes, CreateOrder(o, sh)
        PROVE  StaysBacked(i)
    <3>1. leg'[i] = leg[i] \/ leg'[i].executor = None
      BY <2>4 DEF CreateOrder
    <3> QED BY <2>2, <2>4, <3>1 DEF CreateOrder, historyVars, Holds, LegId
  <2>5. CASE Outside \/ UNCHANGED vars
    BY <2>2, <2>5, OutsideLeaves DEF Holds, LegId
  <2> QED BY <2>1, <2>3, <2>4, <2>5 DEF Next, Outside
<1>5. EscrowBehindClaim'
  <2>1. ASSUME NEW i \in LegIds, Rests(i)'
        PROVE  tx'[<<i[1], leg'[i].executor>>].status # "absent"
    <3>1. Opened(<<i[1], leg'[i].executor>>)
      BY <1>0, <1>4, <2>1 DEF StaysBacked, Rests, EscrowBehindClaim
    <3>2. leg'[i] \in LegRow /\ leg'[i].executor # None
      BY <2>1, LegsNext DEF LegsMove, Rests
    <3>3. <<i[1], leg'[i].executor>> \in Pairs
      BY <3>2 DEF LegRow, LegIds, Pairs
    <3> QED BY <1>3, <3>1, <3>3
  <2> QED BY <2>1 DEF Rests, EscrowBehindClaim, Opened
<1> QED BY <1>1, <1>2, <1>5 DEF BackingInv

\* An assigned leg that no accept is still working on has its executor's escrow
\* row, unless its accept was cut off: under every overlap, timeout and failure.
THEOREM MoneyBehindClaims == Spec => []EscrowBehindClaim
<1>1. Init => BackingInv
  BY DEF Init, WalletInit, NoLeg, IdleReq, IdleCall, BackingInv, ClaimExclusive,
         Holds, CallLinks, OkMeansRow, EscrowBehindClaim
<1>2. BackingInv => EscrowBehindClaim
  BY DEF BackingInv
<1> QED BY <1>1, <1>2, EscrowInit, EscrowNext, BackingNext, PTL DEF Spec

-----------------------------------------------------------------------------
(***************************************************************************)
(* What holds when the requests on one order do not overlap in time: what  *)
(* a handler judged of its snapshot is still true when it writes.  First   *)
(* under every fault, then when nothing fails.                             *)
(***************************************************************************)

\* At most one request works on an order.
OneAtATime ==
  \A s, t \in Slots : req[s].pc # "idle" /\ req[t].order = req[s].order => t = s

\* An order with all its legs completed, or all of them called off.
Completed(o) == LegsOf(o) # {} /\ \A i \in LegsOf(o) : leg[i].status = "completed"
CalledOff(o) == LegsOf(o) # {} /\ \A i \in LegsOf(o) : leg[i].status = "cancelled"

\* What the request in slot s has read of its order still holds.
Judged(s) ==
  /\ req[s].pc \in {"open", "rollback"} => leg[LegId(s)].status = "accepted"
  /\ req[s].pc = "write" => CanTransition(leg[LegId(s)].status, req[s].to)
  /\ req[s].pc = "mark" => LegsOf(req[s].order) # {} /\ CancelAllowed(req[s].order)
  /\ req[s].pc = "complete" => ConfirmAllowed(req[s].order)
  /\ req[s].pc \in {"pay", "paying"} => Completed(req[s].order)
  /\ req[s].pc = "refund" => req[s].order \in cancelled

\* The legs of a cancelled order stay cancelled.
CancelledStay == \A o \in cancelled : CalledOff(o)

\* Payments that orders asked for, or that the wallet made on such a request, are
\* for completed orders.
CallsCompleted == \A c \in OrderCalls : call[c].op = "release" => Completed(call[c].order)
RowsCompleted ==
  \A p \in Pairs : tx[p].status = "released" =>
    Completed(p[1]) \/ <<"released", p>> \in byUser

SerialInv ==
  /\ OneAtATime
  /\ \A s \in Slots : Judged(s)
  /\ CancelledStay
  /\ CallsCompleted
  /\ RowsCompleted

-----------------------------------------------------------------------------
(* The steps of a leg.                                                     *)

\* A leg that exists keeps its status, is cancelled early enough, follows an
\* edge of the status machine, or has its claim undone.
LifeStep(i) ==
  \/ leg'[i].status = leg[i].status
  \/ leg'[i].status = "cancelled" /\ cancellable(leg[i].status)
  \/ leg'[i].status \in nextAllowed(leg[i].status)
  \/ /\ leg[i].status = "accepted" /\ leg'[i].status = "published"
     /\ leg'[i].executor = None

\* Every edge of the status machine goes up, from and to a status other than
\* cancelled.
LEMMA EdgesGoUp ==
  ASSUME NEW from, NEW to \in nextAllowed(from)
  PROVE  /\ Rank(from) < Rank(to)
         /\ from \notin {"cancelled", "completed"} /\ to # "cancelled"
BY DEF nextAllowed, Rank

\* The legs a request reads.
LEMMA LegsOfRead ==
  ASSUME NEW o, NEW i \in LegsOf(o)
  PROVE  i \in LegIds /\ i[1] = o /\ Has(i)
BY DEF LegsOf

\* Nothing is confirmed but orders whose legs are all delivered or completed.
LEMMA ConfirmReads ==
  ASSUME NEW o
  PROVE  ConfirmAllowed(o) <=>
           /\ LegsOf(o) # {}
           /\ \A i \in LegsOf(o) : leg[i].status \in {"delivered", "completed"}
BY DEF ConfirmAllowed, IsReadyForClientConfirmation

\* The next statement of a request moves legs along their life.
LEMMA LifeNext ==
  ASSUME EscrowOK, [Next]_vars, \A s \in Slots : Judged(s),
         NEW i \in LegIds, Has(i)
  PROVE  LifeStep(i)
<1>0. /\ LegsOK /\ ReqsOK /\ leg \in [LegIds -> LegRow] /\ leg[i] \in LegRow
  BY DEF EscrowOK, LegsOK
<1>1. CASE leg'[i] = leg[i]
  BY <1>1 DEF LifeStep
<1>2. ASSUME NEW s \in Slots, ClaimLeg(s) \/ ClaimLegError(s) PROVE LifeStep(i)
  <2>1. \/ UNCHANGED leg
        \/ Claimable(LegId(s)) /\ leg' = Claimed(LegId(s), req[s].executor)
    BY <1>2 DEF ClaimLeg, ClaimLegError
  <2>2. CASE i = LegId(s) /\ Claimable(i) /\ leg' = Claimed(i, req[s].executor)
    <3>1. leg'[i].status = "accepted" /\ leg[i].status = "published"
      BY <1>0, <2>2 DEF Claimed, Claimable, LegRow
    <3> QED BY <3>1 DEF LifeStep, nextAllowed
  <2>3. leg' = Claimed(LegId(s), req[s].executor) /\ i # LegId(s) => leg'[i] = leg[i]
    BY <1>0 DEF Claimed
  <2> QED BY <1>1, <2>1, <2>2, <2>3
<1>3. ASSUME NEW s \in Slots, ReleaseLegClaim(s) PROVE LifeStep(i)
  <2>1. leg' = ReleasedClaim(LegId(s)) /\ leg[LegId(s)].status = "accepted"
    BY <1>3 DEF ReleaseLegClaim, Judged
  <2>2. CASE i = LegId(s)
    <3>1. leg'[i].status = "published" /\ leg'[i].executor = None
      BY <1>0, <2>1, <2>2 DEF ReleasedClaim, LegRow
    <3> QED BY <2>1, <2>2, <3>1 DEF LifeStep
  <2>3. i # LegId(s) => leg'[i] = leg[i]
    BY <1>0, <2>1 DEF ReleasedClaim
  <2> QED BY <1>1, <2>2, <2>3
<1>4. ASSUME NEW s \in Slots, UpdateLegStatus(s) PROVE LifeStep(i)
  <2>1. /\ leg' = [leg EXCEPT ![LegId(s)].status = req[s].to]
        /\ req[s].to \in nextAllowed(leg[LegId(s)].status)
    BY <1>4 DEF UpdateLegStatus, Judged, CanTransition
  <2>2. CASE i = LegId(s)
    <3>1. leg'[i].status = req[s].to
      BY <1>0, <2>1, <2>2 DEF LegRow
    <3> QED BY <2>1, <2>2, <3>1 DEF LifeStep
  <2>3. i # LegId(s) => leg'[i] = leg[i]
    BY <1>0, <2>1
  <2> QED BY <1>1, <2>2, <2>3
<1>5. ASSUME NEW s \in Slots, Cancel(s) PROVE LifeStep(i)
  <2>1. leg' = AllLegs(req[s].order, "cancelled") /\ CancelAllowed(req[s].order)
    BY <1>5 DEF Cancel, Judged
  <2>2. CASE i \in LegsOf(req[s].order)
    <3>1. leg'[i].status = "cancelled" /\ cancellable(leg[i].status)
      BY <1>0, <2>1, <2>2 DEF AllLegs, CancelAllowed, LegRow
    <3> QED BY <3>1 DEF LifeStep
  <2>3. i \notin LegsOf(req[s].order) => leg'[i] = leg[i]
    BY <2>1 DEF AllLegs
  <2> QED BY <1>1, <2>2, <2>3
<1>6. ASSUME NEW s \in Slots, CompleteAllLegs(s) PROVE LifeStep(i)
  <2>1. leg' = AllLegs(req[s].order, "completed") /\ ConfirmAllowed(req[s].order)
    BY <1>6 DEF CompleteAllLegs, Judged
  <2>2. CASE i \in LegsOf(req[s].order)
    <3>1. leg'[i].status = "completed" /\ leg[i].status \in {"delivered", "completed"}
      BY <1>0, <2>1, <2>2, ConfirmReads DEF AllLegs, LegRow
    <3> QED BY <3>1 DEF LifeStep, nextAllowed
  <2>3. i \notin LegsOf(req[s].order) => leg'[i] = leg[i]
    BY <2>1 DEF AllLegs
  <2> QED BY <1>1, <2>2, <2>3
<1>7. ASSUME NEW s \in Slots, Handle(s) PROVE LifeStep(i)
  BY <1>1, <1>2, <1>3, <1>4, <1>5, <1>6, <1>7
     DEF Handle, AcceptPaid, AcceptUnpaid, ReleaseLegClaimError, CancelEnd,
         PayNext, PayEnd, ConfirmEnd, WriteError
<1>8. ASSUME NEW s \in Slots, Request(s) PROVE UNCHANGED leg
  BY <1>8 DEF Request, AcceptLoad, StatusLoad, CancelLoad, ConfirmLoad
<1>9. ASSUME NEW o \in Orders, NEW sh \in Shapes, CreateOrder(o, sh)
      PROVE  leg'[i] = leg[i]
  BY <1>9 DEF CreateOrder, LegsOf
<1>10. Outside \/ Crash \/ UNCHANGED vars => UNCHANGED leg
  BY OutsideLeaves DEF Crash
<1> QED BY <1>1, <1>7, <1>8, <1>9, <1>10 DEF Next, Outside

\* A leg that is completed or cancelled stays so.
LEMMA FinalStays ==
  ASSUME EscrowOK, [Next]_vars, \A s \in Slots : Judged(s),
         NEW i \in LegIds, Has(i), leg[i].status \in {"completed", "cancelled"}
  PROVE  leg'[i].status = leg[i].status
<1>1. LifeStep(i)
  BY LifeNext
<1>2. leg'[i].status \notin nextAllowed(leg[i].status)
  BY EdgesGoUp
<1> QED BY <1>1, <1>2 DEF LifeStep, cancellable

\* An order that exists gets no more legs and loses none.
LEMMA LegsOfStay ==
  ASSUME EscrowOK, [Next]_vars, NEW o, LegsOf(o) # {}
  PROVE  LegsOf(o)' = LegsOf(o)
<1>1. \A i \in LegIds : i[1] = o => (Has(i)' <=> Has(i))
  BY LegsNext DEF LegsMove, LegMoves
<1> QED BY <1>1 DEF LegsOf

\* So a completed order stays completed, a cancelled one cancelled.
LEMMA OrdersStay ==
  ASSUME EscrowOK, [Next]_vars, \A s \in Slots : Judged(s), NEW o
  PROVE  (Completed(o) => Completed(o)') /\ (CalledOff(o) => CalledOff(o)')
<1>1. LegsOf(o) # {} => LegsOf(o)' = LegsOf(o)
  BY LegsOfStay
<1>2. \A i \in LegsOf(o) : leg[i].status \in {"completed", "cancelled"} =>
        leg'[i].status = leg[i].status
  BY LegsOfRead, FinalStays
<1> QED BY <1>1, <1>2 DEF Completed, CalledOff

-----------------------------------------------------------------------------
(* One request at a time.                                                  *)

\* A handler keeps working on its order, or ends.
LEMMA HandleOrder ==
  ASSUME EscrowOK, NEW s \in Slots, Handle(s)
  PROVE  /\ req[s].pc # "idle" /\ req[s].order \in Orders
         /\ req'[s] = IdleReq \/ req'[s].order = req[s].order
<1>0. ReqsOK /\ req \in [Slots -> ReqRec] /\ req[s] \in ReqRec
  BY DEF EscrowOK, ReqsOK
<1>1. req[s].pc # "idle"
  BY DEF Handle, ClaimLeg, ClaimLegError, AcceptPaid, AcceptUnpaid, ReleaseLegClaim,
     ReleaseLegClaimError, UpdateLegStatus, Cancel, CancelEnd, CompleteAllLegs,
     PayNext, PayEnd, ConfirmEnd, WriteError
<1>2. End(s) => req'[s] = IdleReq
  BY <1>0 DEF End
<1>3. ASSUME NEW pc, Step(s, pc) PROVE req'[s].order = req[s].order
  BY <1>0, <1>3 DEF Step, ReqRec
<1>4. ASSUME NEW p \in Payees, PayNext(s, p) PROVE req'[s].order = req[s].order
  <2> DEFINE r == [req[s] EXCEPT !.pc = "paying", !.executor = p, !.pay = @ \ {p}]
  <2>1. req' = [req EXCEPT ![s] = r] /\ r.order = req[s].order
    BY <1>0, <1>4 DEF PayNext, ReqRec
  <2> HIDE DEF r
  <2> QED BY <1>0, <2>1
<1>5. req'[s] = IdleReq \/ req'[s].order = req[s].order
  BY <1>2, <1>3, <1>4 DEF Handle, ClaimLeg, ClaimLegError, AcceptPaid, AcceptUnpaid,
     ReleaseLegClaim, ReleaseLegClaimError, UpdateLegStatus, Cancel, CancelEnd,
     CompleteAllLegs, PayEnd, ConfirmEnd, WriteError
<1> QED BY <1>0, <1>1, <1>5, ReqParts

\* A request that starts finds its order free, when requests do not overlap.
LEMMA RequestOrder ==
  ASSUME EscrowOK, NEW s \in Slots, Request(s)
  PROVE  /\ req[s] = IdleReq
         /\ Overlap \/ \A t \in Slots : req[t].order # req'[s].order
<1>0. req \in [Slots -> ReqRec]
  BY DEF EscrowOK, ReqsOK
<1>1. ASSUME NEW r, Start(s, r) PROVE req'[s] = r
  BY <1>0, <1>1 DEF Start
<1>2. ASSUME NEW i \in LegIds, NEW e \in Payees, AcceptLoad(s, i, e)
      PROVE  req'[s].order = i[1] /\ Free(s, i[1])
  BY <1>1, <1>2 DEF AcceptLoad, IdleReq
<1>3. ASSUME NEW i \in LegIds, NEW to \in Targets, StatusLoad(s, i, to)
      PROVE  req'[s].order = i[1] /\ Free(s, i[1])
  BY <1>1, <1>3 DEF StatusLoad, IdleReq
<1>4. ASSUME NEW o \in Orders, CancelLoad(s, o) \/ ConfirmLoad(s, o)
      PROVE  req'[s].order = o /\ Free(s, o)
  BY <1>1, <1>4 DEF CancelLoad, ConfirmLoad, IdleReq
<1>5. \E o : req'[s].order = o /\ Free(s, o)
  BY <1>2, <1>3, <1>4 DEF Request
<1> QED BY <1>5 DEF Free

\* One step of the system.
LEMMA OneAtATimeNext ==
  ASSUME Overlap = FALSE, EscrowOK, OneAtATime, [Next]_vars
  PROVE  OneAtATime'
<1>0. req \in [Slots -> ReqRec] /\ \A s \in Slots : req[s].pc # "idle" => req[s].order \in Orders
  BY ReqParts DEF EscrowOK, ReqsOK
<1>1. UNCHANGED req => OneAtATime'
  BY DEF OneAtATime
<1>2. CASE Crash
  BY <1>2 DEF Crash, OneAtATime, IdleReq
<1>3. ASSUME NEW s \in Slots, Handle(s) PROVE OneAtATime'
  <2>1. /\ \A t \in Slots : t # s => req'[t] = req[t]
        /\ req[s].pc # "idle"
        /\ req'[s] = IdleReq \/ req'[s].order = req[s].order
    BY <1>3, SlotStep, HandleOrder DEF OthersStay
  <2>2. IdleReq.pc = "idle" /\ IdleReq.order \notin Orders
    BY WalletAssumption DEF IdleReq
  <2> QED BY <1>0, <2>1, <2>2 DEF OneAtATime
<1>4. ASSUME NEW s \in Slots, Request(s) PROVE OneAtATime'
  <2>1. /\ \A t \in Slots : t # s => req'[t] = req[t]
        /\ \A t \in Slots : req[t].order # req'[s].order
    BY <1>4, SlotStep, RequestOrder DEF OthersStay
  <2> QED BY <2>1 DEF OneAtATime
<1>5. ASSUME NEW o \in Orders, NEW sh \in Shapes, CreateOrder(o, sh) PROVE UNCHANGED req
  BY <1>5 DEF CreateOrder
<1>6. Outside \/ UNCHANGED vars => UNCHANGED req
  BY OutsideLeaves
<1> QED BY <1>1, <1>2, <1>3, <1>4, <1>5, <1>6 DEF Next, Outside

\* A slot writes the legs of the order it works on, and no others.
LEMMA OwnLegs ==
  ASSUME NEW s \in Slots, Request(s) \/ Handle(s), LegsOK,
         NEW i \in LegIds, i[1] # req[s].order
  PROVE  leg'[i] = leg[i]
<1>0. leg \in [LegIds -> LegRow] /\ i # LegId(s) /\ i \notin LegsOf(req[s].order)
  BY DEF LegsOK, LegId, LegsOf
<1> QED BY <1>0
        DEF Request, AcceptLoad, StatusLoad, CancelLoad, ConfirmLoad, Handle,
            ClaimLeg, ClaimLegError, Claimed, AcceptPaid, AcceptUnpaid,
            ReleaseLegClaim, ReleasedClaim, ReleaseLegClaimError, UpdateLegStatus,
            Cancel, CancelEnd, CompleteAllLegs, AllLegs, PayNext, PayEnd,
            ConfirmEnd, WriteError

-----------------------------------------------------------------------------
(* What was judged stays true.                                             *)

\* A request in flight works on an order that exists.
LEMMA JudgedExists ==
  ASSUME EscrowOK, CancelledStay, NEW s \in Slots, Judged(s), req[s].pc # "idle"
  PROVE  LegsOf(req[s].order) # {}
<1>0. req[s] \in ReqRec /\ (req[s].pc \in LegPcs => LegId(s) \in LegIds /\ Has(LegId(s)))
  BY ReqParts DEF EscrowOK
<1>1. CASE req[s].pc \in LegPcs
  <2>1. LegId(s) \in LegsOf(req[s].order)
    BY <1>0, <1>1 DEF LegsOf, LegId
  <2> QED BY <2>1
<1>2. CASE req[s].pc \in {"mark", "refund", "complete", "pay", "paying"}
  BY <1>2, ConfirmReads DEF Judged, Completed, CancelledStay, CalledOff
<1> QED BY <1>0, <1>1, <1>2 DEF ReqRec, LegPcs

\* Whoever is not working on an order does not disturb what was judged of it.
LEMMA JudgedFrame ==
  ASSUME EscrowOK, CancelledStay, [Next]_vars, NEW s \in Slots, Judged(s), req'[s] = req[s],
         req[s].pc # "idle" =>
           \A i \in LegIds : i[1] = req[s].order /\ Has(i) => leg'[i] = leg[i]
  PROVE  Judged(s)'
<1>1. CASE req[s].pc = "idle"
  BY <1>1 DEF Judged
<1>2. CASE req[s].pc # "idle"
  <2> DEFINE o == req[s].order
  <2>1. LegsOf(o)' = LegsOf(o) /\ \A i \in LegsOf(o) : leg'[i] = leg[i]
    BY <1>2, JudgedExists, LegsOfStay, LegsOfRead
  <2>2. req[s].pc \in {"open", "rollback", "write"} =>
          LegId(s) \in LegsOf(o) /\ LegId(s)' = LegId(s)
    BY ReqParts DEF EscrowOK, LegPcs, LegId, LegsOf
  <2>3. LegId(s) \in LegsOf(o) => leg'[LegId(s)] = leg[LegId(s)]
    BY <2>1
  <2>4. req'[s].order = o /\ cancelled \subseteq cancelled'
    BY HistoryGrows
  <2>5. CASE req[s].pc \in {"open", "rollback", "write"}
    BY <2>2, <2>3, <2>5 DEF Judged
  <2>6. CASE req[s].pc = "mark"
    BY <2>1, <2>6 DEF Judged, CancelAllowed
  <2>7. CASE req[s].pc = "complete"
    <3>1. ConfirmAllowed(o)'
      BY <2>1, <2>7 DEF Judged, ConfirmAllowed
    <3> QED BY <2>7, <3>1 DEF Judged
  <2>8. CASE req[s].pc \in {"pay", "paying"}
    BY <2>1, <2>8 DEF Judged, Completed
  <2>9. CASE req[s].pc = "refund"
    BY <2>4, <2>9 DEF Judged
  <2>10. CASE req[s].pc = "claim"
    BY <2>10 DEF Judged
  <2>11. req[s] \in ReqRec
    BY ReqParts DEF EscrowOK
  <2> QED BY <1>2, <2>5, <2>6, <2>7, <2>8, <2>9, <2>10, <2>11 DEF ReqRec
<1> QED BY <1>1, <1>2

\* A request starts on what it reads.
LEMMA JudgedStart ==
  ASSUME EscrowOK, NEW s \in Slots, Request(s)
  PROVE  Judged(s)'
<1>0. req \in [Slots -> ReqRec]
  BY DEF EscrowOK, ReqsOK
<1>1. UNCHANGED <<leg, cancelled>>
  BY DEF Request, AcceptLoad, StatusLoad, CancelLoad, ConfirmLoad, historyVars
<1>2. ASSUME NEW r, Start(s, r) PROVE req'[s] = r
  BY <1>0, <1>2 DEF Start
<1>3. ASSUME NEW i \in LegIds, NEW e \in Payees, AcceptLoad(s, i, e)
      PROVE  Judged(s)'
  <2>1. req'[s].pc = "claim"
    BY <1>2, <1>3 DEF AcceptLoad, IdleReq
  <2> QED BY <2>1 DEF Judged
<1>4. ASSUME NEW i \in LegIds, NEW to \in Targets, StatusLoad(s, i, to)
      PROVE  Judged(s)'
  <2>1. req'[s].pc = "write" /\ req'[s].to = to /\ req'[s].order = i[1] /\ req'[s].name = i[2]
    BY <1>2, <1>4 DEF StatusLoad, IdleReq
  <2>2. LegId(s)' = i
    BY <2>1 DEF LegId, LegIds
  <2>3. CanTransition(leg[i].status, to)
    BY <1>4 DEF StatusLoad
  <2> QED BY <1>1, <2>1, <2>2, <2>3 DEF Judged
<1>5. ASSUME NEW o \in Orders, CancelLoad(s, o) PROVE Judged(s)'
  <2>1. req'[s].pc = "mark" /\ req'[s].order = o
    BY <1>2, <1>5 DEF CancelLoad, IdleReq
  <2>2. LegsOf(o)' # {} /\ CancelAllowed(o)'
    BY <1>1, <1>5 DEF CancelLoad, CancelAllowed, LegsOf, Has
  <2> QED BY <2>1, <2>2 DEF Judged
<1>6. ASSUME NEW o \in Orders, ConfirmLoad(s, o) PROVE Judged(s)'
  <2>1. req'[s].pc = "complete" /\ req'[s].order = o
    BY <1>2, <1>6 DEF ConfirmLoad, IdleReq
  <2>2. ConfirmAllowed(o)'
    BY <1>1, <1>6 DEF ConfirmLoad, ConfirmAllowed, LegsOf, Has
  <2> QED BY <2>1, <2>2 DEF Judged
<1> QED BY <1>3, <1>4, <1>5, <1>6 DEF Request

\* The two writes to all legs of an order do what they say.
LEMMA AllLegsDone ==
  ASSUME EscrowOK, [Next]_vars, NEW o, NEW st, leg' = AllLegs(o, st), LegsOf(o) # {}
  PROVE  LegsOf(o)' # {} /\ \A i \in LegsOf(o)' : leg'[i].status = st
<1>1. LegsOf(o)' = LegsOf(o)
  BY LegsOfStay
<1>2. leg \in [LegIds -> LegRow] /\ \A i \in LegsOf(o) : i \in LegIds
  BY LegsOfRead DEF EscrowOK, LegsOK
<1>3. ASSUME NEW i \in LegsOf(o) PROVE leg'[i].status = st
  BY <1>2 DEF AllLegs, LegRow
<1> QED BY <1>1, <1>3

\* A handler goes on from what it judged to what it will rely on next.
LEMMA JudgedHandle ==
  ASSUME EscrowOK, [Next]_vars, NEW s \in Slots, Judged(s), Handle(s)
  PROVE  Judged(s)'
<1>0. /\ LegsOK /\ ReqsOK /\ req \in [Slots -> ReqRec] /\ req[s] \in ReqRec
      /\ leg \in [LegIds -> LegRow]
  BY DEF EscrowOK, ReqsOK, LegsOK
<1>1. CASE End(s)
  <2>1. req'[s].pc = "idle"
    BY <1>0, <1>1 DEF End, IdleReq
  <2> QED BY <2>1 DEF Judged
<1>2. ASSUME NEW pc, Step(s, pc)
      PROVE  /\ req'[s].pc = pc /\ req'[s].order = req[s].order
             /\ req'[s].to = req[s].to /\ LegId(s)' = LegId(s)
  BY <1>0, <1>2 DEF Step, ReqRec, LegId
<1>3. CASE ClaimLeg(s) /\ Step(s, "open")
  <2>1. req'[s].pc = "open" /\ LegId(s)' = LegId(s)
    BY <1>2, <1>3
  <2>2. leg' = Claimed(LegId(s), req[s].executor) /\ LegId(s) \in LegIds
    BY <1>0, <1>2, <1>3, ReqParts DEF ClaimLeg, End, IdleReq, LegPcs
  <2>3. leg'[LegId(s)].status = "accepted"
    BY <1>0, <2>2 DEF Claimed, LegRow
  <2> QED BY <2>1, <2>3 DEF Judged
<1>4. CASE AcceptUnpaid(s)
  <2>1. /\ req'[s].pc = "rollback" /\ LegId(s)' = LegId(s) /\ UNCHANGED leg
        /\ req[s].pc = "open"
    BY <1>2, <1>4 DEF AcceptUnpaid
  <2> QED BY <2>1 DEF Judged
<1>5. CASE Cancel(s) /\ Step(s, "refund")
  <2>1. req'[s].pc = "refund" /\ req'[s].order \in cancelled'
    BY <1>2, <1>5 DEF Cancel
  <2> QED BY <2>1 DEF Judged
<1>6. CASE CompleteAllLegs(s) /\ Step(s, "pay")
  <2> DEFINE o == req[s].order
  <2>1. req'[s].pc = "pay" /\ req'[s].order = o /\ leg' = AllLegs(o, "completed")
    BY <1>2, <1>6 DEF CompleteAllLegs
  <2>2. LegsOf(o) # {}
    BY <1>6, ConfirmReads DEF CompleteAllLegs, Judged
  <2>3. Completed(o)'
    BY <2>1, <2>2, AllLegsDone DEF Completed
  <2> QED BY <2>1, <2>3 DEF Judged
<1>7. CASE PayEnd(s)
  <2>1. /\ req'[s].pc = "pay" /\ req'[s].order = req[s].order /\ UNCHANGED leg
        /\ Completed(req[s].order)
    BY <1>2, <1>7 DEF PayEnd, Judged
  <2>2. Completed(req[s].order)'
    BY <2>1 DEF Completed, LegsOf, Has
  <2> QED BY <2>1, <2>2 DEF Judged
<1>8. ASSUME NEW p \in Payees, PayNext(s, p) PROVE Judged(s)'
  <2> DEFINE r == [req[s] EXCEPT !.pc = "paying", !.executor = p, !.pay = @ \ {p}]
  <2>1. req' = [req EXCEPT ![s] = r] /\ r.pc = "paying" /\ r.order = req[s].order
    BY <1>0, <1>8 DEF PayNext, ReqRec
  <2> HIDE DEF r
  <2>2. req'[s] = r /\ UNCHANGED leg /\ Completed(req[s].order)
    BY <1>0, <1>8, <2>1 DEF PayNext, Judged
  <2>3. Completed(req[s].order)'
    BY <2>1, <2>2 DEF Completed, LegsOf, Has
  <2> QED BY <2>1, <2>2, <2>3 DEF Judged
<1> QED BY <1>1, <1>3, <1>4, <1>5, <1>6, <1>7, <1>8
        DEF Handle, ClaimLeg, ClaimLegError, AcceptPaid, ReleaseLegClaim,
            ReleaseLegClaimError, UpdateLegStatus, Cancel, CancelEnd,
            CompleteAllLegs, ConfirmEnd, WriteError

\* One step of the system.
LEMMA JudgedNext ==
  ASSUME EscrowOK, OneAtATime, CancelledStay, \A s \in Slots : Judged(s), [Next]_vars,
         NEW s \in Slots
  PROVE  Judged(s)'
<1>0. LegsOK
  BY DEF EscrowOK
<1>1. CASE UNCHANGED <<leg, req>>
  BY <1>1, JudgedFrame
<1>2. CASE Crash
  <2>1. req'[s].pc = "idle"
    BY <1>2 DEF Crash, IdleReq
  <2> QED BY <2>1 DEF Judged
<1>3. ASSUME NEW t \in Slots, Request(t) \/ Handle(t) PROVE Judged(s)'
  <2>1. CASE t = s
    BY <1>3, <2>1, JudgedStart, JudgedHandle
  <2>2. CASE t # s
    <3>1. req'[s] = req[s]
      BY <1>3, <2>2, SlotStep DEF OthersStay
    <3>2. req[s].pc # "idle" => req[s].order # req[t].order
      BY <2>2 DEF OneAtATime
    <3> QED BY <1>0, <1>3, <3>1, <3>2, OwnLegs, JudgedFrame
  <2> QED BY <2>1, <2>2
<1>4. ASSUME NEW o \in Orders, NEW sh \in Shapes, CreateOrder(o, sh) PROVE Judged(s)'
  <2>1. req'[s] = req[s] /\ \A i \in LegIds : Has(i) => leg'[i] = leg[i]
    BY <1>4 DEF CreateOrder, LegsOf
  <2> QED BY <2>1, JudgedFrame
<1>5. Outside \/ UNCHANGED vars => UNCHANGED <<leg, req>>
  BY OutsideLeaves
<1> QED BY <1>1, <1>2, <1>3, <1>4, <1>5 DEF Next, Outside

-----------------------------------------------------------------------------
(* The invariant, and what follows from it.                                *)

\* One step of the system.
LEMMA SerialNext ==
  ASSUME Overlap = FALSE, EscrowOK, SerialInv, [Next]_vars
  PROVE  SerialInv'
<1>0. /\ OneAtATime /\ CancelledStay /\ CallsCompleted /\ RowsCompleted
      /\ \A s \in Slots : Judged(s)
      /\ \A o : (Completed(o) => Completed(o)') /\ (CalledOff(o) => CalledOff(o)')
  BY OrdersStay DEF SerialInv
<1>1. OneAtATime' /\ \A s \in Slots : Judged(s)'
  BY <1>0, OneAtATimeNext, JudgedNext
<1>2. CancelledStay'
  <2>1. ASSUME NEW s \in Slots, Cancel(s), NEW o, o = req[s].order PROVE CalledOff(o)'
    BY <1>0, <2>1, AllLegsDone DEF Cancel, Judged, CalledOff
  <2>2. ASSUME NEW o \in cancelled', o \notin cancelled
        PROVE  \E s \in Slots : Cancel(s) /\ o = req[s].order
    <3>1. Outside \/ UNCHANGED vars => UNCHANGED cancelled
      BY OutsideLeaves
    <3> QED BY <2>2, <3>1, ZenonT(60)
            DEF Next, Outside, CreateOrder, Request, AcceptLoad, StatusLoad, CancelLoad,
                ConfirmLoad, Handle, ClaimLeg, ClaimLegError, AcceptPaid, AcceptUnpaid,
                ReleaseLegClaim, ReleaseLegClaimError, UpdateLegStatus, Cancel,
                CancelEnd, CompleteAllLegs, PayNext, PayEnd, ConfirmEnd, WriteError,
                Crash, historyVars
  <2> QED BY <1>0, <2>1, <2>2 DEF CancelledStay
<1>3. CallsCompleted'
  <2>1. ASSUME NEW c \in OrderCalls, call'[c].op = "release"
        PROVE  Completed(call'[c].order)
    <3>0. c \in Calls
      BY EscrowAssumption
    <3>1. \/ call[c].op = "release" /\ call'[c].order = call[c].order
          \/ \E s \in Slots : req[s].pc = "pay" /\ call'[c].order = req[s].order
      BY <2>1, <3>0, CallsFrom DEF CameFrom
    <3> QED BY <1>0, <3>1 DEF CallsCompleted, Judged
  <2> HIDE DEF Completed
  <2> QED BY <1>0, <2>1 DEF CallsCompleted
<1>4. RowsCompleted'
  <2>1. ASSUME NEW p \in Pairs, tx'[p].status = "released"
        PROVE  Completed(p[1]) \/ <<"released", p>> \in byUser'
    <3>1. CASE tx[p].status = "released"
      BY <1>0, <3>1, HistoryGrows DEF RowsCompleted
    <3>2. CASE tx[p].status # "released"
      BY <1>0, <2>1, <3>2, PaidFrom DEF CallsCompleted
    <3> QED BY <3>1, <3>2
  <2> QED BY <1>0, <2>1 DEF RowsCompleted
<1> QED BY <1>1, <1>2, <1>3, <1>4 DEF SerialInv

\* The system starts with nothing judged, cancelled or paid.
LEMMA SerialInit == Init => SerialInv
BY EscrowAssumption
   DEF Init, WalletInit, IdleReq, IdleCall, NoRow, SerialInv, OneAtATime, Judged,
       CancelledStay, CallsCompleted, RowsCompleted

\* While the requests on an order do not overlap, no order is both called off
\* and paid for by the orders service, whatever fails and whenever, and whatever
\* users do in the wallet.
THEOREM NeverCancelledAndPaid ==
  ASSUME Overlap = FALSE
  PROVE  Spec => []CancelledOrPaid
<1>1. SerialInv => CancelledOrPaid
  BY DEF SerialInv, CancelledStay, RowsCompleted, CalledOff, Completed, CancelledOrPaid
<1> QED BY <1>1, SerialInit, SerialNext, EscrowInit, EscrowNext, PTL DEF Spec

\* And every leg lives the life legs.go describes: up the ladder, cancelled
\* only before work starts, back to published only when its claim is undone,
\* and never out of completed or cancelled.
THEOREM LegsLiveOnce ==
  ASSUME Overlap = FALSE
  PROVE  Spec => LegLifecycle
<1>1. ASSUME EscrowOK, SerialInv, [Next]_vars, NEW i \in LegIds, Has(i),
             leg'[i].status # leg[i].status
      PROVE  \/ leg'[i].status = "cancelled" /\ cancellable(leg[i].status)
             \/ /\ leg[i].status # "cancelled" /\ leg'[i].status # "cancelled"
                /\ Rank(leg[i].status) < Rank(leg'[i].status)
             \/ /\ leg[i].status = "accepted" /\ leg'[i].status = "published"
                /\ leg'[i].executor = None
  <2>1. LifeStep(i)
    BY <1>1, LifeNext DEF SerialInv
  <2>2. leg'[i].status \in nextAllowed(leg[i].status) =>
          /\ Rank(leg[i].status) < Rank(leg'[i].status)
          /\ leg[i].status # "cancelled" /\ leg'[i].status # "cancelled"
    BY EdgesGoUp
  <2> QED BY <1>1, <2>1, <2>2 DEF LifeStep
<1>2. EscrowOK /\ SerialInv /\ [Next]_vars =>
        [\A i \in LegIds : Has(i) /\ leg'[i].status # leg[i].status =>
           \/ /\ leg'[i].status = "cancelled"
              /\ cancellable(leg[i].status)
           \/ /\ leg[i].status # "cancelled" /\ leg'[i].status # "cancelled"
              /\ Rank(leg[i].status) < Rank(leg'[i].status)
           \/ /\ leg[i].status = "accepted" /\ leg'[i].status = "published"
              /\ leg'[i].executor = None]_vars
  BY <1>1
<1> QED BY <1>2, SerialInit, SerialNext, EscrowInit, EscrowNext, PTL
        DEF Spec, LegLifecycle

-----------------------------------------------------------------------------
(* When nothing fails and no user turns to the wallet past the orders      *)
(* service: every request of the wallet has its caller waiting.            *)

\* The statements at which a handler waits for the wallet, and what for.
WaitPcs == {"open", "refund", "paying"}
Waits(s) ==
  LET k == call[CallOf(s)]
  IN  /\ k.open = TRUE /\ k.order = req[s].order
      /\ req[s].pc = "open" => k.op = "create" /\ k.payee = req[s].executor
      /\ req[s].pc = "paying" => k.op = "release" /\ k.payee = req[s].executor
      /\ req[s].pc = "refund" => k.op = "refund"

\* The wallet works on no request of slot s but the one it waits for.
SlotConnected(s) ==
  /\ req[s].pc \in WaitPcs => Waits(s)
  /\ \A p \in Payees \cup {None} :
       call[<<s, p>>] # IdleCall => req[s].pc \in WaitPcs /\ CallOf(s) = <<s, p>>
Connected == \A s \in Slots : SlotConnected(s)

\* The call a request waits on has a slot in the wallet.
LEMMA WaitCall ==
  ASSUME EscrowOK, NEW s \in Slots, req[s].pc \in WaitPcs
  PROVE  /\ CallOf(s) \in Calls
         /\ req[s].pc = "refund" => CallOf(s) = <<s, None>>
         /\ req[s].pc # "refund" =>
              CallOf(s) = <<s, req[s].executor>> /\ req[s].executor \in Payees
BY EscrowAssumption DEF EscrowOK, ReqsOK, ReqShape, WaitPcs, CallOf, OrderCalls

\* A request the wallet has is the one its slot waits for, as no user sends any.
LEMMA CallWaits ==
  ASSUME UserCalls = {}, EscrowOK, Connected, NEW c \in Calls, call[c] # IdleCall
  PROVE  \E s \in Slots : CallOf(s) = c /\ req[s].pc \in WaitPcs /\ Waits(s)
<1>1. PICK s \in Slots, p \in Payees \cup {None} : c = <<s, p>>
  BY EscrowAssumption DEF OrderCalls
<1> QED BY <1>1 DEF Connected, SlotConnected

\* What one step of the wallet on request c may change.
ServeChanges(c) ==
  /\ call[c] # IdleCall /\ call[c].pc # "replied"
  /\ \A d \in Calls : d # c => call'[d] = call[d]
  /\ \A p \in Pairs : p[1] # call[c].order => tx'[p] = tx[p]
  /\ \/ /\ call[c].op = "create"
        /\ \/ tx' = tx
           \/ /\ call[c].open => call'[c].pc = "replied" /\ call'[c].result = "ok"
              /\ \A p \in Pairs : p # Pair(c) => tx'[p] = tx[p]
     \/ /\ call[c].op = "release" /\ tx'[Pair(c)].status # "held"
        /\ \A p \in Pairs : p # Pair(c) => tx'[p] = tx[p]
     \/ /\ call[c].op = "refund"
        /\ \A p \in Pairs : tx'[p].status = "held" => p[1] # call[c].order

LEMMA ServeEffect ==
  ASSUME WalletOK, NEW c \in Calls, Serve(c)
  PROVE  ServeChanges(c)
<1>0. /\ call \in [Calls -> CallRec] /\ tx \in [Pairs -> TxRow] /\ call[c] \in CallRec
      /\ \A p \in Pairs : tx[p] \in TxRow
      /\ call[c].op \in {"create", "release"} => Pair(c) \in Pairs /\ Pair(c)[1] = call[c].order
  BY DEF WalletOK, WalletTypeOK, CallShape, Shaped, Pair, Pairs
<1>1. ASSUME NEW res, Reply(c, res)
      PROVE  /\ \A d \in Calls : d # c => call'[d] = call[d]
             /\ call[c].open => call'[c].pc = "replied" /\ call'[c].result = res
  BY <1>0, <1>1 DEF Reply, CallRec
<1>2. ASSUME NEW pc, Goto(c, pc) PROVE \A d \in Calls : d # c => call'[d] = call[d]
  BY <1>0, <1>2 DEF Goto
<1>3. CASE Lookup(c) \/ Charge(c) \/ CommissionPct(c)
  <2>1. /\ call[c].op = "create" /\ call[c].pc # "replied" /\ UNCHANGED tx
        /\ \A d \in Calls : d # c => call'[d] = call[d]
    BY <1>0, <1>1, <1>2, <1>3 DEF Lookup, Charge, CommissionPct
  <2> QED BY <2>1 DEF ServeChanges, IdleCall
<1>4. CASE Create(c)
  <2>1. /\ call[c].op = "create"
        /\ \/ UNCHANGED tx
           \/ call[c].open => call'[c].pc = "replied" /\ call'[c].result = "ok"
        /\ \A d \in Calls : d # c => call'[d] = call[d]
    BY <1>1, <1>4 DEF Create, Inserted
  <2>2. \A p \in Pairs : p # Pair(c) => tx'[p] = tx[p]
    BY <1>0, <1>4 DEF Create, Inserted
  <2>3. call[c].pc # "replied"
    BY <1>4 DEF Create, Inserted
  <2> QED BY <1>0, <2>1, <2>2, <2>3 DEF ServeChanges, IdleCall
<1>5. CASE Release(c)
  <2>1. /\ call[c].op = "release" /\ call[c].pc # "replied"
        /\ \A d \in Calls : d # c => call'[d] = call[d]
    BY <1>1, <1>5 DEF Release, Paid
  <2>2. \A p \in Pairs : p # Pair(c) => tx'[p] = tx[p]
    BY <1>0, <1>5 DEF Release, Paid
  <2>3. tx'[Pair(c)].status # "held"
    BY <1>0, <2>1, <1>5 DEF Release, Paid, TxRow
  <2> QED BY <1>0, <2>1, <2>2, <2>3 DEF ServeChanges, IdleCall
<1>6. CASE RefundOrder(c)
  <2>1. /\ call[c].op = "refund" /\ call[c].pc # "replied"
        /\ \A d \in Calls : d # c => call'[d] = call[d]
    BY <1>1, <1>6 DEF RefundOrder, GivenBack
  <2>2. \A p \in Pairs : p[1] # call[c].order => tx'[p] = tx[p]
    BY <1>0, <1>6 DEF RefundOrder, GivenBack
  <2>3. ASSUME NEW p \in Pairs, p[1] = call[c].order PROVE tx'[p].status # "held"
    BY <1>0, <1>6, <2>3 DEF RefundOrder, GivenBack, TxRow
  <2> QED BY <2>1, <2>2, <2>3 DEF ServeChanges, IdleCall
<1> QED BY <1>3, <1>4, <1>5, <1>6 DEF Serve

\* The kinds of step when nothing fails: a slot, a new order, the wallet on a
\* request somebody waits for, or none that these invariants can see.
LEMMA CalmSteps ==
  ASSUME Faults = {}, UserCalls = {}, EscrowOK, Connected, [Next]_vars
  PROVE  \/ \E s \in Slots : (Request(s) \/ Handle(s)) /\ UNCHANGED tx
         \/ \E o \in Orders, sh \in Shapes : CreateOrder(o, sh)
         \/ \E c \in Calls : Serve(c) /\ UNCHANGED orderVars
         \/ UNCHANGED <<tx, call, orderVars>>
<1>1. ASSUME NEW c \in Calls, Fail(c), ~call[c].open PROVE FALSE
  <2>1. call[c] # IdleCall
    BY <1>1 DEF Fail, IdleCall
  <2> QED BY <1>1, <2>1, CallWaits DEF Waits
<1>2. WalletStep => \/ \E c \in Calls : Serve(c) /\ UNCHANGED orderVars
                    \/ UNCHANGED <<tx, call, orderVars>>
  BY <1>1 DEF WalletStep, WalletServes, SetCommissionPct, orderVars, historyVars
<1>3. ~Crash
  BY DEF Crash
<1>4. ASSUME NEW s \in Slots, Request(s) \/ Handle(s) PROVE UNCHANGED tx
  BY <1>4 DEF Request, AcceptLoad, StatusLoad, CancelLoad, ConfirmLoad, Handle,
     ClaimLeg, ClaimLegError, AcceptPaid, AcceptUnpaid, ReleaseLegClaim,
     ReleaseLegClaimError, UpdateLegStatus, Cancel, CancelEnd, CompleteAllLegs,
     PayNext, PayEnd, ConfirmEnd, WriteError, Answered, Unanswered, Arrive,
     Receive, Hangup, walletVars
<1>5. UNCHANGED vars => UNCHANGED <<tx, call, orderVars>>
  BY DEF vars, walletVars
<1> QED BY <1>2, <1>3, <1>4, <1>5 DEF Next, Outside

\* A slot that waits for nothing has nothing in the wallet.
LEMMA QuietSlot ==
  ASSUME NEW s \in Slots, SlotConnected(s), req[s].pc \notin WaitPcs,
         NEW p \in Payees \cup {None}
  PROVE  call[<<s, p>>] = IdleCall
BY DEF SlotConnected

\* What the others do does not touch the connection of a slot.
LEMMA ConnectedFrame ==
  ASSUME EscrowOK, NEW s \in Slots, SlotConnected(s), req'[s] = req[s],
         \A p \in Payees \cup {None} : call'[<<s, p>>] = call[<<s, p>>]
  PROVE  SlotConnected(s)'
<1>1. CallOf(s)' = CallOf(s)
  BY DEF CallOf
<1>2. req[s].pc \in WaitPcs => call'[CallOf(s)] = call[CallOf(s)]
  BY WaitCall DEF WaitPcs
<1> QED BY <1>1, <1>2 DEF SlotConnected, Waits

\* A slot that waits for nothing before and after.
LEMMA ConnectedQuiet ==
  ASSUME NEW s \in Slots, SlotConnected(s), UNCHANGED call,
         req[s].pc \notin WaitPcs, req'[s].pc \notin WaitPcs
  PROVE  SlotConnected(s)'
BY QuietSlot DEF SlotConnected

\* The answer is read: nothing of the slot is left in the wallet.
LEMMA ConnectedReceive ==
  ASSUME EscrowOK, NEW s \in Slots, SlotConnected(s), Receive(CallOf(s)),
         req[s].pc \in WaitPcs, req'[s].pc \notin WaitPcs
  PROVE  SlotConnected(s)'
<1>1. call \in [Calls -> CallRec] /\ CallOf(s) \in Calls
  BY WaitCall DEF EscrowOK, WalletOK, WalletTypeOK
<1>2. ASSUME NEW p \in Payees \cup {None} PROVE call'[<<s, p>>] = IdleCall
  <2>1. <<s, p>> \in Calls
    BY EscrowAssumption DEF OrderCalls
  <2>2. CASE <<s, p>> = CallOf(s)
    BY <1>1, <2>1, <2>2 DEF Receive
  <2>3. CASE <<s, p>> # CallOf(s)
    <3>1. call[<<s, p>>] = IdleCall
      BY <2>3 DEF SlotConnected
    <3> QED BY <1>1, <2>1, <2>3, <3>1 DEF Receive
  <2> QED BY <2>2, <2>3
<1> QED BY <1>2 DEF SlotConnected

\* A request is sent, and the slot waits for it.
LEMMA ConnectedArrive ==
  ASSUME EscrowOK, NEW s \in Slots, SlotConnected(s), req[s].pc \notin WaitPcs,
         NEW op, NEW p \in Payees \cup {None}, NEW a,
         Arrive(<<s, p>>, op, req'[s].order, p, a), CallOf(s)' = <<s, p>>,
         \/ req'[s].pc = "open" /\ op = "create" /\ p = req'[s].executor
         \/ req'[s].pc = "paying" /\ op = "release" /\ p = req'[s].executor
         \/ req'[s].pc = "refund" /\ op = "refund"
  PROVE  SlotConnected(s)'
<1> DEFINE k == [op |-> op, pc |-> "start", order |-> req'[s].order, payee |-> p,
                 amount |-> a, fee |-> 0, open |-> TRUE, result |-> "none"]
<1>1. call \in [Calls -> CallRec] /\ \A q \in Payees \cup {None} : <<s, q>> \in Calls
  BY EscrowAssumption DEF EscrowOK, WalletOK, WalletTypeOK, OrderCalls
<1>2. call' = [call EXCEPT ![<<s, p>>] = k]
  BY DEF Arrive
<1>3. k.op = op /\ k.order = req'[s].order /\ k.payee = p /\ k.open = TRUE
  OBVIOUS
<1> HIDE DEF k
<1>4. call'[<<s, p>>] = k
  BY <1>1, <1>2
<1>5. ASSUME NEW q \in Payees \cup {None}, q # p PROVE call'[<<s, q>>] = IdleCall
  <2>1. call[<<s, q>>] = IdleCall /\ <<s, q>> # <<s, p>>
    BY <1>5, QuietSlot
  <2> QED BY <1>1, <1>2, <2>1
<1>6. Waits(s)'
  BY <1>3, <1>4 DEF Waits
<1>7. req'[s].pc \in WaitPcs
  BY DEF WaitPcs
<1> QED BY <1>5, <1>6, <1>7 DEF SlotConnected

\* The next statement of a handler, when nothing fails.
LEMMA ConnectedHandle ==
  ASSUME Faults = {}, EscrowOK, NEW s \in Slots, SlotConnected(s), Handle(s)
  PROVE  SlotConnected(s)'
<1>0. /\ req \in [Slots -> ReqRec] /\ req[s] \in ReqRec /\ ReqShape(req[s])
      /\ IdleReq.pc \notin WaitPcs
      /\ req[s].pc # "idle" => req[s].order \in Orders
  BY ReqParts DEF EscrowOK, ReqsOK, IdleReq, WaitPcs
<1>1. End(s) => req'[s].pc \notin WaitPcs
  BY <1>0 DEF End
<1>2. ASSUME NEW pc, Step(s, pc)
      PROVE  /\ req'[s].pc = pc /\ req'[s].order = req[s].order /\ req'[s].op = req[s].op
             /\ req'[s].executor = req[s].executor
  BY <1>0, <1>2 DEF Step, ReqRec
<1>3. CASE ClaimLeg(s) /\ End(s)
  <2>1. UNCHANGED call /\ req[s].pc \notin WaitPcs
    <3>1. ~Step(s, "open")
      BY <1>1, <1>2, <1>3 DEF WaitPcs
    <3> QED BY <1>3, <3>1 DEF ClaimLeg, walletVars, WaitPcs
  <2> QED BY <1>1, <1>3, <2>1, ConnectedQuiet
<1>4. CASE ClaimLeg(s) /\ Step(s, "open")
  <2>1. /\ req[s].pc \notin WaitPcs /\ req[s].op = "accept" /\ req[s].executor \in Payees
        /\ CallOf(s) = <<s, req[s].executor>>
    BY <1>0, <1>4 DEF ClaimLeg, WaitPcs, ReqShape, CallOf
  <2>2. ~End(s)
    BY <1>1, <1>2, <1>4 DEF WaitPcs
  <2>3. Arrive(<<s, req[s].executor>>, "create", req'[s].order, req[s].executor,
               EscrowAmount(LegId(s)))
    BY <1>2, <1>4, <2>1, <2>2 DEF ClaimLeg
  <2>4. CallOf(s)' = <<s, req[s].executor>>
    BY <1>2, <1>4, <2>1 DEF CallOf
  <2> HIDE DEF EscrowAmount
  <2> QED BY <1>2, <1>4, <2>1, <2>3, <2>4, ConnectedArrive
<1>5. CASE AcceptPaid(s) \/ AcceptUnpaid(s) \/ CancelEnd(s) \/ PayEnd(s)
  <2>1. req[s].pc \in WaitPcs /\ Receive(CallOf(s))
    BY <1>5 DEF AcceptPaid, AcceptUnpaid, CancelEnd, PayEnd, Answered, Unanswered, WaitPcs
  <2>2. End(s) \/ Step(s, "rollback") \/ Step(s, "pay")
    BY <1>5 DEF AcceptPaid, AcceptUnpaid, CancelEnd, PayEnd
  <2>3. req'[s].pc \notin WaitPcs
    BY <1>1, <1>2, <2>2 DEF WaitPcs
  <2> QED BY <2>1, <2>3, ConnectedReceive
<1>6. CASE Cancel(s)
  <2>1. /\ Step(s, "refund") /\ Arrive(CallOf(s), "refund", req[s].order, None, 0)
        /\ req[s].pc \notin WaitPcs /\ req[s].op = "cancel" /\ CallOf(s) = <<s, None>>
    BY <1>0, <1>6 DEF Cancel, Failing, WaitPcs, ReqShape, CallOf
  <2>2. CallOf(s)' = <<s, None>>
    BY <1>2, <2>1 DEF CallOf
  <2> QED BY <1>2, <2>1, <2>2, ConnectedArrive
<1>7. ASSUME NEW p \in Payees, PayNext(s, p) PROVE SlotConnected(s)'
  <2> DEFINE r == [req[s] EXCEPT !.pc = "paying", !.executor = p, !.pay = @ \ {p}]
  <2>1. /\ req' = [req EXCEPT ![s] = r] /\ r.pc = "paying" /\ r.executor = p
        /\ r.order = req[s].order /\ r.op = req[s].op
    BY <1>0, <1>7 DEF PayNext, ReqRec
  <2> HIDE DEF r
  <2>2. req'[s] = r /\ req[s].op = "confirm" /\ req[s].pc \notin WaitPcs
    BY <1>0, <1>7, <2>1 DEF PayNext, ReqShape, WaitPcs
  <2>3. CallOf(s)' = <<s, p>>
    BY <2>1, <2>2 DEF CallOf
  <2>4. Arrive(<<s, p>>, "release", req'[s].order, p, 0)
    BY <1>7, <2>1, <2>2 DEF PayNext
  <2> QED BY <2>1, <2>2, <2>3, <2>4, ConnectedArrive
<1>8. CASE \/ ClaimLegError(s) \/ ReleaseLegClaim(s) \/ ReleaseLegClaimError(s)
           \/ UpdateLegStatus(s) \/ CompleteAllLegs(s) \/ ConfirmEnd(s) \/ WriteError(s)
  <2>1. UNCHANGED call /\ req[s].pc \notin WaitPcs
    BY <1>8 DEF ClaimLegError, ReleaseLegClaim, ReleaseLegClaimError, UpdateLegStatus,
       CompleteAllLegs, ConfirmEnd, WriteError, walletVars, WaitPcs
  <2>2. End(s) \/ Step(s, "pay")
    BY <1>8 DEF ClaimLegError, ReleaseLegClaim, ReleaseLegClaimError, UpdateLegStatus,
       CompleteAllLegs, ConfirmEnd, WriteError
  <2>3. req'[s].pc \notin WaitPcs
    BY <1>1, <1>2, <2>2 DEF WaitPcs
  <2> QED BY <2>1, <2>3, ConnectedQuiet
<1> QED BY <1>3, <1>4, <1>5, <1>6, <1>7, <1>8 DEF Handle, ClaimLeg

\* One step of the system.
LEMMA ConnectedNext ==
  ASSUME Faults = {}, UserCalls = {}, EscrowOK, Connected, [Next]_vars
  PROVE  Connected'
<1> USE EscrowAssumption
<1>1. CASE UNCHANGED <<req, call>>
  BY <1>1, ConnectedFrame DEF Connected
<1>2. ASSUME NEW s \in Slots, Request(s) PROVE SlotConnected(s)'
  <2>1. req[s].pc = "idle" /\ UNCHANGED call
    <3>1. req[s].pc = "idle"
      BY <1>2, RequestOrder DEF IdleReq
    <3>2. UNCHANGED call
      BY <1>2 DEF Request, AcceptLoad, StatusLoad, CancelLoad, ConfirmLoad, walletVars
    <3> QED BY <3>1, <3>2
  <2>2. req'[s].pc \notin WaitPcs
    <3>0. req \in [Slots -> ReqRec]
      BY DEF EscrowOK, ReqsOK
    <3>1. ASSUME NEW r, Start(s, r), r.pc \notin WaitPcs PROVE req'[s].pc \notin WaitPcs
      BY <3>0, <3>1 DEF Start
    <3>2. ASSUME NEW i \in LegIds, NEW e \in Payees, AcceptLoad(s, i, e)
          PROVE  req'[s].pc \notin WaitPcs
      BY <3>1, <3>2 DEF AcceptLoad, IdleReq, WaitPcs
    <3>3. ASSUME NEW i \in LegIds, NEW to \in Targets, StatusLoad(s, i, to)
          PROVE  req'[s].pc \notin WaitPcs
      BY <3>1, <3>3 DEF StatusLoad, IdleReq, WaitPcs
    <3>4. ASSUME NEW o \in Orders, CancelLoad(s, o) \/ ConfirmLoad(s, o)
          PROVE  req'[s].pc \notin WaitPcs
      BY <3>1, <3>4 DEF CancelLoad, ConfirmLoad, IdleReq, WaitPcs
    <3> QED BY <1>2, <3>2, <3>3, <3>4 DEF Request
  <2>3. req[s].pc \notin WaitPcs /\ SlotConnected(s)
    BY <2>1 DEF WaitPcs, Connected
  <2> QED BY <2>1, <2>2, <2>3, ConnectedQuiet
<1>3. ASSUME NEW s \in Slots, Request(s) \/ Handle(s), NEW t \in Slots
      PROVE  SlotConnected(t)'
  <2>1. CASE t = s
    BY <1>2, <1>3, <2>1, ConnectedHandle DEF Connected
  <2>2. CASE t # s
    <3>1. /\ req'[t] = req[t]
          /\ \A p \in Payees \cup {None} : call'[<<t, p>>] = call[<<t, p>>]
      BY <1>3, <2>2, SlotStep DEF OthersStay
    <3> QED BY <3>1, ConnectedFrame DEF Connected
  <2> QED BY <2>1, <2>2
<1>4. ASSUME NEW c \in Calls, Serve(c), UNCHANGED orderVars, NEW t \in Slots
      PROVE  SlotConnected(t)'
  <2>1. SlotConnected(t) /\ UNCHANGED req /\ WalletOK
    BY <1>4 DEF Connected, orderVars, EscrowOK
  <2>2. ServeChanges(c)
    BY <1>4, <2>1, ServeEffect
  <2>3. CallOf(t)' = CallOf(t)
    BY <2>1 DEF CallOf
  <2>4. req[t].pc \in WaitPcs => Waits(t)'
    <3>1. req[t].pc \in WaitPcs => CallOf(t) \in Calls /\ call[CallOf(t)].open = TRUE
      BY <2>1, WaitCall DEF SlotConnected, Waits
    <3> QED BY <1>4, <2>1, <2>3, <3>1, ServedStays DEF SlotConnected, Waits
  <2>5. ASSUME NEW p \in Payees \cup {None}, call'[<<t, p>>] # IdleCall
        PROVE  req[t].pc \in WaitPcs /\ CallOf(t) = <<t, p>>
    <3>1. call[<<t, p>>] # IdleCall
      BY <2>2, <2>5 DEF ServeChanges, OrderCalls
    <3> QED BY <2>1, <3>1 DEF SlotConnected
  <2> QED BY <2>1, <2>3, <2>4, <2>5 DEF SlotConnected
<1>5. ASSUME NEW o \in Orders, NEW sh \in Shapes, CreateOrder(o, sh)
      PROVE  UNCHANGED <<req, call>>
  BY <1>5 DEF CreateOrder, walletVars
<1>6. UNCHANGED orderVars => UNCHANGED req
  BY DEF orderVars
<1> QED BY <1>1, <1>3, <1>4, <1>5, <1>6, CalmSteps DEF Connected

-----------------------------------------------------------------------------
(* When nothing fails: where held money belongs.                           *)

\* Money held for a cancelled order is about to be refunded.
RefundUnderway ==
  \A p \in Pairs : p[1] \in cancelled /\ tx[p].status = "held" =>
    \E s \in Slots : /\ req[s].pc = "refund" /\ req[s].order = p[1]
                     /\ call[CallOf(s)].pc = "start"

\* Money held for an executor belongs to a leg of the order that has that
\* executor; and to another one than the leg an accept without its escrow is
\* about to give back.
HeldIsClaimed ==
  \A p \in Pairs : tx[p].status = "held" => p[2] \in payees(p[1])
HeldElsewhere(s) ==
  tx[<<req[s].order, req[s].executor>>].status = "held" =>
    \E j \in LegsOf(req[s].order) : j # LegId(s) /\ leg[j].executor = req[s].executor
Granted(s) == call[CallOf(s)].pc = "replied" /\ call[CallOf(s)].result = "ok"
Unpaid(s) == req[s].pc = "rollback" \/ (req[s].pc = "open" /\ ~Granted(s))
UnpaidClaims == \A s \in Slots : Unpaid(s) => HeldElsewhere(s)

\* Whoever money of a confirmed order is held for is still on the list of the
\* request that confirms it, or is the one it is paying now.
Listed(s) ==
  /\ req[s].pc = "complete" => payees(req[s].order) \subseteq req[s].pay
  /\ req[s].pc \in {"pay", "paying"} =>
       \A p \in Pairs : p[1] = req[s].order /\ tx[p].status = "held" =>
         \/ p[2] \in req[s].pay
         \/ /\ req[s].pc = "paying" /\ p[2] = req[s].executor
            /\ call[CallOf(s)].pc = "start"

CalmInv ==
  /\ orphaned = {}
  /\ Connected
  /\ RefundUnderway
  /\ HeldIsClaimed
  /\ UnpaidClaims
  /\ \A s \in Slots : Listed(s)

\* All that is known when nothing fails.
AllInv == SerialInv /\ BackingInv /\ RefundInv /\ CalmInv

\* No accept is cut off.
LEMMA NoOrphans ==
  ASSUME Faults = {}, orphaned = {}, [Next]_vars
  PROVE  orphaned' = {}
<1>1. ~Failing /\ "stop" \notin Faults
  BY DEF Failing
<1>2. ASSUME NEW s \in Slots, Handle(s) PROVE UNCHANGED orphaned
  BY <1>1, <1>2 DEF Handle, ClaimLeg, ClaimLegError, AcceptPaid, AcceptUnpaid,
     ReleaseLegClaim, ReleaseLegClaimError, UpdateLegStatus, Cancel, CancelEnd,
     CompleteAllLegs, PayNext, PayEnd, ConfirmEnd, WriteError, historyVars
<1>3. ASSUME NEW s \in Slots, Request(s) PROVE UNCHANGED historyVars
  BY <1>3 DEF Request, AcceptLoad, StatusLoad, CancelLoad, ConfirmLoad
<1>4. ASSUME NEW o \in Orders, NEW sh \in Shapes, CreateOrder(o, sh)
      PROVE  UNCHANGED historyVars
  BY <1>4 DEF CreateOrder
<1>5. Outside \/ UNCHANGED vars => UNCHANGED <<orphaned, delivered, cancelled>>
  BY OutsideLeaves
<1> QED BY <1>1, <1>2, <1>3, <1>4, <1>5 DEF Next, Outside, Crash, historyVars

\* A slot waiting for the wallet about an order keeps all others away from it:
\* a step of the wallet for another slot does not touch that order's rows.
LEMMA OtherRows ==
  ASSUME UserCalls = {}, EscrowOK, OneAtATime, Connected, NEW c \in Calls, Serve(c),
         NEW s \in Slots, req[s].pc # "idle", c # CallOf(s),
         NEW p \in Pairs, p[1] = req[s].order
  PROVE  tx'[p] = tx[p]
<1>1. ServeChanges(c) /\ call[c] # IdleCall
  BY ServeEffect DEF EscrowOK, ServeChanges
<1>2. PICK t \in Slots : CallOf(t) = c /\ req[t].pc \in WaitPcs /\ Waits(t)
  BY <1>1, CallWaits
<1>3. req[t].order # req[s].order
  BY <1>2 DEF OneAtATime
<1> QED BY <1>1, <1>2, <1>3 DEF ServeChanges, Waits

\* A row becomes held for the accept that waits for it, and its answer is "ok".
LEMMA HeldFrom ==
  ASSUME Faults = {}, UserCalls = {}, EscrowOK, Connected, [Next]_vars,
         NEW p \in Pairs, tx'[p].status = "held", tx[p].status # "held"
  PROVE  /\ UNCHANGED orderVars
         /\ \E s \in Slots : /\ req[s].pc = "open"
                             /\ req[s].order = p[1] /\ req[s].executor = p[2]
                             /\ Granted(s)'
<1>1. PICK c \in Calls : Serve(c) /\ UNCHANGED orderVars
  BY CalmSteps DEF CreateOrder, walletVars
<1>2. ServeChanges(c) /\ call[c] # IdleCall
  BY <1>1, ServeEffect DEF EscrowOK, ServeChanges
<1>3. PICK s \in Slots : CallOf(s) = c /\ req[s].pc \in WaitPcs /\ Waits(s)
  BY <1>2, CallWaits
<1>4. /\ p = Pair(c) /\ call[c].op = "create"
      /\ call'[c].pc = "replied" /\ call'[c].result = "ok"
  <2>1. call[c].open = TRUE
    BY <1>3 DEF Waits
  <2> QED BY <1>2, <2>1 DEF ServeChanges
<1>5. req[s].pc = "open" /\ req[s].order = p[1] /\ req[s].executor = p[2]
  BY <1>3, <1>4 DEF Waits, WaitPcs, Pair
<1>6. CallOf(s)' = c
  BY <1>1, <1>3 DEF orderVars, CallOf
<1> QED BY <1>1, <1>4, <1>5, <1>6 DEF Granted

\* Only a rollback takes an executor off a leg.
LEMMA ExecutorLeft ==
  ASSUME EscrowOK, [Next]_vars, NEW i \in LegIds,
         leg[i].executor # None, leg'[i].executor # leg[i].executor
  PROVE  \E s \in Slots : ReleaseLegClaim(s) /\ LegId(s) = i
<1>0. LegsOK /\ leg \in [LegIds -> LegRow] /\ LegShape(leg[i])
  BY DEF EscrowOK, LegsOK
<1>1. ASSUME NEW s \in Slots, ClaimLeg(s) \/ ClaimLegError(s) PROVE FALSE
  <2>1. \/ UNCHANGED leg
        \/ Claimable(LegId(s)) /\ leg' = Claimed(LegId(s), req[s].executor)
    BY <1>1 DEF ClaimLeg, ClaimLegError
  <2> QED BY <1>0, <2>1 DEF Claimable, Claimed
<1>2. ASSUME NEW s \in Slots, UpdateLegStatus(s) PROVE FALSE
  BY <1>0, <1>2 DEF UpdateLegStatus, LegRow
<1>3. ASSUME NEW s \in Slots, Cancel(s) \/ CompleteAllLegs(s) PROVE FALSE
  BY <1>0, <1>3, StatusKeepsExecutor DEF Cancel, CompleteAllLegs
<1>4. ASSUME NEW s \in Slots, ReleaseLegClaim(s) PROVE LegId(s) = i
  BY <1>0, <1>4 DEF ReleaseLegClaim, ReleasedClaim
<1>5. ASSUME NEW s \in Slots, Handle(s) PROVE ReleaseLegClaim(s)
  BY <1>1, <1>2, <1>3, <1>5
     DEF Handle, AcceptPaid, AcceptUnpaid, ReleaseLegClaimError, CancelEnd,
         PayNext, PayEnd, ConfirmEnd, WriteError
<1>6. ASSUME NEW s \in Slots, Request(s) PROVE FALSE
  BY <1>6 DEF Request, AcceptLoad, StatusLoad, CancelLoad, ConfirmLoad
<1>7. ASSUME NEW o \in Orders, NEW sh \in Shapes, CreateOrder(o, sh) PROVE FALSE
  BY <1>0, <1>7 DEF CreateOrder, LegsOf, LegShape, Has
<1>8. Outside \/ Crash \/ UNCHANGED vars => UNCHANGED leg
  BY OutsideLeaves DEF Crash
<1> QED BY <1>4, <1>5, <1>6, <1>7, <1>8 DEF Next, Outside

\* An executor of an order is one of a leg that exists.
LEMMA PayeesRead ==
  ASSUME NEW o, NEW e
  PROVE  e \in payees(o) <=> e # None /\ \E i \in LegsOf(o) : leg[i].executor = e
BY DEF payees

\* A claim is named by its row, and no other request of the order is at work.
LEMMA ClaimRow ==
  ASSUME EscrowOK, ClaimExclusive, NEW s \in Slots, req[s].pc \in {"open", "rollback"}
  PROVE  /\ LegId(s) \in LegsOf(req[s].order)
         /\ leg[LegId(s)].executor = req[s].executor /\ req[s].executor \in Payees
         /\ <<req[s].order, req[s].executor>> \in Pairs
<1>1. LegId(s) \in LegIds /\ Has(LegId(s)) /\ req[s].order \in Orders
  BY ReqParts DEF EscrowOK, LegPcs
<1>2. req[s].executor \in Payees
  BY DEF EscrowOK, ReqsOK, ReqShape
<1>3. leg[LegId(s)].executor = req[s].executor
  BY <1>1 DEF ClaimExclusive, Holds
<1> QED BY <1>1, <1>2, <1>3 DEF LegsOf, LegId, Pairs

\* An accept at work: its order is neither cancelled nor completed.
LEMMA AcceptAlive ==
  ASSUME EscrowOK, SerialInv, ClaimExclusive,
         NEW s \in Slots, req[s].pc \in {"open", "rollback"}
  PROVE  ~CalledOff(req[s].order) /\ ~Completed(req[s].order) /\ req[s].order \notin cancelled
<1>1. LegId(s) \in LegsOf(req[s].order) /\ leg[LegId(s)].status = "accepted"
  BY ClaimRow DEF SerialInv, Judged
<1> QED BY <1>1 DEF CalledOff, Completed, SerialInv, CancelledStay

\* Only Store.Cancel adds to the cancelled orders.
LEMMA CancelledFrom ==
  ASSUME [Next]_vars, NEW o \in cancelled', o \notin cancelled
  PROVE  \E s \in Slots : Cancel(s) /\ req[s].order = o
<1>1. ASSUME NEW s \in Slots, Handle(s) PROVE Cancel(s)
  BY <1>1 DEF Handle, ClaimLeg, ClaimLegError, AcceptPaid, AcceptUnpaid,
     ReleaseLegClaim, ReleaseLegClaimError, UpdateLegStatus, CancelEnd,
     CompleteAllLegs, PayNext, PayEnd, ConfirmEnd, WriteError, historyVars
<1>2. ASSUME NEW s \in Slots, Request(s) PROVE FALSE
  BY <1>2 DEF Request, AcceptLoad, StatusLoad, CancelLoad, ConfirmLoad, historyVars
<1>3. ASSUME NEW x \in Orders, NEW sh \in Shapes, CreateOrder(x, sh) PROVE FALSE
  BY <1>3 DEF CreateOrder, historyVars
<1>4. Outside \/ Crash \/ UNCHANGED vars => UNCHANGED cancelled
  BY OutsideLeaves DEF Crash
<1>5. ASSUME NEW s \in Slots, Cancel(s) PROVE req[s].order = o
  BY <1>5 DEF Cancel
<1> QED BY <1>1, <1>2, <1>3, <1>4, <1>5 DEF Next, Outside

\* When nothing fails a cancel asks for the refund.
LEMMA CancelSends ==
  ASSUME Faults = {}, EscrowOK, NEW s \in Slots, Cancel(s)
  PROVE  /\ req'[s].pc = "refund" /\ req'[s].order = req[s].order
         /\ call'[CallOf(s)'].pc = "start" /\ UNCHANGED tx
<1>0. /\ req \in [Slots -> ReqRec] /\ req[s] \in ReqRec /\ call \in [Calls -> CallRec]
      /\ req[s].op = "cancel"
  BY DEF EscrowOK, ReqsOK, ReqShape, WalletOK, WalletTypeOK, Cancel
<1>1. Step(s, "refund") /\ Arrive(CallOf(s), "refund", req[s].order, None, 0)
  BY DEF Cancel, Failing
<1>2. /\ req'[s].pc = "refund" /\ req'[s].order = req[s].order /\ req'[s].op = req[s].op
  BY <1>0, <1>1 DEF Step, ReqRec
<1>3. CallOf(s) = <<s, None>> /\ CallOf(s)' = <<s, None>> /\ <<s, None>> \in Calls
  BY <1>0, <1>2, EscrowAssumption DEF CallOf, OrderCalls
<1>4. call'[<<s, None>>].pc = "start"
  BY <1>0, <1>1, <1>3 DEF Arrive
<1> QED BY <1>1, <1>2, <1>3, <1>4 DEF Arrive

\* A slot whose request the wallet has not begun to answer does nothing.
LEMMA WaitsOn ==
  ASSUME Faults = {}, NEW s \in Slots, req[s].pc \in WaitPcs, call[CallOf(s)].pc # "replied"
  PROVE  ~Handle(s) /\ ~Request(s)
<1>1. ~Request(s)
  <2>1. Request(s) => req[s] = IdleReq
    BY DEF Request, AcceptLoad, StatusLoad, CancelLoad, ConfirmLoad, Free
  <2> QED BY <2>1 DEF IdleReq, WaitPcs
<1>2. ~Handle(s)
  BY DEF Handle, ClaimLeg, ClaimLegError, AcceptPaid, AcceptUnpaid,
     ReleaseLegClaim, ReleaseLegClaimError, UpdateLegStatus, Cancel, CancelEnd,
     CompleteAllLegs, PayNext, PayEnd, ConfirmEnd, WriteError, Answered, Unanswered,
     Receive, WaitPcs
<1> QED BY <1>1, <1>2

\* One step of the system.
LEMMA RefundUnderwayNext ==
  ASSUME Faults = {}, UserCalls = {}, EscrowOK, AllInv, [Next]_vars
  PROVE  RefundUnderway'
<1>0. Connected /\ RefundUnderway /\ ClaimExclusive /\ SerialInv
  BY DEF AllInv, CalmInv, BackingInv
<1> DEFINE Underway(p) ==
      \E s \in Slots : /\ req'[s].pc = "refund" /\ req'[s].order = p[1]
                       /\ call'[CallOf(s)'].pc = "start"
<1>1. ASSUME NEW p \in Pairs, p[1] \in cancelled', tx'[p].status = "held" PROVE Underway(p)
  <2>1. CASE p[1] \notin cancelled
    <3>1. PICK s \in Slots : Cancel(s) /\ req[s].order = p[1]
      BY <1>1, <2>1, CancelledFrom
    <3> QED BY <3>1, CancelSends
  <2>2. CASE p[1] \in cancelled /\ tx[p].status # "held"
    BY <1>0, <1>1, <2>2, HeldFrom, AcceptAlive
  <2>3. CASE p[1] \in cancelled /\ tx[p].status = "held"
    <3>1. PICK s \in Slots : /\ req[s].pc = "refund" /\ req[s].order = p[1]
                             /\ call[CallOf(s)].pc = "start"
      BY <1>0, <2>3 DEF RefundUnderway
    <3>2. /\ req[s].pc \in WaitPcs /\ Waits(s)
          /\ CallOf(s) = <<s, None>> /\ CallOf(s) \in Calls
      BY <1>0, <3>1, WaitCall DEF WaitPcs, Connected, SlotConnected
    <3>3. CASE req'[s] = req[s] /\ call'[CallOf(s)] = call[CallOf(s)]
      <4>1. CallOf(s)' = CallOf(s)
        BY <3>3 DEF CallOf
      <4> QED BY <3>1, <3>3, <4>1
    <3>4. ASSUME NEW t \in Slots, Request(t) \/ Handle(t)
          PROVE  req'[s] = req[s] /\ call'[CallOf(s)] = call[CallOf(s)]
      <4>1. t # s
        BY <3>1, <3>2, <3>4, WaitsOn
      <4> QED BY <3>2, <3>4, <4>1, SlotStep DEF OthersStay
    <3>5. ASSUME NEW c \in Calls, Serve(c), UNCHANGED orderVars
          PROVE  req'[s] = req[s] /\ call'[CallOf(s)] = call[CallOf(s)]
      <4>1. ServeChanges(c)
        BY <3>5, ServeEffect DEF EscrowOK
      <4>2. c # CallOf(s)
        BY <1>1, <3>1, <3>2, <4>1 DEF ServeChanges, Waits
      <4> QED BY <3>2, <3>5, <4>1, <4>2 DEF ServeChanges, orderVars
    <3>6. ASSUME NEW x \in Orders, NEW sh \in Shapes, CreateOrder(x, sh)
          PROVE  req'[s] = req[s] /\ call'[CallOf(s)] = call[CallOf(s)]
      BY <3>6 DEF CreateOrder, walletVars
    <3>7. UNCHANGED <<tx, call, orderVars>> =>
            req'[s] = req[s] /\ call'[CallOf(s)] = call[CallOf(s)]
      BY DEF orderVars
    <3> QED BY <1>0, <3>3, <3>4, <3>5, <3>6, <3>7, CalmSteps
  <2> QED BY <2>1, <2>2, <2>3
<1> QED BY <1>1 DEF RefundUnderway

\* One step of the system.
LEMMA HeldIsClaimedNext ==
  ASSUME Faults = {}, UserCalls = {}, EscrowOK, AllInv, [Next]_vars
  PROVE  HeldIsClaimed'
<1>0. /\ Connected /\ HeldIsClaimed /\ UnpaidClaims /\ ClaimExclusive
      /\ leg \in [LegIds -> LegRow] /\ None \notin Payees
  BY WalletAssumption DEF AllInv, CalmInv, BackingInv, EscrowOK, LegsOK
<1> DEFINE Named(p) == \E i \in LegsOf(p[1])' : leg'[i].executor = p[2]
<1>1. ASSUME NEW p \in Pairs, tx'[p].status = "held" PROVE Named(p)
  <2>1. CASE tx[p].status # "held"
    <3>1. PICK s \in Slots : req[s].pc = "open" /\ req[s].order = p[1] /\ req[s].executor = p[2]
      BY <1>0, <1>1, <2>1, HeldFrom
    <3>2. LegId(s) \in LegsOf(p[1]) /\ leg[LegId(s)].executor = p[2]
      BY <1>0, <3>1, ClaimRow
    <3>3. UNCHANGED leg
      BY <1>0, <1>1, <2>1, HeldFrom DEF orderVars
    <3> QED BY <3>2, <3>3 DEF LegsOf, Has
  <2>2. CASE tx[p].status = "held"
    <3>1. PICK j \in LegsOf(p[1]) : leg[j].executor = p[2]
      BY <1>0, <2>2, PayeesRead DEF HeldIsClaimed
    <3>2. j \in LegIds /\ j[1] = p[1] /\ p[2] \in Payees /\ p = <<p[1], p[2]>>
      BY <3>1, LegsOfRead DEF Pairs
    <3>3. LegsOf(p[1])' = LegsOf(p[1])
      BY <3>1, LegsOfStay
    <3>4. CASE leg'[j].executor = leg[j].executor
      BY <3>1, <3>3, <3>4
    <3>5. CASE leg'[j].executor # leg[j].executor
      <4>1. PICK s \in Slots : ReleaseLegClaim(s) /\ LegId(s) = j
        BY <1>0, <3>1, <3>2, <3>5, ExecutorLeft
      <4>2. req[s].pc = "rollback" /\ req[s].order = p[1] /\ req[s].executor = p[2]
        BY <1>0, <3>1, <3>2, <4>1, ClaimRow DEF ReleaseLegClaim, LegId
      <4>3. PICK k \in LegsOf(p[1]) : k # j /\ leg[k].executor = p[2]
        BY <1>0, <2>2, <3>2, <4>1, <4>2 DEF UnpaidClaims, Unpaid, HeldElsewhere
      <4>4. leg'[k] = leg[k]
        BY <1>0, <4>1, <4>3, LegsOfRead DEF ReleaseLegClaim, ReleasedClaim
      <4> QED BY <3>3, <4>3, <4>4
    <3> QED BY <3>4, <3>5
  <2> QED BY <2>1, <2>2
<1>2. ASSUME NEW p \in Pairs, Named(p) PROVE p[2] \in payees(p[1])'
  <2>1. p[2] \in Payees
    BY DEF Pairs
  <2> QED BY <1>0, <1>2, <2>1 DEF payees
<1> QED BY <1>1, <1>2 DEF HeldIsClaimed

\* Where a slot with a claim comes from: from the claim itself, or from an
\* accept that got no escrow.
LEMMA ClaimSteps ==
  ASSUME Faults = {}, EscrowOK, NEW s \in Slots, Request(s) \/ Handle(s),
         req'[s].pc \in {"open", "rollback"}
  PROVE  /\ req'[s].order = req[s].order /\ req'[s].name = req[s].name
         /\ req'[s].executor = req[s].executor
         /\ \/ Claimable(LegId(s)) /\ leg' = Claimed(LegId(s), req[s].executor)
            \/ req[s].pc = "open" /\ ~Granted(s) /\ UNCHANGED leg
<1>0. req \in [Slots -> ReqRec] /\ req[s] \in ReqRec
  BY ReqParts DEF EscrowOK, ReqsOK
<1>1. End(s) => req'[s].pc = "idle"
  BY <1>0 DEF End, IdleReq
<1>2. ASSUME NEW pc, Step(s, pc)
      PROVE  /\ req'[s].pc = pc /\ req'[s].order = req[s].order /\ req'[s].name = req[s].name
             /\ req'[s].executor = req[s].executor
  BY <1>0, <1>2 DEF Step, ReqRec
<1>3. ~Request(s)
  <2>1. ASSUME NEW r, Start(s, r) PROVE req'[s] = r
    BY <1>0, <2>1 DEF Start
  <2>2. ASSUME NEW i \in LegIds, NEW e \in Payees, AcceptLoad(s, i, e) PROVE FALSE
    BY <2>1, <2>2 DEF AcceptLoad, IdleReq
  <2>3. ASSUME NEW i \in LegIds, NEW to \in Targets, StatusLoad(s, i, to) PROVE FALSE
    BY <2>1, <2>3 DEF StatusLoad, IdleReq
  <2>4. ASSUME NEW o \in Orders, CancelLoad(s, o) \/ ConfirmLoad(s, o) PROVE FALSE
    BY <2>1, <2>4 DEF CancelLoad, ConfirmLoad, IdleReq
  <2> QED BY <2>2, <2>3, <2>4 DEF Request
<1>4. ASSUME NEW p \in Payees, PayNext(s, p) PROVE FALSE
  <2> DEFINE r == [req[s] EXCEPT !.pc = "paying", !.executor = p, !.pay = @ \ {p}]
  <2>1. req' = [req EXCEPT ![s] = r] /\ r.pc = "paying"
    BY <1>0, <1>4 DEF PayNext, ReqRec
  <2> HIDE DEF r
  <2> QED BY <1>0, <2>1
<1>5. CASE ClaimLeg(s)
  BY <1>1, <1>2, <1>5 DEF ClaimLeg
<1>6. CASE AcceptUnpaid(s)
  <2>1. Answered(s, FALSE)
    BY <1>6 DEF AcceptUnpaid, Unanswered
  <2>2. ~Granted(s)
    BY <2>1 DEF Answered, Granted
  <2> QED BY <1>2, <1>6, <2>2 DEF AcceptUnpaid
<1>7. CASE \/ ClaimLegError(s) \/ AcceptPaid(s) \/ ReleaseLegClaim(s)
           \/ ReleaseLegClaimError(s) \/ UpdateLegStatus(s) \/ CancelEnd(s)
           \/ PayEnd(s) \/ ConfirmEnd(s) \/ WriteError(s) \/ Cancel(s) \/ CompleteAllLegs(s)
  <2>1. End(s) \/ Step(s, "pay") \/ Step(s, "refund")
    BY <1>7 DEF ClaimLegError, AcceptPaid, ReleaseLegClaim, ReleaseLegClaimError,
       UpdateLegStatus, CancelEnd, PayEnd, ConfirmEnd, WriteError, Cancel, CompleteAllLegs
  <2> QED BY <1>1, <1>2, <2>1
<1> QED BY <1>3, <1>4, <1>5, <1>6, <1>7 DEF Handle

\* What the other slots do is about other orders.
LEMMA OthersElsewhere ==
  ASSUME EscrowOK, OneAtATime, NEW s \in Slots, req[s].pc # "idle",
         NEW t \in Slots, t # s, Request(t) \/ Handle(t),
         NEW i \in LegIds, i[1] = req[s].order
  PROVE  leg'[i] = leg[i]
<1>1. req[t].order # req[s].order
  BY DEF OneAtATime
<1> QED BY <1>1, OwnLegs DEF EscrowOK

\* Placing an order leaves the orders that exist alone.
LEMMA CreateElsewhere ==
  ASSUME EscrowOK, NEW o \in Orders, NEW sh \in Shapes, CreateOrder(o, sh),
         NEW i \in LegIds, Has(i)
  PROVE  leg'[i] = leg[i]
BY DEF CreateOrder, LegsOf

\* One step of the system, for the claim of one slot.
LEMMA UnpaidNext ==
  ASSUME Overlap = FALSE, Faults = {}, UserCalls = {}, EscrowOK, AllInv, [Next]_vars,
         NEW s \in Slots, Unpaid(s)',
         NEW o, NEW e, NEW i, o = req[s].order, e = req[s].executor, i = LegId(s)
  PROVE  HeldElsewhere(s)'
<1>0. /\ OneAtATime /\ Connected /\ HeldIsClaimed /\ UnpaidClaims /\ ClaimExclusive
      /\ leg \in [LegIds -> LegRow] /\ req \in [Slots -> ReqRec] /\ None \notin Payees
      /\ OneAtATime'
  BY WalletAssumption, OneAtATimeNext
     DEF AllInv, SerialInv, CalmInv, BackingInv, EscrowOK, LegsOK, ReqsOK
<1> DEFINE Elsewhere == \E j \in LegsOf(o)' : j # i /\ leg'[j].executor = e
<1>1. ASSUME NEW j \in LegsOf(o), leg'[j] = leg[j] PROVE j \in LegsOf(o)'
  BY <1>1, LegsOfRead DEF LegsOf, Has
<1>2. ASSUME req'[s] = req[s], req[s].pc \in {"open", "rollback"},
             Unpaid(s), tx[<<o, e>>].status = "held",
             \A j \in LegsOf(o) : leg'[j] = leg[j]
      PROVE  Elsewhere
  BY <1>0, <1>1, <1>2 DEF UnpaidClaims, HeldElsewhere
<1>3. ASSUME NEW t \in Slots, Request(t) \/ Handle(t), UNCHANGED tx,
             tx'[<<o, e>>].status = "held", t # s
      PROVE  Elsewhere
  <2>1. /\ req'[s] = req[s]
        /\ \A p \in Payees \cup {None} : call'[<<s, p>>] = call[<<s, p>>]
    BY <1>3, SlotStep DEF OthersStay
  <2>2. req[s].pc \in {"open", "rollback"} /\ CallOf(s)' = CallOf(s)
    BY <2>1 DEF Unpaid, CallOf
  <2>3. req[s].pc = "open" => call'[CallOf(s)] = call[CallOf(s)]
    BY <2>1, WaitCall DEF WaitPcs
  <2>4. Unpaid(s)
    BY <2>1, <2>2, <2>3 DEF Unpaid, Granted
  <2>5. \A j \in LegsOf(o) : leg'[j] = leg[j]
    BY <1>0, <1>3, <2>2, LegsOfRead, OthersElsewhere
  <2> QED BY <1>2, <1>3, <2>1, <2>2, <2>4, <2>5
<1>4. ASSUME Request(s) \/ Handle(s), UNCHANGED tx, tx'[<<o, e>>].status = "held"
      PROVE  Elsewhere
  <2>1. req'[s].pc \in {"open", "rollback"}
    BY DEF Unpaid
  <2>2. CASE req[s].pc = "open" /\ ~Granted(s) /\ UNCHANGED leg
    <3>1. HeldElsewhere(s)
      BY <1>0, <2>2 DEF UnpaidClaims, Unpaid
    <3> QED BY <1>1, <1>4, <2>2, <3>1 DEF HeldElsewhere
  <2>3. CASE Claimable(i) /\ leg' = Claimed(i, e)
    <3>1. req[s].order \in Orders /\ req[s].executor \in Payees
      <4>1. req'[s].order \in Orders /\ req'[s].executor \in Payees
        BY <2>1, EscrowNext DEF EscrowOK, ReqsOK, ReqShape
      <4> QED BY <1>4, <2>1, <4>1, ClaimSteps
    <3>2. <<o, e>> \in Pairs /\ tx[<<o, e>>].status = "held"
      BY <1>4, <3>1 DEF Pairs
    <3>3. PICK j \in LegsOf(o) : leg[j].executor = e
      BY <1>0, <3>2, PayeesRead DEF HeldIsClaimed
    <3>4. j # i /\ leg'[j] = leg[j]
      BY <1>0, <2>3, <3>1, <3>3, LegsOfRead DEF Claimable, Claimed
    <3> QED BY <1>1, <3>3, <3>4
  <2> QED BY <1>4, <2>1, <2>2, <2>3, ClaimSteps
<1>5. ASSUME NEW c \in Calls, Serve(c), UNCHANGED orderVars, tx'[<<o, e>>].status = "held"
      PROVE  Elsewhere
  <2>1. /\ ServeChanges(c) /\ req' = req /\ leg' = leg /\ CallOf(s)' = CallOf(s)
        /\ req[s].pc \in {"open", "rollback"}
    BY <1>5, ServeEffect DEF EscrowOK, orderVars, CallOf, Unpaid
  <2>2. <<o, e>> \in Pairs
    BY <1>0, <2>1, ClaimRow
  <2>3. tx[<<o, e>>].status = "held"
    <3>1. SUFFICES ASSUME tx[<<o, e>>].status # "held" PROVE FALSE
      OBVIOUS
    <3>2. PICK t \in Slots : req[t].pc = "open" /\ req[t].order = o /\ Granted(t)'
      BY <1>0, <1>5, <2>2, <3>1, HeldFrom
    <3>3. t = s
      BY <1>0, <2>1, <3>2 DEF OneAtATime
    <3> QED BY <2>1, <3>2, <3>3 DEF Unpaid
  <2>4. Unpaid(s)
    <3>1. req[s].pc = "open" => CallOf(s) \in Calls
      BY WaitCall DEF WaitPcs
    <3> QED BY <2>1, <3>1 DEF Unpaid, Granted, ServeChanges
  <2> QED BY <1>2, <2>1, <2>3, <2>4
<1>6. ASSUME NEW x \in Orders, NEW sh \in Shapes, CreateOrder(x, sh),
             tx'[<<o, e>>].status = "held"
      PROVE  Elsewhere
  <2>1. UNCHANGED <<req, call, tx>> /\ CallOf(s)' = CallOf(s)
    BY <1>6 DEF CreateOrder, walletVars, CallOf
  <2>2. \A j \in LegsOf(o) : leg'[j] = leg[j]
    BY <1>6, LegsOfRead, CreateElsewhere
  <2> QED BY <1>2, <1>6, <2>1, <2>2 DEF Unpaid, Granted
<1>7. ASSUME UNCHANGED <<tx, call, orderVars>>, tx'[<<o, e>>].status = "held"
      PROVE  Elsewhere
  <2>1. UNCHANGED <<tx, call, req, leg>> /\ CallOf(s)' = CallOf(s)
    BY <1>7 DEF orderVars, CallOf
  <2> QED BY <1>2, <1>7, <2>1 DEF Unpaid, Granted
<1>8. req'[s].order = o /\ req'[s].executor = e /\ LegId(s)' = i
  <2>1. ASSUME req'[s] = req[s]
        PROVE  req'[s].order = o /\ req'[s].executor = e /\ LegId(s)' = i
    BY <2>1 DEF LegId
  <2>2. ASSUME NEW t \in Slots, Request(t) \/ Handle(t), t # s PROVE req'[s] = req[s]
    BY <2>2, SlotStep DEF OthersStay
  <2>3. ASSUME Request(s) \/ Handle(s)
        PROVE  req'[s].order = o /\ req'[s].executor = e /\ LegId(s)' = i
    BY <2>3, ClaimSteps DEF Unpaid, LegId
  <2>4. ASSUME NEW x \in Orders, NEW sh \in Shapes, CreateOrder(x, sh) PROVE req' = req
    BY <2>4 DEF CreateOrder
  <2>5. UNCHANGED orderVars => req' = req
    BY DEF orderVars
  <2> QED BY <1>0, <2>1, <2>2, <2>3, <2>4, <2>5, CalmSteps
<1>9. tx'[<<o, e>>].status = "held" => Elsewhere
  BY <1>0, <1>3, <1>4, <1>5, <1>6, <1>7, CalmSteps
<1> QED BY <1>8, <1>9 DEF HeldElsewhere, LegsOf, Has

\* One step of the system.
LEMMA UnpaidClaimsNext ==
  ASSUME Overlap = FALSE, Faults = {}, UserCalls = {}, EscrowOK, AllInv, [Next]_vars
  PROVE  UnpaidClaims'
BY UnpaidNext DEF UnpaidClaims

\* A confirm that neither moves nor loses anything keeps its list.
LEMMA ListedFrame ==
  ASSUME NEW s \in Slots, Listed(s), req'[s] = req[s], NEW o, o = req[s].order,
         req[s].pc = "complete" => payees(o)' \subseteq payees(o),
         req[s].pc \in {"pay", "paying"} =>
           \A p \in Pairs : p[1] = o /\ tx'[p].status = "held" =>
             /\ tx[p].status = "held"
             /\ req[s].pc = "paying" /\ p[2] = req[s].executor =>
                  call'[CallOf(s)] = call[CallOf(s)]
  PROVE  Listed(s)'
<1>1. req'[s].order = o /\ CallOf(s)' = CallOf(s)
  BY DEF CallOf
<1>2. payees(req[s].order)' = payees(o)'
  BY <1>1 DEF payees, LegsOf, Has
<1> QED BY <1>1, <1>2 DEF Listed

\* Legs that stay keep the executors of an order.
LEMMA PayeesStay ==
  ASSUME EscrowOK, [Next]_vars, NEW o, LegsOf(o) # {},
         \A j \in LegsOf(o) : leg'[j] = leg[j]
  PROVE  payees(o)' = payees(o)
<1>1. LegsOf(o)' = LegsOf(o)
  BY LegsOfStay
<1> QED BY <1>1 DEF payees

\* The slot's own steps.
LEMMA ListedOwn ==
  ASSUME Faults = {}, EscrowOK, AllInv, NEW s \in Slots, Request(s) \/ Handle(s),
         UNCHANGED tx
  PROVE  Listed(s)'
<1>0. /\ req \in [Slots -> ReqRec] /\ req[s] \in ReqRec /\ ReqShape(req[s])
      /\ call \in [Calls -> CallRec] /\ leg \in [LegIds -> LegRow]
      /\ HeldIsClaimed /\ Listed(s)
  BY ReqParts DEF EscrowOK, ReqsOK, LegsOK, WalletOK, WalletTypeOK, AllInv, CalmInv
<1> DEFINE Off == req'[s].pc \notin {"complete", "pay", "paying"}
<1>1. End(s) => Off
  BY <1>0 DEF End, IdleReq
<1>2. ASSUME NEW pc, Step(s, pc)
      PROVE  /\ req'[s].pc = pc /\ req'[s].order = req[s].order /\ req'[s].pay = req[s].pay
             /\ req'[s].executor = req[s].executor
  BY <1>0, <1>2 DEF Step, ReqRec
<1>3. ASSUME NEW r, Start(s, r) PROVE req'[s] = r
  BY <1>0, <1>3 DEF Start
<1>4. Off => Listed(s)'
  BY DEF Listed
<1>5. ASSUME NEW i \in LegIds, NEW e \in Payees, AcceptLoad(s, i, e) PROVE Off
  BY <1>3, <1>5 DEF AcceptLoad, IdleReq
<1>6. ASSUME NEW i \in LegIds, NEW to \in Targets, StatusLoad(s, i, to) PROVE Off
  BY <1>3, <1>6 DEF StatusLoad, IdleReq
<1>7. ASSUME NEW o \in Orders, CancelLoad(s, o) PROVE Off
  BY <1>3, <1>7 DEF CancelLoad, IdleReq
<1>8. ASSUME NEW o \in Orders, ConfirmLoad(s, o) PROVE Listed(s)'
  <2>1. req'[s].pc = "complete" /\ req'[s].order = o /\ req'[s].pay = payees(o) /\ leg' = leg
    BY <1>3, <1>8 DEF ConfirmLoad, IdleReq
  <2>2. payees(req[s].order)' = payees(o)
    BY <2>1 DEF payees, LegsOf, Has
  <2> QED BY <2>1, <2>2 DEF Listed
<1>9. CASE CompleteAllLegs(s)
  <2>1. req[s].pc = "complete" /\ req'[s].pc = "pay" /\ req'[s].order = req[s].order
        /\ req'[s].pay = req[s].pay
    BY <1>2, <1>9 DEF CompleteAllLegs, Failing
  <2>2. payees(req[s].order) \subseteq req[s].pay
    BY <1>0, <2>1 DEF Listed
  <2> QED BY <1>0, <2>1, <2>2 DEF Listed, HeldIsClaimed
<1>10. ASSUME NEW p \in Payees, PayNext(s, p) PROVE Listed(s)'
  <2> DEFINE r == [req[s] EXCEPT !.pc = "paying", !.executor = p, !.pay = @ \ {p}]
  <2>1. /\ req' = [req EXCEPT ![s] = r] /\ r.pc = "paying" /\ r.executor = p
        /\ r.order = req[s].order /\ r.op = req[s].op /\ r.pay = req[s].pay \ {p}
    BY <1>0, <1>10 DEF PayNext, ReqRec
  <2> HIDE DEF r
  <2>2. req'[s] = r /\ req[s].op = "confirm" /\ req[s].pc = "pay"
    BY <1>0, <1>10, <2>1 DEF PayNext, ReqShape
  <2>3. CallOf(s)' = <<s, p>> /\ <<s, p>> \in Calls
    BY <2>1, <2>2, EscrowAssumption DEF CallOf, OrderCalls
  <2>4. call'[<<s, p>>].pc = "start"
    BY <1>0, <1>10, <2>3 DEF PayNext, Arrive
  <2>5. \A q \in Pairs : q[1] = req[s].order /\ tx[q].status = "held" => q[2] \in req[s].pay
    BY <1>0, <2>2 DEF Listed
  <2> QED BY <2>1, <2>2, <2>3, <2>4, <2>5 DEF Listed
<1>11. CASE PayEnd(s)
  <2>1. req[s].pc = "paying" /\ call[CallOf(s)].pc = "replied" /\ Step(s, "pay")
    BY <1>11 DEF PayEnd, Answered, Unanswered, Receive
  <2>2. req'[s].pc = "pay" /\ req'[s].order = req[s].order /\ req'[s].pay = req[s].pay
    BY <1>2, <2>1
  <2> QED BY <1>0, <2>1, <2>2 DEF Listed
<1>12. CASE \/ ClaimLeg(s) \/ ClaimLegError(s) \/ AcceptPaid(s) \/ AcceptUnpaid(s)
            \/ ReleaseLegClaim(s) \/ ReleaseLegClaimError(s) \/ UpdateLegStatus(s)
            \/ Cancel(s) \/ CancelEnd(s) \/ ConfirmEnd(s) \/ WriteError(s)
  <2>1. End(s) \/ Step(s, "open") \/ Step(s, "rollback") \/ Step(s, "refund")
    BY <1>12 DEF ClaimLeg, ClaimLegError, AcceptPaid, AcceptUnpaid, ReleaseLegClaim,
       ReleaseLegClaimError, UpdateLegStatus, Cancel, CancelEnd, ConfirmEnd, WriteError
  <2> QED BY <1>1, <1>2, <1>4, <2>1
<1> QED BY <1>4, <1>5, <1>6, <1>7, <1>8, <1>9, <1>10, <1>11, <1>12 DEF Request, Handle

\* One step of the system.
LEMMA ListedNext ==
  ASSUME Faults = {}, UserCalls = {}, EscrowOK, AllInv, [Next]_vars, NEW s \in Slots,
         NEW o, o = req[s].order
  PROVE  Listed(s)'
<1>0. /\ OneAtATime /\ Connected /\ Listed(s) /\ CancelledStay /\ Judged(s)
      /\ call \in [Calls -> CallRec]
  BY DEF AllInv, SerialInv, CalmInv, EscrowOK, WalletOK, WalletTypeOK
<1>1. CASE req[s].pc \notin {"complete", "pay", "paying"} /\ req'[s] = req[s]
  BY <1>1 DEF Listed
<1>2. CASE req[s].pc \in {"complete", "pay", "paying"}
  <2>1. LegsOf(o) # {} /\ (req[s].pc = "paying" => CallOf(s) \in Calls)
    BY <1>0, <1>2, JudgedExists, WaitCall DEF WaitPcs
  <2>2. ASSUME \A j \in LegsOf(o) : leg'[j] = leg[j], UNCHANGED tx, req'[s] = req[s],
               req[s].pc = "paying" => call'[CallOf(s)] = call[CallOf(s)]
        PROVE  Listed(s)'
    BY <1>0, <2>1, <2>2, PayeesStay, ListedFrame
  <2>3. ASSUME NEW t \in Slots, Request(t) \/ Handle(t), UNCHANGED tx, t # s
        PROVE  Listed(s)'
    <3>1. /\ req'[s] = req[s]
          /\ \A p \in Payees \cup {None} : call'[<<s, p>>] = call[<<s, p>>]
      BY <2>3, SlotStep DEF OthersStay
    <3>2. req[s].pc = "paying" => call'[CallOf(s)] = call[CallOf(s)]
      BY <3>1, WaitCall DEF WaitPcs
    <3>3. \A j \in LegsOf(o) : leg'[j] = leg[j]
      BY <1>0, <1>2, <2>3, LegsOfRead, OthersElsewhere
    <3> QED BY <2>2, <2>3, <3>1, <3>2, <3>3
  <2>4. ASSUME NEW c \in Calls, Serve(c), UNCHANGED orderVars PROVE Listed(s)'
    <3>1. ServeChanges(c) /\ req' = req /\ leg' = leg
      BY <2>4, ServeEffect DEF EscrowOK, orderVars
    <3>2. payees(o)' = payees(o)
      BY <3>1 DEF payees, LegsOf, Has
    <3>3. ASSUME NEW p \in Pairs, p[1] = o, tx'[p].status = "held", tx[p].status # "held"
          PROVE  FALSE
      <4>1. PICK t \in Slots : req[t].pc = "open" /\ req[t].order = o
        BY <1>0, <3>3, HeldFrom
      <4>2. t = s
        BY <1>0, <1>2, <4>1 DEF OneAtATime
      <4> QED BY <1>2, <4>1, <4>2
    <3>4. ASSUME NEW p \in Pairs, p[1] = o, tx'[p].status = "held",
                 req[s].pc = "paying", p[2] = req[s].executor
          PROVE  call'[CallOf(s)] = call[CallOf(s)]
      <4>1. Waits(s)
        BY <1>0, <3>4 DEF Connected, SlotConnected, WaitPcs
      <4>2. CASE c # CallOf(s)
        BY <2>1, <3>1, <3>4, <4>2 DEF ServeChanges
      <4>3. CASE c = CallOf(s)
        <5>1. Pair(c) = p /\ call[c].op = "release"
          BY <3>4, <4>1, <4>3 DEF Waits, Pair, Pairs
        <5> QED BY <3>1, <3>4, <5>1 DEF ServeChanges
      <4> QED BY <4>2, <4>3
    <3> QED BY <1>0, <3>1, <3>2, <3>3, <3>4, ListedFrame
  <2>5. ASSUME NEW x \in Orders, NEW sh \in Shapes, CreateOrder(x, sh) PROVE Listed(s)'
    <3>1. \A j \in LegsOf(o) : leg'[j] = leg[j]
      BY <2>5, LegsOfRead, CreateElsewhere
    <3> QED BY <2>2, <2>5, <3>1 DEF CreateOrder, walletVars
  <2>6. UNCHANGED <<tx, call, orderVars>> => Listed(s)'
    BY <2>2 DEF orderVars
  <2>7. ASSUME Request(s) \/ Handle(s), UNCHANGED tx PROVE Listed(s)'
    BY <2>7, ListedOwn
  <2> QED BY <1>0, <2>3, <2>4, <2>5, <2>6, <2>7, CalmSteps
<1>3. CASE req'[s] # req[s]
  <2>1. (Request(s) \/ Handle(s)) /\ UNCHANGED tx
    <3>1. ASSUME NEW t \in Slots, Request(t) \/ Handle(t) PROVE t = s
      BY <1>3, <3>1, SlotStep DEF OthersStay
    <3>2. ASSUME NEW x \in Orders, NEW sh \in Shapes, CreateOrder(x, sh) PROVE FALSE
      BY <1>3, <3>2 DEF CreateOrder
    <3>3. ~UNCHANGED orderVars
      BY <1>3 DEF orderVars
    <3> QED BY <1>0, <3>1, <3>2, <3>3, CalmSteps
  <2> QED BY <2>1, ListedOwn
<1> QED BY <1>1, <1>2, <1>3

\* All of it together is inductive.
LEMMA AllNext ==
  ASSUME Overlap = FALSE, Faults = {}, UserCalls = {}, EscrowOK, AllInv, [Next]_vars
  PROVE  AllInv'
<1>1. SerialInv' /\ BackingInv' /\ RefundInv'
  BY SerialNext, BackingNext, RefundNext DEF AllInv
<1>2. orphaned' = {} /\ Connected'
  BY NoOrphans, ConnectedNext DEF AllInv, CalmInv
<1>3. RefundUnderway' /\ HeldIsClaimed' /\ UnpaidClaims' /\ \A s \in Slots : Listed(s)'
  BY RefundUnderwayNext, HeldIsClaimedNext, UnpaidClaimsNext, ListedNext
<1> QED BY <1>1, <1>2, <1>3 DEF AllInv, CalmInv

LEMMA AllInit == Init => AllInv
<1> SUFFICES ASSUME Init PROVE AllInv
  OBVIOUS
<1>0. /\ \A s \in Slots : req[s] = IdleReq
      /\ \A c \in Calls : call[c] = IdleCall
      /\ \A p \in Pairs : tx[p].status = "absent"
      /\ \A i \in LegIds : leg[i] = NoLeg
      /\ orphaned = {} /\ cancelled = {}
  BY DEF Init, WalletInit, NoRow
<1>1. SerialInv
  BY SerialInit
<1>2. BackingInv
  BY <1>0 DEF NoLeg, IdleReq, IdleCall, BackingInv, ClaimExclusive,
         Holds, CallLinks, OkMeansRow, EscrowBehindClaim
<1>3. RefundInv
  BY <1>0 DEF IdleCall, RefundInv, RefundOnlyAfterCancel
<1>4. Connected
  BY <1>0, EscrowAssumption DEF Connected, SlotConnected, IdleReq, WaitPcs, OrderCalls
<1>5. RefundUnderway /\ HeldIsClaimed /\ UnpaidClaims /\ \A s \in Slots : Listed(s)
  BY <1>0 DEF RefundUnderway, HeldIsClaimed, UnpaidClaims, Unpaid, Listed, IdleReq
<1> QED BY <1>0, <1>1, <1>2, <1>3, <1>4, <1>5 DEF AllInv, CalmInv

\* A row of an order that is not called off, and that nobody works on, is not
\* given back; so the row behind a claim is held or paid out.
LEMMA RowKept ==
  ASSUME EscrowOK, AllInv, NEW i \in LegIds, leg[i].executor # None,
         ~CalledOff(i[1]), \A s \in Slots : ~Holds(s, i)
  PROVE  /\ <<i[1], leg[i].executor>> \in Pairs
         /\ tx[<<i[1], leg[i].executor>>].status \in {"held", "released"}
<1> DEFINE p == <<i[1], leg[i].executor>>
<1>1. p \in Pairs
  BY LegRead DEF EscrowOK, LegRow, LegIds, Pairs
<1>2. tx[p].status # "absent" /\ tx[p] \in TxRow
  BY <1>1 DEF AllInv, BackingInv, CalmInv, EscrowBehindClaim, Opened,
     EscrowOK, WalletOK, WalletTypeOK
<1>3. tx[p].status # "refunded"
  BY <1>1 DEF AllInv, RefundInv, RefundOnlyAfterCancel, SerialInv, CancelledStay
<1> QED BY <1>1, <1>2, <1>3 DEF TxRow, TxStatus

\* When nothing fails and requests on an order do not overlap, a leg at rest
\* and not cancelled has its executor's escrow held or paid out: accept leaves
\* no claim behind without money, and no cancel takes the money from under it.
THEOREM ClaimsHaveMoney ==
  ASSUME Overlap = FALSE, Faults = {}, UserCalls = {}
  PROVE  Spec => []ClaimHasMoney
<1>1. EscrowOK /\ AllInv => ClaimHasMoney
  <2>1. ASSUME EscrowOK, AllInv, NEW i \in LegIds, leg[i].executor # None,
               leg[i].status # "cancelled", \A s \in Slots : req[s].order # i[1]
        PROVE  tx[<<i[1], leg[i].executor>>].status \in {"held", "released"}
    <3>1. i \in LegsOf(i[1])
      BY <2>1, LegRead DEF EscrowOK, LegShape, LegsOf, Has
    <3>2. ~CalledOff(i[1]) /\ \A s \in Slots : ~Holds(s, i)
      BY <2>1, <3>1 DEF CalledOff, Holds, LegId
    <3> QED BY <2>1, <3>2, RowKept
  <2> QED BY <2>1 DEF ClaimHasMoney
<1>2. EscrowOK /\ AllInv /\ [Next]_vars => AllInv'
  BY AllNext
<1> QED BY <1>1, <1>2, AllInit, EscrowInit, EscrowNext, PTL DEF Spec

\* Then a cancelled order at rest has no money held.
THEOREM CancelGivesBack ==
  ASSUME Overlap = FALSE, Faults = {}, UserCalls = {}
  PROVE  Spec => []CancelRefunds
<1>1. AllInv => CancelRefunds
  BY DEF AllInv, CalmInv, RefundUnderway, CancelRefunds, AtRest
<1>2. EscrowOK /\ AllInv /\ [Next]_vars => AllInv'
  BY AllNext
<1> QED BY <1>1, <1>2, AllInit, EscrowInit, EscrowNext, PTL DEF Spec

\* A confirm that pays ends in one way only.
LEMMA PayEnds ==
  ASSUME Faults = {}, EscrowOK, [Next]_vars,
         NEW s \in Slots, req[s].pc = "pay", req'[s].pc = "idle"
  PROVE  req[s].pay = {}
<1>0. req \in [Slots -> ReqRec] /\ req[s] \in ReqRec
  BY DEF EscrowOK, ReqsOK
<1>1. ASSUME NEW t \in Slots, Request(t) \/ Handle(t) PROVE t = s
  BY <1>1, SlotStep DEF OthersStay
<1>2. ~Request(s)
  BY RequestOrder DEF IdleReq
<1>3. ASSUME NEW p \in Payees, PayNext(s, p) PROVE FALSE
  <2> DEFINE r == [req[s] EXCEPT !.pc = "paying", !.executor = p, !.pay = @ \ {p}]
  <2>1. req' = [req EXCEPT ![s] = r] /\ r.pc = "paying"
    BY <1>0, <1>3 DEF PayNext, ReqRec
  <2> HIDE DEF r
  <2> QED BY <1>0, <2>1
<1>4. Handle(s) => ConfirmEnd(s)
  BY <1>3 DEF Handle, ClaimLeg, ClaimLegError, AcceptPaid, AcceptUnpaid,
     ReleaseLegClaim, ReleaseLegClaimError, UpdateLegStatus, Cancel, CancelEnd,
     CompleteAllLegs, PayEnd, WriteError
<1>5. ~UNCHANGED req
  OBVIOUS
<1>6. ASSUME NEW o \in Orders, NEW sh \in Shapes, CreateOrder(o, sh) PROVE UNCHANGED req
  BY <1>6 DEF CreateOrder
<1>7. Outside \/ UNCHANGED vars => UNCHANGED req
  BY OutsideLeaves
<1>8. ~Crash
  BY DEF Crash
<1> QED BY <1>1, <1>2, <1>4, <1>5, <1>6, <1>7, <1>8 DEF Next, Outside, ConfirmEnd

\* Then a confirmation that goes through leaves nothing of the order in escrow
\* and every executor on it paid.
THEOREM ConfirmPaysAll ==
  ASSUME Overlap = FALSE, Faults = {}, UserCalls = {}
  PROVE  Spec => ConfirmPays
<1>1. ASSUME EscrowOK, AllInv, [Next]_vars,
             NEW s \in Slots, req[s].pc = "pay", req'[s].pc = "idle",
             NEW p \in Pairs, p[1] = req[s].order
      PROVE  /\ tx[p].status # "held"
             /\ p[2] \in payees(p[1]) => tx[p].status = "released"
  <2>1. tx[p].status # "held"
    BY <1>1, PayEnds DEF AllInv, CalmInv, Listed
  <2>2. ASSUME p[2] \in payees(p[1]) PROVE tx[p].status = "released"
    <3>1. PICK i \in LegsOf(p[1]) : leg[i].executor = p[2]
      BY <2>2, PayeesRead
    <3>2. i \in LegIds /\ i[1] = p[1] /\ p[2] # None /\ p = <<i[1], leg[i].executor>>
      BY <2>2, <3>1, LegsOfRead, PayeesRead DEF Pairs
    <3>3. ~CalledOff(p[1])
      BY <1>1, <3>1 DEF AllInv, SerialInv, Judged, Completed, CalledOff
    <3>4. ASSUME NEW t \in Slots, Holds(t, i) PROVE FALSE
      <4>1. req[t].order = req[s].order /\ req[t].pc # "pay"
        BY <1>1, <3>2, <3>4 DEF Holds, LegId
      <4> QED BY <1>1, <4>1 DEF AllInv, SerialInv, OneAtATime
    <3>5. tx[p].status \in {"held", "released"}
      BY <1>1, <3>1, <3>2, <3>3, <3>4, RowKept
    <3> QED BY <2>1, <3>5
  <2> QED BY <2>1, <2>2
<1>2. EscrowOK /\ AllInv /\ [Next]_vars =>
        [\A s \in Slots : req[s].pc = "pay" /\ req'[s].pc = "idle" =>
           \A p \in Pairs : p[1] = req[s].order =>
             /\ tx[p].status # "held"
             /\ p[2] \in payees(p[1]) => tx[p].status = "released"]_vars
  BY <1>1
<1>3. EscrowOK /\ AllInv /\ [Next]_vars => AllInv'
  BY AllNext
<1> QED BY <1>2, <1>3, AllInit, EscrowInit, EscrowNext, PTL DEF Spec, ConfirmPays

-----------------------------------------------------------------------------
(* When nothing fails, however requests overlap: the amounts.              *)

\* An accept asks for the price of the leg it has claimed.
AskedPrice == \A s \in Slots : req[s].pc = "open" => call[CallOf(s)].amount = leg[LegId(s)].price

\* The leg a row was opened for, which no accept is about to give back.
Covers(i, p) ==
  /\ leg[i].executor = p[2] /\ leg[i].price = tx[p].amount
  /\ \A s \in Slots : Unpaid(s) => LegId(s) # i
RowsCovered == \A p \in Pairs : Opened(p) => \E i \in LegsOf(p[1]) : Covers(i, p)

PriceInv == ClaimExclusive /\ Connected /\ AskedPrice /\ RowsCovered

\* A leg keeps its price.
LEMMA PriceStays ==
  ASSUME EscrowOK, [Next]_vars, NEW i \in LegIds, Has(i)
  PROVE  leg'[i].price = leg[i].price
<1>0. leg \in [LegIds -> LegRow] /\ leg[i] \in LegRow
  BY DEF EscrowOK, LegsOK
<1>1. ASSUME NEW s \in Slots, ClaimLeg(s) \/ ClaimLegError(s) \/ ReleaseLegClaim(s)
      PROVE  leg'[i].price = leg[i].price
  <2>1. \/ UNCHANGED leg
        \/ leg' = Claimed(LegId(s), req[s].executor)
        \/ leg' = ReleasedClaim(LegId(s))
    BY <1>1 DEF ClaimLeg, ClaimLegError, ReleaseLegClaim
  <2> QED BY <1>0, <2>1 DEF Claimed, ReleasedClaim, LegRow
<1>2. ASSUME NEW s \in Slots, UpdateLegStatus(s) PROVE leg'[i].price = leg[i].price
  BY <1>0, <1>2 DEF UpdateLegStatus, LegRow
<1>3. ASSUME NEW s \in Slots, Cancel(s) \/ CompleteAllLegs(s)
      PROVE  leg'[i].price = leg[i].price
  BY <1>0, <1>3 DEF Cancel, CompleteAllLegs, AllLegs, LegRow
<1>4. ASSUME NEW s \in Slots, Handle(s) PROVE leg'[i].price = leg[i].price
  BY <1>1, <1>2, <1>3, <1>4
     DEF Handle, AcceptPaid, AcceptUnpaid, ReleaseLegClaimError, CancelEnd,
         PayNext, PayEnd, ConfirmEnd, WriteError
<1>5. ASSUME NEW s \in Slots, Request(s) PROVE UNCHANGED leg
  BY <1>5 DEF Request, AcceptLoad, StatusLoad, CancelLoad, ConfirmLoad
<1>6. ASSUME NEW o \in Orders, NEW sh \in Shapes, CreateOrder(o, sh) PROVE leg'[i] = leg[i]
  BY <1>6, CreateElsewhere
<1>7. Outside \/ Crash \/ UNCHANGED vars => UNCHANGED leg
  BY OutsideLeaves DEF Crash
<1> QED BY <1>4, <1>5, <1>6, <1>7 DEF Next, Outside

\* The wallet opens a row at the amount that was asked for, and says so.
LEMMA ServeOpens ==
  ASSUME WalletOK, NEW c \in Calls, Serve(c)
  PROVE  /\ \A d \in Calls : call[d].open = TRUE => call'[d].amount = call[d].amount
         /\ \A p \in Pairs : ~Opened(p) /\ Opened(p)' =>
              /\ p = Pair(c) /\ call[c].op = "create" /\ tx'[p].amount = call[c].amount
              /\ call[c].open = TRUE => call'[c].pc = "replied" /\ call'[c].result = "ok"
<1>0. call \in [Calls -> CallRec] /\ tx \in [Pairs -> TxRow] /\ call[c] \in CallRec
  BY DEF WalletOK, WalletTypeOK
<1> DEFINE Stays == \A d \in Calls : call[d].open = TRUE => call'[d].amount = call[d].amount
           Opens == \A p \in Pairs : ~Opened(p) /\ Opened(p)' =>
              /\ p = Pair(c) /\ call[c].op = "create" /\ tx'[p].amount = call[c].amount
              /\ call[c].open = TRUE => call'[c].pc = "replied" /\ call'[c].result = "ok"
<1>1. ASSUME NEW res, Reply(c, res)
      PROVE  /\ Stays
             /\ call[c].open = TRUE => call'[c].pc = "replied" /\ call'[c].result = res
  BY <1>0, <1>1 DEF Reply, CallRec
<1>2. ASSUME NEW pc, Goto(c, pc) PROVE Stays
  BY <1>0, <1>2 DEF Goto, CallRec
<1>3. UNCHANGED tx => Opens
  BY DEF Opened
<1>4. CASE Lookup(c) \/ Charge(c)
  BY <1>1, <1>2, <1>3, <1>4 DEF Lookup, Charge
<1>5. CASE CommissionPct(c)
  <2> DEFINE k == [call[c] EXCEPT !.pc = "insert", !.fee = Commission(call[c].amount)]
  <2>1. call' = [call EXCEPT ![c] = k] /\ UNCHANGED tx
    BY <1>5 DEF CommissionPct
  <2>2. k.amount = call[c].amount
    BY <1>0 DEF CallRec
  <2> HIDE DEF k
  <2> QED BY <1>0, <1>3, <2>1, <2>2
<1>6. CASE Create(c)
  <2>1. /\ Stays
        /\ \/ UNCHANGED tx
           \/ call[c].open = TRUE => call'[c].pc = "replied" /\ call'[c].result = "ok"
    BY <1>1, <1>6 DEF Create
  <2>2. ASSUME NEW p \in Pairs, ~Opened(p), Opened(p)'
        PROVE  p = Pair(c) /\ call[c].op = "create" /\ tx'[p].amount = call[c].amount
    BY <1>0, <1>6, <2>2 DEF Create, Inserted, Opened
  <2> QED BY <1>3, <2>1, <2>2
<1>7. CASE Release(c)
  <2>1. ASSUME NEW p \in Pairs, ~Opened(p) PROVE ~Opened(p)'
    BY <1>0, <1>7, <2>1 DEF Release, Paid, Opened, TxRow
  <2> QED BY <1>1, <1>7, <2>1 DEF Release
<1>8. CASE RefundOrder(c)
  <2>1. ASSUME NEW p \in Pairs, ~Opened(p) PROVE ~Opened(p)'
    BY <1>0, <1>8, <2>1 DEF RefundOrder, GivenBack, Opened, TxRow
  <2> QED BY <1>1, <1>8, <2>1 DEF RefundOrder
<1> QED BY <1>4, <1>5, <1>6, <1>7, <1>8 DEF Serve

\* An accept that has no escrow had none, or has just claimed its leg.
LEMMA UnpaidFrom ==
  ASSUME Faults = {}, UserCalls = {}, EscrowOK, Connected, [Next]_vars, NEW s \in Slots, Unpaid(s)'
  PROVE  LegId(s)' = LegId(s) /\ (Unpaid(s) \/ Claimable(LegId(s)))
<1>1. ASSUME req'[s] = req[s],
             req[s].pc = "open" => call'[CallOf(s)] = call[CallOf(s)]
      PROVE  LegId(s)' = LegId(s) /\ Unpaid(s)
  <2>1. CallOf(s)' = CallOf(s)
    BY <1>1 DEF CallOf
  <2> QED BY <1>1, <2>1 DEF Unpaid, Granted, LegId
<1>2. ASSUME NEW t \in Slots, Request(t) \/ Handle(t), t # s
      PROVE  LegId(s)' = LegId(s) /\ Unpaid(s)
  <2>1. /\ req'[s] = req[s]
        /\ \A p \in Payees \cup {None} : call'[<<s, p>>] = call[<<s, p>>]
    BY <1>2, SlotStep DEF OthersStay
  <2>2. req[s].pc = "open" => call'[CallOf(s)] = call[CallOf(s)]
    BY <2>1, WaitCall DEF WaitPcs
  <2> QED BY <1>1, <2>1, <2>2
<1>3. ASSUME Request(s) \/ Handle(s)
      PROVE  LegId(s)' = LegId(s) /\ (Unpaid(s) \/ Claimable(LegId(s)))
  BY <1>3, ClaimSteps DEF Unpaid, LegId
<1>4. ASSUME NEW c \in Calls, Serve(c), UNCHANGED orderVars
      PROVE  LegId(s)' = LegId(s) /\ Unpaid(s)
  <2>1. /\ ServeChanges(c) /\ req' = req /\ CallOf(s)' = CallOf(s) /\ LegId(s)' = LegId(s)
    BY <1>4, ServeEffect DEF EscrowOK, orderVars, CallOf, LegId
  <2>2. req[s].pc = "open" => CallOf(s) \in Calls
    BY WaitCall DEF WaitPcs
  <2> QED BY <2>1, <2>2 DEF Unpaid, Granted, ServeChanges
<1>5. ASSUME NEW o \in Orders, NEW sh \in Shapes, CreateOrder(o, sh)
      PROVE  LegId(s)' = LegId(s) /\ Unpaid(s)
  BY <1>1, <1>5 DEF CreateOrder, walletVars
<1>6. UNCHANGED <<tx, call, orderVars>> => LegId(s)' = LegId(s) /\ Unpaid(s)
  BY <1>1 DEF orderVars
<1> QED BY <1>2, <1>3, <1>4, <1>5, <1>6, CalmSteps

\* A handler that waits for its escrow waits on, or has just claimed its leg and
\* asked for the price.
LEMMA OpenFrom ==
  ASSUME Faults = {}, EscrowOK, NEW s \in Slots, Request(s) \/ Handle(s), req'[s].pc = "open"
  PROVE  /\ call'[CallOf(s)'].amount = leg[LegId(s)].price
         /\ LegId(s) \in LegIds /\ Has(LegId(s)) /\ LegId(s)' = LegId(s)
<1>0. /\ req \in [Slots -> ReqRec] /\ req[s] \in ReqRec /\ call \in [Calls -> CallRec]
  BY ReqParts DEF EscrowOK, ReqsOK, WalletOK, WalletTypeOK
<1>1. /\ req'[s].order = req[s].order /\ req'[s].name = req[s].name
      /\ req'[s].executor = req[s].executor
  BY ClaimSteps
<1>2. ClaimLeg(s) /\ Claimable(LegId(s))
  <2>1. ~(req[s].pc = "open" /\ (Request(s) \/ Handle(s)))
    <3>1. Request(s) => req[s] = IdleReq
      BY DEF Request, AcceptLoad, StatusLoad, CancelLoad, ConfirmLoad, Free
    <3>2. req[s].pc = "open" /\ Handle(s) => End(s) \/ Step(s, "rollback")
      BY DEF Handle, ClaimLeg, ClaimLegError, AcceptPaid, AcceptUnpaid, ReleaseLegClaim,
         ReleaseLegClaimError, UpdateLegStatus, Cancel, CancelEnd, CompleteAllLegs, PayNext,
         PayEnd, ConfirmEnd, WriteError
    <3>3. End(s) \/ Step(s, "rollback") => req'[s].pc # "open"
      BY <1>0 DEF End, Step, IdleReq, ReqRec
    <3> QED BY <3>1, <3>2, <3>3 DEF IdleReq
  <2>2. Claimable(LegId(s)) /\ leg' = Claimed(LegId(s), req[s].executor)
    BY <2>1, ClaimSteps
  <2>3. ~Request(s)
    <3>1. ASSUME NEW r, Start(s, r) PROVE req'[s] = r
      BY <1>0, <3>1 DEF Start
    <3>2. ASSUME NEW i \in LegIds, NEW e \in Payees, AcceptLoad(s, i, e) PROVE FALSE
      BY <3>1, <3>2 DEF AcceptLoad, IdleReq
    <3>3. ASSUME NEW i \in LegIds, NEW to \in Targets, StatusLoad(s, i, to) PROVE FALSE
      BY <3>1, <3>3 DEF StatusLoad, IdleReq
    <3>4. ASSUME NEW o \in Orders, CancelLoad(s, o) \/ ConfirmLoad(s, o) PROVE FALSE
      BY <3>1, <3>4 DEF CancelLoad, ConfirmLoad, IdleReq
    <3> QED BY <3>2, <3>3, <3>4 DEF Request
  <2>4. ASSUME NEW p \in Payees, PayNext(s, p) PROVE FALSE
    <3> DEFINE r == [req[s] EXCEPT !.pc = "paying", !.executor = p, !.pay = @ \ {p}]
    <3>1. req' = [req EXCEPT ![s] = r] /\ r.pc = "paying"
      BY <1>0, <2>4 DEF PayNext, ReqRec
    <3> HIDE DEF r
    <3> QED BY <1>0, <3>1
  <2>5. ASSUME Handle(s), ~ClaimLeg(s) PROVE FALSE
    <3>1. \/ End(s) \/ Step(s, "rollback") \/ Step(s, "pay") \/ Step(s, "refund")
      BY <2>4, <2>5 DEF Handle, ClaimLegError, AcceptPaid, AcceptUnpaid, ReleaseLegClaim,
         ReleaseLegClaimError, UpdateLegStatus, CancelEnd, PayEnd, ConfirmEnd, WriteError,
         Cancel, CompleteAllLegs
    <3> QED BY <1>0, <3>1 DEF End, Step, IdleReq, ReqRec
  <2> QED BY <2>2, <2>3, <2>5
<1>3. /\ Arrive(CallOf(s), "create", req[s].order, req[s].executor, EscrowAmount(LegId(s)))
      /\ Step(s, "open")
  BY <1>2 DEF ClaimLeg
<1>4. /\ req[s].op = "accept" /\ req'[s].op = "accept" /\ CallOf(s) \in Calls
      /\ LegId(s) \in LegIds /\ Has(LegId(s))
  <2>1. req[s].op = "accept" /\ req[s].executor \in Payees /\ req[s].pc = "claim"
    BY <1>2 DEF ClaimLeg, EscrowOK, ReqsOK, ReqShape
  <2>2. LegId(s) \in LegIds /\ Has(LegId(s))
    BY <2>1, ReqParts DEF EscrowOK, LegPcs
  <2> QED BY <1>0, <1>3, <2>1, <2>2, CallOfOK DEF Step, ReqRec
<1>5. CallOf(s)' = CallOf(s) /\ LegId(s)' = LegId(s)
  BY <1>1, <1>4 DEF CallOf, LegId
<1>6. call'[CallOf(s)].amount = EscrowAmount(LegId(s))
  BY <1>0, <1>3, <1>4 DEF Arrive
<1> QED BY <1>4, <1>5, <1>6 DEF EscrowAmount

\* One step of the system.
LEMMA AskedPriceNext ==
  ASSUME Faults = {}, UserCalls = {}, EscrowOK, Connected, AskedPrice, [Next]_vars
  PROVE  AskedPrice'
<1> SUFFICES ASSUME NEW s \in Slots, req'[s].pc = "open"
             PROVE  call'[CallOf(s)'].amount = leg'[LegId(s)'].price
  BY DEF AskedPrice
<1> DEFINE Fine == call'[CallOf(s)'].amount = leg'[LegId(s)'].price
<1>1. ASSUME req'[s] = req[s], call'[CallOf(s)].amount = call[CallOf(s)].amount PROVE Fine
  <2>1. CallOf(s)' = CallOf(s) /\ LegId(s)' = LegId(s)
    BY <1>1 DEF CallOf, LegId
  <2>2. leg'[LegId(s)].price = leg[LegId(s)].price
    BY <1>1, PriceStays, ReqParts DEF EscrowOK, LegPcs
  <2> QED BY <1>1, <2>1, <2>2 DEF AskedPrice
<1>2. ASSUME NEW t \in Slots, Request(t) \/ Handle(t), t # s PROVE Fine
  <2>1. /\ req'[s] = req[s]
        /\ \A p \in Payees \cup {None} : call'[<<s, p>>] = call[<<s, p>>]
    BY <1>2, SlotStep DEF OthersStay
  <2>2. call'[CallOf(s)] = call[CallOf(s)]
    BY <2>1, WaitCall DEF WaitPcs
  <2> QED BY <1>1, <2>1, <2>2
<1>3. ASSUME Request(s) \/ Handle(s) PROVE Fine
  <2>1. /\ call'[CallOf(s)'].amount = leg[LegId(s)].price
        /\ LegId(s) \in LegIds /\ Has(LegId(s)) /\ LegId(s)' = LegId(s)
    BY <1>3, OpenFrom
  <2> QED BY <2>1, PriceStays
<1>4. ASSUME NEW c \in Calls, Serve(c), UNCHANGED orderVars PROVE Fine
  <2>1. req' = req
    BY <1>4 DEF orderVars
  <2>2. CallOf(s) \in Calls /\ call[CallOf(s)].open = TRUE
    BY <2>1, WaitCall DEF WaitPcs, Connected, SlotConnected, Waits
  <2>3. call'[CallOf(s)].amount = call[CallOf(s)].amount
    BY <1>4, <2>2, ServeOpens DEF EscrowOK
  <2> QED BY <1>1, <2>1, <2>3
<1>5. ASSUME NEW o \in Orders, NEW sh \in Shapes, CreateOrder(o, sh) PROVE Fine
  BY <1>1, <1>5 DEF CreateOrder, walletVars
<1>6. UNCHANGED <<tx, call, orderVars>> => Fine
  BY <1>1 DEF orderVars
<1> QED BY <1>2, <1>3, <1>4, <1>5, <1>6, CalmSteps

\* One step of the system.
LEMMA RowsCoveredNext ==
  ASSUME Faults = {}, UserCalls = {}, EscrowOK, PriceInv, [Next]_vars
  PROVE  RowsCovered'
<1>0. /\ ClaimExclusive /\ Connected /\ AskedPrice /\ RowsCovered /\ None \notin Payees
      /\ WalletOK
  BY WalletAssumption DEF PriceInv, EscrowOK
<1> SUFFICES ASSUME NEW p \in Pairs, Opened(p)'
             PROVE  \E i \in LegsOf(p[1])' : Covers(i, p)'
  BY DEF RowsCovered
<1>1. p[2] \in Payees /\ p = <<p[1], p[2]>>
  BY DEF Pairs
<1>2. CASE Opened(p)
  <2>1. PICK i \in LegsOf(p[1]) : Covers(i, p)
    BY <1>0, <1>2 DEF RowsCovered
  <2>2. /\ i \in LegIds /\ Has(i) /\ leg[i].executor = p[2] /\ leg[i].price = tx[p].amount
        /\ \A s \in Slots : Unpaid(s) => LegId(s) # i
    BY <2>1, LegsOfRead DEF Covers
  <2>3. i \in LegsOf(p[1])'
    BY <2>1, LegsOfStay
  <2>4. tx'[p].amount = tx[p].amount
    BY <1>0, <1>2, WalletSteps, SettleStep DEF SettlesOnce
  <2>5. leg'[i].price = leg[i].price
    BY <2>2, PriceStays
  <2>6. leg'[i].executor = leg[i].executor
    <3>1. SUFFICES ASSUME leg'[i].executor # leg[i].executor PROVE FALSE
      OBVIOUS
    <3>2. PICK s \in Slots : ReleaseLegClaim(s) /\ LegId(s) = i
      BY <1>0, <1>1, <2>2, <3>1, ExecutorLeft
    <3> QED BY <2>2, <3>2 DEF ReleaseLegClaim, Unpaid
  <2>7. ASSUME NEW s \in Slots, Unpaid(s)' PROVE LegId(s)' # i
    <3>1. LegId(s)' = LegId(s) /\ (Unpaid(s) \/ Claimable(LegId(s)))
      BY <1>0, <2>7, UnpaidFrom
    <3> QED BY <1>0, <1>1, <2>2, <3>1 DEF Claimable
  <2> QED BY <2>2, <2>3, <2>4, <2>5, <2>6, <2>7 DEF Covers
<1>3. CASE ~Opened(p)
  <2>1. PICK c \in Calls : Serve(c) /\ UNCHANGED orderVars
    BY <1>0, <1>3, CalmSteps DEF CreateOrder, walletVars, Opened
  <2>2. /\ p = Pair(c) /\ call[c].op = "create" /\ tx'[p].amount = call[c].amount
        /\ call[c].open = TRUE => call'[c].pc = "replied" /\ call'[c].result = "ok"
    BY <1>0, <1>3, <2>1, ServeOpens
  <2>3. PICK s \in Slots : CallOf(s) = c /\ req[s].pc \in WaitPcs /\ Waits(s)
    BY <1>0, <2>2, CallWaits DEF IdleCall
  <2>4. req[s].pc = "open" /\ req[s].order = p[1] /\ req[s].executor = p[2]
        /\ call[c].open = TRUE
    BY <2>2, <2>3 DEF Waits, WaitPcs, Pair
  <2>5. LegId(s) \in LegsOf(p[1]) /\ leg[LegId(s)].executor = p[2] /\ LegId(s) \in LegIds
    BY <1>0, <2>4, ClaimRow, LegsOfRead
  <2>6. leg[LegId(s)].price = tx'[p].amount
    BY <1>0, <2>2, <2>3, <2>4 DEF AskedPrice
  <2>7. UNCHANGED <<leg, req>> /\ CallOf(s)' = c
    BY <2>1, <2>3 DEF orderVars, CallOf
  <2>8. ASSUME NEW t \in Slots, Unpaid(t)', LegId(t)' = LegId(s) PROVE FALSE
    <3>1. req[t].pc \in {"open", "rollback"} /\ LegId(t) = LegId(s)
      BY <2>7, <2>8 DEF Unpaid, LegId
    <3>2. t = s
      BY <1>0, <2>4, <2>5, <3>1 DEF ClaimExclusive, Holds
    <3> QED BY <2>2, <2>4, <2>7, <2>8, <3>2 DEF Unpaid, Granted
  <2> QED BY <2>5, <2>6, <2>7, <2>8 DEF Covers, LegsOf, Has
<1> QED BY <1>2, <1>3

\* When nothing fails, however requests on an order overlap: every escrow row is
\* of the price of one leg of the order, which its executor has (accept opens
\* the escrow for the claimed leg's price, and rolls back claims without one).
THEOREM EscrowByLeg ==
  ASSUME Faults = {}, UserCalls = {}
  PROVE  Spec => []EscrowIsLegPrice
<1>1. Init => PriceInv
  <2> SUFFICES ASSUME Init PROVE PriceInv
    OBVIOUS
  <2>1. /\ \A s \in Slots : req[s] = IdleReq
        /\ \A c \in Calls : call[c] = IdleCall
        /\ \A p \in Pairs : tx[p].status = "absent"
    BY DEF Init, WalletInit, NoRow
  <2>2. Connected
    BY <2>1, EscrowAssumption DEF Connected, SlotConnected, IdleReq, WaitPcs, OrderCalls
  <2> QED BY <2>1, <2>2 DEF PriceInv, ClaimExclusive, Holds, AskedPrice, RowsCovered, Opened,
             IdleReq
<1>2. EscrowOK /\ PriceInv /\ [Next]_vars => PriceInv'
  BY ExclusiveNext, ConnectedNext, AskedPriceNext, RowsCoveredNext DEF PriceInv
<1>3. PriceInv => EscrowIsLegPrice
  BY DEF PriceInv, RowsCovered, Covers, EscrowIsLegPrice
<1> QED BY <1>1, <1>2, <1>3, EscrowInit, EscrowNext, PTL DEF Spec

-----------------------------------------------------------------------------
(* The abstract contract: first the map from the state of the system to    *)
(* the board, then one lemma per kind of step.                             *)

\* Somebody holds the claim of a leg.
Held(i) == \E s \in Slots : Holds(s, i)

\* A claim that was cut off stays on its leg, and no accept works on it.
OrphansKept == \A i \in orphaned : leg[i].executor # None /\ ~Held(i)

\* A step leaves what the board shows of a leg alone.
SameLeg(i) ==
  /\ Has(i)' <=> Has(i)
  /\ leg'[i].executor = leg[i].executor /\ leg'[i].price = leg[i].price
  /\ Held(i)' <=> Held(i)
  /\ i \in orphaned' <=> i \in orphaned

\* A step changes nobody's claims.
SameHolds == \A i \in LegIds : Held(i)' <=> Held(i)

\* The board is read leg by leg.
LEMMA BoardRead ==
  /\ Terms!LegIds = LegIds /\ Terms!EscrowPairs = Pairs
  /\ Board = [i \in LegIds |-> Posting(i)]
  /\ \A i \in LegIds : Board[i] = Posting(i)
BY DEF Board, Posting, LegIds, Terms!LegIds, Pairs, Terms!EscrowPairs

\* A leg that stays shows the same.
LEMMA SamePosting ==
  ASSUME NEW i \in LegIds, SameLeg(i)
  PROVE  Posting(i)' = Posting(i)
<1>1. Phase(i)' = Phase(i)
  BY DEF Phase, SameLeg, Held
<1> QED BY <1>1 DEF Posting, SameLeg

\* So the board is the same when all its legs are.
LEMMA BoardStays ==
  ASSUME \A i \in LegIds : SameLeg(i)
  PROVE  Board' = Board
BY SamePosting, BoardRead DEF Board, Posting

\* One leg comes to another phase, perhaps with another executor.
LEMMA BoardBecomes ==
  ASSUME NEW i \in LegIds, \A j \in LegIds : j # i => SameLeg(j),
         leg'[i].price = leg[i].price,
         NEW phase, Phase(i)' = phase, NEW e, leg'[i].executor = e
  PROVE  Terms!Becomes(i, phase, e)
<1>1. Board' = [j \in LegIds |-> Posting(j)']
  BY DEF Board, Posting
<1>2. \A j \in LegIds : j # i => Posting(j)' = Posting(j)
  BY SamePosting
<1>3. Posting(i)' = [phase |-> phase, executor |-> e, price |-> leg[i].price]
  BY DEF Posting
<1> QED BY <1>1, <1>2, <1>3, BoardRead DEF Terms!Becomes, Terms!In, Posting

\* The phases, as the tables and the requests show them.
LEMMA Phases ==
  ASSUME LegsOK, NEW i \in LegIds
  PROVE  /\ Board[i].phase = Phase(i) /\ Board[i].executor = leg[i].executor
         /\ Board[i].price = leg[i].price
         /\ Phase(i) = "unposted" <=> ~Has(i)
         /\ Has(i) /\ leg[i].executor = None => Phase(i) = "open"
         /\ leg[i].executor # None /\ Held(i) => Phase(i) = "claimed"
         /\ leg[i].executor # None /\ ~Held(i) /\ i \in orphaned => Phase(i) = "cutoff"
         /\ leg[i].executor # None /\ ~Held(i) /\ i \notin orphaned => Phase(i) = "settled"
<1>1. ~Has(i) => leg[i].executor = None
  BY LegRead DEF LegShape, Has
<1>2. Board[i] = Posting(i)
  BY BoardRead
<1> QED BY <1>1, <1>2 DEF Posting, Phase, Held

\* The posted legs of an order are the rows it has.
LEMMA PostedAre ==
  ASSUME LegsOK, NEW o
  PROVE  Terms!Posted(o) = LegsOf(o)
BY BoardRead, Phases DEF Terms!Posted, LegsOf

\* What the request of a call asks for, and whether it asks for a charge.
Ask(k) == <<k.order, k.payee, k.amount>>

\* A step in which the orders service asks for no new charge.
KeepsAsks ==
  \A c \in OrderCalls : call'[c].op = "create" =>
    call[c].op = "create" /\ Ask(call'[c]) = Ask(call[c])

\* Such a step at most ends requests for money.
LEMMA AskedLapse ==
  ASSUME KeepsAsks
  PROVE  Terms!Lapse
BY DEF KeepsAsks, Ask, Asked, Terms!Lapse

\* One call replaced by one that asks for the same, or for nothing.
LEMMA AsksUpdate ==
  ASSUME WalletOK, NEW c \in Calls, NEW k, call' = [call EXCEPT ![c] = k],
         k.op = "create" => call[c].op = "create" /\ Ask(k) = Ask(call[c])
  PROVE  KeepsAsks
BY EscrowAssumption DEF WalletOK, WalletTypeOK, KeepsAsks

\* Only arrivals ask for charges.
LEMMA AsksKept ==
  ASSUME WalletOK, NEW c \in Calls, Serve(c) \/ Fail(c) \/ Receive(c) \/ Hangup(c)
  PROVE  KeepsAsks
<1>0. call[c] \in CallRec /\ IdleCall.op # "create"
  BY DEF WalletOK, WalletTypeOK, IdleCall
<1>1. ASSUME NEW res, Reply(c, res) PROVE KeepsAsks
  <2> DEFINE k == [call[c] EXCEPT !.pc = "replied", !.result = res]
  <2>1. k.op = call[c].op /\ Ask(k) = Ask(call[c])
    BY <1>0 DEF CallRec, Ask
  <2>2. call' = [call EXCEPT ![c] = k] \/ call' = [call EXCEPT ![c] = IdleCall]
    BY <1>1 DEF Reply
  <2> HIDE DEF k
  <2> QED BY <1>0, <2>1, <2>2, AsksUpdate
<1>2. ASSUME NEW pc, Goto(c, pc) PROVE KeepsAsks
  <2> DEFINE k == [call[c] EXCEPT !.pc = pc]
  <2>1. k.op = call[c].op /\ Ask(k) = Ask(call[c]) /\ call' = [call EXCEPT ![c] = k]
    BY <1>0, <1>2 DEF CallRec, Ask, Goto
  <2> HIDE DEF k
  <2> QED BY <2>1, AsksUpdate
<1>3. CASE CommissionPct(c)
  <2> DEFINE k == [call[c] EXCEPT !.pc = "insert",
                                  !.fee = Commission(call[c].amount)]
  <2>1. call' = [call EXCEPT ![c] = k]
    BY <1>3 DEF CommissionPct
  <2>2. k.op = call[c].op /\ Ask(k) = Ask(call[c])
    BY <1>0 DEF CallRec, Ask
  <2> HIDE DEF k
  <2> QED BY <2>1, <2>2, AsksUpdate
<1>4. CASE Receive(c)
  BY <1>0, <1>4, AsksUpdate DEF Receive
<1>5. CASE Hangup(c)
  <2> DEFINE k == [call[c] EXCEPT !.open = FALSE]
  <2>1. k.op = call[c].op /\ Ask(k) = Ask(call[c])
    BY <1>0 DEF CallRec, Ask
  <2>2. call' = [call EXCEPT ![c] = k] \/ call' = [call EXCEPT ![c] = IdleCall]
    BY <1>5 DEF Hangup, Closed
  <2> HIDE DEF k
  <2> QED BY <1>0, <2>1, <2>2, AsksUpdate
<1>6. CASE Lookup(c)
  BY <1>1, <1>2, <1>6 DEF Lookup
<1>7. CASE Charge(c)
  BY <1>1, <1>2, <1>7 DEF Charge
<1>8. CASE Create(c) \/ Release(c) \/ RefundOrder(c) \/ Fail(c)
  BY <1>1, <1>8 DEF Create, Release, RefundOrder, Fail
<1> QED BY <1>3, <1>4, <1>5, <1>6, <1>7, <1>8 DEF Serve

\* So does the stop of the caller.
LEMMA StopLapses ==
  ASSUME WalletOK, CallerStops(OrderCalls)
  PROVE  Terms!Lapse
<1>1. ASSUME NEW c \in OrderCalls, call'[c].op = "create"
      PROVE  call[c].op = "create" /\ Ask(call'[c]) = Ask(call[c])
  <2> DEFINE k == [call[c] EXCEPT !.open = FALSE]
  <2>1. c \in Calls /\ call[c] \in CallRec
    BY EscrowAssumption DEF WalletOK, WalletTypeOK
  <2>2. k.op = call[c].op /\ Ask(k) = Ask(call[c])
    BY <2>1 DEF CallRec, Ask
  <2>3. call'[c] = IdleCall \/ call'[c] = k
    BY <2>1 DEF CallerStops, Closed
  <2> HIDE DEF k
  <2> QED BY <1>1, <2>2, <2>3 DEF IdleCall
<1> QED BY <1>1, AskedLapse DEF KeepsAsks

\* A request of the orders service asks for a charge exactly if it creates an
\* escrow.
LEMMA ArriveAsks ==
  ASSUME WalletOK, NEW c \in OrderCalls, NEW op, NEW o, NEW p, NEW a,
         Arrive(c, op, o, p, a)
  PROVE  Asked' = IF op = "create" THEN Asked \cup {<<o, p, a>>} ELSE Asked
<1> DEFINE k == [op |-> op, pc |-> "start", order |-> o, payee |-> p,
                 amount |-> a, fee |-> 0, open |-> TRUE, result |-> "none"]
<1>1. /\ call' = [call EXCEPT ![c] = k] /\ k.op = op
      /\ k.order = o /\ k.payee = p /\ k.amount = a /\ call[c].op # "create"
  BY DEF Arrive, IdleCall
<1> HIDE DEF k
<1>2. call'[c] = k /\ \A d \in OrderCalls : d # c => call'[d] = call[d]
  BY <1>1, EscrowAssumption DEF WalletOK, WalletTypeOK
<1>3. CASE op = "create"
  <2>1. <<o, p, a>> \in Asked'
    BY <1>1, <1>2, <1>3 DEF Asked
  <2>2. Asked \subseteq Asked'
    BY <1>1, <1>2 DEF Asked
  <2>3. Asked' \subseteq Asked \cup {<<o, p, a>>}
    BY <1>1, <1>2 DEF Asked
  <2> QED BY <1>3, <2>1, <2>2, <2>3
<1>4. CASE op # "create"
  <2>1. Asked \subseteq Asked'
    BY <1>1, <1>2 DEF Asked
  <2>2. Asked' \subseteq Asked
    BY <1>1, <1>2, <1>4 DEF Asked
  <2> QED BY <1>4, <2>1, <2>2
<1> QED BY <1>3, <1>4

\* A request that starts, goes on or ends outside the claims changes none.
LEMMA HoldsSame ==
  ASSUME ReqsOK, NEW s \in Slots, NEW r, req' = [req EXCEPT ![s] = r],
         r.pc \in {"open", "rollback"} <=> req[s].pc \in {"open", "rollback"},
         r.pc \in {"open", "rollback"} => <<r.order, r.name>> = LegId(s)
  PROVE  SameHolds
<1>1. req'[s] = r /\ \A t \in Slots : t # s => req'[t] = req[t]
  BY DEF ReqsOK
<1>2. \A t \in Slots, i \in LegIds : Holds(t, i)' <=> Holds(t, i)
  BY <1>1 DEF Holds, LegId
<1> QED BY <1>2 DEF SameHolds, Held

\* A step after which the board is the same.
LegsSame ==
  \A i \in LegIds : /\ Has(i)' <=> Has(i)
                    /\ leg'[i].executor = leg[i].executor
                    /\ leg'[i].price = leg[i].price
Quiet == SameHolds /\ LegsSame /\ UNCHANGED orphaned

\* What such a step leaves alone is all the board shows.
LEMMA QuietBoard ==
  ASSUME Quiet
  PROVE  Board' = Board
BY BoardStays DEF Quiet, SameHolds, LegsSame, SameLeg

\* Statements that touch no claim leave the board alone: they write a status at
\* most.
LEMMA QuietSteps ==
  ASSUME EscrowOK, NEW s \in Slots,
         \/ Request(s)
         \/ (ClaimLeg(s) \/ ClaimLegError(s)) /\ UNCHANGED <<leg, orphaned>> /\ End(s)
         \/ AcceptUnpaid(s) \/ UpdateLegStatus(s) \/ Cancel(s) \/ CancelEnd(s)
         \/ CompleteAllLegs(s) \/ (\E p \in Payees : PayNext(s, p)) \/ PayEnd(s)
         \/ ConfirmEnd(s) \/ WriteError(s)
  PROVE  Quiet
<1>0. /\ LegsOK /\ ReqsOK /\ req[s] \in ReqRec /\ IdleReq.pc = "idle"
      /\ leg \in [LegIds -> LegRow] /\ "absent" \notin Statuses
  BY DEF EscrowOK, LegsOK, ReqsOK, IdleReq, Statuses
<1>1. UNCHANGED leg => LegsSame
  BY DEF LegsSame, Has
<1>2. ASSUME End(s), req[s].pc \notin {"open", "rollback"} PROVE SameHolds
  BY <1>0, <1>2, HoldsSame DEF End
<1>3. ASSUME NEW pc, Step(s, pc),
             \/ pc = "rollback" /\ req[s].pc = "open"
             \/ pc \notin {"open", "rollback"} /\ req[s].pc \notin {"open", "rollback"}
      PROVE  SameHolds
  <2> DEFINE r == [req[s] EXCEPT !.pc = pc]
  <2>1. req' = [req EXCEPT ![s] = r] /\ r.pc = pc /\ r.order = req[s].order /\ r.name = req[s].name
    BY <1>0, <1>3 DEF Step, ReqRec
  <2> HIDE DEF r
  <2> QED BY <1>0, <1>3, <2>1, HoldsSame DEF LegId
<1>4. CASE Request(s)
  <2>1. UNCHANGED <<leg, orphaned>> /\ req[s].pc = "idle"
    BY <1>0, <1>4
       DEF Request, AcceptLoad, StatusLoad, CancelLoad, ConfirmLoad, Free, historyVars
  <2>2. ASSUME NEW r, Start(s, r), r.pc \in {"claim", "write", "mark", "complete"}
        PROVE  SameHolds
    BY <1>0, <2>1, <2>2, HoldsSame DEF Start
  <2>3. ASSUME NEW i \in LegIds, NEW e \in Payees, AcceptLoad(s, i, e)
        PROVE  SameHolds
    BY <2>2, <2>3 DEF AcceptLoad, IdleReq
  <2>4. ASSUME NEW i \in LegIds, NEW to \in Targets, StatusLoad(s, i, to)
        PROVE  SameHolds
    BY <2>2, <2>4 DEF StatusLoad, IdleReq
  <2>5. ASSUME NEW o \in Orders, CancelLoad(s, o) PROVE SameHolds
    BY <2>2, <2>5 DEF CancelLoad, IdleReq
  <2>6. ASSUME NEW o \in Orders, ConfirmLoad(s, o) PROVE SameHolds
    BY <2>2, <2>6 DEF ConfirmLoad, IdleReq
  <2> QED BY <1>1, <1>4, <2>1, <2>3, <2>4, <2>5, <2>6 DEF Request, Quiet
<1>5. CASE (ClaimLeg(s) \/ ClaimLegError(s)) /\ UNCHANGED <<leg, orphaned>> /\ End(s)
  BY <1>1, <1>2, <1>5 DEF ClaimLeg, ClaimLegError, Quiet
<1>6. CASE AcceptUnpaid(s) \/ CancelEnd(s) \/ PayEnd(s) \/ ConfirmEnd(s) \/ WriteError(s)
  BY <1>1, <1>2, <1>3, <1>6
     DEF AcceptUnpaid, CancelEnd, PayEnd, ConfirmEnd, WriteError, Quiet, historyVars
<1>7. CASE UpdateLegStatus(s)
  <2>1. req[s].to \in Statuses /\ LegId(s) \in LegIds /\ Has(LegId(s))
    BY <1>0, <1>7, ReqParts DEF UpdateLegStatus, ReqsOK, ReqShape, LegPcs
  <2>2. LegsSame
    BY <1>0, <1>7, <2>1 DEF UpdateLegStatus, LegsSame, Has, LegRow
  <2> QED BY <1>2, <1>7, <2>2 DEF UpdateLegStatus, Quiet
<1>8. CASE Cancel(s) \/ CompleteAllLegs(s)
  <2>1. ASSUME NEW st \in Statuses, NEW o, leg' = AllLegs(o, st) PROVE LegsSame
    <3> SUFFICES ASSUME NEW i \in LegIds
                 PROVE  /\ Has(i)' <=> Has(i)
                        /\ leg'[i].executor = leg[i].executor
                        /\ leg'[i].price = leg[i].price
      BY DEF LegsSame
    <3>1. leg'[i] = leg[i] \/ (Has(i) /\ leg'[i] = [leg[i] EXCEPT !.status = st])
      BY <2>1 DEF AllLegs, LegsOf
    <3>2. leg[i] \in LegRow
      BY <1>0
    <3> QED BY <1>0, <3>1, <3>2 DEF LegRow, Has
  <2>2. LegsSame
    BY <1>8, <2>1 DEF Cancel, CompleteAllLegs, Statuses
  <2> QED BY <1>2, <1>3, <1>8, <2>2 DEF Cancel, CompleteAllLegs, Quiet, historyVars
<1>9. ASSUME NEW p \in Payees, PayNext(s, p) PROVE Quiet
  <2> DEFINE r == [req[s] EXCEPT !.pc = "paying", !.executor = p, !.pay = @ \ {p}]
  <2>1. req' = [req EXCEPT ![s] = r] /\ r.pc = "paying" /\ req[s].pc = "pay"
    BY <1>0, <1>9 DEF PayNext, ReqRec
  <2> HIDE DEF r
  <2>2. SameHolds
    BY <1>0, <2>1, HoldsSame
  <2> QED BY <1>1, <1>9, <2>2 DEF PayNext, Quiet, historyVars
<1> QED BY <1>4, <1>5, <1>6, <1>7, <1>8, <1>9

\* A step leaves every leg but l to its row and to whoever holds it.
Others(l) ==
  \A i \in LegIds : i # l => leg'[i] = leg[i] /\ (Held(i)' <=> Held(i))

\* A claim that is made: the leg was free and nobody held it.
LEMMA ClaimMade ==
  ASSUME EscrowOK, ClaimExclusive, NEW s \in Slots, NEW l, l = LegId(s),
         Claimable(l), leg' = Claimed(l, req[s].executor),
         ClaimLeg(s) \/ ClaimLegError(s)
  PROVE  /\ l \in LegIds /\ l[1] = req[s].order /\ Has(l) /\ Has(l)' /\ ~Held(l)
         /\ leg[l].executor = None /\ req[s].executor \in Payees
         /\ leg'[l].executor = req[s].executor /\ leg'[l].price = leg[l].price
         /\ Others(l)
         /\ Step(s, "open") => Held(l)'
         /\ End(s) => ~Held(l)'
<1>0. /\ LegsOK /\ ReqsOK /\ req[s].pc = "claim" /\ req[s] \in ReqRec
      /\ l \in LegIds /\ Has(l) /\ req[s].executor \in Payees /\ l[1] = req[s].order
      /\ req \in [Slots -> ReqRec] /\ leg \in [LegIds -> LegRow] /\ leg[l] \in LegRow
  BY ReqParts DEF EscrowOK, LegsOK, ReqsOK, ReqShape, ClaimLeg, ClaimLegError, LegPcs, LegId
<1>1. leg[l].executor = None /\ leg[l].status = "published"
  BY DEF Claimable
<1>2. \A t \in Slots : ~Holds(t, l)
  BY <1>0, <1>1, WalletAssumption DEF ClaimExclusive, Holds, ReqsOK, ReqShape
<1>3. /\ leg'[l].executor = req[s].executor /\ leg'[l].price = leg[l].price
      /\ leg'[l].status = "accepted" /\ \A i \in LegIds : i # l => leg'[i] = leg[i]
  BY <1>0 DEF Claimed, LegRow
<1>4. Step(s, "open") \/ End(s)
  BY DEF ClaimLeg, ClaimLegError
<1>5. /\ \A t \in Slots : t # s => req'[t] = req[t]
      /\ Step(s, "open") => /\ req'[s].pc = "open" /\ req'[s].order = req[s].order
                            /\ req'[s].name = req[s].name
      /\ End(s) => req'[s].pc = "idle"
  BY <1>0, <1>4 DEF ReqRec, Step, End, IdleReq
<1>6. \A t \in Slots, i \in LegIds : t # s => (Holds(t, i)' <=> Holds(t, i))
  BY <1>5 DEF Holds, LegId
<1>7. /\ \A i \in LegIds : i # l => ~Holds(s, i)' /\ ~Holds(s, i)
      /\ Step(s, "open") => Holds(s, l)'
      /\ End(s) => ~Holds(s, l)'
  BY <1>0, <1>4, <1>5 DEF Holds, LegId
<1>8. \A i \in LegIds : i # l => (Held(i)' <=> Held(i))
  BY <1>6, <1>7 DEF Held
<1>9. /\ Step(s, "open") => Held(l)'
      /\ End(s) => ~Held(l)'
  BY <1>0, <1>2, <1>6, <1>7 DEF Held
<1> QED BY <1>0, <1>1, <1>2, <1>3, <1>8, <1>9 DEF Held, Others, Has

\* A claim that ends: only its accept held it.
LEMMA ClaimEnds ==
  ASSUME EscrowOK, ClaimExclusive, NEW s \in Slots, NEW l, l = LegId(s),
         AcceptPaid(s) \/ ReleaseLegClaim(s) \/ ReleaseLegClaimError(s)
  PROVE  /\ l \in LegIds /\ l[1] = req[s].order /\ Has(l) /\ Held(l) /\ Holds(s, l)
         /\ leg[l].executor = req[s].executor /\ req[s].executor \in Payees
         /\ leg[l].executor # None /\ Others(l) /\ ~Held(l)'
<1>0. /\ LegsOK /\ ReqsOK /\ req[s].pc \in {"open", "rollback"}
      /\ l \in LegIds /\ Has(l) /\ req[s].executor \in Payees /\ l[1] = req[s].order
      /\ req \in [Slots -> ReqRec] /\ leg \in [LegIds -> LegRow] /\ End(s)
  BY ReqParts DEF EscrowOK, LegsOK, ReqsOK, ReqShape, AcceptPaid, ReleaseLegClaim,
                  ReleaseLegClaimError, LegPcs, LegId
<1>1. /\ Holds(s, l) /\ leg[l].executor = req[s].executor
      /\ \A t \in Slots : Holds(t, l) => t = s
  BY <1>0 DEF ClaimExclusive, Holds
<1>2. req'[s].pc = "idle" /\ \A t \in Slots : t # s => req'[t] = req[t]
  BY <1>0 DEF End, IdleReq
<1>3. \A t \in Slots, i \in LegIds : t # s => (Holds(t, i)' <=> Holds(t, i))
  BY <1>2 DEF Holds, LegId
<1>4. \A i \in LegIds : ~Holds(s, i)' /\ (i # l => ~Holds(s, i))
  BY <1>2 DEF Holds
<1>5. ~Held(l)' /\ \A i \in LegIds : i # l => (Held(i)' <=> Held(i))
  BY <1>0, <1>1, <1>3, <1>4 DEF Held
<1>6. \A i \in LegIds : i # l => leg'[i] = leg[i]
  BY <1>0 DEF AcceptPaid, ReleaseLegClaim, ReleasedClaim, ReleaseLegClaimError
<1> QED BY <1>0, <1>1, <1>5, <1>6, WalletAssumption DEF Others, Held

\* A leg is not cut off twice: what was cut off stays, under its executor.
LEMMA OrphansNext ==
  ASSUME EscrowOK, ClaimExclusive, OrphansKept, [Next]_vars
  PROVE  OrphansKept'
<1>0. orphaned \subseteq LegIds
  BY DEF EscrowOK, HistoryOK
<1>1. Quiet => OrphansKept'
  BY <1>0 DEF Quiet, SameHolds, LegsSame, OrphansKept, Held
<1>2. ASSUME NEW s \in Slots, ClaimLeg(s) \/ ClaimLegError(s) PROVE OrphansKept'
  <2>1. PICK l : l = LegId(s)
    OBVIOUS
  <2>2. CASE UNCHANGED <<leg, orphaned>> /\ End(s)
    BY <1>1, <1>2, <2>2, QuietSteps
  <2>3. CASE Claimable(l) /\ leg' = Claimed(l, req[s].executor)
    <3>1. /\ l \in LegIds /\ leg[l].executor = None /\ leg'[l].executor # None
          /\ Others(l)
          /\ End(s) => ~Held(l)'
      BY <1>2, <2>1, <2>3, ClaimMade, WalletAssumption
    <3>2. \/ orphaned' = orphaned
          \/ orphaned' = orphaned \cup {l} /\ End(s)
      BY <1>2, <2>1 DEF ClaimLeg, ClaimLegError, historyVars
    <3>3. \A i \in orphaned : i # l /\ leg'[i] = leg[i] /\ ~Held(i)'
      BY <1>0, <3>1 DEF OrphansKept, Others
    <3> QED BY <3>1, <3>2, <3>3 DEF OrphansKept, Held
  <2> QED BY <1>2, <2>1, <2>2, <2>3 DEF ClaimLeg, ClaimLegError, historyVars
<1>3. ASSUME NEW s \in Slots, AcceptPaid(s) \/ ReleaseLegClaim(s) \/ ReleaseLegClaimError(s)
      PROVE  OrphansKept'
  <2>1. PICK l : l = LegId(s)
    OBVIOUS
  <2>2. /\ l \in LegIds /\ Held(l) /\ leg[l].executor # None /\ Others(l) /\ ~Held(l)'
    BY <1>3, <2>1, ClaimEnds
  <2>3. \/ orphaned' = orphaned
        \/ orphaned' = orphaned \cup {l} /\ UNCHANGED leg
    BY <1>3, <2>1 DEF AcceptPaid, ReleaseLegClaim, ReleaseLegClaimError, historyVars
  <2>4. \A i \in orphaned : i # l /\ leg'[i] = leg[i] /\ ~Held(i)'
    BY <1>0, <2>2 DEF OrphansKept, Others
  <2> QED BY <2>2, <2>3, <2>4 DEF OrphansKept, Held
<1>4. ASSUME NEW s \in Slots, Request(s) \/ Handle(s) PROVE OrphansKept'
  BY <1>1, <1>2, <1>3, <1>4, QuietSteps DEF Handle
<1>5. CASE Crash
  <2>1. /\ UNCHANGED leg /\ \A s \in Slots : req'[s].pc = "idle"
        /\ orphaned' = orphaned \cup
             {LegId(s) : s \in {t \in Slots : req[t].pc \in {"open", "rollback"}}}
    BY <1>5 DEF Crash, IdleReq
  <2>2. \A i : ~Held(i)'
    BY <2>1 DEF Held, Holds
  <2>3. \A s \in Slots : req[s].pc \in {"open", "rollback"} => leg[LegId(s)].executor # None
    <3> SUFFICES ASSUME NEW s \in Slots, req[s].pc \in {"open", "rollback"}
                 PROVE  leg[LegId(s)].executor # None
      OBVIOUS
    <3>1. LegId(s) \in LegIds /\ req[s].executor \in Payees
      BY ReqParts DEF EscrowOK, ReqsOK, ReqShape, LegPcs
    <3> QED BY <3>1, WalletAssumption DEF ClaimExclusive, Holds
  <2> QED BY <2>1, <2>2, <2>3 DEF OrphansKept
<1>6. ASSUME NEW o \in Orders, NEW sh \in Shapes, CreateOrder(o, sh) PROVE OrphansKept'
  <2>1. UNCHANGED <<req, orphaned>> /\ \A i \in LegIds : Has(i) => leg'[i] = leg[i]
    BY <1>6 DEF CreateOrder, LegsOf, historyVars
  <2>2. \A i \in orphaned : Has(i)
    BY <1>0, LegRead DEF OrphansKept, EscrowOK, LegShape, Has
  <2>3. \A i : Held(i)' <=> Held(i)
    BY <2>1 DEF Held, Holds, LegId
  <2> QED BY <1>0, <2>1, <2>2, <2>3 DEF OrphansKept
<1>7. Outside \/ UNCHANGED vars => Quiet
  BY OutsideLeaves DEF Quiet, SameHolds, LegsSame, Held, Holds, LegId, Has
<1> QED BY <1>1, <1>4, <1>5, <1>6, <1>7 DEF Next, Outside

\* Nothing of the contract changes but what the wallet is asked for.
LEMMA LapseStep ==
  ASSUME Terms!Lapse, Board' = Board,
         UNCHANGED <<tx, charges, delivered, cancelled, byUser>>
  PROVE  Terms!ContractNext
BY DEF Terms!ContractNext, Terms!ledgerVars

\* The wallet's variables as the contract sees them.
LEMMA WalletRests ==
  ASSUME UNCHANGED walletVars
  PROVE  UNCHANGED <<Terms!ledgerVars, Asked, tx, charges>> /\ Terms!Lapse
BY DEF walletVars, Terms!ledgerVars, Asked, Terms!Lapse

\* On a request of the orders service the wallet moves money for the reasons the
\* contract gives.
LEMMA MoneyStep ==
  ASSUME EscrowOK, MoneyInv, DeliveryInv, RefundInv,
         NEW c \in OrderCalls, Serve(c) \/ Fail(c), UNCHANGED orderVars
  PROVE  Terms!ContractNext
<1>0. /\ c \in Calls
      /\ WalletOK /\ LegsOK /\ tx \in [Pairs -> TxRow] /\ call[c] \in CallRec
      /\ CallMoney(call[c], charges) /\ Shaped(call[c]) /\ charges \in [Pairs -> Nat]
      /\ Terms!EscrowPairs = Pairs
  BY BoardRead, EscrowAssumption DEF EscrowOK, WalletOK, WalletTypeOK, MoneyInv, CallShape
<1>1. Terms!Lapse
  BY <1>0, AsksKept, AskedLapse
<1>2. Board' = Board /\ UNCHANGED <<delivered, cancelled, byUser>>
  BY DEF orderVars, historyVars, Board, Posting, Phase, Has, Holds, LegId
<1>3. CASE UNCHANGED <<tx, charges>>
  BY <1>1, <1>2, <1>3, LapseStep
<1>4. ASSUME \/ \E p \in Pairs : Terms!ChargeClaim(p) \/ Terms!OpenAsked(p) \/ Terms!PayDone(p)
             \/ \E o \in Orders : Terms!ReturnOff(o)
      PROVE  Terms!ContractNext
  BY <1>0, <1>1, <1>2, <1>4 DEF Terms!Money, Terms!ContractNext
<1>5. call[c].op = "create" => Ask(call[c]) \in Asked /\ Pair(c) \in Pairs
  BY <1>0 DEF Asked, Ask, Shaped, Pair
<1>6. CASE Charge(c) /\ charges' # charges
  <2>0. PICK p \in Pairs : p = Pair(c)
    BY <1>5, <1>6 DEF Charge
  <2>1. call[c].op = "create" /\ charges' = [charges EXCEPT ![p] = @ + 1] /\ UNCHANGED tx
    BY <1>6, <2>0 DEF Charge
  <2>2. {q \in Pairs : charges[q] >= 1}' = {q \in Pairs : charges[q] >= 1} \cup {p}
    BY <1>0, <2>1
  <2>3. \E x \in Asked : <<x[1], x[2]>> = p
    BY <1>5, <2>0, <2>1 DEF Ask, Pair
  <2>4. Terms!ChargeClaim(p)
    BY <2>1, <2>2, <2>3 DEF Terms!ChargeClaim, Terms!ChargePayer
  <2> QED BY <1>4, <2>4
<1>7. CASE Inserted(c) /\ ~Opened(Pair(c)) /\ UNCHANGED charges
  <2> DEFINE p == Pair(c)
             row == [status |-> "held", amount |-> call[c].amount,
                     commission |-> call[c].fee]
  <2>1. /\ call[c].op = "create" /\ call[c].pc = "insert"
        /\ tx' = [tx EXCEPT ![p] = row]
    BY <1>7 DEF Inserted
  <2>2. p \in Pairs /\ p \in {q \in Pairs : charges[q] >= 1}
    BY <1>0, <1>5, <2>1 DEF Pair, CallMoney
  <2>3. row \in Terms!HeldEscrow
    <3>1. call[c].amount \in Nat /\ call[c].fee \in Nat
      BY <1>0, <1>7, <2>1 DEF CallMoney, CallRec, Inserted
    <3> QED BY <3>1 DEF Terms!HeldEscrow
  <2>4. tx'[p] = row /\ tx[p].status = "absent"
    BY <1>0, <1>7, <2>1, <2>2 DEF Opened
  <2>5. Terms!Open(p)
    BY <1>7, <2>1, <2>2, <2>3, <2>4 DEF Terms!Open, Terms!Is
  <2>6. <<p[1], p[2], tx'[p].amount>> \in Asked
    BY <1>5, <2>1, <2>4 DEF Ask, Pair
  <2>7. Terms!OpenAsked(p)
    BY <2>5, <2>6 DEF Terms!OpenAsked
  <2> QED BY <1>4, <2>2, <2>7
<1>8. CASE Paid(c) /\ tx[Pair(c)].status = "held" /\ UNCHANGED charges
  <2> DEFINE p == Pair(c)
  <2>1. /\ p \in Pairs /\ call[c].op = "release" /\ p[1] = call[c].order
        /\ tx' = [tx EXCEPT ![p].status = "released"]
    BY <1>0, <1>8 DEF Paid, Shaped, Pair
  <2>2. LegsOf(p[1]) # {} /\ LegsOf(p[1]) \subseteq delivered
    BY <2>1 DEF DeliveryInv, CallsDelivered, Done
  <2>3. Terms!Posted(p[1]) # {} /\ Terms!Posted(p[1]) \subseteq delivered
    BY <1>0, <2>2, PostedAre
  <2>4. Terms!PayOut(p)
    BY <1>8, <2>1 DEF Terms!PayOut, Terms!Is
  <2>5. Terms!PayDone(p)
    BY <2>3, <2>4 DEF Terms!PayDone
  <2> QED BY <1>4, <2>1, <2>5
<1>9. CASE GivenBack(c) /\ UNCHANGED charges
  <2>1. call[c].op = "refund" /\ call[c].order \in cancelled /\ call[c].order \in Orders
    BY <1>0, <1>9 DEF GivenBack, RefundInv, EscrowOK, HistoryOK
  <2>2. Terms!GiveBack(call[c].order)
    BY <1>0, <1>9 DEF GivenBack, Terms!GiveBack, Terms!Is
  <2> QED BY <1>4, <2>1, <2>2 DEF Terms!ReturnOff
<1>10. CASE Inserted(c) /\ Opened(Pair(c)) /\ UNCHANGED charges
  BY <1>3, <1>10 DEF Inserted
<1>11. CASE Paid(c) /\ tx[Pair(c)].status # "held" /\ UNCHANGED charges
  BY <1>3, <1>11 DEF Paid
<1>12. \/ UNCHANGED <<tx, charges>>
       \/ Charge(c) /\ UNCHANGED tx
       \/ (Inserted(c) \/ Paid(c) \/ GivenBack(c)) /\ UNCHANGED charges
  BY DEF Serve, Lookup, Charge, CommissionPct, Create, Release, RefundOrder, Fail
<1> QED BY <1>3, <1>6, <1>7, <1>8, <1>9, <1>10, <1>11, <1>12

\* The phase a leg comes to.
LEMMA NextPhase ==
  ASSUME NEW i \in LegIds, leg'[i].status # "absent"
  PROVE  /\ leg'[i].executor = None => Phase(i)' = "open"
         /\ leg'[i].executor # None /\ Held(i)' => Phase(i)' = "claimed"
         /\ leg'[i].executor # None /\ ~Held(i)' /\ i \in orphaned' => Phase(i)' = "cutoff"
         /\ leg'[i].executor # None /\ ~Held(i)' /\ i \notin orphaned' => Phase(i)' = "settled"
<1>1. Has(i)'
  BY DEF Has
<1> QED BY <1>1 DEF Phase, Held

\* The legs a step on leg l leaves alone.
LEMMA OthersSame ==
  ASSUME NEW l, Others(l), orphaned' = orphaned \/ orphaned' = orphaned \cup {l}
  PROVE  \A i \in LegIds : i # l => SameLeg(i)
BY DEF Others, SameLeg, Has

\* Taking a leg, told or not.
LEMMA TakeStep ==
  ASSUME EscrowOK, ClaimExclusive, NEW s \in Slots, ClaimLeg(s) \/ ClaimLegError(s),
         ~(UNCHANGED <<leg, orphaned>> /\ End(s))
  PROVE  Terms!ContractNext
<1>0. /\ LegsOK /\ WalletOK /\ Terms!LegIds = LegIds
  BY BoardRead DEF EscrowOK
<1>1. PICK l : l = LegId(s)
  OBVIOUS
<1>2. Claimable(l) /\ leg' = Claimed(l, req[s].executor)
  BY <1>1 DEF ClaimLeg, ClaimLegError, historyVars
<1>3. PICK e \in Payees : e = req[s].executor
  BY <1>1, <1>2, ClaimMade
<1>4. /\ l \in LegIds /\ l[1] = req[s].order /\ Has(l) /\ Has(l)'
      /\ leg[l].executor = None /\ leg'[l].executor = e /\ leg'[l].price = leg[l].price
      /\ Others(l)
      /\ Step(s, "open") => Held(l)'
      /\ End(s) => ~Held(l)'
  BY <1>1, <1>2, <1>3, ClaimMade
<1>5. Board[l].phase = "open" /\ Board[l].price = leg[l].price
  BY <1>0, <1>4, Phases
<1>6. e # None /\ leg'[l].status # "absent"
  BY <1>4, WalletAssumption DEF Has
<1>7. CASE ClaimLeg(s)
  <2>1. /\ Step(s, "open") /\ UNCHANGED historyVars
        /\ Arrive(CallOf(s), "create", req[s].order, e, leg[l].price)
    BY <1>1, <1>2, <1>3, <1>7 DEF ClaimLeg, EscrowAmount
  <2>2. Phase(l)' = "claimed"
    BY <1>4, <1>6, <2>1, NextPhase
  <2>3. Terms!Becomes(l, "claimed", e)
    BY <1>4, <2>1, <2>2, OthersSame, BoardBecomes DEF historyVars
  <2>4. CallOf(s) \in OrderCalls
    BY <1>3, CallOfOK
  <2>5. Asked' = Asked \cup {<<l[1], e, Board[l].price>>}
    BY <1>0, <1>4, <1>5, <2>1, <2>4, ArriveAsks
  <2>6. UNCHANGED <<Terms!ledgerVars, delivered, cancelled, byUser>>
    BY <2>1 DEF Arrive, historyVars, Terms!ledgerVars
  <2>7. Terms!Take(l, e)
    BY <1>5, <2>3, <2>5, <2>6 DEF Terms!Take
  <2> QED BY <1>0, <1>4, <2>7 DEF Terms!ContractNext
<1>8. CASE ClaimLegError(s)
  <2>1. /\ End(s) /\ orphaned' = orphaned \cup {l}
        /\ UNCHANGED <<delivered, cancelled, byUser, walletVars>>
    BY <1>1, <1>8 DEF ClaimLegError
  <2>2. Phase(l)' = "cutoff"
    BY <1>4, <1>6, <2>1, NextPhase
  <2>3. Terms!Becomes(l, "cutoff", e)
    BY <1>4, <2>1, <2>2, OthersSame, BoardBecomes
  <2>4. Terms!TakeUnheard(l, e)
    BY <1>5, <2>1, <2>3, WalletRests DEF Terms!TakeUnheard
  <2> QED BY <1>0, <1>4, <2>4 DEF Terms!ContractNext
<1> QED BY <1>7, <1>8

\* The end of a claim: settled over the escrow its answer vouches for, given up,
\* or cut off.
LEMMA EndStep ==
  ASSUME EscrowOK, BackingInv, OrphansKept, NEW s \in Slots,
         AcceptPaid(s) \/ ReleaseLegClaim(s) \/ ReleaseLegClaimError(s)
  PROVE  Terms!ContractNext
<1>0. /\ LegsOK /\ WalletOK /\ Terms!LegIds = LegIds /\ leg \in [LegIds -> LegRow]
      /\ ClaimExclusive /\ CallLinks /\ OkMeansRow
  BY BoardRead DEF EscrowOK, BackingInv, LegsOK
<1>1. PICK l : l = LegId(s)
  OBVIOUS
<1>2. PICK e \in Payees : e = req[s].executor
  BY <1>0, <1>1, ClaimEnds
<1>3. /\ l \in LegIds /\ l[1] = req[s].order /\ Has(l) /\ Held(l)
      /\ leg[l].executor = e /\ e # None /\ Others(l) /\ ~Held(l)'
  BY <1>0, <1>1, <1>2, ClaimEnds
<1>4. Board[l].phase = "claimed" /\ Board[l].executor = e /\ Board[l].price = leg[l].price
  BY <1>0, <1>3, Phases
<1>5. CASE AcceptPaid(s)
  <2>1. /\ req[s].pc = "open" /\ call[CallOf(s)].result = "ok"
        /\ Receive(CallOf(s)) /\ UNCHANGED <<leg, historyVars>>
    BY <1>5 DEF AcceptPaid, Answered
  <2>2. CallOf(s) \in Calls
    BY <1>2, CallOfOK
  <2>3. Opened(<<l[1], e>>)
    <3>1. Opened(Pair(CallOf(s)))
      BY <1>0, <2>1, <2>2 DEF OkMeansRow, CallLinks, Linked
    <3>2. Pair(CallOf(s)) = <<l[1], e>>
      BY <1>0, <1>2, <1>3, <2>1 DEF CallLinks, Linked, Pair
    <3> QED BY <3>1, <3>2
  <2>4. Phase(l)' = "settled"
    BY <1>3, <2>1, NextPhase DEF OrphansKept, Has, historyVars
  <2>5. Terms!Becomes(l, "settled", e)
    BY <1>3, <2>1, <2>4, OthersSame, BoardBecomes DEF historyVars
  <2>6. Terms!Lapse /\ UNCHANGED <<Terms!ledgerVars, delivered, cancelled, byUser>>
    BY <1>0, <2>1, <2>2, AsksKept, AskedLapse DEF Receive, historyVars, Terms!ledgerVars
  <2>7. Terms!Settle(l)
    BY <1>4, <2>3, <2>5, <2>6 DEF Terms!Settle, Terms!Is, Opened
  <2> QED BY <1>0, <1>3, <2>7 DEF Terms!ContractNext
<1>6. CASE ReleaseLegClaim(s)
  <2>1. leg' = ReleasedClaim(l) /\ UNCHANGED <<historyVars, walletVars>>
    BY <1>1, <1>6 DEF ReleaseLegClaim
  <2>2. /\ leg'[l].executor = None /\ leg'[l].status # "absent"
        /\ leg'[l].price = leg[l].price
    BY <1>0, <1>3, <2>1 DEF ReleasedClaim, LegRow
  <2>3. Phase(l)' = "open"
    BY <1>3, <2>2, NextPhase
  <2>4. Terms!Becomes(l, "open", None)
    BY <1>3, <2>1, <2>2, <2>3, OthersSame, BoardBecomes DEF historyVars
  <2>5. Terms!GiveUp(l)
    BY <1>4, <2>1, <2>4, WalletRests DEF Terms!GiveUp, historyVars
  <2> QED BY <1>0, <1>3, <2>5 DEF Terms!ContractNext
<1>7. CASE ReleaseLegClaimError(s)
  <2>1. /\ orphaned' = orphaned \cup {l} /\ UNCHANGED leg
        /\ UNCHANGED <<delivered, cancelled, byUser, walletVars>>
    BY <1>1, <1>7 DEF ReleaseLegClaimError
  <2>2. Phase(l)' = "cutoff"
    BY <1>3, <2>1, NextPhase DEF Has
  <2>3. \A i \in LegIds : Posting(i)' =
          IF i = l THEN Terms!In(i, "cutoff", Board[i].executor) ELSE Posting(i)
    BY <1>3, <1>4, <2>1, <2>2, OthersSame, SamePosting DEF Posting, Terms!In
  <2>4. Board' = [i \in LegIds |-> IF i \in {l} THEN Terms!In(i, "cutoff", Board[i].executor)
                                   ELSE Board[i]]
    BY <2>3, BoardRead DEF Board
  <2>5. Terms!CutOff({l})
    BY <1>0, <2>1, <2>4, WalletRests DEF Terms!CutOff
  <2>6. {l} \in SUBSET Terms!Claims
    BY <1>0, <1>3, <1>4 DEF Terms!Claims
  <2> QED BY <2>5, <2>6 DEF Terms!ContractNext
<1> QED BY <1>5, <1>6, <1>7

\* A stop of the process cuts every claim off that an accept still holds.
LEMMA CrashStep ==
  ASSUME EscrowOK, ClaimExclusive, OrphansKept, Crash
  PROVE  Terms!ContractNext
<1>0. LegsOK /\ WalletOK /\ ReqsOK /\ Terms!LegIds = LegIds
  BY BoardRead DEF EscrowOK
<1>1. /\ UNCHANGED <<leg, delivered, cancelled, byUser>> /\ CallerStops(OrderCalls)
      /\ \A s \in Slots : req'[s].pc = "idle"
      /\ orphaned' = orphaned \cup
           {LegId(s) : s \in {t \in Slots : req[t].pc \in {"open", "rollback"}}}
  BY DEF Crash, IdleReq
<1>2. \A i \in LegIds : ~Held(i)' /\ (i \in orphaned' <=> i \in orphaned \/ Held(i))
  BY <1>1 DEF Held, Holds
<1>3. \A i \in LegIds : Held(i) => leg[i].executor # None
  BY <1>0, WalletAssumption DEF Held, Holds, ClaimExclusive, ReqsOK, ReqShape
<1>4. ASSUME NEW i \in LegIds
      PROVE  Posting(i)' = IF i \in Terms!Claims
                           THEN Terms!In(i, "cutoff", Board[i].executor) ELSE Posting(i)
  <2>1. i \in Terms!Claims <=> Phase(i) = "claimed"
    BY <1>0, Phases DEF Terms!Claims
  <2>2. CASE Held(i)
    <3>1. leg[i].executor # None /\ Has(i)
      BY <1>0, <1>3, <2>2, LegRead DEF LegShape, Has
    <3>2. Phase(i) = "claimed"
      BY <1>0, <2>2, <3>1, Phases
    <3>3. Phase(i)' = "cutoff"
      BY <1>1, <1>2, <2>2, <3>1, NextPhase DEF Has
    <3> QED BY <1>1, <2>1, <3>2, <3>3, BoardRead DEF Posting, Terms!In
  <2>3. CASE ~Held(i)
    <3>1. SameLeg(i)
      BY <1>1, <1>2, <2>3 DEF SameLeg, Has
    <3>2. Phase(i) # "claimed"
      BY <2>3 DEF Phase, Held
    <3> QED BY <2>1, <3>1, <3>2, SamePosting
  <2> QED BY <2>2, <2>3
<1>5. Board' = [i \in LegIds |-> IF i \in Terms!Claims
                                 THEN Terms!In(i, "cutoff", Board[i].executor)
                                 ELSE Board[i]]
  BY <1>4, BoardRead DEF Board
<1>6. Terms!Lapse /\ UNCHANGED Terms!ledgerVars
  BY <1>0, <1>1, StopLapses DEF CallerStops, Terms!ledgerVars
<1>7. Terms!CutOff(Terms!Claims)
  BY <1>0, <1>1, <1>5, <1>6 DEF Terms!CutOff
<1> QED BY <1>7 DEF Terms!ContractNext

\* An order posted with all its legs.
LEMMA PostStep ==
  ASSUME EscrowOK, NEW o \in Orders, NEW sh \in Shapes, CreateOrder(o, sh)
  PROVE  Terms!ContractNext
<1>0. LegsOK /\ Terms!LegIds = LegIds
  BY BoardRead DEF EscrowOK
<1>1. /\ LegsOf(o) = {} /\ UNCHANGED <<req, historyVars, walletVars>>
      /\ leg' = [i \in LegIds |->
                   IF i[1] = o /\ i[2] \in DOMAIN sh
                   THEN [status |-> "published", executor |-> None, price |-> sh[i[2]]]
                   ELSE leg[i]]
  BY DEF CreateOrder
<1>2. \A i : Held(i)' <=> Held(i)
  BY <1>1 DEF Held, Holds, LegId
<1>3. ASSUME NEW i \in LegIds
      PROVE  Posting(i)' = IF i[1] = o /\ i[2] \in DOMAIN sh
                           THEN [phase |-> "open", executor |-> None, price |-> sh[i[2]]]
                           ELSE Posting(i)
  <2>1. CASE i[1] = o /\ i[2] \in DOMAIN sh
    <3>1. leg'[i] = [status |-> "published", executor |-> None, price |-> sh[i[2]]]
      BY <1>1, <2>1
    <3>2. Phase(i)' = "open"
      BY <3>1, NextPhase
    <3> QED BY <2>1, <3>1, <3>2 DEF Posting
  <2>2. CASE ~(i[1] = o /\ i[2] \in DOMAIN sh)
    <3>1. SameLeg(i)
      BY <1>1, <1>2, <2>2 DEF SameLeg, Has, historyVars
    <3> QED BY <2>2, <3>1, SamePosting
  <2> QED BY <2>1, <2>2
<1>4. Board' = [i \in LegIds |->
                  IF i[1] = o /\ i[2] \in DOMAIN sh
                  THEN [phase |-> "open", executor |-> None, price |-> sh[i[2]]]
                  ELSE Board[i]]
  BY <1>3, BoardRead DEF Board
<1>5. Terms!Posted(o) = {}
  BY <1>0, <1>1, PostedAre
<1>6. Terms!Post(o, sh)
  BY <1>0, <1>1, <1>4, <1>5, WalletRests DEF Terms!Post, historyVars
<1> QED BY <1>6 DEF Terms!ContractNext

\* The other statements of the handlers: a delivery, a cancellation, or nothing
\* but the end of a request to the wallet.
LEMMA QuietStep ==
  ASSUME EscrowOK, NEW s \in Slots, Quiet,
         \/ Request(s)
         \/ (ClaimLeg(s) \/ ClaimLegError(s)) /\ UNCHANGED <<leg, orphaned>> /\ End(s)
         \/ AcceptUnpaid(s) \/ UpdateLegStatus(s) \/ Cancel(s) \/ CancelEnd(s)
         \/ CompleteAllLegs(s) \/ (\E p \in Payees : PayNext(s, p)) \/ PayEnd(s)
         \/ ConfirmEnd(s) \/ WriteError(s)
  PROVE  Terms!ContractNext
<1>0. /\ LegsOK /\ WalletOK /\ ReqsOK /\ Board' = Board /\ Terms!LegIds = LegIds
      /\ req[s].pc \in {"open", "refund", "paying"} => CallOf(s) \in Calls
  BY BoardRead, QuietBoard, CallOfOK DEF EscrowOK, ReqsOK, ReqShape
<1>1. CASE UNCHANGED <<walletVars, delivered, cancelled, byUser>>
  BY <1>0, <1>1, WalletRests, LapseStep
<1>2. CASE AcceptUnpaid(s) \/ CancelEnd(s) \/ PayEnd(s)
  <2>1. CallOf(s) \in Calls /\ (Receive(CallOf(s)) \/ Hangup(CallOf(s)))
    BY <1>0, <1>2 DEF AcceptUnpaid, CancelEnd, PayEnd, Answered, Unanswered
  <2>2. Terms!Lapse
    BY <1>0, <2>1, AsksKept, AskedLapse
  <2>3. UNCHANGED <<tx, charges, delivered, cancelled, byUser>>
    BY <1>2, <2>1 DEF AcceptUnpaid, CancelEnd, PayEnd, Receive, Hangup, historyVars
  <2> QED BY <1>0, <2>2, <2>3, LapseStep
<1>3. CASE UpdateLegStatus(s)
  <2>1. PICK l : l = LegId(s)
    OBVIOUS
  <2>2. /\ l \in LegIds /\ Has(l) /\ UNCHANGED <<cancelled, byUser, walletVars>>
        /\ delivered' = delivered \/ delivered' = delivered \cup {l}
    BY <1>0, <1>3, <2>1, ReqParts DEF UpdateLegStatus, LegPcs
  <2>3. Board[l].phase # "unposted"
    BY <1>0, <2>2, Phases
  <2>4. Terms!Deliver(l) \/ UNCHANGED delivered
    BY <1>0, <2>2, <2>3, WalletRests DEF Terms!Deliver
  <2>5. Terms!Deliver(l) => Terms!ContractNext
    BY <1>0, <2>2 DEF Terms!ContractNext
  <2> QED BY <1>1, <2>2, <2>4, <2>5
<1>4. CASE Cancel(s)
  <2>1. PICK o \in Orders : o = req[s].order
    BY <1>0, <1>4, ReqParts DEF Cancel
  <2>2. cancelled' = cancelled \cup {o} /\ UNCHANGED <<delivered, byUser>>
    BY <1>4, <2>1 DEF Cancel
  <2>3. UNCHANGED <<Terms!ledgerVars, Asked>>
    <3>1. CASE UNCHANGED walletVars
      BY <3>1, WalletRests
    <3>2. CASE Arrive(CallOf(s), "refund", req[s].order, None, 0)
      <4>1. CallOf(s) \in OrderCalls
        BY <1>0, <1>4, CallOfOK DEF Cancel, ReqsOK, ReqShape
      <4>2. Asked' = Asked
        BY <1>0, <3>2, <4>1, ArriveAsks
      <4> QED BY <3>2, <4>2 DEF Arrive, Terms!ledgerVars
    <3> QED BY <1>4, <3>1, <3>2 DEF Cancel
  <2>4. Terms!CallOff(o)
    BY <1>0, <2>2, <2>3 DEF Terms!CallOff
  <2> QED BY <2>4 DEF Terms!ContractNext
<1>5. ASSUME NEW p \in Payees, PayNext(s, p) PROVE Terms!ContractNext
  <2>1. <<s, p>> \in OrderCalls /\ Arrive(<<s, p>>, "release", req[s].order, p, 0)
        /\ UNCHANGED historyVars
    BY <1>5 DEF PayNext, OrderCalls
  <2>2. Terms!Lapse
    BY <1>0, <2>1, ArriveAsks DEF Terms!Lapse
  <2> QED BY <1>0, <2>1, <2>2, LapseStep DEF Arrive, historyVars
<1>6. CASE \/ Request(s)
           \/ (ClaimLeg(s) \/ ClaimLegError(s)) /\ UNCHANGED <<leg, orphaned>> /\ End(s)
           \/ CompleteAllLegs(s) \/ ConfirmEnd(s) \/ WriteError(s)
  <2>1. CASE ClaimLeg(s) /\ End(s)
    <3>1. Claimable(LegId(s)) => FALSE
      <4> SUFFICES ASSUME Claimable(LegId(s)) PROVE FALSE
        OBVIOUS
      <4>1. Step(s, "open")
        BY <2>1 DEF ClaimLeg
      <4>2. req \in [Slots -> ReqRec]
        BY <1>0 DEF ReqsOK
      <4>3. req'[s].pc = "open" /\ req'[s].pc = "idle"
        BY <2>1, <4>1, <4>2 DEF Step, End, IdleReq, ReqRec
      <4> QED BY <4>3
    <3> QED BY <1>1, <2>1, <3>1 DEF ClaimLeg, historyVars
  <2>2. CASE \/ Request(s)
             \/ ClaimLegError(s) /\ UNCHANGED <<leg, orphaned>>
             \/ CompleteAllLegs(s) \/ ConfirmEnd(s) \/ WriteError(s)
    BY <1>1, <2>2 DEF Request, AcceptLoad, StatusLoad, CancelLoad, ConfirmLoad, ClaimLegError,
                CompleteAllLegs, ConfirmEnd, WriteError, historyVars
  <2> QED BY <1>6, <2>1, <2>2
<1> QED BY <1>2, <1>3, <1>4, <1>5, <1>6

\* No user asks for a refund: that endpoint is the orders service's.
UsersAsk == \A c \in UserCalls : call[c].op # "refund"

\* One step of the system.
LEMMA UsersAskNext ==
  ASSUME EscrowOK, UsersAsk, [Next]_vars
  PROVE  UsersAsk'
BY CallsFrom, EscrowAssumption DEF UsersAsk, CameFrom

\* The wallet at work on one request leaves the others alone.
LEMMA ServedOnly ==
  ASSUME WalletOK, NEW c \in Calls, Serve(c) \/ Fail(c)
  PROVE  \A d \in Calls : d # c => call'[d] = call[d]
<1>1. \E k : call' = [call EXCEPT ![c] = k]
  BY DEF Serve, Lookup, Charge, CommissionPct, Create, Release, RefundOrder, Fail, Reply, Goto
<1> QED BY <1>1 DEF WalletOK, WalletTypeOK

\* On a user's own request the wallet moves money by the ledger's rules, and the
\* move is on record as the user's.
LEMMA OwnStep ==
  ASSUME EscrowOK, MoneyInv, UsersAsk, NEW c \in UserCalls, WalletServes(c)
  PROVE  Terms!ContractNext
<1>0. /\ c \in Calls /\ c \notin OrderCalls /\ call[c].op # "refund"
      /\ WalletOK /\ tx \in [Pairs -> TxRow] /\ call[c] \in CallRec
      /\ CallMoney(call[c], charges) /\ Shaped(call[c]) /\ charges \in [Pairs -> Nat]
      /\ Terms!EscrowPairs = Pairs
  BY BoardRead, EscrowAssumption
     DEF EscrowOK, WalletOK, WalletTypeOK, MoneyInv, CallShape, UsersAsk
<1>1. /\ Serve(c) \/ Fail(c)
      /\ byUser' = byUser \cup MovesNow
      /\ UNCHANGED <<leg, req, orphaned, delivered, cancelled>>
  BY DEF WalletServes
<1>2. Board' = Board
  BY <1>1 DEF Board, Posting, Phase, Has, Holds, LegId
<1>3. Asked' = Asked
  <2>1. \A d \in OrderCalls : call'[d] = call[d]
    BY <1>0, <1>1, ServedOnly, EscrowAssumption
  <2> QED BY <2>1 DEF Asked
<1>4. CASE UNCHANGED <<tx, charges>>
  <2>1. byUser' = byUser
    BY <1>1, <1>4 DEF MovesNow
  <2> QED BY <1>1, <1>2, <1>3, <1>4, <2>1, LapseStep DEF Terms!Lapse
<1>5. ASSUME NEW p \in Pairs,
             \/ Terms!ChargePayer(p) /\ byUser' = byUser \cup {<<"charged", p>>}
             \/ Terms!Open(p) /\ byUser' = byUser \cup {<<"held", p>>}
             \/ Terms!PayOut(p) /\ byUser' = byUser \cup {<<"released", p>>}
      PROVE  Terms!ContractNext
  <2>1. Terms!OwnMoney
    BY <1>0, <1>1, <1>2, <1>3, <1>5 DEF Terms!OwnMoney
  <2> QED BY <2>1 DEF Terms!ContractNext
<1>6. call[c].op \in {"create", "release"} => Pair(c) \in Pairs
  BY <1>0 DEF Shaped, Pair
<1>7. CASE Charge(c) /\ charges' # charges
  <2>0. PICK p \in Pairs : p = Pair(c)
    BY <1>6, <1>7 DEF Charge
  <2>1. charges' = [charges EXCEPT ![p] = @ + 1] /\ UNCHANGED tx
    BY <1>7, <2>0 DEF Charge
  <2>2. {q \in Pairs : charges[q] >= 1}' = {q \in Pairs : charges[q] >= 1} \cup {p}
    BY <1>0, <2>1
  <2>3. {q \in Pairs : charges'[q] # charges[q]} = {p}
    BY <1>0, <2>1
  <2>4. MovesNow = {<<"charged", p>>}
    BY <2>1, <2>3 DEF MovesNow
  <2>5. Terms!ChargePayer(p)
    BY <2>1, <2>2 DEF Terms!ChargePayer
  <2> QED BY <1>1, <1>5, <2>4, <2>5
<1>8. CASE Inserted(c) /\ ~Opened(Pair(c)) /\ UNCHANGED charges
  <2>0. PICK p \in Pairs : p = Pair(c)
    BY <1>6, <1>8 DEF Inserted
  <2> DEFINE row == [status |-> "held", amount |-> call[c].amount,
                     commission |-> call[c].fee]
  <2>1. /\ call[c].op = "create" /\ call[c].pc = "insert" /\ call[c].fee >= 0
        /\ tx' = [tx EXCEPT ![p] = row] /\ tx[p].status = "absent"
    BY <1>8, <2>0 DEF Inserted, Opened
  <2>2. p \in {q \in Pairs : charges[q] >= 1}
    BY <1>0, <2>0, <2>1 DEF Pair, CallMoney
  <2>3. row \in Terms!HeldEscrow /\ row.status = "held"
    <3>1. call[c].amount \in Nat /\ call[c].fee \in Nat
      BY <1>0, <2>1 DEF CallMoney, CallRec
    <3> QED BY <3>1 DEF Terms!HeldEscrow
  <2> HIDE DEF row
  <2>4. tx'[p] = row /\ \A q \in Pairs : q # p => tx'[q] = tx[q]
    BY <1>0, <2>1
  <2>5. MovesNow = {<<"held", p>>}
    <3>1. {q \in Pairs : tx'[q] # tx[q]} = {p}
      BY <2>1, <2>3, <2>4
    <3> QED BY <1>8, <2>3, <2>4, <3>1 DEF MovesNow
  <2>6. Terms!Open(p)
    BY <1>8, <2>1, <2>2, <2>3, <2>4 DEF Terms!Open, Terms!Is
  <2> QED BY <1>1, <1>5, <2>5, <2>6
<1>9. CASE Paid(c) /\ tx[Pair(c)].status = "held" /\ UNCHANGED charges
  <2>0. PICK p \in Pairs : p = Pair(c)
    BY <1>6, <1>9 DEF Paid
  <2>1. tx' = [tx EXCEPT ![p].status = "released"] /\ tx[p].status = "held"
    BY <1>9, <2>0 DEF Paid
  <2>2. tx'[p].status = "released" /\ \A q \in Pairs : q # p => tx'[q] = tx[q]
    BY <1>0, <2>1 DEF TxRow
  <2>3. MovesNow = {<<"released", p>>}
    <3>1. {q \in Pairs : tx'[q] # tx[q]} = {p}
      BY <2>1, <2>2
    <3> QED BY <1>9, <2>2, <3>1 DEF MovesNow
  <2>4. Terms!PayOut(p)
    BY <1>9, <2>1 DEF Terms!PayOut, Terms!Is
  <2> QED BY <1>1, <1>5, <2>3, <2>4
<1>10. CASE Inserted(c) /\ Opened(Pair(c)) /\ UNCHANGED charges
  BY <1>4, <1>10 DEF Inserted
<1>11. CASE Paid(c) /\ tx[Pair(c)].status # "held" /\ UNCHANGED charges
  BY <1>4, <1>11 DEF Paid
<1>12. \/ UNCHANGED <<tx, charges>>
       \/ Charge(c) /\ UNCHANGED tx
       \/ (Inserted(c) \/ Paid(c)) /\ UNCHANGED charges
  BY <1>0, <1>1
     DEF Serve, Lookup, Charge, CommissionPct, Create, Release, RefundOrder, Fail, GivenBack
<1> QED BY <1>4, <1>7, <1>8, <1>9, <1>10, <1>11, <1>12

\* The inductive invariant: what is proved above of claims, of the money behind
\* them and of the reasons for moving it, and the claims that were cut off.
ContractInv ==
  /\ EscrowOK /\ MoneyInv /\ BackingInv /\ DeliveryInv /\ RefundInv
  /\ OrphansKept /\ UsersAsk

\* It holds at the start.
LEMMA ContractInvInit == Init => ContractInv
<1> SUFFICES ASSUME Init PROVE ContractInv
  OBVIOUS
<1>1. EscrowOK /\ MoneyInv
  BY EscrowInit, MoneyInit DEF Init
<1>2. BackingInv /\ RefundInv
  BY DEF Init, WalletInit, NoLeg, NoRow, IdleReq, IdleCall, BackingInv, ClaimExclusive,
         Holds, CallLinks, OkMeansRow, EscrowBehindClaim, RefundInv, RefundOnlyAfterCancel
<1>3. DeliveryInv
  BY EscrowAssumption
     DEF Init, WalletInit, NoLeg, NoRow, IdleReq, IdleCall, DeliveryInv, LegsDelivered,
         ReqsDelivered, CallsDelivered, RowsDelivered
<1>4. OrphansKept /\ UsersAsk
  BY EscrowAssumption DEF Init, WalletInit, IdleCall, OrphansKept, UsersAsk
<1> QED BY <1>1, <1>2, <1>3, <1>4 DEF ContractInv

\* One step of the system keeps each of its parts.
LEMMA ContractInvNext ==
  ASSUME ContractInv, [Next]_vars
  PROVE  ContractInv'
<1>1. EscrowOK' /\ MoneyInv'
  BY EscrowNext, WalletSteps, MoneyNext DEF ContractInv, EscrowOK
<1>2. BackingInv' /\ DeliveryInv' /\ RefundInv'
  BY BackingNext, DeliveryNext, RefundNext DEF ContractInv
<1>3. OrphansKept' /\ UsersAsk'
  BY OrphansNext, UsersAskNext DEF ContractInv, BackingInv
<1> QED BY <1>1, <1>2, <1>3 DEF ContractInv

\* Every step of the system is a step of the contract.
LEMMA ContractStep ==
  ASSUME ContractInv, [Next]_vars
  PROVE  Terms!ContractNext
<1>0. /\ EscrowOK /\ WalletOK /\ MoneyInv /\ BackingInv /\ ClaimExclusive
      /\ DeliveryInv /\ RefundInv /\ OrphansKept /\ UsersAsk
  BY DEF ContractInv, BackingInv, EscrowOK
<1>1. ASSUME NEW s \in Slots, Request(s) \/ Handle(s) PROVE Terms!ContractNext
  <2>1. CASE AcceptPaid(s) \/ ReleaseLegClaim(s) \/ ReleaseLegClaimError(s)
    BY <1>0, <2>1, EndStep
  <2>2. CASE (ClaimLeg(s) \/ ClaimLegError(s)) /\ ~(UNCHANGED <<leg, orphaned>> /\ End(s))
    BY <1>0, <2>2, TakeStep
  <2>3. CASE \/ Request(s)
             \/ (ClaimLeg(s) \/ ClaimLegError(s)) /\ UNCHANGED <<leg, orphaned>> /\ End(s)
             \/ AcceptUnpaid(s) \/ UpdateLegStatus(s) \/ Cancel(s) \/ CancelEnd(s)
             \/ CompleteAllLegs(s) \/ (\E p \in Payees : PayNext(s, p)) \/ PayEnd(s)
             \/ ConfirmEnd(s) \/ WriteError(s)
    BY <1>0, <2>3, QuietSteps, QuietStep
  <2> QED BY <1>1, <2>1, <2>2, <2>3 DEF Handle
<1>2. ASSUME NEW c \in Calls, WalletServes(c) PROVE Terms!ContractNext
  <2>1. CASE c \in UserCalls
    BY <1>0, <1>2, <2>1, OwnStep
  <2>2. CASE c \notin UserCalls
    <3>1. c \in OrderCalls /\ (Serve(c) \/ Fail(c)) /\ UNCHANGED orderVars
      BY <1>2, <2>2, EscrowAssumption DEF WalletServes, orderVars, historyVars
    <3> QED BY <1>0, <3>1, MoneyStep
  <2> QED BY <2>1, <2>2
<1>3. ASSUME UNCHANGED <<tx, charges, orderVars>>, Terms!Lapse
      PROVE  Terms!ContractNext
  <2>1. Board' = Board /\ UNCHANGED <<delivered, cancelled, byUser>>
    BY <1>3 DEF orderVars, historyVars, Board, Posting, Phase, Has, Holds, LegId
  <2> QED BY <1>3, <2>1, LapseStep
<1>4. ASSUME NEW x \in Pcts, SetCommissionPct(x), UNCHANGED orderVars
      PROVE  Terms!ContractNext
  BY <1>3, <1>4 DEF SetCommissionPct, Asked, Terms!Lapse
<1>5. ASSUME NEW c \in UserCalls, UserCall(c) PROVE Terms!ContractNext
  <2>1. /\ c \notin OrderCalls /\ UNCHANGED <<tx, charges, orderVars>>
        /\ \A d \in Calls : d # c => call'[d] = call[d]
    BY <1>0, <1>5, UserSends DEF WalletOK, WalletTypeOK
  <2>2. \A d \in OrderCalls : call'[d] = call[d]
    BY <2>1, EscrowAssumption
  <2> QED BY <1>3, <2>1, <2>2 DEF Asked, Terms!Lapse
<1>6. CASE UNCHANGED vars
  BY <1>3, <1>6, WalletRests DEF vars, walletVars
<1> QED BY <1>0, <1>1, <1>2, <1>4, <1>5, <1>6, CrashStep, PostStep DEF Next, WalletStep

\* Orders and wallet implement the contract, for every set of orders, executors
\* and requests, under every overlap, timeout, failure and stop, and whatever
\* users send the wallet themselves: see KeepsContract.
THEOREM OrdersKeepContract == Spec => KeepsContract
<1>1. Init => Terms!ContractInit
  <2> SUFFICES ASSUME Init PROVE Terms!ContractInit
    OBVIOUS
  <2>1. Terms!LedgerInit
    <3>1. {p \in Pairs : charges[p] >= 1} = {}
      BY DEF Init, WalletInit
    <3> QED BY <3>1 DEF Init, WalletInit, NoRow, Pairs, Terms!LedgerInit, Terms!EscrowPairs
  <2>2. \A i \in LegIds : Posting(i) = Terms!Unposted
    BY DEF Init, NoLeg, Posting, Phase, Has, Terms!Unposted
  <2>3. Board = [i \in Terms!LegIds |-> Terms!Unposted]
    BY <2>2, BoardRead
  <2>4. Asked = {}
    BY EscrowAssumption DEF Init, WalletInit, IdleCall, Asked
  <2> QED BY <2>1, <2>3, <2>4 DEF Init, Terms!ContractInit
<1>2. ContractInv /\ [Next]_vars => [Terms!ContractNext]_(Terms!contractVars)
  BY ContractStep
<1> QED BY <1>1, <1>2, ContractInvInit, ContractInvNext, PTL
        DEF Spec, KeepsContract, Terms!ContractSpec

-----------------------------------------------------------------------------
(* What the contract shows of the system.                                  *)

\* A posted leg stays posted, at its price, in every step of the contract.
LEMMA PostingsStay ==
  ASSUME Terms!ContractNext, NEW i \in LegIds, Board[i].phase # "unposted"
  PROVE  Board'[i].phase # "unposted" /\ Board'[i].price = Board[i].price
<1>0. Terms!LegIds = LegIds /\ DOMAIN Board = LegIds /\ Board = [j \in LegIds |-> Board[j]]
  BY BoardRead
<1>1. ASSUME NEW j \in LegIds, NEW phase, NEW e, phase # "unposted", Terms!Becomes(j, phase, e)
      PROVE  Board'[i].phase # "unposted" /\ Board'[i].price = Board[i].price
  BY <1>0, <1>1 DEF Terms!Becomes, Terms!In
<1>2. ASSUME NEW o \in Orders, NEW sh \in Shapes, Terms!Post(o, sh)
      PROVE  Board'[i] = Board[i]
  BY <1>0, <1>2 DEF Terms!Post, Terms!Posted
<1>3. ASSUME NEW S, Terms!CutOff(S)
      PROVE  Board'[i].phase # "unposted" /\ Board'[i].price = Board[i].price
  BY <1>0, <1>3 DEF Terms!CutOff, Terms!In
<1>4. ASSUME NEW j \in LegIds, NEW e \in Payees,
             Terms!Take(j, e) \/ Terms!TakeUnheard(j, e)
      PROVE  Board'[i].phase # "unposted" /\ Board'[i].price = Board[i].price
  BY <1>1, <1>4 DEF Terms!Take, Terms!TakeUnheard
<1>5. ASSUME NEW j \in LegIds, Terms!Settle(j) \/ Terms!GiveUp(j)
      PROVE  Board'[i].phase # "unposted" /\ Board'[i].price = Board[i].price
  BY <1>1, <1>5 DEF Terms!Settle, Terms!GiveUp
<1>6. \/ Board' = Board
      \/ \E o \in Orders, sh \in Shapes : Terms!Post(o, sh)
      \/ \E j \in LegIds, e \in Payees : Terms!Take(j, e) \/ Terms!TakeUnheard(j, e)
      \/ \E j \in LegIds : Terms!Settle(j) \/ Terms!GiveUp(j)
      \/ \E S : Terms!CutOff(S)
  BY <1>0 DEF Terms!ContractNext, Terms!Deliver, Terms!CallOff, Terms!Money, Terms!OwnMoney
<1> QED BY <1>2, <1>3, <1>4, <1>5, <1>6

\* What the wallet is asked for is the price of a leg of the order.
AskedAgreed ==
  \A x \in Asked : \E i \in LegIds :
    i[1] = x[1] /\ Board[i].phase # "unposted" /\ Board[i].price = x[3]

\* A request for money starts when a leg is taken, at its price.
LEMMA AskedAgreedNext ==
  ASSUME Terms!ContractNext, AskedAgreed
  PROVE  AskedAgreed'
<1>0. Terms!LegIds = LegIds
  BY BoardRead
<1>1. \A x \in Asked : \E i \in LegIds :
        i[1] = x[1] /\ Board'[i].phase # "unposted" /\ Board'[i].price = x[3]
  BY PostingsStay DEF AskedAgreed
<1>2. ASSUME NEW i \in LegIds, NEW e \in Payees, Terms!Take(i, e)
      PROVE  AskedAgreed'
  <2>1. /\ Asked' = Asked \cup {<<i[1], e, Board[i].price>>}
        /\ Board[i].phase = "open"
    BY <1>2 DEF Terms!Take
  <2>2. Board'[i].phase # "unposted" /\ Board'[i].price = Board[i].price
    BY <2>1, PostingsStay
  <2> QED BY <1>1, <2>1, <2>2 DEF AskedAgreed
<1>3. \/ Asked' \subseteq Asked
      \/ \E i \in LegIds, e \in Payees : Terms!Take(i, e)
  BY <1>0 DEF Terms!ContractNext, Terms!Post, Terms!TakeUnheard, Terms!Settle, Terms!GiveUp,
     Terms!CutOff, Terms!Deliver, Terms!CallOff, Terms!Money, Terms!OwnMoney, Terms!Lapse
<1> QED BY <1>1, <1>2, <1>3 DEF AskedAgreed

\* An escrow that a step of the contract opens was asked for, or a
\* user put it up.
LEMMA OpenedAsked ==
  ASSUME WalletOK, Terms!ContractNext, NEW p \in Pairs,
         tx[p].status = "absent", tx'[p].status # "absent"
  PROVE  <<p[1], p[2], tx'[p].amount>> \in Asked \/ <<"held", p>> \in byUser'
<1>0. Terms!EscrowPairs = Pairs /\ tx \in [Pairs -> TxRow]
  BY BoardRead DEF WalletOK, WalletTypeOK
<1>1. ASSUME NEW q \in Pairs, Terms!ChargeClaim(q) PROVE FALSE
  BY <1>1 DEF Terms!ChargeClaim, Terms!ChargePayer
<1>2. ASSUME NEW q \in Pairs, Terms!PayDone(q) PROVE FALSE
  BY <1>0, <1>2 DEF Terms!PayDone, Terms!PayOut, Terms!Is
<1>3. ASSUME NEW o \in Orders, Terms!ReturnOff(o) PROVE FALSE
  BY <1>0, <1>3 DEF Terms!ReturnOff, Terms!GiveBack, Terms!Is
<1>4. ASSUME NEW q \in Pairs, Terms!OpenAsked(q)
      PROVE  <<p[1], p[2], tx'[p].amount>> \in Asked
  <2>1. p = q
    BY <1>0, <1>4 DEF Terms!OpenAsked, Terms!Open
  <2> QED BY <1>4, <2>1 DEF Terms!OpenAsked
<1>5. ASSUME Terms!OwnMoney PROVE <<"held", p>> \in byUser'
  <2>1. PICK q \in Pairs : \/ Terms!ChargePayer(q)
                           \/ Terms!Open(q) /\ byUser' = byUser \cup {<<"held", q>>}
                           \/ Terms!PayOut(q)
    BY <1>0, <1>5 DEF Terms!OwnMoney
  <2>2. CASE Terms!ChargePayer(q)
    BY <2>2 DEF Terms!ChargePayer
  <2>3. CASE Terms!Open(q) /\ byUser' = byUser \cup {<<"held", q>>}
    BY <1>0, <2>3 DEF Terms!Open
  <2>4. CASE Terms!PayOut(q)
    BY <1>0, <2>4 DEF Terms!PayOut, Terms!Is
  <2> QED BY <2>1, <2>2, <2>3, <2>4
<1>6. UNCHANGED tx \/ Terms!Money \/ Terms!OwnMoney
  BY DEF Terms!ContractNext, Terms!Post, Terms!Take, Terms!TakeUnheard, Terms!Settle,
     Terms!GiveUp, Terms!CutOff, Terms!Deliver, Terms!CallOff, Terms!ledgerVars
<1> QED BY <1>0, <1>1, <1>2, <1>3, <1>4, <1>5, <1>6 DEF Terms!Money

\* Whatever overlaps and fails: money that no user put up himself stands against
\* an order only at the price of one of its legs (accept asks for the claimed
\* leg's price, and neither the retries, nor the answers that come too late, nor
\* the users' own requests change it).
THEOREM MoneyAtLegPrice == Spec => []Terms!AgreedPrice
<1> DEFINE PriceOK == AskedAgreed /\ Terms!AgreedPrice
<1>1. Init => PriceOK
  BY BoardRead, EscrowAssumption
     DEF Init, WalletInit, NoRow, IdleCall, Asked, AskedAgreed, Terms!AgreedPrice, Terms!Is
<1>2. ContractInv /\ PriceOK /\ [Next]_vars => PriceOK'
  <2> SUFFICES ASSUME ContractInv, PriceOK, [Next]_vars PROVE PriceOK'
    OBVIOUS
  <2>0. /\ Terms!ContractNext /\ WalletOK /\ Terms!EscrowPairs = Pairs /\ Terms!LegIds = LegIds
        /\ AskedAgreed /\ Terms!AgreedPrice
    BY ContractStep, BoardRead DEF ContractInv, EscrowOK
  <2>1. ASSUME NEW p \in Pairs, tx'[p].status # "absent", <<"held", p>> \notin byUser'
        PROVE  \E i \in LegIds : i[1] = p[1] /\ Board'[i].phase # "unposted"
                                 /\ Board'[i].price = tx'[p].amount
    <3>1. CASE tx[p].status # "absent"
      <4>1. tx'[p].amount = tx[p].amount
        BY <2>0, <3>1, WalletSteps, SettleStep DEF SettlesOnce, Opened, ContractInv, EscrowOK
      <4>2. \E i \in LegIds : i[1] = p[1] /\ Board[i].phase # "unposted"
                              /\ Board[i].price = tx[p].amount
        BY <2>0, <2>1, <3>1, HistoryGrows DEF Terms!AgreedPrice, Terms!Posted, Terms!Is
      <4> QED BY <2>0, <4>1, <4>2, PostingsStay
    <3>2. CASE tx[p].status = "absent"
      <4>1. <<p[1], p[2], tx'[p].amount>> \in Asked
        BY <2>0, <2>1, <3>2, OpenedAsked
      <4>2. \E i \in LegIds : i[1] = p[1] /\ Board[i].phase # "unposted"
                              /\ Board[i].price = tx'[p].amount
        BY <2>0, <4>1 DEF AskedAgreed
      <4> QED BY <2>0, <4>2, PostingsStay
    <3> QED BY <3>1, <3>2
  <2>2. Terms!AgreedPrice'
    BY <2>0, <2>1 DEF Terms!AgreedPrice, Terms!Posted, Terms!Is
  <2> QED BY <2>0, <2>2, AskedAgreedNext
<1>3. PriceOK => Terms!AgreedPrice
  OBVIOUS
<1> QED BY <1>1, <1>2, <1>3, ContractInvInit, ContractInvNext, PTL DEF Spec

\* A leg whose accept has settled keeps its executor, its price and the escrow
\* row behind it for good: no rollback, overlapping accept, cancellation, stop
\* or failure of any later request takes it away.
THEOREM SettledIsForGood == Spec => Terms!SettledForGood
<1>1. ContractInv /\ [Next]_vars =>
        [\A i \in Terms!LegIds : Board[i].phase = "settled" =>
           /\ Board'[i] = Board[i]
           /\ tx'[<<i[1], Board[i].executor>>].status # "absent"]_(Terms!contractVars)
  <2> SUFFICES ASSUME ContractInv, [Next]_vars, NEW i \in LegIds, Board[i].phase = "settled"
               PROVE  /\ Board'[i] = Board[i]
                      /\ tx'[<<i[1], Board[i].executor>>].status # "absent"
    BY BoardRead
  <2>0. /\ Terms!ContractNext /\ Terms!LegIds = LegIds /\ Board = [j \in LegIds |-> Board[j]]
        /\ LegsOK /\ WalletOK /\ EscrowBehindClaim /\ [WalletNext]_walletVars
    BY ContractStep, BoardRead, WalletSteps DEF ContractInv, EscrowOK, BackingInv
  <2>1. Board'[i] = Board[i]
    BY <2>0 DEF Terms!ContractNext, Terms!Post, Terms!Posted, Terms!Take, Terms!TakeUnheard,
       Terms!Settle, Terms!GiveUp, Terms!CutOff, Terms!Claims, Terms!Becomes, Terms!Deliver,
       Terms!CallOff, Terms!Money, Terms!OwnMoney
  <2>2. /\ leg[i].executor # None /\ leg[i].executor = Board[i].executor
        /\ i \notin orphaned /\ \A s \in Slots : ~Holds(s, i)
    BY <2>0, Phases DEF Held
  <2>3. <<i[1], Board[i].executor>> \in Pairs
    BY <2>0, <2>2, LegRead DEF LegRow, LegIds, Pairs
  <2>4. Opened(<<i[1], Board[i].executor>>)
    BY <2>0, <2>2 DEF EscrowBehindClaim
  <2> QED BY <2>0, <2>1, <2>3, <2>4, SettleStep DEF SettlesOnce, Opened
<1> QED BY <1>1, ContractInvInit, ContractInvNext, PTL DEF Spec, Terms!SettledForGood
=============================================================================
