------------------------------ MODULE MCEscrow ------------------------------
(* Small instances of Escrow.                                              *)
EXTENDS Escrow, FiniteSetsExt, TLC

CONSTANTS s1, s2, e1, e2, o1, u1

MCCalls == {s1, s2} \X {e1, e2, None}
MCCallsOne == {s1, s2} \X {e1, None}
MCCallsUser == MCCalls \cup {u1}

\* A combined order whose legs cost differently, or the same; orders with one
\* leg, one of which costs the amount the provider declines.
MCCombined == {[l \in {"transport", "labor"} |->
                  IF l = "transport" THEN 30 ELSE 15]}
MCEven == {[l \in {"transport", "labor"} |-> 15]}
MCSingle == {[l \in {"transport"} |-> 30], [l \in {"transport"} |-> 99]}
MCAllShapes == MCCombined \cup MCSingle
MCAmounts == {15, 30, 99}
MCAmountsFew == {15, 30}
MCPcts == {10}
MCPctsTwo == {10, 20}

\* A status on the way, the one confirmation waits for, and the one after it;
\* or only what it takes to get an order confirmed.
MCTargets == {"inTransit", "delivered", "completed"}
MCTargetsFew == {"delivered"}

\* Kinds of fault a run admits.
MCNoFaults == {}
MCContext == {"context"}

\* One driver lacks the category the order's load needs.
MCUnlicensed == {<<o1, e2>>}

Symmetry == Permutations({s1, s2}) \cup Permutations({e1, e2})
SlotSymmetry == Permutations({s1, s2})

\* Requests overlap with each other and are abandoned; or they come one at a
\* time and are waited for, together with what users do to the money.
UserAbout == byUser # {} \/ \E c \in UserCalls : call[c] # IdleCall
Busy(s) == req[s] # IdleReq \/ \E p \in Payees \cup {None} : call[<<s, p>>] # IdleCall
\* Nothing overlaps, nobody has left, and the second executor is out of it.
Quiet ==
  /\ \A c \in Calls : call[c].payee # e2
  /\ orphaned = {} /\ charges[<<o1, e2>>] = 0
  /\ \A i \in LegIds : leg[i].executor # e2
  /\ \A s, t \in Slots : s # t => ~Busy(s) \/ ~Busy(t)
  /\ \A c \in OrderCalls : call[c].open \/ call[c].pc \in {"idle", "replied"}
Apart == UserAbout => Quiet

\* Executor e waits for every answer, and no accept of e is cut off.
Patient(e) ==
  /\ \A i \in orphaned : leg[i].executor # e
  /\ \A c \in OrderCalls : call[c].payee = e => call[c].open

MCOverlapSpec == Init /\ [][Next /\ Apart' /\ Patient(e2)']_vars

-----------------------------------------------------------------------------
\* What the client agreed to pay for some legs of an order.
PriceOf(ids) == MapThenSumSet(LAMBDA i : leg[i].price, ids)

\* DEVELOPMENT_PLAN.md: each leg has "its own executor, status, and escrow
\* transaction".  What is held or paid for an executor at rest is the price of
\* the legs that executor has.
EscrowCoversLegs ==
  \A p \in Pairs :
    LET own == {i \in LegsOf(p[1]) : leg[i].executor = p[2]}
    IN  (own # {} /\ AtRest(p[1]) /\ tx[p].status \in {"held", "released"})
          => tx[p].amount = PriceOf(own)
========================================
