------------------------------ MODULE Contract ------------------------------
(***************************************************************************)
(* What orders and wallet together promise, without their requests,        *)
(* statements and failures.  A leg is posted at a price, taken by one      *)
(* executor, and then settled with money behind it, given up, or cut off   *)
(* half way; a settled or cut off leg keeps its executor for good.  Money  *)
(* moves as Ledger says, and only for a reason: it is taken at the price   *)
(* of a leg somebody took, paid out when the whole order is done, and      *)
(* given back when the order was called off.  Besides, users may put up    *)
(* and pay out money themselves, which is on record as their own doing.    *)
(***************************************************************************)
EXTENDS Ledger

CONSTANTS
  LegNames,  \* the legs an order may have
  Shapes,    \* the orders a client may place: functions from legs to prices
  None       \* the absent executor

VARIABLES
  board,  \* phase, executor and price of every leg
  asked,  \* the money the wallet is asked for: <<order, executor, amount>>
  done,   \* legs delivered
  off,    \* orders called off
  own     \* moves of money that users made themselves

contractVars == <<ledgerVars, board, asked, done, off, own>>

LegIds == Orders \X LegNames

Unposted == [phase |-> "unposted", executor |-> None, price |-> 0]

ContractInit ==
  /\ LedgerInit
  /\ board = [i \in LegIds |-> Unposted]
  /\ asked = {} /\ done = {} /\ off = {} /\ own = {}

Posted(o) == {i \in LegIds : i[1] = o /\ board[i].phase # "unposted"}

\* A leg in a new phase, at the same price.
In(i, phase, e) == [phase |-> phase, executor |-> e, price |-> board[i].price]

Becomes(i, phase, e) == board' = [board EXCEPT ![i] = In(i, phase, e)]

\* A request for money may end at any time, granted or not.
Lapse == asked' \subseteq asked

Post(o, shape) ==
  /\ Posted(o) = {}
  /\ board' = [i \in LegIds |->
                 IF i[1] = o /\ i[2] \in DOMAIN shape
                 THEN [phase |-> "open", executor |-> None, price |-> shape[i[2]]]
                 ELSE board[i]]
  /\ UNCHANGED <<ledgerVars, asked, done, off, own>>

\* An executor takes a leg, and money is asked for at this leg's price.
Take(i, e) ==
  /\ board[i].phase = "open"
  /\ Becomes(i, "claimed", e)
  /\ asked' = asked \cup {<<i[1], e, board[i].price>>}
  /\ UNCHANGED <<ledgerVars, done, off, own>>

\* An executor takes a leg and is never told: no money is asked for.
TakeUnheard(i, e) ==
  /\ board[i].phase = "open"
  /\ Becomes(i, "cutoff", e)
  /\ UNCHANGED <<ledgerVars, asked, done, off, own>>

\* The claim has an escrow of its executor behind it.
Settle(i) ==
  /\ board[i].phase = "claimed"
  /\ ~Is(<<i[1], board[i].executor>>, "absent")
  /\ Becomes(i, "settled", board[i].executor)
  /\ Lapse
  /\ UNCHANGED <<ledgerVars, done, off, own>>

GiveUp(i) ==
  /\ board[i].phase = "claimed"
  /\ Becomes(i, "open", None)
  /\ UNCHANGED <<ledgerVars, asked, done, off, own>>

\* Claims nobody will settle or give up any more.
Claims == {i \in LegIds : board[i].phase = "claimed"}
CutOff(S) ==
  /\ board' = [i \in LegIds |-> IF i \in S THEN In(i, "cutoff", board[i].executor)
                                ELSE board[i]]
  /\ Lapse
  /\ UNCHANGED <<ledgerVars, done, off, own>>

Deliver(i) ==
  /\ board[i].phase # "unposted"
  /\ done' = done \cup {i}
  /\ UNCHANGED <<ledgerVars, board, asked, off, own>>

CallOff(o) ==
  /\ off' = off \cup {o}
  /\ UNCHANGED <<ledgerVars, board, asked, done, own>>

\* Money taken from a client: asked for by the claim of a leg, at its price.
ChargeClaim(p) ==
  /\ \E x \in asked : <<x[1], x[2]>> = p
  /\ ChargePayer(p)
OpenAsked(p) ==
  /\ Open(p)
  /\ <<p[1], p[2], escrow'[p].amount>> \in asked

\* Money paid: every leg of the order has been delivered.
PayDone(p) ==
  /\ Posted(p[1]) # {} /\ Posted(p[1]) \subseteq done
  /\ PayOut(p)

\* Money returned: the order has been called off.
ReturnOff(o) == o \in off /\ GiveBack(o)

Money ==
  /\ Lapse
  /\ UNCHANGED <<board, done, off, own>>
  /\ \/ \E p \in EscrowPairs : ChargeClaim(p) \/ OpenAsked(p) \/ PayDone(p)
     \/ \E o \in Orders : ReturnOff(o)

\* Money a user takes, puts up or pays out past the orders, for any pair and at
\* any amount; the ledger's rules hold all the same, and none is returned.
OwnMoney ==
  /\ UNCHANGED <<board, asked, done, off>>
  /\ \E p \in EscrowPairs :
       \/ ChargePayer(p) /\ own' = own \cup {<<"charged", p>>}
       \/ Open(p) /\ own' = own \cup {<<"held", p>>}
       \/ PayOut(p) /\ own' = own \cup {<<"released", p>>}

ContractNext ==
  \/ UNCHANGED <<ledgerVars, done, off, own, board>> /\ Lapse
  \/ Money
  \/ OwnMoney
  \/ \E o \in Orders, shape \in Shapes : Post(o, shape)
  \/ \E i \in LegIds :
       \/ \E e \in Payees : Take(i, e) \/ TakeUnheard(i, e)
       \/ Settle(i) \/ GiveUp(i) \/ Deliver(i)
  \/ \E S \in SUBSET Claims : CutOff(S)
  \/ \E o \in Orders : CallOff(o)

ContractSpec == ContractInit /\ [][ContractNext]_contractVars

-----------------------------------------------------------------------------
(* What follows from the contract alone.                                   *)

\* Whatever fails and overlaps, money stands against an order only at the price
\* of one of its legs, unless a user put it up.
AgreedPrice ==
  \A p \in EscrowPairs : ~Is(p, "absent") =>
    \/ \E i \in Posted(p[1]) : board[i].price = escrow[p].amount
    \/ <<"held", p>> \in own

\* A settled leg stays with its executor at its price, and the escrow of that
\* executor on the order stays open or settled, never absent again.
SettledForGood ==
  [][\A i \in LegIds : board[i].phase = "settled" =>
        /\ board'[i] = board[i]
        /\ escrow'[<<i[1], board[i].executor>>].status # "absent"]_contractVars
=============================================================================
