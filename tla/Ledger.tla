------------------------------- MODULE Ledger -------------------------------
(***************************************************************************)
(* What the wallet promises of the money of an order, without its          *)
(* requests, statements and failures: the escrow of a pair is opened once, *)
(* after the payer was charged, at a price and a commission that stay; and *)
(* it is closed once, by paying the executor or by giving the money back,  *)
(* which happens to all open escrows of an order together.                 *)
(***************************************************************************)
EXTENDS Integers

CONSTANTS
  Orders,  \* order ids
  Payees   \* executors

VARIABLES
  escrow,  \* the escrow of each pair
  charged  \* the pairs whose payer has been charged

ledgerVars == <<escrow, charged>>

EscrowPairs == Orders \X Payees

Is(p, status) == escrow[p].status = status

HeldEscrow == [status : {"held"}, amount : Nat, commission : Nat]

LedgerInit ==
  /\ escrow = [p \in EscrowPairs |->
                 [status |-> "absent", amount |-> 0, commission |-> 0]]
  /\ charged = {}

ChargePayer(p) ==
  /\ charged' = charged \cup {p}
  /\ UNCHANGED escrow

\* An escrow of some amount, at some commission.
Open(p) ==
  /\ p \in charged /\ Is(p, "absent")
  /\ escrow'[p] \in HeldEscrow
  /\ escrow' = [escrow EXCEPT ![p] = escrow'[p]]
  /\ UNCHANGED charged

PayOut(p) ==
  /\ Is(p, "held")
  /\ escrow' = [escrow EXCEPT ![p].status = "released"]
  /\ UNCHANGED charged

GiveBack(o) ==
  /\ escrow' = [p \in EscrowPairs |->
                  IF p[1] = o /\ Is(p, "held")
                  THEN [escrow[p] EXCEPT !.status = "refunded"] ELSE escrow[p]]
  /\ UNCHANGED charged

LedgerNext ==
  \/ \E p \in EscrowPairs : ChargePayer(p) \/ Open(p) \/ PayOut(p)
  \/ \E o \in Orders : GiveBack(o)

LedgerSpec == LedgerInit /\ [][LedgerNext]_ledgerVars
=============================================================================
