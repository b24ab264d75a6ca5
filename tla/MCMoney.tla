------------------------------ MODULE MCMoney -------------------------------
(***************************************************************************)
(* Wallet under arbitrary callers, and Pricing over small tables and       *)
(* requests.  They share no variable: a behaviour plays one of the two     *)
(* scenes, and the other component stays as it starts.                     *)
(***************************************************************************)
EXTENDS Wallet, Pricing, TLC

VARIABLE scene

\* A refused amount, an ordinary one that the commission does not divide, and
\* the one the provider declines.
MCAmounts == {-1, 15, 99}

\* The seeded percentage, one above the whole, and a negative one.
MCPcts == {10, 150, -20}

\* The requests are interchangeable.
CallSymmetry == Permutations(Calls)

Absent == [given |-> FALSE, n |-> 0]
Given(n) == [given |-> TRUE, n |-> n]

\* The seeded table, scaled down, one where transport is dear and the minimum
\* high, and an empty one (the defaults apply).
MCTables ==
  {[transport_per_ton |-> 8, equipment_hour |-> 20, labor_hour_per_worker |-> 5,
    minimum_order |-> 10],
   [transport_per_ton |-> 30, minimum_order |-> 40],
   [k \in {} |-> 0]}

\* Half tons make transport round; zero weights make the split degenerate,
\* and nothing stops a client from sending a negative one.
MCInputs ==
  [type : OrderTypes \cup {"unknown"},
   weight : {Absent, Given(-3), Given(0), Given(1), Given(7)},
   hours : {Absent, Given(0), Given(3)},
   work : {Absent, Given(0), Given(1), Given(4)}]

\* No price (0), prices that do not divide, and one so small that a share
\* rounds to nothing.
MCPrices == {0, 1, 17, 100}

-----------------------------------------------------------------------------
MCInit ==
  /\ WalletInit
  /\ \/ scene = "pricing" /\ Init
     \/ scene = "wallet" /\ form = Nothing /\ tariffs = Nothing
          /\ quote = Nothing /\ order = Nothing

MCNext ==
  /\ UNCHANGED scene
  /\ \/ scene = "wallet" /\ WalletNext /\ UNCHANGED vars
     \/ scene = "pricing" /\ Next /\ UNCHANGED walletVars

MCSpec == MCInit /\ [][MCNext]_<<vars, walletVars, scene>>
=============================================================================
