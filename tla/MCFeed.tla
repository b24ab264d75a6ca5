------------------------------- MODULE MCFeed -------------------------------
(* Feed on its own, under events that any service may fire.                *)
EXTENDS Feed, TLC

CONSTANTS u1, u2, c1, c2

\* One user with two connections.
MCOwner == c1 :> u1 @@ c2 :> u1

\* With a notification for everybody, or none; MCPeople has those for some.
MCAudiences ==
  {[users |-> <<u2, u1>>, notify |-> TRUE, only |-> <<>>],
   [users |-> <<u1>>, notify |-> FALSE, only |-> <<>>]}

MCFire(e) ==
  \E aud \in MCAudiences : Fire(e, aud) /\ UNCHANGED <<subs, chan, conn, row, read>>

MCSpec ==
  /\ FeedInit
  /\ [][FeedStep \/ \E e \in Events : MCFire(e)]_feedVars
  /\ FeedFairness
=============================================================================
