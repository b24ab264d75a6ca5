------------------------------ MODULE LegStatus ------------------------------
(***************************************************************************)
(* The leg status machine of the orders service: the pure functions of     *)
(* internal/orders/legs.go and the cancellation rule of handler.go.  No    *)
(* state lives here; Escrow uses these operators in its handlers.          *)
(***************************************************************************)
EXTENDS Integers

\* models.Leg: the three independently executed parts of an order.
LegNames == {"transport", "equipment", "labor"}

\* models.OrderStatus, shared by the three legs.
Statuses == {"draft", "published", "matched", "accepted", "inProgress",
             "loadingInProgress", "inTransit", "delivered", "completed",
             "cancelled", "disputed"}

\* models.OrderType.
OrderTypes == {"transportOnly", "equipmentOnly", "laborOnly",
               "transportWithOptions"}

\* Which legs an order has, from its type and the requests it carries.
LegsFor(t, hasEquipment, hasLabor) ==
  CASE t = "transportOnly"        -> {"transport"}
    [] t = "equipmentOnly"        -> {"equipment"}
    [] t = "laborOnly"            -> {"labor"}
    [] t = "transportWithOptions" ->
         {"transport"} \cup (IF hasEquipment THEN {"equipment"} ELSE {})
                       \cup (IF hasLabor THEN {"labor"} ELSE {})
    [] OTHER                      -> {}

\* The edges an executor may move a leg along.
nextAllowed(from) ==
  CASE from = "published"  -> {"matched", "accepted"}
    [] from = "matched"    -> {"accepted"}
    [] from = "accepted"   -> {"inProgress", "loadingInProgress", "inTransit",
                               "delivered"}
    [] from = "inProgress" -> {"loadingInProgress", "inTransit", "delivered"}
    [] from = "loadingInProgress" -> {"inTransit", "delivered"}
    [] from = "inTransit"  -> {"delivered"}
    [] from = "delivered"  -> {"completed"}
    [] OTHER               -> {}

\* Mutant: only final statuses are left alone.
CanTransitionUnlessFinal(from, to) ==
  from \notin {"completed", "cancelled"} /\ to # from
CanTransition(from, to) == to \in nextAllowed(from)

\* A set of leg statuses the client may confirm: not empty, all delivered or
\* completed.
IsReadyForClientConfirmation(statuses) ==
  statuses # {} /\ statuses \subseteq {"delivered", "completed"}

\* Statuses early enough for the client to call the order off.
cancellable(s) ==
  s \in {"draft", "published", "matched", "accepted", "cancelled"}

-----------------------------------------------------------------------------
\* The order in which a leg passes through its statuses; cancelled and disputed
\* are outside it.  It is the reference the properties measure moves against.
Rank(s) ==
  CASE s = "draft"      -> 0 [] s = "published"         -> 1
    [] s = "matched"    -> 2 [] s = "accepted"          -> 3
    [] s = "inProgress" -> 4 [] s = "loadingInProgress" -> 5
    [] s = "inTransit"  -> 6 [] s = "delivered"         -> 7
    [] s = "completed"  -> 8 [] OTHER                   -> 9
=============================================================================
