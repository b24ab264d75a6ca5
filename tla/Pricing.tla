------------------------------ MODULE Pricing -------------------------------
(***************************************************************************)
(* Server-side pricing of the orders service: internal/orders/pricing.go,  *)
(* and the two handlers that use it, estimate and create.  One order has   *)
(* one total but is settled leg by leg, so the split decides what every    *)
(* executor is paid.                                                       *)
(*                                                                         *)
(* Amounts are int64 in the code.  Here they are integers that wrap at     *)
(* +-IntBound, so that the width is a parameter.                           *)
(***************************************************************************)
EXTENDS LegStatus

CONSTANTS
  IntBound,     \* 2^63 in the code
  TonUnits,     \* weights are given in parts of a ton: 1 ton is TonUnits
  TariffTables, \* tables the back office may put in force
  Inputs,       \* order requests a client may send
  ClientPrices  \* totals a client may send besides the one it was shown

\* What an int64 holds.
InRange(x) == x \in Int /\ -IntBound <= x /\ x < IntBound

\* A request carries a weight, hours and work, or does not.
Measure == [given : BOOLEAN, n : Int]

\* The tables are columns cast to bigint, prices are parsed as int64, and the
\* defaults compiled into the service fit.
ASSUME PricingAssumption ==
  /\ IntBound \in Nat /\ 25 < IntBound
  /\ TonUnits \in Nat \ {0}
  /\ \A t \in TariffTables : \A k \in DOMAIN t : InRange(t[k])
  /\ \A in \in Inputs : {in.weight, in.hours, in.work} \subseteq Measure
  /\ \A p \in ClientPrices : InRange(p)

VARIABLES
  form,     \* orderInput: what the client asks for
  tariffs,  \* orders.tariffs
  quote,    \* the last answer of POST /orders/estimate
  order     \* the last order created

vars == <<form, tariffs, quote, order>>

\* Two's complement.
Wrap(x) == ((x + IntBound) % (2 * IntBound)) - IntBound

\* Go's division truncates towards zero.
Quo(a, b) == IF a >= 0 THEN a \div b ELSE -((-a) \div b)

\* math.Round: half away from zero.
Round(a, d) == IF a >= 0 THEN (2 * a + d) \div (2 * d)
               ELSE -((2 * (-a) + d) \div (2 * d))

\* A table row, or the default compiled into the service.
Tariff(t, key, fallback) == IF key \in DOMAIN t THEN t[key] ELSE fallback

\* An input's part an order does not carry is absent from its record; the
\* component of a leg the order lacks is zero.
Estimate(t, in) ==
  [transport |->
     IF in.weight.given
     THEN Wrap(Round(in.weight.n * Tariff(t, "transport_per_ton", 8), TonUnits))
     ELSE 0,
   equipment |->
     IF in.hours.given
     THEN Wrap(in.hours.n * Tariff(t, "equipment_hour", 25)) ELSE 0,
   labor |->
     IF in.work.given
     THEN Wrap(in.work.n * Tariff(t, "labor_hour_per_worker", 5)) ELSE 0]

\* The sum over the legs in a set: at most three.
At(f, legs, l) == IF l \in legs THEN f[l] ELSE 0
SumOver(f, legs) ==
  At(f, legs, "transport") + At(f, legs, "equipment") + At(f, legs, "labor")

Total(t, b) ==
  LET sum     == Wrap(SumOver(b, LegNames))
      minimum == Tariff(t, "minimum_order", 10)
  IN  IF sum > minimum THEN sum ELSE minimum

\* The leg with the most weight, the first of equals in leg order.
Position(l) == CASE l = "transport" -> 1 [] l = "equipment" -> 2 [] OTHER -> 3
largest(weights, legs) ==
  CHOOSE best \in legs : \A l \in legs :
    \/ weights[l] < weights[best]
    \/ weights[l] = weights[best] /\ Position(best) <= Position(l)

\* Mutant: no even split for a weightless order.
PartProportional(b, total, legs, l) ==
  LET weightSum == Wrap(SumOver(b, legs))
  IN  IF weightSum <= 0 THEN 0 ELSE Quo(Wrap(total * b[l]), weightSum)

\* The part of each leg before the remainder: in proportion to its weight, or
\* even when no leg weighs anything.
Part(b, total, legs, l) ==
  LET weightSum == Wrap(SumOver(b, legs))
      count     == SumOver([k \in LegNames |-> 1], legs)
  IN  IF weightSum <= 0 THEN Quo(total, count)
      ELSE Quo(Wrap(total * b[l]), weightSum)

\* Mutant: the remainder is dropped.
SplitTotalDropping(b, total, legs) ==
  [l \in legs |-> Part(b, total, legs, l)]
\* Mutant: the remainder lands on the transport leg, whatever it weighs.
SplitTotalOver(b, total, legs) ==
  [l \in legs |->
     Wrap(Part(b, total, legs, l) +
          (IF l = "transport"
           THEN total - SumOver([k \in legs |-> Part(b, total, legs, k)], legs)
           ELSE 0))]

\* The remainder of the divisions lands on the largest leg.
SplitTotal(b, total, legs) ==
  LET part == [l \in legs |-> Part(b, total, legs, l)]
      rest == Wrap(total - Wrap(SumOver(part, legs)))
  IN  [l \in legs |-> IF l = largest(b, legs) THEN Wrap(part[l] + rest)
                      ELSE part[l]]

-----------------------------------------------------------------------------
InputLegs(in) == LegsFor(in.type, in.hours.given, in.work.given)

\* Mutant: the split shown is over all legs, asked for or not.
AnswerEstimateAllLegs(t, in) ==
  LET b == Estimate(t, in)
  IN  [input |-> in, tariffs |-> t, total |-> Total(t, b),
       parts |-> SplitTotal(b, Total(t, b), LegNames)]

\* POST /orders/estimate: the total and the split the client is shown.
AnswerEstimate(t, in) ==
  LET b == Estimate(t, in)
  IN  [input |-> in, tariffs |-> t, total |-> Total(t, b),
       parts |-> SplitTotal(b, Total(t, b), InputLegs(in))]

\* POST /orders: a positive price sent by the client is honoured, the split
\* always uses the server's own breakdown.
Priced(t, in, price) ==
  LET b     == Estimate(t, in)
      total == IF price > 0 THEN price ELSE Total(t, b)
  IN  [input |-> in, tariffs |-> t, total |-> total,
       parts |-> SplitTotal(b, total, InputLegs(in))]

Nothing == [input |-> {}]

Init ==
  /\ form \in Inputs
  /\ tariffs \in TariffTables
  /\ quote = Nothing
  /\ order = Nothing

estimate ==
  /\ quote' = AnswerEstimate(tariffs, form)
  /\ UNCHANGED <<form, tariffs, order>>

\* An unknown type has no legs and is refused.
create(price) ==
  /\ InputLegs(form) # {}
  /\ order' = Priced(tariffs, form, price)
  /\ UNCHANGED <<form, tariffs, quote>>

\* The client sends back the total it was shown.
createAsShown == quote # Nothing /\ create(quote.total)

\* The back office edits the table, between a quote and its order too.
SetTariffs(t) ==
  /\ tariffs' = t
  /\ UNCHANGED <<form, quote, order>>

Next ==
  \/ estimate
  \/ createAsShown
  \/ \E p \in ClientPrices : create(p)
  \/ \E t \in TariffTables : SetTariffs(t)

Spec == Init /\ [][Next]_vars

-----------------------------------------------------------------------------
(* Properties.                                                             *)

\* The weights are not negative, and the products fit the machine's integers.
Sane(b, total, legs) ==
  /\ total >= 0
  /\ \A l \in legs : b[l] >= 0 /\ InRange(b[l] * total)
  /\ InRange(SumOver(b, legs))

\* Whatever is asked, shown or changed, the parts of an order add up to the
\* total the client agreed to: SplitTotal loses and invents nothing.  In int64
\* arithmetic always; as numbers when the split is even or nothing overflowed
\* on the way to it.
PartsAddUp ==
  order # Nothing =>
    LET b    == Estimate(order.tariffs, order.input)
        legs == InputLegs(order.input)
        sum  == SumOver(order.parts, legs)
    IN  /\ Wrap(sum) = order.total
        /\ (Wrap(SumOver(b, legs)) <= 0 \/ Sane(b, order.total, legs))
             => sum = order.total

\* The split is fair to within one sum: a leg gets its proportional share
\* rounded down, the largest leg alone gets more, and less than one sum per
\* leg; so no part is negative, and no part exceeds the total.
Fair(b, total, legs, parts) ==
  LET weightSum == SumOver(b, legs)
  IN  \A l \in legs :
        /\ parts[l] * weightSum <= total * b[l] + 2 * weightSum
        /\ l # largest(b, legs) => parts[l] * weightSum <= total * b[l]
        /\ total * b[l] < (parts[l] + 1) * weightSum
SplitIsFair ==
  order # Nothing =>
    LET b    == Estimate(order.tariffs, order.input)
        legs == InputLegs(order.input)
    IN  (Sane(b, order.total, legs) /\ SumOver(b, legs) > 0)
          => Fair(b, order.total, legs, order.parts)

\* An order no leg of which weighs anything is split evenly "rather than
\* paying somebody nothing": every part is positive as soon as the total is
\* worth one sum per leg.
NobodyUnpaid ==
  order # Nothing =>
    LET b    == Estimate(order.tariffs, order.input)
        legs == InputLegs(order.input)
    IN  (/\ SumOver(b, legs) <= 0 /\ InRange(SumOver(b, legs))
         /\ order.total >= 3)
          => \A l \in legs : order.parts[l] > 0

\* What the client was shown per leg is what each executor is paid, as long as
\* the tariffs in force have not moved between estimate and create.
QuoteIsPaid ==
  (/\ order # Nothing /\ quote # Nothing
   /\ order.tariffs = quote.tariffs
   /\ order.total = quote.total)
    => order.parts = quote.parts
=============================================================================
