--------------------------- MODULE PricingProofs ----------------------------
(***************************************************************************)
(* What the split of an order's price guarantees for every width of the    *)
(* machine's integers, every tariff table, request and price: int64 wraps, *)
(* divisions round, and the parts still add up.                            *)
(***************************************************************************)
EXTENDS Pricing, TLAPS

-----------------------------------------------------------------------------
(* The machine's arithmetic.                                               *)

\* Dividing by a positive number.
LEMMA Division ==
  ASSUME NEW a \in Int, NEW d \in Nat \ {0}
  PROVE  \E q \in Int : /\ a \div d = q /\ a % d = a - d * q
                        /\ 0 <= a - d * q /\ a - d * q < d
<1>1. a \div d \in Int /\ a % d = a - d * (a \div d) /\ 0 <= a % d /\ a % d < d
  OBVIOUS
<1> QED BY <1>1

\* Wrapping shifts a number into range by a multiple of the width.
LEMMA WrapShifts ==
  ASSUME NEW x \in Int
  PROVE  InRange(Wrap(x)) /\ \E k \in Int : Wrap(x) = x + 2 * IntBound * k
<1>1. IntBound \in Nat /\ 2 * IntBound \in Nat \ {0} /\ x + IntBound \in Int
  BY PricingAssumption
<1> DEFINE d == 2 * IntBound
           y == x + IntBound
<1>2. \E q \in Int : /\ y \div d = q /\ y % d = y - d * q
                     /\ 0 <= y - d * q /\ y - d * q < d
  <2> HIDE DEF y, d
  <2> QED BY <1>1, Division, Zenon DEF y, d
<1>3. PICK q \in Int : /\ y % d = y - d * q
                      /\ 0 <= y - d * q /\ y - d * q < d
  BY <1>2
<1>4. Wrap(x) = y - d * q - IntBound
  BY <1>3 DEF Wrap
<1> HIDE DEF d
<1>5. -q \in Int /\ d * (-q) = -(d * q) /\ d * q \in Int /\ d = 2 * IntBound
  BY <1>1 DEF d
<1>6. Wrap(x) = x + d * (-q) /\ InRange(Wrap(x))
  BY <1>1, <1>3, <1>4, <1>5 DEF InRange
<1> QED BY <1>5, <1>6

\* Numbers in range that differ by a multiple of the width are equal.
LEMMA WrapUnique ==
  ASSUME NEW x, NEW y, InRange(x), InRange(y),
         NEW k \in Int, x = y + 2 * IntBound * k
  PROVE  x = y
<1>1. IntBound \in Nat /\ x \in Int /\ y \in Int
  BY PricingAssumption DEF InRange
<1>2. k <= 0
  <2>1. k >= 1 => 2 * IntBound * k >= 2 * IntBound
    BY <1>1
  <2> QED BY <1>1, <2>1 DEF InRange
<1>3. k >= 0
  <2>1. k <= -1 => 2 * IntBound * k <= -(2 * IntBound)
    BY <1>1
  <2> QED BY <1>1, <2>1 DEF InRange
<1>4. k = 0
  BY <1>2, <1>3
<1> QED BY <1>1, <1>4

\* A number in range is not changed.
LEMMA WrapInRange ==
  ASSUME NEW x, InRange(x)
  PROVE  Wrap(x) = x
<1>1. x \in Int
  BY DEF InRange
<1> QED BY <1>1, WrapShifts, WrapUnique

\* Two numbers a multiple of the width apart wrap to the same one.
LEMMA WrapSame ==
  ASSUME NEW x \in Int, NEW y, InRange(y), NEW k \in Int, x = y + 2 * IntBound * k
  PROVE  Wrap(x) = y
<1>1. PICK j \in Int : Wrap(x) = x + 2 * IntBound * j
  BY WrapShifts
<1>2. IntBound \in Nat /\ y \in Int /\ k + j \in Int
  BY PricingAssumption DEF InRange
<1>3. 2 * IntBound * (k + j) = 2 * IntBound * k + 2 * IntBound * j
  BY <1>2
<1>4. Wrap(x) = y + 2 * IntBound * (k + j)
  BY <1>1, <1>2, <1>3
<1>5. PICK m \in Int : Wrap(x) = y + 2 * IntBound * m
  BY <1>2, <1>4, Zenon
<1>6. InRange(Wrap(x))
  BY WrapShifts
<1> QED BY <1>5, <1>6, WrapUnique

\* A quotient of a natural number.
LEMMA Quotient ==
  ASSUME NEW a \in Nat, NEW d \in Nat \ {0}
  PROVE  a \div d \in Nat /\ a \div d <= a
<1>1. PICK q \in Int : a \div d = q /\ 0 <= a - d * q /\ a - d * q < d
  BY Division
<1>2. q >= 0
  <2>1. q <= -1 => d * q <= -d
    OBVIOUS
  <2> QED BY <1>1, <2>1
<1>3. d * q >= q
  BY <1>2
<1> QED BY <1>1, <1>2, <1>3

\* Go's division by a positive number stays in range.
LEMMA QuoInRange ==
  ASSUME NEW a, InRange(a), NEW d \in Nat \ {0}
  PROVE  InRange(Quo(a, d))
<1>1. IntBound \in Nat /\ a \in Int
  BY PricingAssumption DEF InRange
<1>2. CASE a >= 0
  BY <1>1, <1>2, Quotient DEF Quo, InRange
<1>3. CASE a < 0
  <2>1. (-a) \div d \in Nat /\ (-a) \div d <= -a
    BY <1>1, <1>3, Quotient
  <2> QED BY <1>1, <1>3, <2>1 DEF Quo, InRange
<1> QED BY <1>1, <1>2, <1>3

\* math.Round gives a whole number.
LEMMA RoundInt ==
  ASSUME NEW a \in Int, NEW d \in Nat \ {0}
  PROVE  Round(a, d) \in Int
<1>1. 2 * d \in Nat \ {0} /\ 2 * a + d \in Int /\ 2 * (-a) + d \in Int
  OBVIOUS
<1>2. (2 * a + d) \div (2 * d) \in Int /\ (2 * (-a) + d) \div (2 * d) \in Int
  BY <1>1, Division
<1> QED BY <1>2 DEF Round

-----------------------------------------------------------------------------
(* Sums over the legs of an order.                                         *)

\* The legs of an order: some of the three.
LEMMA LegsOfInput ==
  ASSUME NEW in
  PROVE  InputLegs(in) \subseteq LegNames
BY DEF InputLegs, LegsFor, LegNames

\* A sum of whole numbers is one.
LEMMA SumInt ==
  ASSUME NEW legs \in SUBSET LegNames, NEW f, \A l \in legs : f[l] \in Int
  PROVE  SumOver(f, legs) \in Int
BY DEF SumOver, At

\* Some leg is the largest.
LEMMA LargestIn ==
  ASSUME NEW legs \in SUBSET LegNames, legs # {}, NEW w, \A l \in legs : w[l] \in Int
  PROVE  largest(w, legs) \in legs
<1> DEFINE Beats(best) == \A l \in legs :
      \/ w[l] < w[best]
      \/ w[l] = w[best] /\ Position(best) <= Position(l)
<1>1. \E best \in legs : Beats(best)
  <2>1. /\ Position("transport") = 1 /\ Position("equipment") = 2
        /\ Position("labor") = 3
    BY DEF Position
  <2>2. SUFFICES ASSUME \A best \in legs : ~Beats(best) PROVE FALSE
    OBVIOUS
  <2> DEFINE Better(l, k) ==
        w[k] < w[l] \/ (w[l] = w[k] /\ Position(l) < Position(k))
  <2>3. ASSUME NEW k \in legs PROVE \E l \in legs : Better(l, k)
    BY <2>1, <2>2 DEF LegNames
  <2>4. /\ "transport" \in legs =>
             ("equipment" \in legs /\ Better("equipment", "transport"))
             \/ ("labor" \in legs /\ Better("labor", "transport"))
        /\ "equipment" \in legs =>
             ("transport" \in legs /\ Better("transport", "equipment"))
             \/ ("labor" \in legs /\ Better("labor", "equipment"))
        /\ "labor" \in legs =>
             ("transport" \in legs /\ Better("transport", "labor"))
             \/ ("equipment" \in legs /\ Better("equipment", "labor"))
    BY <2>1, <2>3 DEF LegNames
  <2>5. "transport" \in legs \/ "equipment" \in legs \/ "labor" \in legs
    BY DEF LegNames
  <2> QED BY <2>1, <2>4, <2>5
<1>2. largest(w, legs) = CHOOSE best \in legs : Beats(best)
  BY DEF largest
<1> QED BY <1>1, <1>2

-----------------------------------------------------------------------------
(* The split.                                                              *)

\* The number of legs.
LEMMA CountLegs ==
  ASSUME NEW legs \in SUBSET LegNames, legs # {}
  PROVE  SumOver([k \in LegNames |-> 1], legs) \in 1..3
<1> DEFINE f == [k \in LegNames |-> 1]
<1>1. f["transport"] = 1 /\ f["equipment"] = 1 /\ f["labor"] = 1
  BY DEF LegNames
<1> HIDE DEF f
<1>2. "transport" \in legs \/ "equipment" \in legs \/ "labor" \in legs
  BY DEF LegNames
<1>3. SumOver(f, legs) \in 1..3
  BY <1>1, <1>2 DEF SumOver, At
<1> QED BY <1>3 DEF f

\* The part of a leg before the remainder is in range, whatever its weight.
LEMMA PartInRange ==
  ASSUME NEW legs \in SUBSET LegNames, legs # {}, NEW b, \A l \in legs : b[l] \in Int,
         NEW total, InRange(total), NEW l \in legs
  PROVE  InRange(Part(b, total, legs, l))
<1> DEFINE w == Wrap(SumOver(b, legs))
           n == SumOver([k \in LegNames |-> 1], legs)
<1>1. w \in Int /\ n \in 1..3 /\ total \in Int
  BY SumInt, WrapShifts, CountLegs DEF InRange
<1>2. total * b[l] \in Int /\ InRange(Wrap(total * b[l]))
  BY <1>1, WrapShifts
<1>3. Part(b, total, legs, l) = IF w <= 0 THEN Quo(total, n) ELSE Quo(Wrap(total * b[l]), w)
  BY DEF Part
<1> HIDE DEF w, n
<1>4. CASE w <= 0
  <2>1. n \in Nat \ {0}
    BY <1>1
  <2> QED BY <1>3, <1>4, <2>1, QuoInRange
<1>5. CASE ~(w <= 0)
  <2>1. w \in Nat \ {0}
    BY <1>1, <1>5
  <2> QED BY <1>2, <1>3, <1>5, <2>1, QuoInRange
<1> QED BY <1>4, <1>5

\* The parts before the remainder, and what they sum to.
Parts(b, total, legs) == [l \in legs |-> Part(b, total, legs, l)]
Assigned(b, total, legs) == SumOver(Parts(b, total, legs), legs)

\* SplitTotal changes the part of the largest leg only.
SplitShape(b, total, legs, f, s, g, h) ==
  /\ g \in legs /\ s \in Int /\ total \in Int
  /\ \A l \in legs : f[l] \in Int /\ h[l] \in Int /\ f[l] = Part(b, total, legs, l)
  /\ \A l \in legs : l # g => h[l] = f[l]
  /\ h[g] = Wrap(f[g] + Wrap(total - Wrap(s)))
  /\ SumOver(h, legs) = s - f[g] + h[g]

LEMMA SplitParts ==
  ASSUME NEW legs \in SUBSET LegNames, legs # {}, NEW b, \A l \in legs : b[l] \in Int,
         NEW total, InRange(total)
  PROVE  SplitShape(b, total, legs, Parts(b, total, legs), Assigned(b, total, legs),
                    largest(b, legs), SplitTotal(b, total, legs))
<1> DEFINE f == Parts(b, total, legs)
           s == Assigned(b, total, legs)
           g == largest(b, legs)
           h == SplitTotal(b, total, legs)
<1>1. g \in legs /\ total \in Int
  BY LargestIn DEF InRange
<1>2. \A l \in legs : f[l] = Part(b, total, legs, l) /\ f[l] \in Int
  BY PartInRange DEF Parts, InRange
<1>3. s \in Int /\ s = SumOver(f, legs)
  BY <1>2, SumInt DEF Assigned
<1>4. Wrap(s) \in Int
  BY <1>3, WrapShifts DEF InRange
<1>5. Wrap(total - Wrap(s)) \in Int
  BY <1>1, <1>4, WrapShifts DEF InRange
<1>6. h = [l \in legs |-> IF l = g THEN Wrap(f[l] + Wrap(total - Wrap(s))) ELSE f[l]]
  BY <1>3 DEF SplitTotal, Parts
<1> HIDE DEF f, s, g, h
<1>7. Wrap(f[g] + Wrap(total - Wrap(s))) \in Int
  <2>1. f[g] + Wrap(total - Wrap(s)) \in Int
    BY <1>1, <1>2, <1>5
  <2> QED BY <2>1, WrapShifts DEF InRange
<1>8. /\ \A l \in legs : h[l] \in Int
      /\ \A l \in legs : l # g => h[l] = f[l]
      /\ h[g] = Wrap(f[g] + Wrap(total - Wrap(s)))
  BY <1>1, <1>2, <1>6, <1>7, Zenon
<1>9. SumOver(h, legs) = SumOver(f, legs) - f[g] + h[g]
  <2>1. \A l \in legs : f[l] \in Int /\ h[l] \in Int
    BY <1>2, <1>8
  <2> QED BY <1>1, <1>8, <2>1 DEF SumOver, At, LegNames
<1>10. SplitShape(b, total, legs, f, s, g, h)
  BY <1>1, <1>2, <1>3, <1>8, <1>9 DEF SplitShape
<1> QED BY <1>10 DEF f, s, g, h

\* The parts add up to the total in the machine's arithmetic, always.
LEMMA SplitWraps ==
  ASSUME NEW legs \in SUBSET LegNames, legs # {}, NEW b, \A l \in legs : b[l] \in Int,
         NEW total, InRange(total)
  PROVE  Wrap(SumOver(SplitTotal(b, total, legs), legs)) = total
<1> DEFINE f == Parts(b, total, legs)
           s == Assigned(b, total, legs)
           g == largest(b, legs)
           h == SplitTotal(b, total, legs)
<1>0. SplitShape(b, total, legs, f, s, g, h)
  BY SplitParts
<1> HIDE DEF f, s, g, h
<1>1. /\ s \in Int /\ f[g] \in Int /\ h[g] \in Int /\ total \in Int
      /\ h[g] = Wrap(f[g] + Wrap(total - Wrap(s)))
      /\ SumOver(h, legs) = s - f[g] + h[g]
  BY <1>0 DEF SplitShape
<1>2. PICK i \in Int : Wrap(s) = s + 2 * IntBound * i
  BY <1>1, WrapShifts
<1>3. Wrap(s) \in Int /\ IntBound \in Nat
  BY <1>1, WrapShifts, PricingAssumption DEF InRange
<1>4. PICK j \in Int : Wrap(total - Wrap(s)) = total - Wrap(s) + 2 * IntBound * j
  <2>1. total - Wrap(s) \in Int
    BY <1>1, <1>3
  <2> QED BY <2>1, WrapShifts
<1>5. f[g] + Wrap(total - Wrap(s)) \in Int
  BY <1>1, <1>3, <1>4
<1>6. PICK k \in Int : h[g] = f[g] + Wrap(total - Wrap(s)) + 2 * IntBound * k
  BY <1>1, <1>5, WrapShifts
<1>7. SumOver(h, legs) = total + 2 * IntBound * (k + j - i)
  <2>1. 2 * IntBound * (k + j - i)
          = 2 * IntBound * k + 2 * IntBound * j - 2 * IntBound * i
    BY <1>3
  <2>2. SumOver(h, legs) = total + 2 * IntBound * k + 2 * IntBound * j - 2 * IntBound * i
    BY <1>1, <1>2, <1>3, <1>4, <1>6
  <2> QED BY <1>1, <1>3, <2>1, <2>2
<1>8. \E m \in Int : SumOver(h, legs) = total + 2 * IntBound * m
  BY <1>7, k + j - i \in Int, Zenon
<1> QED BY <1>1, <1>8, WrapSame DEF h

\* Nothing wraps: the largest leg gets what the others leave.
LEMMA SplitPlain ==
  ASSUME NEW legs, NEW b, NEW total, NEW f, NEW s, NEW g, NEW h,
         SplitShape(b, total, legs, f, s, g, h),
         InRange(s), InRange(total - s), InRange(f[g] + (total - s))
  PROVE  h[g] = f[g] + (total - s) /\ SumOver(h, legs) = total
<1>1. Wrap(s) = s /\ Wrap(total - s) = total - s
  BY WrapInRange
<1>2. h[g] = f[g] + (total - s)
  BY <1>1, WrapInRange DEF SplitShape
<1> QED BY <1>2 DEF SplitShape

\* The even split of a weightless order.
LEMMA EvenSplit ==
  ASSUME NEW legs \in SUBSET LegNames, legs # {}, NEW b, \A l \in legs : b[l] \in Int,
         NEW total, InRange(total), Wrap(SumOver(b, legs)) <= 0
  PROVE  /\ SumOver(SplitTotal(b, total, legs), legs) = total
         /\ total >= 3 => \A l \in legs : SplitTotal(b, total, legs)[l] > 0
<1> DEFINE f == Parts(b, total, legs)
           s == Assigned(b, total, legs)
           g == largest(b, legs)
           h == SplitTotal(b, total, legs)
           n == SumOver([k \in LegNames |-> 1], legs)
           q == Quo(total, n)
<1>1. SplitShape(b, total, legs, f, s, g, h) /\ s = SumOver(f, legs)
  BY SplitParts DEF Assigned
<1>2. n \in 1..3 /\ n \in Nat \ {0} /\ total \in Int /\ IntBound \in Nat
  BY CountLegs, PricingAssumption DEF InRange
<1>3. n = (IF "transport" \in legs THEN 1 ELSE 0) + (IF "equipment" \in legs THEN 1 ELSE 0)
            + (IF "labor" \in legs THEN 1 ELSE 0)
  <2> DEFINE one == [k \in LegNames |-> 1]
  <2>1. one["transport"] = 1 /\ one["equipment"] = 1 /\ one["labor"] = 1
    BY DEF LegNames
  <2> HIDE DEF one
  <2>2. SumOver(one, legs) = (IF "transport" \in legs THEN 1 ELSE 0)
          + (IF "equipment" \in legs THEN 1 ELSE 0) + (IF "labor" \in legs THEN 1 ELSE 0)
    BY <2>1 DEF SumOver, At
  <2> QED BY <2>2 DEF one
<1>4. \A l \in legs : f[l] = q
  BY DEF Parts, Part
<1> HIDE DEF f, s, g, h, n
<1>5. \/ total >= 0 /\ q \in Nat /\ n * q <= total /\ total < n * q + n
      \/ total < 0 /\ q \in Int /\ q <= 0 /\ total <= n * q /\ n * q - n < total
  <2>1. CASE total >= 0
    <3>1. PICK x \in Int : total \div n = x /\ 0 <= total - n * x /\ total - n * x < n
      BY <1>2, Division, Zenon
    <3>2. q = x /\ q \in Nat
      BY <1>2, <2>1, <3>1, Quotient DEF Quo
    <3> QED BY <1>2, <2>1, <3>1, <3>2
  <2>2. CASE total < 0
    <3>1. -total \in Nat /\ -total \in Int
      BY <1>2, <2>2
    <3>2. PICK x \in Int : (-total) \div n = x /\ 0 <= -total - n * x /\ -total - n * x < n
      BY <1>2, <3>1, Division, Zenon
    <3>3. q = -x /\ x \in Nat
      BY <1>2, <2>2, <3>1, <3>2, Quotient DEF Quo
    <3> QED BY <1>2, <2>2, <3>2, <3>3
  <2> QED BY <1>2, <2>1, <2>2
<1> HIDE DEF q
<1>6. s = n * q /\ q \in Int
  BY <1>1, <1>3, <1>4, <1>5 DEF SumOver, At
<1>7. f[g] = q /\ g \in legs
  BY <1>1, <1>4 DEF SplitShape
<1>8. InRange(s) /\ InRange(total - s) /\ InRange(f[g] + (total - s))
  <2>1. CASE n = 1
    BY <1>2, <1>5, <1>6, <1>7, <2>1 DEF InRange
  <2>2. CASE n = 2
    BY <1>2, <1>5, <1>6, <1>7, <2>2 DEF InRange
  <2>3. CASE n = 3
    BY <1>2, <1>5, <1>6, <1>7, <2>3 DEF InRange
  <2> QED BY <1>2, <2>1, <2>2, <2>3
<1>9. h[g] = f[g] + (total - s) /\ SumOver(h, legs) = total
  BY <1>1, <1>8, SplitPlain
<1>10. ASSUME total >= 3, NEW l \in legs PROVE h[l] > 0
  <2>1. q > 0 /\ total - s >= 0
    BY <1>2, <1>5, <1>6, <1>10
  <2>2. h[l] = q \/ h[l] = q + (total - s)
    BY <1>1, <1>4, <1>7, <1>9 DEF SplitShape
  <2> QED BY <1>2, <1>6, <2>1, <2>2
<1> QED BY <1>9, <1>10 DEF h

\* A share of an amount.
LEMMA Share ==
  ASSUME NEW a \in Nat, NEW w \in Nat \ {0}
  PROVE  /\ Quo(a, w) \in Nat
         /\ w * Quo(a, w) <= a /\ a < w * Quo(a, w) + w
<1>1. PICK x \in Int : a \div w = x /\ 0 <= a - w * x /\ a - w * x < w
  BY Division
<1>2. Quo(a, w) = x /\ x \in Nat
  BY <1>1, Quotient DEF Quo
<1> QED BY <1>1, <1>2

\* Three shares of an amount in proportion to three weights leave a remainder
\* of less than one per weight.
LEMMA Shares ==
  ASSUME NEW T \in Nat, NEW w \in Nat \ {0},
         NEW b1 \in Int, NEW b2 \in Int, NEW b3 \in Int, w = b1 + b2 + b3,
         NEW x1 \in Nat, NEW x2 \in Nat, NEW x3 \in Nat,
         w * x1 <= T * b1, T * b1 < w * x1 + w,
         w * x2 <= T * b2, T * b2 < w * x2 + w,
         w * x3 <= T * b3, T * b3 < w * x3 + w
  PROVE  x1 + x2 + x3 <= T /\ T < x1 + x2 + x3 + 3
<1> DEFINE x == x1 + x2 + x3
<1>1. /\ T * w = T * b1 + T * b2 + T * b3
      /\ w * x = w * x1 + w * x2 + w * x3
  OBVIOUS
<1>2. w * x <= w * T /\ w * T < w * x + 3 * w /\ x \in Nat
  BY <1>1
<1> HIDE DEF x
<1>3. x <= T
  <2>1. x >= T + 1 => w * x >= w * T + w
    BY <1>2
  <2> QED BY <1>2, <2>1
<1>4. T < x + 3
  <2>1. T >= x + 3 => w * T >= w * x + 3 * w
    BY <1>2
  <2> QED BY <1>2, <2>1
<1> QED BY <1>3, <1>4 DEF x

\* The proportional split, when nothing overflows.
LEMMA FairSplit ==
  ASSUME NEW legs \in SUBSET LegNames, legs # {}, NEW b, \A l \in legs : b[l] \in Int,
         NEW total, InRange(total), Sane(b, total, legs), SumOver(b, legs) > 0
  PROVE  /\ SumOver(SplitTotal(b, total, legs), legs) = total
         /\ Fair(b, total, legs, SplitTotal(b, total, legs))
<1> DEFINE f == Parts(b, total, legs)
           s == Assigned(b, total, legs)
           g == largest(b, legs)
           h == SplitTotal(b, total, legs)
           w == SumOver(b, legs)
<1>1. SplitShape(b, total, legs, f, s, g, h) /\ s = SumOver(f, legs)
  BY SplitParts DEF Assigned
<1>2. /\ w \in Nat \ {0} /\ Wrap(w) = w /\ total \in Nat /\ IntBound \in Nat
      /\ \A l \in legs : b[l] \in Nat
  BY WrapInRange, PricingAssumption DEF InRange, Sane
<1>3. ASSUME NEW l \in legs
      PROVE  /\ f[l] \in Nat
             /\ w * f[l] <= total * b[l] /\ total * b[l] < w * f[l] + w
  <2>1. total * b[l] \in Nat /\ total * b[l] = b[l] * total
    BY <1>2
  <2>2. Wrap(total * b[l]) = total * b[l]
    BY <2>1, WrapInRange DEF Sane
  <2>3. f[l] = Quo(total * b[l], w)
    BY <1>2, <2>2 DEF Parts, Part
  <2> HIDE DEF f, w
  <2> QED BY <1>2, <2>1, <2>3, Share
<1>4. s <= total /\ total < s + 3 /\ s \in Nat /\ f[g] <= s /\ g \in legs /\ f[g] \in Nat
  <2> DEFINE B(l) == At(b, legs, l)
             F(l) == At(f, legs, l)
  <2>1. ASSUME NEW l \in LegNames
        PROVE  /\ B(l) \in Int /\ F(l) \in Nat
               /\ w * F(l) <= total * B(l) /\ total * B(l) < w * F(l) + w
    <3>1. CASE l \in legs
      BY <1>2, <1>3, <3>1 DEF At
    <3>2. CASE l \notin legs
      BY <1>2, <3>2 DEF At
    <3> QED BY <3>1, <3>2
  <2>2. /\ w = B("transport") + B("equipment") + B("labor")
        /\ s = F("transport") + F("equipment") + F("labor")
    BY <1>1 DEF SumOver
  <2>3. g \in legs /\ f[g] = F(g)
    BY <1>1 DEF SplitShape, At
  <2> HIDE DEF B, F, w, f, s, g
  <2>4. s <= total /\ total < s + 3
    <3>1. total \in Nat /\ w \in Nat \ {0}
      BY <1>2
    <3>2. {"transport", "equipment", "labor"} \subseteq LegNames
      BY DEF LegNames
    <3>3. /\ B("transport") \in Int /\ B("equipment") \in Int /\ B("labor") \in Int
          /\ F("transport") \in Nat /\ F("equipment") \in Nat /\ F("labor") \in Nat
      BY <2>1, <3>2
    <3>4. /\ w * F("transport") <= total * B("transport")
          /\ total * B("transport") < w * F("transport") + w
      BY <2>1, <3>2
    <3>5. /\ w * F("equipment") <= total * B("equipment")
          /\ total * B("equipment") < w * F("equipment") + w
      BY <2>1, <3>2
    <3>6. /\ w * F("labor") <= total * B("labor")
          /\ total * B("labor") < w * F("labor") + w
      BY <2>1, <3>2
    <3> QED BY <2>2, <3>1, <3>3, <3>4, <3>5, <3>6, Shares, ZenonT(60)
  <2> QED BY <2>1, <2>2, <2>3, <2>4 DEF LegNames
<1> HIDE DEF f, s, g, h, w
<1>5. h[g] = f[g] + (total - s) /\ SumOver(h, legs) = total
  <2>1. InRange(s) /\ InRange(total - s) /\ InRange(f[g] + (total - s))
    BY <1>2, <1>4 DEF InRange
  <2> QED BY <1>1, <2>1, SplitPlain
<1>6. ASSUME NEW l \in legs
      PROVE  /\ h[l] * w <= total * b[l] + 2 * w
             /\ l # g => h[l] * w <= total * b[l]
             /\ total * b[l] < (h[l] + 1) * w
  <2>1. CASE l # g
    <3>1. h[l] = f[l]
      BY <1>1, <2>1 DEF SplitShape
    <3>2. (f[l] + 1) * w = w * f[l] + w /\ f[l] * w = w * f[l]
      BY <1>2, <1>3
    <3> QED BY <1>2, <1>3, <2>1, <3>1, <3>2
  <2>2. CASE l = g
    <3>1. PICK r \in Nat : r = total - s
      BY <1>2, <1>4
    <3>2. r <= 2 /\ h[l] = f[l] + r
      BY <1>2, <1>4, <1>5, <2>2, <3>1
    <3>3. /\ h[l] * w = w * f[l] + r * w /\ (h[l] + 1) * w = w * f[l] + w + r * w
          /\ r * w <= 2 * w /\ r * w >= 0
      BY <1>2, <1>3, <3>2
    <3> QED BY <1>2, <1>3, <2>2, <3>3
  <2> QED BY <2>1, <2>2
<1>7. Fair(b, total, legs, h)
  BY <1>6 DEF Fair, w, g
<1> QED BY <1>5, <1>7 DEF h

\* As numbers the parts add up when the split is even or nothing overflows.
LEMMA SplitExact ==
  ASSUME NEW legs \in SUBSET LegNames, legs # {}, NEW b, \A l \in legs : b[l] \in Int,
         NEW total, InRange(total),
         Wrap(SumOver(b, legs)) <= 0 \/ Sane(b, total, legs)
  PROVE  SumOver(SplitTotal(b, total, legs), legs) = total
<1>1. CASE Wrap(SumOver(b, legs)) <= 0
  BY <1>1, EvenSplit
<1>2. CASE Sane(b, total, legs) /\ ~(Wrap(SumOver(b, legs)) <= 0)
  <2>1. SumOver(b, legs) > 0
    BY <1>2, WrapInRange DEF Sane, InRange
  <2> QED BY <1>2, <2>1, FairSplit
<1> QED BY <1>1, <1>2

-----------------------------------------------------------------------------
(* The quotes and the orders.                                              *)

\* A tariff is a whole number in range, from the table or compiled in.
LEMMA TariffInRange ==
  ASSUME NEW t \in TariffTables, NEW key, NEW fallback \in 0..25
  PROVE  InRange(Tariff(t, key, fallback)) /\ Tariff(t, key, fallback) \in Int
BY PricingAssumption DEF Tariff, InRange

\* Whatever is asked for, each leg weighs a whole number.
LEMMA EstimateInt ==
  ASSUME NEW t \in TariffTables, NEW in \in Inputs
  PROVE  \A l \in LegNames : Estimate(t, in)[l] \in Int
<1>1. in.weight \in Measure /\ in.hours \in Measure /\ in.work \in Measure
  BY PricingAssumption
<1>2. in.weight.n \in Int /\ in.hours.n \in Int /\ in.work.n \in Int
  BY <1>1 DEF Measure
<1>3. \A x \in Int : Wrap(x) \in Int
  BY WrapShifts DEF InRange
<1>4. ASSUME NEW n \in Int, NEW key, NEW fallback \in 0..25
      PROVE  n * Tariff(t, key, fallback) \in Int
  <2>1. Tariff(t, key, fallback) \in Int
    BY TariffInRange
  <2> QED BY <2>1
<1>5. Round(in.weight.n * Tariff(t, "transport_per_ton", 8), TonUnits) \in Int
  <2>1. in.weight.n * Tariff(t, "transport_per_ton", 8) \in Int
    BY <1>2, <1>4
  <2> QED BY <2>1, RoundInt, PricingAssumption
<1>6. /\ in.hours.n * Tariff(t, "equipment_hour", 25) \in Int
      /\ in.work.n * Tariff(t, "labor_hour_per_worker", 5) \in Int
  BY <1>2, <1>4
<1> QED BY <1>3, <1>5, <1>6 DEF Estimate, LegNames

\* The server's total is in range.
LEMMA TotalInRange ==
  ASSUME NEW t \in TariffTables, NEW in \in Inputs
  PROVE  InRange(Total(t, Estimate(t, in)))
<1>1. SumOver(Estimate(t, in), LegNames) \in Int
  BY EstimateInt, SumInt
<1>2. InRange(Wrap(SumOver(Estimate(t, in), LegNames)))
  BY <1>1, WrapShifts
<1>3. InRange(Tariff(t, "minimum_order", 10))
  BY TariffInRange
<1> QED BY <1>2, <1>3 DEF Total

\* A quote or an order: for this client's form, on a table that was in force.
Answer(a) ==
  /\ a.input = form /\ a.tariffs \in TariffTables /\ InRange(a.total)
  /\ a.parts = SplitTotal(Estimate(a.tariffs, a.input), a.total, InputLegs(a.input))

PricingInv ==
  /\ form \in Inputs /\ tariffs \in TariffTables
  /\ quote # Nothing => Answer(quote)
  /\ order # Nothing => Answer(order) /\ InputLegs(order.input) # {}

LEMMA PricingInit == Init => PricingInv
BY DEF Init, PricingInv

LEMMA PricingNext ==
  ASSUME PricingInv, [Next]_vars
  PROVE  PricingInv'
<1>0. /\ form \in Inputs /\ tariffs \in TariffTables
      /\ quote # Nothing => Answer(quote)
      /\ order # Nothing => Answer(order) /\ InputLegs(order.input) # {}
  BY DEF PricingInv
<1>1. CASE estimate
  <2>1. /\ quote'.input = form /\ quote'.tariffs = tariffs
        /\ quote'.total = Total(tariffs, Estimate(tariffs, form))
        /\ quote'.parts = SplitTotal(Estimate(tariffs, form), quote'.total, InputLegs(form))
    BY <1>1 DEF estimate, AnswerEstimate
  <2>2. InRange(quote'.total)
    BY <1>0, <2>1, TotalInRange
  <2>3. Answer(quote)'
    BY <1>0, <1>1, <2>1, <2>2 DEF estimate, Answer
  <2> QED BY <1>0, <1>1, <2>3 DEF estimate, PricingInv, Answer
<1>2. ASSUME NEW price, InRange(price), create(price) PROVE PricingInv'
  <2>1. /\ order'.input = form /\ order'.tariffs = tariffs
        /\ order'.total = IF price > 0 THEN price ELSE Total(tariffs, Estimate(tariffs, form))
        /\ order'.parts = SplitTotal(Estimate(tariffs, form), order'.total, InputLegs(form))
    BY <1>2 DEF create, Priced
  <2>2. InRange(order'.total)
    BY <1>0, <1>2, <2>1, TotalInRange
  <2>3. Answer(order)' /\ InputLegs(order'.input) # {}
    BY <1>0, <1>2, <2>1, <2>2 DEF create, Answer
  <2> QED BY <1>0, <1>2, <2>3 DEF create, PricingInv, Answer
<1>3. CASE createAsShown
  <2>1. InRange(quote.total) /\ create(quote.total)
    BY <1>0, <1>3 DEF createAsShown, Answer
  <2> QED BY <1>2, <2>1
<1>4. ASSUME NEW t \in TariffTables, SetTariffs(t) PROVE PricingInv'
  BY <1>0, <1>4 DEF SetTariffs, PricingInv, Answer
<1>5. CASE UNCHANGED vars
  BY <1>0, <1>5 DEF vars, PricingInv, Answer
<1>6. \A p \in ClientPrices : InRange(p)
  BY PricingAssumption
<1> QED BY <1>1, <1>2, <1>3, <1>4, <1>5, <1>6 DEF Next

\* What an order's split is made of.
LEMMA OrderSplit ==
  ASSUME PricingInv, order # Nothing, NEW b, b = Estimate(order.tariffs, order.input),
         NEW legs, legs = InputLegs(order.input)
  PROVE  /\ legs \in SUBSET LegNames /\ legs # {} /\ \A l \in legs : b[l] \in Int
         /\ InRange(order.total) /\ order.parts = SplitTotal(b, order.total, legs)
<1>1. legs \in SUBSET LegNames /\ legs # {}
  BY LegsOfInput DEF PricingInv
<1>2. \A l \in LegNames : b[l] \in Int
  BY EstimateInt DEF PricingInv, Answer
<1> QED BY <1>1, <1>2 DEF PricingInv, Answer

\* Whatever is asked for, quoted and changed: the parts of an order add up to
\* its total in the machine's arithmetic, and as numbers when the split is
\* even or nothing overflowed.
THEOREM PartsAlwaysAddUp == Spec => []PartsAddUp
<1>1. PricingInv => PartsAddUp
  <2> SUFFICES ASSUME PricingInv, order # Nothing,
                      NEW b, b = Estimate(order.tariffs, order.input),
                      NEW legs, legs = InputLegs(order.input),
                      NEW sum, sum = SumOver(order.parts, legs)
               PROVE  /\ Wrap(sum) = order.total
                      /\ (Wrap(SumOver(b, legs)) <= 0 \/ Sane(b, order.total, legs))
                           => sum = order.total
    BY DEF PartsAddUp
  <2>1. /\ legs \in SUBSET LegNames /\ legs # {} /\ \A l \in legs : b[l] \in Int
        /\ InRange(order.total) /\ order.parts = SplitTotal(b, order.total, legs)
    BY OrderSplit
  <2>2. Wrap(sum) = order.total
    BY <2>1, SplitWraps
  <2>3. ASSUME Wrap(SumOver(b, legs)) <= 0 \/ Sane(b, order.total, legs)
        PROVE  sum = order.total
    <3>1. SumOver(SplitTotal(b, order.total, legs), legs) = order.total
      BY <2>1, <2>3, SplitExact
    <3> QED BY <2>1, <3>1
  <2> QED BY <2>2, <2>3
<1> QED BY <1>1, PricingInit, PricingNext, PTL DEF Spec

\* When nothing overflows a leg gets its share rounded down, the largest leg
\* alone more, and less than one sum per leg.
THEOREM SplitAlwaysFair == Spec => []SplitIsFair
<1>1. PricingInv => SplitIsFair
  <2> SUFFICES ASSUME PricingInv, order # Nothing,
                      NEW b, b = Estimate(order.tariffs, order.input),
                      NEW legs, legs = InputLegs(order.input),
                      Sane(b, order.total, legs), SumOver(b, legs) > 0
               PROVE  Fair(b, order.total, legs, order.parts)
    BY DEF SplitIsFair
  <2>1. /\ legs \in SUBSET LegNames /\ legs # {} /\ \A l \in legs : b[l] \in Int
        /\ InRange(order.total) /\ order.parts = SplitTotal(b, order.total, legs)
    BY OrderSplit
  <2> QED BY <2>1, FairSplit
<1> QED BY <1>1, PricingInit, PricingNext, PTL DEF Spec

\* The even split of a weightless order pays every leg something.
THEOREM NobodyEverUnpaid == Spec => []NobodyUnpaid
<1>1. PricingInv => NobodyUnpaid
  <2> SUFFICES ASSUME PricingInv, order # Nothing,
                      NEW b, b = Estimate(order.tariffs, order.input),
                      NEW legs, legs = InputLegs(order.input),
                      SumOver(b, legs) <= 0, InRange(SumOver(b, legs)), order.total >= 3,
                      NEW l \in legs
               PROVE  order.parts[l] > 0
    BY DEF NobodyUnpaid
  <2>1. /\ legs \in SUBSET LegNames /\ legs # {} /\ \A k \in legs : b[k] \in Int
        /\ InRange(order.total) /\ order.parts = SplitTotal(b, order.total, legs)
    BY OrderSplit
  <2>2. Wrap(SumOver(b, legs)) <= 0
    BY WrapInRange
  <2> QED BY <2>1, <2>2, EvenSplit
<1> QED BY <1>1, PricingInit, PricingNext, PTL DEF Spec

\* What the client was shown per leg is what each executor is paid.
THEOREM QuoteAlwaysPaid == Spec => []QuoteIsPaid
<1>1. PricingInv => QuoteIsPaid
  BY DEF PricingInv, Answer, QuoteIsPaid
<1> QED BY <1>1, PricingInit, PricingNext, PTL DEF Spec
=============================================================================
