----------------------------- MODULE DashboardLemmas -----------------------------
(***************************************************************************)
(* What the operators of Dashboard compute, for all numbers: the bounds of *)
(* its roundings, the column sums as sums, and the range of the slider.    *)
(***************************************************************************)
EXTENDS DashboardProperties, SumTheorems

--------------------------------------------------------------------------------

\* What the user may type and choose, and where the slider may be.
LEMMA FieldsAre ==
  /\ \A a \in Amounts : a \in Nat
  /\ \A p \in Plans : p.kind \in {"off", "simple", "capitalized"} /\ p.percent \in 0 .. 99
  /\ \A p \in Positions : \E n \in 0 .. 20 : p = 5 * n
<1>1. \A p \in 0 .. 100 : p % 5 = 0 => \E n \in 0 .. 20 : p = 5 * n
  <2> SUFFICES ASSUME NEW p \in 0 .. 100, p % 5 = 0 PROVE \E n \in 0 .. 20 : p = 5 * n
    OBVIOUS
  <2>1. p = 5 * (p \div 5) /\ p \div 5 \in 0 .. 20
    OBVIOUS
  <2> QED
    BY <2>1
<1> QED
  BY <1>1, FieldsAssumption

\* What is left of the incomes may be a debt.
LEMMA DeltaInt ==
  ASSUME NEW s \in [Columns -> Nat]
  PROVE  Delta(s) \in Int
  BY DEF Delta, Columns

--------------------------------------------------------------------------------
(* Roundings. *)

\* The quotient that \div gives is the greatest one.
LEMMA Quotient ==
  ASSUME NEW a \in Int, NEW b \in Nat \ {0}, NEW k \in Int
  PROVE  /\ a \div b \in Int
         /\ k * b <= a => k <= a \div b
         /\ a < (k + 1) * b => a \div b <= k
<1> DEFINE q == a \div b
<1>1. q \in Int /\ b * q <= a /\ a < b * (q + 1)
  OBVIOUS
<1> HIDE DEF q
<1>2. ASSUME k * b <= a PROVE k <= q
  <2>1. ~(q + 1 <= k)
    <3> SUFFICES ASSUME q + 1 <= k PROVE FALSE
      OBVIOUS
    <3>1. (k - (q + 1)) * b >= 0
      BY <1>1
    <3> QED
      BY <1>1, <1>2, <3>1
  <2> QED
    BY <2>1, <1>1
<1>3. ASSUME a < (k + 1) * b PROVE q <= k
  <2>1. ~(k + 1 <= q)
    <3> SUFFICES ASSUME k + 1 <= q PROVE FALSE
      OBVIOUS
    <3>1. (q - (k + 1)) * b >= 0
      BY <1>1
    <3> QED
      BY <1>1, <1>3, <3>1
  <2> QED
    BY <2>1, <1>1
<1> QED
  BY <1>1, <1>2, <1>3 DEF q

\* Rounding loses at most half of the divisor.
LEMMA RoundDivError ==
  ASSUME NEW a \in Int, NEW b \in Nat \ {0}
  PROVE  /\ RoundDiv(a, b) \in Int
         /\ 2 * (b * RoundDiv(a, b)) <= 2 * a + b
         /\ 2 * a - b < 2 * (b * RoundDiv(a, b))
<1> DEFINE q == RoundDiv(a, b)
           d == 2 * b
<1>1. q = (2 * a + b) \div d
  BY DEF RoundDiv
<1>2. d \in Nat \ {0} /\ 2 * a + b \in Int
  OBVIOUS
<1>3. q \in Int /\ d * q <= 2 * a + b /\ 2 * a + b < d * (q + 1)
  <2> HIDE DEF q, d
  <2> QED
    BY <1>1, <1>2
<1>4. d * q = 2 * (b * q) /\ d * (q + 1) = 2 * (b * q) + 2 * b
  BY <1>3
<1> HIDE DEF q, d
<1>5. b * q \in Int
  BY <1>3
<1>6. 2 * (b * q) <= 2 * a + b /\ 2 * a - b < 2 * (b * q)
  BY <1>3, <1>4, <1>5
<1> QED
  BY <1>3, <1>6 DEF q

\* A quotient between two whole numbers is rounded to a number between them.
LEMMA RoundDivRange ==
  ASSUME NEW a \in Int, NEW b \in Nat \ {0}, NEW lo \in Int, NEW hi \in Int,
         lo * b <= a, a <= hi * b
  PROVE  RoundDiv(a, b) \in lo .. hi
<1>1. 2 * b \in Nat \ {0} /\ 2 * a + b \in Int
  OBVIOUS
<1>2. lo * (2 * b) <= 2 * a + b
  <2>1. lo * (2 * b) = 2 * (lo * b) /\ lo * b \in Int
    OBVIOUS
  <2> QED
    BY <2>1
<1>3. 2 * a + b < (hi + 1) * (2 * b)
  <2>1. (hi + 1) * (2 * b) = 2 * (hi * b) + 2 * b /\ hi * b \in Int
    OBVIOUS
  <2> QED
    BY <2>1
<1> QED
  BY <1>1, <1>2, <1>3, Quotient DEF RoundDiv

\* What is not negative is not rounded below 0.
LEMMA RoundDivNat ==
  ASSUME NEW a \in Nat, NEW b \in Nat \ {0}
  PROVE  RoundDiv(a, b) \in Nat
<1>1. a <= a * b /\ 0 * b <= a
  OBVIOUS
<1> QED
  BY <1>1, RoundDivRange

--------------------------------------------------------------------------------
(* The sums of the columns. *)

\* The fields of an item.
LEMMA ItemFields ==
  ASSUME NEW item \in Items
  PROVE  /\ item.amount \in Nat /\ item.currency \in Currencies
         /\ PerMonth[item.period] \in {<<1, 1>>, <<730, 1>>, <<365, 12>>, <<1, 3>>, <<1, 12>>}
<1>1. item \in [amount : Nat, currency : Currencies, period : DOMAIN PerMonth]
  BY ItemsAssumption
<1>2. \A p \in DOMAIN PerMonth :
        PerMonth[p] \in {<<1, 1>>, <<730, 1>>, <<365, 12>>, <<1, 3>>, <<1, 12>>}
  BY DEF PerMonth
<1> QED
  BY <1>1, <1>2

\* What an item adds to the sum of its column.
Share(item, currency) == RoundDiv(Converted(item, currency), 1000)

\* No conversion makes an amount negative.
LEMMA ShareNat ==
  ASSUME NEW item \in Items, NEW currency \in Currencies
  PROVE  Converted(item, currency) \in Nat /\ Share(item, currency) \in Nat
<1> DEFINE roubles == RoundDiv(item.amount * 1000 * Rate[item.currency], 10)
           monthly == RoundDiv(roubles * PerMonth[item.period][1], PerMonth[item.period][2])
<1>1. Rate[item.currency] \in Nat \ {0} /\ Rate[currency] \in Nat \ {0}
  BY RateAssumption, ItemFields
<1>2. roubles \in Nat
  <2>1. item.amount * 1000 * Rate[item.currency] \in Nat
    BY <1>1, ItemFields
  <2> QED
    BY <2>1, RoundDivNat
<1>3. monthly \in Nat
  <2> HIDE DEF roubles
  <2>1. PerMonth[item.period][1] \in Nat /\ PerMonth[item.period][2] \in Nat \ {0}
    BY ItemFields
  <2>2. roubles * PerMonth[item.period][1] \in Nat
    BY <1>2, <2>1
  <2> QED
    BY <2>1, <2>2, RoundDivNat
<1>4. Converted(item, currency) = RoundDiv(monthly * 10, Rate[currency])
  BY DEF Converted
<1> HIDE DEF monthly
<1>5. Converted(item, currency) \in Nat
  <2>1. monthly * 10 \in Nat
    BY <1>3
  <2> QED
    BY <1>1, <1>4, <2>1, RoundDivNat
<1> QED
  BY <1>5, RoundDivNat DEF Share

\* A column is a sequence of items.
LEMMA ColumnIs ==
  ASSUME NEW column \in ItemLists
  PROVE  /\ Len(column) \in Nat /\ DOMAIN column = 1 .. Len(column)
         /\ column \in [1 .. Len(column) -> Items]
<1>1. PICK n \in 0 .. MaxItems : column \in [1 .. n -> Items]
  BY DEF ItemLists
<1>2. n \in Nat /\ DOMAIN column = 1 .. n
  BY <1>1, BoundsAssumption
<1>3. Len(column) = n
  BY <1>1, <1>2
<1> QED
  BY <1>1, <1>2, <1>3

\* The sum of a column is the sum of its shares.
LEMMA ColumnSumIs ==
  ASSUME NEW column \in ItemLists, NEW currency \in Currencies
  PROVE  LET w == [i \in 1 .. Len(column) |-> Share(column[i], currency)]
         IN \E t : IsPartialSums(t, Len(column), w) /\ ColumnSum(column, currency) = t[Len(column)]
<1> DEFINE n == Len(column)
           w == [i \in 1 .. n |-> Share(column[i], currency)]
           Body(iter) == [s \in SUBSET DOMAIN column |->
                            IF s = {} THEN 0
                            ELSE iter[s \ {Max(s)}]
                                   + RoundDiv(Converted(column[Max(s)], currency), 1000)]
           fold == CHOOSE iter : iter = Body(iter)
<1>1. ColumnSum(column, currency) = fold[DOMAIN column]
  BY DEF ColumnSum, FoldLeft, MapThenFoldSet
<1>2. n \in Nat /\ DOMAIN column = 1 .. n /\ column \in [1 .. n -> Items]
  BY ColumnIs
<1>3. w \in [1 .. n -> Int]
  BY <1>2, ShareNat
<1>4. ASSUME NEW iter PROVE Body(iter) = [s \in SUBSET (1 .. n) |->
                              IF s = {} THEN 0 ELSE iter[s \ {Max(s)}] + w[Max(s)]]
  <2>1. ASSUME NEW s \in SUBSET (1 .. n), s # {}
        PROVE  RoundDiv(Converted(column[Max(s)], currency), 1000) = w[Max(s)]
    <3>1. Max(s) \in 1 .. n
      BY <1>2, <2>1, MaxIn
    <3> QED
      BY <3>1 DEF Share
  <2> DEFINE add(s) == RoundDiv(Converted(column[Max(s)], currency), 1000)
  <2>2. \A s \in SUBSET (1 .. n) : s # {} => add(s) = w[Max(s)]
    BY <2>1
  <2>3. Body(iter) = [s \in SUBSET (1 .. n) |->
                        IF s = {} THEN 0 ELSE iter[s \ {Max(s)}] + add(s)]
    BY <1>2
  <2> HIDE DEF w, n, add, Body
  <2> QED
    BY <2>2, <2>3
<1> HIDE DEF w
<1>5. \E iter : iter = Body(iter)
  <2>1. PICK iter : IsFold(iter, n, w)
    BY <1>2, <1>3, FoldExists
  <2> HIDE DEF Body
  <2>2. iter = Body(iter)
    BY <1>4, <2>1 DEF IsFold
  <2> QED
    BY <2>2
<1> HIDE DEF Body
<1>6. fold = Body(fold)
  BY <1>5
<1> HIDE DEF fold, n
<1>7. IsFold(fold, n, w)
  BY <1>4, <1>6 DEF IsFold
<1>8. \E t : IsPartialSums(t, n, w) /\ fold[1 .. n] = t[n]
  BY <1>2, <1>3, <1>7, FoldSums
<1> QED
  BY <1>1, <1>2, <1>8 DEF n, w

\* The sum that getConverted makes of a column, in any currency, is a natural number.
LEMMA ColumnSumNat ==
  ASSUME NEW column \in ItemLists, NEW currency \in Currencies
  PROVE  ColumnSum(column, currency) \in Nat
<1> DEFINE n == Len(column)
           w == [i \in 1 .. n |-> Share(column[i], currency)]
<1>1. n \in Nat /\ w \in [1 .. n -> Nat]
  BY ColumnIs, ShareNat
<1>2. PICK t : IsPartialSums(t, n, w) /\ ColumnSum(column, currency) = t[n]
  BY ColumnSumIs
<1> HIDE DEF n, w
<1> QED
  BY <1>1, <1>2, SumNat

\* runConvert levels the expenses after each column, the first time while they are
\* still 0: they end less than 10 from their sum.
THEOREM LevellingIsSmall ==
  ASSUME NEW in \in Nat, NEW out \in Nat
  PROVE  /\ Level(in, Level(in, 0) + out) \in Nat
         /\ Abs(Level(in, Level(in, 0) + out) - out) < 10
  BY DEF Level, Abs

\* So are the two sums that runConvert leaves, after levelling.
LEMMA SumsNat ==
  ASSUME NEW is \in [Columns -> ItemLists], NEW currency \in Currencies
  PROVE  Sums(is, currency) \in [Columns -> Nat]
<1>1. is["incomes"] \in ItemLists /\ is["expenses"] \in ItemLists
  BY DEF Columns
<1>2. ColumnSum(is["incomes"], currency) \in Nat /\ ColumnSum(is["expenses"], currency) \in Nat
  BY <1>1, ColumnSumNat
<1>3. Sums(is, currency) =
        [incomes |-> ColumnSum(is["incomes"], currency),
         expenses |-> Level(ColumnSum(is["incomes"], currency),
                            Level(ColumnSum(is["incomes"], currency), 0)
                              + ColumnSum(is["expenses"], currency))]
  BY DEF Sums
<1>4. \A in, out \in Nat :
        [incomes |-> in, expenses |-> Level(in, Level(in, 0) + out)] \in [Columns -> Nat]
  BY DEF Level, Columns, Abs
<1> QED
  BY <1>2, <1>3, <1>4

--------------------------------------------------------------------------------
(* The slider. *)

\* Where there is something to save, the share of a handle is a share of it.
LEMMA ShareAtNat ==
  ASSUME NEW p \in 0 .. 100, NEW delta \in Nat
  PROVE  ShareAt(p, delta, delta) \in 0 .. 100
<1>1. CASE delta = 0
  BY <1>1 DEF ShareAt
<1>2. CASE delta > 0
  <2> DEFINE value == RoundDiv(p * delta, 100)
  <2>1. 0 * 100 <= p * delta /\ p * delta <= delta * 100 /\ p * delta \in Int
    BY <1>2
  <2>2. value \in 0 .. delta
    <3> DEFINE a == p * delta
               b == 100
               lo == 0
    <3>1. lo * b <= a /\ a <= delta * b /\ a \in Int /\ b \in Nat \ {0} /\ lo \in Int /\ delta \in Int
      BY <2>1
    <3> HIDE DEF a, b, lo
    <3>2. RoundDiv(a, b) \in lo .. delta
      BY <3>1, RoundDivRange
    <3> QED
      BY <3>2 DEF a, b, lo
  <2>3. ShareAt(p, delta, delta) = (200 * value + delta - 1) \div (2 * delta)
    BY <1>2 DEF ShareAt
  <2> HIDE DEF value
  <2> DEFINE a == 200 * value + delta - 1
             b == 2 * delta
  <2>4. 0 * b <= a /\ a < (100 + 1) * b /\ b \in Nat \ {0} /\ a \in Int
    BY <1>2, <2>2
  <2> HIDE DEF a, b
  <2>5. a \div b \in Int /\ 0 <= a \div b /\ a \div b <= 100
    BY <2>4, Quotient
  <2> QED
    BY <2>3, <2>5 DEF a, b
<1> QED
  BY <1>1, <1>2

\* The share of a handle within the range is within 100 percent of the spare money,
\* also where changeCurrency builds the slider for a range below 0.
LEMMA ShareAtRange ==
  ASSUME NEW p \in 0 .. 100, NEW delta \in Int, NEW max \in {delta, Abs(delta)}
  PROVE  ShareAt(p, delta, max) \in -100 .. 100
<1> DEFINE value == RoundDiv(p * max, 100)
<1>1. ASSUME delta >= 0 PROVE ShareAt(p, delta, max) \in -100 .. 100
  <2>1. max = delta /\ delta \in Nat
    BY <1>1 DEF Abs
  <2>2. ShareAt(p, delta, delta) \in 0 .. 100
    BY <2>1, ShareAtNat
  <2> QED
    BY <2>1, <2>2
<1>2. ASSUME delta < 0 PROVE ShareAt(p, delta, max) \in -100 .. 100
  <2>1. max \in {delta, -delta}
    BY <1>2 DEF Abs
  <2>2. delta * 100 <= p * max /\ p * max <= (-delta) * 100 /\ p * max \in Int
    <3>1. p * delta >= 100 * delta /\ p * delta <= 0 /\ p * delta \in Int
      <4>1. (100 - p) * delta <= 0 /\ p * delta <= 0
        BY <1>2
      <4> QED
        BY <4>1
    <3>2. p * (-delta) = -(p * delta)
      OBVIOUS
    <3> QED
      BY <1>2, <2>1, <3>1, <3>2
  <2>3. value \in delta .. -delta
    BY <2>2, RoundDivRange
  <2>4. ShareAt(p, delta, max) = -RoundDiv(100 * value, -delta)
    BY <1>2 DEF ShareAt
  <2> HIDE DEF value
  <2>5. -delta \in Nat \ {0} /\ 100 * value \in Int
    BY <1>2, <2>3
  <2>6. (-100) * (-delta) <= 100 * value /\ 100 * value <= 100 * (-delta)
    BY <1>2, <2>3
  <2>7. RoundDiv(100 * value, -delta) \in -100 .. 100
    <3> DEFINE a == 100 * value
               b == -delta
               lo == -100
               hi == 100
    <3>1. a \in Int /\ b \in Nat \ {0} /\ lo \in Int /\ hi \in Int
      BY <2>5
    <3>2. lo * b <= a /\ a <= hi * b
      BY <2>6
    <3> HIDE DEF a, b, lo, hi
    <3>3. RoundDiv(a, b) \in lo .. hi
      BY <3>1, <3>2, RoundDivRange
    <3> QED
      BY <3>3 DEF a, b, lo, hi
  <2> QED
    BY <2>4, <2>7
<1> QED
  BY <1>1, <1>2

\* The handle never leaves the range.
LEMMA HandleRange ==
  ASSUME NEW s \in -100 .. 100, NEW delta \in Int, NEW max \in {delta, Abs(delta)}
  PROVE  Handle(s, delta, max) \in 0 .. 100
<1> DEFINE percent == IF max = delta THEN s ELSE -s
<1>1. Handle(s, delta, max) \in {100, 0}
      \/ (percent >= 0 /\ Handle(s, delta, max) = Snapped(percent))
  <2>1. max \in Int /\ s * delta \in Int
    BY DEF Abs
  <2> QED
    BY <2>1 DEF Handle
<1>2. ASSUME percent >= 0 PROVE Snapped(percent) \in 0 .. 100
  BY <1>2 DEF Snapped, RoundDiv
<1> QED
  BY <1>1, <1>2

\* A slider built anew keeps its share within 100 percent, of savings or of a debt.
LEMMA RebuiltRange ==
  ASSUME NEW s \in -100 .. 100, NEW delta \in Int, NEW max \in {delta, Abs(delta)}
  PROVE  Rebuilt(s, delta, max) \in -100 .. 100
  BY ShareAtRange, HandleRange DEF Rebuilt

--------------------------------------------------------------------------------
(* What the roundings cost. *)

\* The exact monthly amount of an item, in 1/120 of a rouble.
Exact(item) ==
  item.amount * Rate[item.currency] * PerMonth[item.period][1]
    * (12 \div PerMonth[item.period][2])

\* What an item is worth in a month, before any rounding.
LEMMA ExactNat ==
  ASSUME NEW item \in Items
  PROVE  Exact(item) \in Nat
<1>1. item.amount \in Nat /\ Rate[item.currency] \in Nat
  BY ItemFields, RateAssumption
<1>2. PerMonth[item.period][1] \in Nat /\ 12 \div PerMonth[item.period][2] \in Nat
  BY ItemFields
<1>3. item.amount * Rate[item.currency] \in Nat
  BY <1>1
<1> DEFINE a == item.amount * Rate[item.currency]
<1>4. Exact(item) = a * PerMonth[item.period][1] * (12 \div PerMonth[item.period][2])
  BY DEF Exact
<1> HIDE DEF a
<1> QED
  BY <1>2, <1>3, <1>4 DEF a

\* The sum that SumsFit compares with is the last of the partial sums of the items' worths.
LEMMA ExactSumIs ==
  ASSUME NEW column \in ItemLists
  PROVE  LET v == [i \in 1 .. Len(column) |-> Exact(column[i])]
         IN \E u : IsPartialSums(u, Len(column), v) /\ ExactSum(column) = u[Len(column)]
<1> DEFINE n == Len(column)
           v == [i \in 1 .. n |-> Exact(column[i])]
           Add(item) == item.amount * Rate[item.currency] * PerMonth[item.period][1]
                          * (12 \div PerMonth[item.period][2])
           Body(iter) == [s \in SUBSET DOMAIN column |->
                            IF s = {} THEN 0 ELSE iter[s \ {Max(s)}] + Add(column[Max(s)])]
           fold == CHOOSE iter : iter = Body(iter)
<1>1. ExactSum(column) = fold[DOMAIN column]
  BY DEF ExactSum, FoldLeft, MapThenFoldSet
<1>2. n \in Nat /\ DOMAIN column = 1 .. n /\ column \in [1 .. n -> Items]
  BY ColumnIs
<1>3. v \in [1 .. n -> Int]
  BY <1>2, ExactNat
<1>4. ASSUME NEW iter PROVE Body(iter) = [s \in SUBSET (1 .. n) |->
                              IF s = {} THEN 0 ELSE iter[s \ {Max(s)}] + v[Max(s)]]
  <2>1. ASSUME NEW s \in SUBSET (1 .. n), s # {}
        PROVE  Add(column[Max(s)]) = v[Max(s)]
    <3>1. Max(s) \in 1 .. n
      BY <1>2, <2>1, MaxIn
    <3>2. Add(column[Max(s)]) = Exact(column[Max(s)])
      BY DEF Exact
    <3> HIDE DEF Add
    <3> QED
      BY <3>1, <3>2
  <2> DEFINE add(s) == Add(column[Max(s)])
  <2>2. \A s \in SUBSET (1 .. n) : s # {} => add(s) = v[Max(s)]
    BY <2>1
  <2>3. Body(iter) = [s \in SUBSET (1 .. n) |->
                        IF s = {} THEN 0 ELSE iter[s \ {Max(s)}] + add(s)]
    BY <1>2
  <2> HIDE DEF v, n, add, Body
  <2> QED
    BY <2>2, <2>3
<1> HIDE DEF v
<1>5. \E iter : iter = Body(iter)
  <2>1. PICK iter : IsFold(iter, n, v)
    BY <1>2, <1>3, FoldExists
  <2> HIDE DEF Body
  <2>2. iter = Body(iter)
    BY <1>4, <2>1 DEF IsFold
  <2> QED
    BY <2>2
<1> HIDE DEF Body
<1>6. fold = Body(fold)
  BY <1>5
<1> HIDE DEF fold, n
<1>7. IsFold(fold, n, v)
  BY <1>4, <1>6 DEF IsFold
<1>8. \E u : IsPartialSums(u, n, v) /\ fold[1 .. n] = u[n]
  BY <1>2, <1>3, <1>7, FoldSums
<1> QED
  BY <1>1, <1>2, <1>8 DEF n, v

\* Three roundings one after the other, in the units of the result.
LEMMA ThreeRoundings ==
  ASSUME NEW x \in Nat, NEW e \in Nat, NEW r \in Nat \ {0},
         NEW frac \in {<<1, 1>>, <<730, 1>>, <<365, 12>>, <<1, 3>>, <<1, 12>>},
         100 * e = x * frac[1] * (12 \div frac[2])
  PROVE  LET s == RoundDiv(RoundDiv(RoundDiv(x * frac[1], frac[2]) * 10, r), 1000)
         IN e - 12 * r <= 12 * r * s /\ 12 * r * s <= e + 12 * r
<1> DEFINE m == RoundDiv(x * frac[1], frac[2])
           c == RoundDiv(m * 10, r)
           s == RoundDiv(c, 1000)
<1>1. m \in Int /\ 12 * m <= 100 * e + 6 /\ 100 * e - 6 <= 12 * m
  <2>1. frac[1] \in Nat /\ frac[2] \in {1, 3, 12}
    OBVIOUS
  <2> DEFINE y == x * frac[1]
             b == frac[2]
  <2>2. b \in {1, 3, 12} /\ 100 * e = y * (12 \div b)
    BY <2>1
  <2>3. y \in Int /\ b \in Nat \ {0}
    BY <2>1
  <2> HIDE DEF y, b
  <2>4. /\ RoundDiv(y, b) \in Int
        /\ 2 * (b * RoundDiv(y, b)) <= 2 * y + b
        /\ 2 * y - b < 2 * (b * RoundDiv(y, b))
    BY <2>3, RoundDivError
  <2>5. b = 1 \/ b = 3 \/ b = 12
    BY <2>2
  <2>6. /\ RoundDiv(y, b) \in Int
        /\ 12 * RoundDiv(y, b) <= 100 * e + 6 /\ 100 * e - 6 <= 12 * RoundDiv(y, b)
    BY <2>2, <2>4, <2>5, <2>3
  <2> QED
    BY <2>6 DEF y, b
<1> HIDE DEF m
<1>2. c \in Int /\ 2 * (r * c) <= 20 * m + r /\ 20 * m - r < 2 * (r * c)
  <2>1. m * 10 \in Int /\ 2 * (m * 10) = 20 * m
    BY <1>1
  <2> QED
    BY <2>1, RoundDivError
<1> HIDE DEF c
<1>3. s \in Int /\ 2000 * s <= 2 * c + 1000 /\ 2 * c - 1000 < 2000 * s
  <2> DEFINE b == 1000
  <2>1. b \in Nat \ {0}
    OBVIOUS
  <2> HIDE DEF b
  <2>2. RoundDiv(c, b) \in Int /\ 2 * (b * RoundDiv(c, b)) <= 2 * c + b
        /\ 2 * c - b < 2 * (b * RoundDiv(c, b))
    BY <1>2, <2>1, RoundDivError
  <2> QED
    BY <2>2 DEF b
<1> HIDE DEF s
<1>4. r * (2000 * s) <= r * (2 * c + 1000) /\ r * (2 * c - 1000) <= r * (2000 * s)
  BY <1>2, <1>3
<1> DEFINE rs == r * s
           rc == r * c
<1>5. rs \in Int /\ rc \in Int /\ 12 * r * s = 12 * rs
  BY <1>2, <1>3
<1>6. 2000 * rs <= 2 * rc + 1000 * r /\ 2 * rc - 1000 * r <= 2000 * rs
  <2>1. r * (2000 * s) = 2000 * rs
    BY <1>3
  <2>2. r * (2 * c + 1000) = 2 * rc + 1000 * r /\ r * (2 * c - 1000) = 2 * rc - 1000 * r
    BY <1>2
  <2> QED
    BY <1>4, <2>1, <2>2
<1>7. 2 * rc <= 20 * m + r /\ 20 * m - r < 2 * rc
  BY <1>2
<1> HIDE DEF rs, rc
<1>8. e - 12 * r <= 12 * rs /\ 12 * rs <= e + 12 * r
  BY <1>1, <1>5, <1>6, <1>7
<1> QED
  BY <1>5, <1>8 DEF s, c, m

\* What an item adds to a column is right up to one unit.
LEMMA ShareError ==
  ASSUME NEW item \in Items, NEW currency \in Currencies
  PROVE  /\ Exact(item) - 12 * Rate[currency] <= 12 * Rate[currency] * Share(item, currency)
         /\ 12 * Rate[currency] * Share(item, currency) <= Exact(item) + 12 * Rate[currency]
<1> DEFINE a == item.amount * Rate[item.currency]
           x == 100 * a
           frac == PerMonth[item.period]
           r == Rate[currency]
           e == Exact(item)
<1>1. a \in Nat /\ r \in Nat \ {0}
  BY RateAssumption, ItemFields
<1>2. item.amount * 1000 * Rate[item.currency] = 1000 * a
  BY RateAssumption, ItemFields
<1>3. RoundDiv(1000 * a, 10) = x
  <2> HIDE DEF a
  <2> DEFINE b == 10
             y == 1000 * a
  <2>1. y \in Int /\ b \in Nat \ {0}
    BY <1>1
  <2> HIDE DEF b, y
  <2>2. RoundDiv(y, b) \in Int /\ 2 * (b * RoundDiv(y, b)) <= 2 * y + b
        /\ 2 * y - b < 2 * (b * RoundDiv(y, b))
    BY <2>1, RoundDivError
  <2>3. /\ RoundDiv(1000 * a, 10) \in Int
        /\ 20 * RoundDiv(1000 * a, 10) <= 2000 * a + 10
        /\ 2000 * a - 10 < 20 * RoundDiv(1000 * a, 10)
    BY <1>1, <2>2 DEF b, y
  <2> QED
    BY <1>1, <2>3
<1>4. Share(item, currency) = RoundDiv(RoundDiv(RoundDiv(x * frac[1], frac[2]) * 10, r), 1000)
  BY <1>2, <1>3 DEF Share, Converted
<1>5. e = a * frac[1] * (12 \div frac[2])
  BY DEF Exact
<1>6. frac \in {<<1, 1>>, <<730, 1>>, <<365, 12>>, <<1, 3>>, <<1, 12>>} /\ e \in Nat
  BY ItemFields, ExactNat
<1> HIDE DEF a, frac, r, e
<1>7. 100 * e = x * frac[1] * (12 \div frac[2])
  <2>1. frac[1] \in Nat /\ 12 \div frac[2] \in Nat
    BY <1>6
  <2> QED
    BY <1>1, <1>5, <2>1
<1>8. x \in Nat
  BY <1>1
<1> HIDE DEF x
<1>9. LET s == RoundDiv(RoundDiv(RoundDiv(x * frac[1], frac[2]) * 10, r), 1000)
      IN e - 12 * r <= 12 * r * s /\ 12 * r * s <= e + 12 * r
  BY <1>1, <1>6, <1>7, <1>8, ThreeRoundings
<1> QED
  BY <1>4, <1>9 DEF e, r

\* A column's sum is right up to one unit for each item.
LEMMA ColumnSumError ==
  ASSUME NEW column \in ItemLists, NEW currency \in Currencies
  PROVE  LET d == 12 * Rate[currency]
         IN /\ ExactSum(column) \in Int
            /\ ExactSum(column) - Len(column) * d <= d * ColumnSum(column, currency)
            /\ d * ColumnSum(column, currency) <= ExactSum(column) + Len(column) * d
<1> DEFINE n == Len(column)
           d == 12 * Rate[currency]
           w == [i \in 1 .. n |-> Share(column[i], currency)]
           v == [i \in 1 .. n |-> Exact(column[i])]
<1>1. n \in Nat /\ column \in [1 .. n -> Items] /\ d \in Int
  BY ColumnIs, RateAssumption
<1>2. w \in [1 .. n -> Int] /\ v \in [1 .. n -> Int]
  BY <1>1, ShareNat, ExactNat
<1>3. \A i \in 1 .. n : v[i] - d <= d * w[i] /\ d * w[i] <= v[i] + d
  BY <1>1, ShareError
<1>4. PICK t : IsPartialSums(t, n, w) /\ ColumnSum(column, currency) = t[n]
  BY ColumnSumIs
<1>5. PICK u : IsPartialSums(u, n, v) /\ ExactSum(column) = u[n]
  BY ExactSumIs
<1> HIDE DEF n, d, w, v
<1>6. u[n] - n * d <= d * t[n] /\ d * t[n] <= u[n] + n * d
  BY <1>1, <1>2, <1>3, <1>4, <1>5, SumsApart
<1>7. u[n] \in Int
  BY <1>1, <1>5 DEF IsPartialSums
<1> QED
  BY <1>4, <1>5, <1>6, <1>7 DEF n, d

--------------------------------------------------------------------------------
(* The forecast. *)

\* The months of a deposit: parseInt cuts each month's savings to whole units.
IsDeposit(d, m, interest, refill) ==
  d = [i \in 0 .. 12 |->
         IF i = 0 THEN 1200 * m ELSE Whole(d[i - 1], 1200) * (1200 + interest) + refill]

\* parseInt of an amount in 1/1200 of a unit.
LEMMA WholeInt ==
  ASSUME NEW a \in Int
  PROVE  Whole(a, 1200) \in Int
  BY DEF Whole

\* The forecast's loop over the months, from any savings, interest and monthly refill, has a result.
LEMMA DepositExists ==
  ASSUME NEW m \in Int, NEW interest \in Int, NEW refill \in Int
  PROVE  \E d : IsDeposit(d, m, interest, refill)
<1> DEFINE next == [x \in Int |-> Whole(x, 1200) * (1200 + interest) + refill]
           step == [i \in 1 .. 12 |-> next]
<1>1. next \in [Int -> Int]
  BY WholeInt
<1>2. step \in [1 .. 12 -> [Int -> Int]]
  <2> HIDE DEF next
  <2> QED
    BY <1>1
<1>3. PICK d \in [0 .. 12 -> Int] : IsIteration(d, 12, 1200 * m, step)
  <2> DEFINE n == 12
             first == 1200 * m
  <2>1. n \in Nat /\ first \in Int /\ step \in [1 .. n -> [Int -> Int]]
    BY <1>2
  <2> HIDE DEF step, n, first
  <2>2. \E d \in [0 .. n -> Int] : IsIteration(d, n, first, step)
    BY <2>1, IterationExists
  <2> QED
    BY <2>2 DEF n, first
<1>4. \A i \in 1 .. 12 : step[i][d[i - 1]] = Whole(d[i - 1], 1200) * (1200 + interest) + refill
  OBVIOUS
<1>5. d = [i \in 0 .. 12 |-> IF i = 0 THEN 1200 * m ELSE step[i][d[i - 1]]]
  BY <1>3 DEF IsIteration
<1> HIDE DEF step
<1>6. IsDeposit(d, m, interest, refill)
  BY <1>4, <1>5 DEF IsDeposit
<1> QED
  BY <1>6

\* The twelfth month for each kind of deposit, when the month leaves something.
LEMMA YearIs ==
  ASSUME NEW g, g.delta \in Nat, g.money \in Nat, g.share \in Nat, g.plan.percent \in Nat
  PROVE  LET refill == 12 * g.delta * g.share
         IN /\ g.plan.kind = "off" =>
                 \E d : IsDeposit(d, g.money, 0, 12 * g.delta * 100) /\ MonthSavings(g)[12] = d[12]
            /\ g.plan.kind = "simple" => MonthSavings(g)[12] = LastMonth(g)
            /\ g.plan.kind = "capitalized" =>
                 \E d : /\ IsDeposit(d, g.money, g.plan.percent, refill)
                        /\ MonthSavings(g)[12] = d[12] + 12 * (1200 * g.delta - refill)
<1> DEFINE kind == IF g.delta < 0 THEN "off" ELSE g.plan.kind
           interest == IF kind = "capitalized" THEN g.plan.percent ELSE 0
           refill == 12 * g.delta * (IF kind = "off" THEN 100 ELSE g.share)
           d == CHOOSE d : d = [i \in 0 .. 12 |->
                  IF i = 0 THEN 1200 * g.money
                  ELSE Whole(d[i - 1], 1200) * (1200 + interest) + refill]
<1>1. kind = g.plan.kind
  OBVIOUS
<1>2. interest \in Int /\ refill \in Int
  OBVIOUS
<1>3. IsDeposit(d, g.money, interest, refill)
  <2> HIDE DEF kind, interest, refill
  <2>1. \E x : IsDeposit(x, g.money, interest, refill)
    BY <1>2, DepositExists
  <2> QED
    BY <2>1 DEF IsDeposit
<1>4. /\ kind = "off" => MonthSavings(g)[12] = d[12]
      /\ kind = "capitalized" => MonthSavings(g)[12] = d[12] + 12 * (1200 * g.delta - refill)
      /\ kind = "simple" => MonthSavings(g)[12] = LastMonth(g)
  <2> DEFINE all == [i \in 0 .. 12 |->
                       CASE kind = "off"                -> d[i]
                         [] kind = "capitalized"        -> d[i] + i * (1200 * g.delta - refill)
                         [] kind = "simple" /\ i < 12   -> d[i]
                         [] kind = "simple" /\ i = 12   -> LastMonth(g)]
  <2>1. MonthSavings(g) = all
    BY DEF MonthSavings
  <2> HIDE DEF d, kind, refill
  <2>2. ASSUME kind = "off" PROVE all[12] = d[12]
    BY <2>2
  <2>3. ASSUME kind = "capitalized" PROVE all[12] = d[12] + 12 * (1200 * g.delta - refill)
    BY <2>3
  <2>4. ASSUME kind = "simple" PROVE all[12] = LastMonth(g)
    BY <2>4
  <2> QED
    BY <2>1, <2>2, <2>3, <2>4
<1> HIDE DEF d
<1>5. CASE g.plan.kind = "off"
  BY <1>1, <1>3, <1>4, <1>5
<1>6. CASE g.plan.kind = "capitalized"
  BY <1>1, <1>3, <1>4, <1>6
<1>7. CASE g.plan.kind = "simple"
  BY <1>1, <1>4, <1>7
<1> QED
  BY <1>5, <1>6, <1>7

\* Without interest nothing is cut off.
LEMMA YearOff ==
  ASSUME NEW m \in Nat, NEW delta \in Nat, NEW d, IsDeposit(d, m, 0, 12 * delta * 100)
  PROVE  d[12] = 1200 * m + 14400 * delta
<1> DEFINE Month(k) == d[k] = 1200 * (m + k * delta)
           K == {k \in Nat : k <= 12 => Month(k)}
<1>1. Month(0)
  BY DEF IsDeposit
<1>2. ASSUME NEW k \in Nat, k + 1 <= 12, Month(k) PROVE Month(k + 1)
  <2> DEFINE whole == m + k * delta
  <2>1. whole \in Nat
    OBVIOUS
  <2>2. d[k] = 1200 * whole
    BY <1>2
  <2>3. d[k + 1] = Whole(d[k], 1200) * 1200 + 1200 * delta
    BY <1>2 DEF IsDeposit
  <2>4. (k + 1) * delta = k * delta + delta /\ k * delta \in Nat
    OBVIOUS
  <2>5. m + (k + 1) * delta = whole + delta
    BY <2>4
  <2> HIDE DEF whole
  <2>6. Whole(1200 * whole, 1200) = whole
    BY <2>1 DEF Whole
  <2>7. d[k + 1] = 1200 * (whole + delta)
    BY <2>1, <2>2, <2>3, <2>6
  <2> QED
    BY <2>5, <2>7
<1>3. Nat \subseteq K
  <2> HIDE DEF Month
  <2>1. 0 \in K /\ \A k \in Nat : k \in K => k + 1 \in K
    BY <1>1, <1>2
  <2> HIDE DEF K
  <2> QED
    BY <2>1, Induction
<1>4. Month(12)
  <2> HIDE DEF Month
  <2> QED
    BY <1>3
<1> QED
  BY <1>4

\* One more month: v is what is left after the cut, w in whole units, and the bounds are
\* those of j months, of j * (j - 1) = t times half a month's refill.
LEMMA MonthOfInterest ==
  ASSUME NEW m \in Nat, NEW p \in Nat, NEW refill \in Nat, NEW j \in Nat, NEW t \in Nat,
         NEW v \in Nat, NEW w \in Nat, v = 1200 * w,
         v >= 1200 * m + j * refill - 1199 * j,
         2400 * v >= 2400 * (1200 * m + j * refill + j * (p * m)) + t * (p * refill)
                       - 2400 * (1199 * j) - 1199 * (t * p)
  PROVE  LET next == v + w * p + refill
             k == j + 1
             u == t + 2 * j
         IN /\ next >= 1200 * m + k * refill - 1199 * j
            /\ 2400 * next >= 2400 * (1200 * m + k * refill + k * (p * m)) + u * (p * refill)
                                - 2400 * (1199 * j) - 1199 * (u * p)
<1> DEFINE pm == p * m
           pr == p * refill
           jr == j * refill
           jpm == j * pm
           jpr == j * pr
           tpr == t * pr
           jp == j * p
           tp == t * p
           wp == w * p
<1>1. pm \in Nat /\ pr \in Nat /\ jr \in Nat /\ jp \in Nat /\ tp \in Nat /\ wp \in Nat
  OBVIOUS
<1>2. jpm \in Nat /\ jpr \in Nat /\ tpr \in Nat
  <2> HIDE DEF pm, pr
  <2> QED
    BY <1>1
<1>3. p * v >= 1200 * pm + jpr - 1199 * jp
  <2> DEFINE low == 1200 * m + j * refill - 1199 * j
  <2>1. p * v >= p * low
    <3>1. low \in Int /\ v - low >= 0
      OBVIOUS
    <3> HIDE DEF low
    <3>2. p * (v - low) >= 0
      BY <3>1
    <3>3. p * (v - low) = p * v - p * low
      BY <3>1
    <3>4. p * v \in Int /\ p * low \in Int
      BY <3>1
    <3> QED
      BY <3>2, <3>3, <3>4
  <2>2. p * low = 1200 * pm + jpr - 1199 * jp
    OBVIOUS
  <2> QED
    BY <2>1, <2>2
<1>4. p * v = 1200 * wp
  OBVIOUS
<1>5. (j + 1) * refill = jr + refill /\ (j + 1) * pm = jpm + pm
  <2> HIDE DEF pm
  <2> QED
    BY <1>1
<1>6. (t + 2 * j) * pr = tpr + 2 * jpr /\ (t + 2 * j) * p = tp + 2 * jp
  <2> HIDE DEF pr
  <2> QED
    BY <1>1
<1>7. /\ v >= 1200 * m + jr - 1199 * j
      /\ 2400 * v >= 2400 * (1200 * m + jr + jpm) + tpr - 2400 * (1199 * j) - 1199 * tp
  OBVIOUS
<1> DEFINE next == v + w * p + refill
<1>8. next = v + wp + refill
  OBVIOUS
<1>9. /\ next >= 1200 * m + (jr + refill) - 1199 * j
      /\ 2400 * next >= 2400 * (1200 * m + (jr + refill) + (jpm + pm)) + (tpr + 2 * jpr)
                          - 2400 * (1199 * j) - 1199 * (tp + 2 * jp)
  <2> HIDE DEF pm, pr, jr, jpm, jpr, tpr, jp, tp, wp, next
  <2> QED
    BY <1>1, <1>2, <1>3, <1>4, <1>7, <1>8
<1> HIDE DEF jr, jpm, jpr, tpr, jp, tp, wp
<1> QED
  BY <1>5, <1>6, <1>9

\* What a year with capitalization brings at least, in 1/2400 of 1/1200 of a unit.
LEMMA YearCapitalized ==
  ASSUME NEW m \in Nat, NEW p \in Nat, NEW refill \in Nat,
         NEW d, IsDeposit(d, m, p, refill)
  PROVE  /\ d[12] \in Int
         /\ 2400 * d[12] >= 2400 * (1200 * m + 12 * refill + 12 * (p * m)) + 132 * (p * refill)
                              - 2400 * (1199 * 11) - 1199 * (132 * p)
<1> DEFINE w(k) == Whole(d[k], 1200)
           AfterCut(k, t) ==
             /\ d[k] \in Nat /\ w(k) \in Nat
             /\ 1200 * w(k) >= 1200 * m + k * refill - 1199 * k
             /\ 2400 * (1200 * w(k)) >= 2400 * (1200 * m + k * refill + k * (p * m)) + t * (p * refill)
                                          - 2400 * (1199 * k) - 1199 * (t * p)
           BeforeCut(k, t) ==
             /\ d[k + 1] \in Nat
             /\ d[k + 1] >= 1200 * m + (k + 1) * refill - 1199 * k
             /\ 2400 * d[k + 1] >= 2400 * (1200 * m + (k + 1) * refill + (k + 1) * (p * m))
                                     + (t + 2 * k) * (p * refill)
                                     - 2400 * (1199 * k) - 1199 * ((t + 2 * k) * p)
<1>1. AfterCut(0, 0)
  <2>1. d[0] = 1200 * m
    BY DEF IsDeposit
  <2>2. w(0) = m
    BY <2>1 DEF Whole
  <2> QED
    BY <2>1, <2>2
<1>2. ASSUME NEW k \in 0 .. 11, NEW t \in Nat, AfterCut(k, t) PROVE BeforeCut(k, t)
  <2> DEFINE v == 1200 * w(k)
  <2>1. d[k + 1] = w(k) * (1200 + p) + refill
    BY DEF IsDeposit
  <2> DEFINE x == w(k)
  <2>2. x \in Nat
    BY <1>2
  <2>3. d[k + 1] = 1200 * x + x * p + refill
    <3> HIDE DEF x
    <3>1. x * (1200 + p) = 1200 * x + x * p
      BY <2>2
    <3>2. d[k + 1] = x * (1200 + p) + refill
      BY <2>1 DEF x
    <3> QED
      BY <3>1, <3>2
  <2>4. /\ 1200 * x >= 1200 * m + k * refill - 1199 * k
        /\ 2400 * (1200 * x) >= 2400 * (1200 * m + k * refill + k * (p * m)) + t * (p * refill)
                                  - 2400 * (1199 * k) - 1199 * (t * p)
    BY <1>2
  <2> HIDE DEF x
  <2>5. k \in Nat /\ 1200 * x \in Nat
    BY <2>2
  <2>6. LET next == 1200 * x + x * p + refill
            j == k + 1
            u == t + 2 * k
        IN /\ next >= 1200 * m + j * refill - 1199 * k
           /\ 2400 * next >= 2400 * (1200 * m + j * refill + j * (p * m)) + u * (p * refill)
                               - 2400 * (1199 * k) - 1199 * (u * p)
    BY <2>2, <2>4, <2>5, MonthOfInterest
  <2>7. d[k + 1] \in Nat
    BY <2>2, <2>3
  <2> QED
    BY <2>3, <2>6, <2>7
<1>3. ASSUME NEW k \in 0 .. 11, NEW t \in Nat, BeforeCut(k, t), k + 1 <= 11
      PROVE  AfterCut(k + 1, t + 2 * k)
  <2> DEFINE x == d[k + 1]
  <2>1. x \in Nat
    BY <1>3
  <2>2. w(k + 1) \in Nat /\ 1200 * w(k + 1) >= x - 1199
    BY <2>1 DEF Whole
  <2> DEFINE y == w(k + 1)
             low == 1200 * m + (k + 1) * refill
             mid == 2400 * (1200 * m + (k + 1) * refill + (k + 1) * (p * m))
                      + (t + 2 * k) * (p * refill)
             cut == 1199 * ((t + 2 * k) * p)
  <2>3. low \in Int /\ mid \in Int /\ cut \in Int
    <3>1. p * m \in Int /\ p * refill \in Int /\ (k + 1) * refill \in Int
      OBVIOUS
    <3>2. (k + 1) * (p * m) \in Int /\ (t + 2 * k) * (p * refill) \in Int
      BY <3>1
    <3>3. (t + 2 * k) * p \in Int
      OBVIOUS
    <3> QED
      BY <3>1, <3>2, <3>3
  <2>4. x >= low - 1199 * k /\ 2400 * x >= mid - 2400 * (1199 * k) - cut
    BY <1>3
  <2> HIDE DEF x, y, low, mid, cut
  <2>5. y \in Nat /\ 1200 * y >= x - 1199
    BY <2>2 DEF y
  <2>6. /\ 1200 * y >= low - 1199 * (k + 1)
        /\ 2400 * (1200 * y) >= mid - 2400 * (1199 * (k + 1)) - cut
    BY <2>1, <2>3, <2>4, <2>5
  <2> QED
    BY <2>1, <2>5, <2>6 DEF x, y, low, mid, cut
<1> HIDE DEF AfterCut, BeforeCut
<1> DEFINE K == {k \in Nat : k <= 11 => AfterCut(k, k * k - k)}
<1>4. Nat \subseteq K
  <2>1. 0 \in K
    BY <1>1
  <2>2. ASSUME NEW k \in Nat, k \in K PROVE k + 1 \in K
    <3> SUFFICES ASSUME k + 1 <= 11 PROVE AfterCut(k + 1, (k + 1) * (k + 1) - (k + 1))
      OBVIOUS
    <3> DEFINE t == k * k - k
    <3>1. t \in Nat /\ k \in 0 .. 11 /\ (k + 1) * (k + 1) - (k + 1) = t + 2 * k
      OBVIOUS
    <3>2. AfterCut(k, t)
      BY <2>2, <3>1
    <3> HIDE DEF t
    <3>3. AfterCut(k + 1, t + 2 * k)
      BY <1>2, <1>3, <3>1, <3>2
    <3> QED
      BY <3>1, <3>3
  <2> HIDE DEF K
  <2> QED
    BY <2>1, <2>2, Induction
<1>5. BeforeCut(11, 110)
  <2>1. AfterCut(11, 11 * 11 - 11)
    BY <1>4
  <2>2. AfterCut(11, 110)
    BY <2>1
  <2> QED
    BY <1>2, <2>2
<1> QED
  BY <1>5 DEF BeforeCut

\* A deposit with interest is no worse than none, for any savings, percents and shares.
LEMMA DepositPays ==
  ASSUME NEW f \in [money : Nat, delta : Nat, plan : Plans, share : Nat]
  PROVE  LET year(kind) == MonthSavings([f EXCEPT !.plan.kind = kind])[12]
         IN /\ year("off") <= year("simple")
            /\ year("simple") <= year("capitalized") + 11 * 1199 + 66 * f.plan.percent
<1> DEFINE year(kind) == MonthSavings([f EXCEPT !.plan.kind = kind])[12]
           g(kind) == [f EXCEPT !.plan.kind = kind]
           p == f.plan.percent
           m == f.money
           delta == f.delta
           s == f.share
           refill == 12 * delta * s
           part == (66 * delta * s * p) \div 100
<1>1. m \in Nat /\ delta \in Nat /\ s \in Nat /\ p \in Nat
  BY FieldsAre
<1>2. ASSUME NEW kind \in {"off", "simple", "capitalized"}
      PROVE  /\ g(kind).money = m /\ g(kind).delta = delta /\ g(kind).share = s
             /\ g(kind).plan.percent = p /\ g(kind).plan.kind = kind
  <2>1. f.plan \in [kind : {"off", "simple", "capitalized"}, percent : 0 .. 99]
    BY FieldsAssumption
  <2>2. g(kind) = [f EXCEPT !.plan = [f.plan EXCEPT !.kind = kind]]
    OBVIOUS
  <2>3. g(kind).plan = [f.plan EXCEPT !.kind = kind]
    BY <2>2
  <2>4. g(kind).plan.percent = p /\ g(kind).plan.kind = kind
    BY <2>1, <2>3
  <2> QED
    BY <2>2, <2>4
<1>3. year("simple") = 1200 * m + 12 * p * m + 14400 * delta + part
  <2>1. MonthSavings(g("simple"))[12] = LastMonth(g("simple"))
    <3> HIDE DEF g
    <3> QED
      BY <1>1, <1>2, YearIs
  <2>2. LastMonth(g("simple")) = 1200 * m + 12 * p * m + 14400 * delta + part
    <3> HIDE DEF g
    <3> QED
      BY <1>2 DEF LastMonth
  <2> QED
    BY <2>1, <2>2
<1>4. year("off") = 1200 * m + 14400 * delta
  <2>1. \E d : IsDeposit(d, m, 0, 12 * delta * 100) /\ MonthSavings(g("off"))[12] = d[12]
    <3> HIDE DEF g
    <3> QED
      BY <1>1, <1>2, YearIs
  <2> HIDE DEF m, delta
  <2> QED
    BY <1>1, <2>1, YearOff
<1>5. PICK d : IsDeposit(d, m, p, refill) /\ year("capitalized") = d[12] + 12 * (1200 * delta - refill)
  <2>1. \E d : IsDeposit(d, m, p, refill)
               /\ MonthSavings(g("capitalized"))[12] = d[12] + 12 * (1200 * delta - refill)
    <3> HIDE DEF g
    <3> QED
      BY <1>1, <1>2, YearIs
  <2> QED
    BY <2>1
<1> DEFINE ds == delta * s
           dsp == ds * p
           pm == p * m
<1>6. ds \in Nat /\ dsp \in Nat /\ pm \in Nat
  <2>1. ds \in Nat /\ pm \in Nat
    BY <1>1
  <2> HIDE DEF ds
  <2>2. ds * p \in Nat
    BY <1>1, <2>1
  <2> QED
    BY <2>1, <2>2
<1>7. refill = 12 * ds /\ p * refill = 12 * dsp /\ 66 * delta * s * p = 66 * dsp /\ 12 * p * m = 12 * pm
  <2> HIDE DEF p, m, delta, s
  <2> QED
    BY <1>1
<1>8. /\ d[12] \in Int
      /\ 2400 * d[12] >= 2400 * (1200 * m + 12 * refill + 12 * pm) + 132 * (p * refill)
                           - 2400 * (1199 * 11) - 1199 * (132 * p)
  <2>1. refill \in Nat
    BY <1>6, <1>7
  <2> HIDE DEF refill, m, p
  <2> QED
    BY <1>1, <1>5, <2>1, YearCapitalized
<1>9. part \in Nat /\ 100 * part <= 66 * dsp
  <2>1. part = (66 * dsp) \div 100
    BY <1>7
  <2> HIDE DEF dsp
  <2>2. (66 * dsp) \div 100 \in Nat /\ 100 * ((66 * dsp) \div 100) <= 66 * dsp
    BY <1>6
  <2> QED
    BY <2>1, <2>2
<1> HIDE DEF year, p, m, delta, s, refill, part, ds, dsp, pm
<1>10. year("off") <= year("simple")
  BY <1>1, <1>3, <1>4, <1>6, <1>7, <1>9
<1>11. year("simple") <= year("capitalized") + 11 * 1199 + 66 * p
  BY <1>1, <1>3, <1>5, <1>6, <1>7, <1>8, <1>9
<1> QED
  BY <1>10, <1>11 DEF year, p

--------------------------------------------------------------------------------
(* The savings. *)

\* At most d / 2 apart.
Within(x, y, d) == 2 * (x - y) <= d /\ 2 * (y - x) <= d

\* A conversion goes to the nearest number of thousandths: no further than half of one,
\* and if a number of them was less than that away, to that one.
LEMMA Nearest ==
  ASSUME NEW x \in Nat, NEW r \in Nat \ {0}
  PROVE  LET m == RoundDiv(x, r)
         IN /\ m \in Nat /\ m * r \in Nat /\ Within(m * r, x, r)
            /\ \A k \in Int, d \in Int : Within(x, k * r, d) /\ d < r => m * r = k * r
<1> DEFINE m == RoundDiv(x, r)
<1>1. m \in Nat
  BY RoundDivNat
<1>2. 2 * (r * m) <= 2 * x + r /\ 2 * x - r < 2 * (r * m)
  BY RoundDivError
<1> HIDE DEF m
<1>3. r * m = m * r /\ m * r \in Nat
  BY <1>1
<1>4. Within(m * r, x, r)
  BY <1>2, <1>3 DEF Within
<1>5. ASSUME NEW k \in Int, NEW d \in Int, Within(x, k * r, d), d < r
      PROVE  m * r = k * r
  <2>1. k * r \in Int
    OBVIOUS
  <2>2. m * r - k * r < r /\ k * r - m * r < r
    BY <1>3, <1>4, <1>5, <2>1 DEF Within
  <2>3. (m - k) * r < r /\ (k - m) * r < r
    BY <1>1, <2>2
  <2>4. m - k < 1 /\ k - m < 1
    <3>1. ASSUME NEW i \in Int, i >= 1 PROVE i * r >= r
      <4>1. (i - 1) * r >= 0
        BY <3>1
      <4>2. (i - 1) * r = i * r - r /\ i * r \in Int
        OBVIOUS
      <4> QED
        BY <4>1, <4>2
    <3>2. m - k \in Int /\ k - m \in Int
      BY <1>1
    <3>3. ~(m - k >= 1) /\ ~(k - m >= 1)
      <4> DEFINE i == m - k
                 j == k - m
      <4>1. i \in Int /\ j \in Int /\ i * r < r /\ j * r < r /\ i * r \in Int /\ j * r \in Int
        BY <2>3, <3>2
      <4> HIDE DEF i, j
      <4>2. ~(i >= 1) /\ ~(j >= 1)
        BY <3>1, <4>1
      <4> QED
        BY <4>2 DEF i, j
    <3> QED
      BY <3>2, <3>3
  <2>5. m = k
    BY <1>1, <2>4
  <2> QED
    BY <2>5
<1> QED
  BY <1>1, <1>3, <1>4, <1>5 DEF m

\* The rouble, the cheaper and the dearer foreign currency are the three currencies, all different.
LEMMA DearerAndCheaper ==
  /\ Currencies = {"RUB", Cheaper, Dearer}
  /\ "RUB" # Cheaper /\ "RUB" # Dearer /\ Cheaper # Dearer
  BY DEF Currencies, Cheaper, Dearer

\* Savings worth x in currency cur, when the user had typed what is worth v, are in one of
\* three places: still what the user typed, in roubles; at a number of thousandths of the
\* cheaper currency near it, or converted from there to roubles; or, once they have been in
\* the dearer currency, near the number of thousandths that they had there.
Kept(x, cur, v) ==
  LET rub == Rate["RUB"]
      lo == Rate[Cheaper]
      hi == Rate[Dearer]
  IN \/ cur = "RUB" /\ x = v
     \/ /\ cur # Dearer
        /\ \E k \in Int :
             /\ Within(k * lo, v, lo)
             /\ cur = Cheaper => x = k * lo
             /\ cur = "RUB" => Within(x, k * lo, rub)
     \/ \E e \in Int :
          /\ Within(e * hi, v, hi + lo + rub)
          /\ cur = Dearer => x = e * hi
          /\ cur = Cheaper => Within(x, e * hi, lo + rub)
          /\ cur = "RUB" => \/ Within(x, e * hi, rub)
                            \/ \E k \in Int : Within(k * lo, e * hi, lo + rub) /\ Within(x, k * lo, rub)

\* What the user has just typed.
LEMMA KeptTyped ==
  ASSUME NEW n \in Nat, NEW cur \in Currencies
  PROVE  Kept(n * Rate[cur], cur, n * Rate[cur])
<1> DEFINE x == n * Rate[cur]
<1>1. \A c \in Currencies : Rate[c] \in Nat \ {0}
  BY RateAssumption
<1>2. "RUB" \in Currencies /\ Cheaper \in Currencies /\ Dearer \in Currencies
  BY DearerAndCheaper
<1>3. x \in Nat
  BY <1>1
<1>4. Within(x, x, Rate[Cheaper]) /\ Within(x, x, Rate[Dearer] + Rate[Cheaper] + Rate["RUB"])
  <2> HIDE DEF x
  <2> QED
    BY <1>1, <1>2, <1>3 DEF Within
<1>5. CASE cur = "RUB"
  BY <1>5 DEF Kept
<1>6. CASE cur = Cheaper
  BY <1>4, <1>6, DearerAndCheaper DEF Kept
<1>7. CASE cur = Dearer
  BY <1>4, <1>7, DearerAndCheaper DEF Kept
<1> QED
  BY <1>5, <1>6, <1>7, DearerAndCheaper

\* A conversion leaves the savings in one of the three places.
LEMMA KeptStep ==
  ASSUME RatesApart,
         NEW n \in Nat, NEW cur \in Currencies, NEW to \in Currencies, NEW v \in Int,
         Kept(n * Rate[cur], cur, v)
  PROVE  LET m == RoundDiv(n * Rate[cur], Rate[to])
         IN m \in Nat /\ Kept(m * Rate[to], to, v)
<1> DEFINE rub == Rate["RUB"]
           lo == Rate[Cheaper]
           hi == Rate[Dearer]
           x == n * Rate[cur]
           m == RoundDiv(n * Rate[cur], Rate[to])
           y == m * Rate[to]
<1>1. Rate[cur] \in Nat \ {0} /\ Rate[to] \in Nat \ {0}
  BY RateAssumption
<1>2. rub \in Nat \ {0} /\ lo \in Nat \ {0} /\ hi \in Nat \ {0} /\ lo > rub /\ hi > lo + 2 * rub
  BY RateAssumption, DearerAndCheaper DEF RatesApart
<1>3. x \in Nat
  BY <1>1
<1>4. /\ m \in Nat /\ y \in Nat /\ Within(y, x, Rate[to])
      /\ \A k \in Int, d \in Int : Within(x, k * Rate[to], d) /\ d < Rate[to] => y = k * Rate[to]
  <2> HIDE DEF x
  <2> QED
    BY <1>1, <1>3, Nearest DEF x
\* The currency already chosen: nothing changes.
<1>5. to = cur => y = x
  <2> SUFFICES ASSUME to = cur PROVE y = x
    OBVIOUS
  <2>1. Within(x, n * Rate[to], 0)
    BY <1>3 DEF Within
  <2>2. 0 \in Int /\ 0 < Rate[to] /\ n \in Int
    BY <1>1
  <2> HIDE DEF y, x
  <2>3. y = n * Rate[to]
    BY <1>4, <2>1, <2>2
  <2> QED
    BY <2>3 DEF x
<1> DEFINE Goal == Kept(y, to, v)
<1> HIDE DEF x, m, y, rub, lo, hi
<1>6. ASSUME cur = "RUB", x = v PROVE Goal
  <2>1. CASE to = "RUB"
    BY <1>5, <1>6, <2>1 DEF Kept
  <2>2. CASE to = Cheaper
    <3>1. Within(m * lo, v, lo) /\ y = m * lo /\ m \in Int
      BY <1>4, <1>6, <2>2 DEF y, lo
    <3> QED
      BY <2>2, <3>1, DearerAndCheaper DEF Kept, lo
  <2>3. CASE to = Dearer
    <3>1. Within(m * hi, v, hi) /\ y = m * hi /\ m \in Int
      BY <1>4, <1>6, <2>3 DEF y, hi
    <3> DEFINE z == m * hi
    <3>2. z \in Int
      BY <1>2, <3>1
    <3>3. Within(z, v, hi + lo + rub)
      <4> HIDE DEF z
      <4>1. Within(z, v, hi)
        BY <3>1 DEF z
      <4> QED
        BY <1>2, <3>2, <4>1 DEF Within
    <3> QED
      BY <2>3, <3>1, <3>3, DearerAndCheaper DEF Kept, lo, hi, rub
  <2> QED
    BY <2>1, <2>2, <2>3, DearerAndCheaper
<1>7. ASSUME cur # Dearer, NEW k \in Int,
             Within(k * lo, v, lo), cur = Cheaper => x = k * lo,
             cur = "RUB" => Within(x, k * lo, rub)
      PROVE  Goal
  <2> DEFINE u == k * lo
  <2>1. u \in Int /\ Within(u, v, lo)
    BY <1>2, <1>7
  <2>2. Within(x, u, rub)
    <3>1. CASE cur = Cheaper
      <4>1. x = u
        BY <1>7, <3>1
      <4> QED
        BY <1>2, <2>1, <4>1 DEF Within
    <3>2. CASE cur = "RUB"
      BY <1>7, <3>2
    <3> QED
      BY <1>7, <3>1, <3>2, DearerAndCheaper
  <2>3. CASE to = Cheaper
    <3>1. y = u
      BY <1>2, <1>4, <1>7, <2>2, <2>3 DEF lo
    <3> QED
      BY <1>7, <2>3, <3>1, DearerAndCheaper DEF Kept, lo
  <2>4. CASE to = "RUB"
    <3>1. Within(y, u, rub)
      <4>1. CASE cur = Cheaper
        BY <1>4, <1>7, <2>4, <4>1 DEF rub
      <4>2. CASE cur = "RUB"
        BY <1>5, <2>2, <2>4, <4>2
      <4> QED
        BY <1>7, <4>1, <4>2, DearerAndCheaper
    <3> QED
      BY <1>7, <2>4, <3>1, DearerAndCheaper DEF Kept, lo, rub
  <2>5. CASE to = Dearer
    <3>1. Within(y, x, hi) /\ y = m * hi /\ m \in Int
      BY <1>4, <2>5 DEF y, hi
    <3>2. Within(y, v, hi + lo + rub)
      <4> HIDE DEF u
      <4> QED
        BY <1>2, <1>3, <1>4, <2>1, <2>2, <3>1 DEF Within
    <3> QED
      BY <2>5, <3>1, <3>2, DearerAndCheaper DEF Kept, lo, hi, rub
  <2> QED
    BY <2>3, <2>4, <2>5, DearerAndCheaper
<1>8. ASSUME NEW e \in Int,
             Within(e * hi, v, hi + lo + rub),
             cur = Dearer => x = e * hi,
             cur = Cheaper => Within(x, e * hi, lo + rub),
             cur = "RUB" => \/ Within(x, e * hi, rub)
                            \/ \E k \in Int : Within(k * lo, e * hi, lo + rub) /\ Within(x, k * lo, rub)
      PROVE  Goal
  <2> DEFINE z == e * hi
  <2>1. z \in Int
    BY <1>2
  <2>2. ASSUME NEW k \in Int PROVE k * lo \in Int
    BY <1>2
  \* Wherever they are, they are less than half a step of the dearer currency away.
  <2>3. Within(x, z, lo + 2 * rub)
    <3>1. CASE cur = Dearer
      <4>1. x = z
        BY <1>8, <3>1
      <4> QED
        BY <1>2, <2>1, <4>1 DEF Within
    <3>2. CASE cur = Cheaper
      <4>1. Within(x, z, lo + rub)
        BY <1>8, <3>2
      <4> HIDE DEF z
      <4> QED
        BY <1>2, <1>3, <2>1, <4>1 DEF Within
    <3>3. CASE cur = "RUB" /\ Within(x, z, rub)
      <4>1. Within(x, z, rub)
        BY <3>3
      <4> HIDE DEF z
      <4> QED
        BY <1>2, <1>3, <2>1, <4>1 DEF Within
    <3>4. CASE cur = "RUB" /\ \E k \in Int : Within(k * lo, z, lo + rub) /\ Within(x, k * lo, rub)
      <4>1. PICK k \in Int : Within(k * lo, z, lo + rub) /\ Within(x, k * lo, rub)
        BY <3>4
      <4> DEFINE w == k * lo
      <4>2. w \in Int /\ Within(w, z, lo + rub) /\ Within(x, w, rub)
        BY <2>2, <4>1
      <4> HIDE DEF z, w
      <4> QED
        BY <1>2, <1>3, <2>1, <4>2 DEF Within
    <3> QED
      BY <1>8, <3>1, <3>2, <3>3, <3>4, DearerAndCheaper
  <2>4. CASE to = Dearer
    <3>1. lo + 2 * rub \in Int /\ lo + 2 * rub < hi
      BY <1>2
    <3>2. y = z
      BY <1>4, <2>3, <2>4, <3>1 DEF hi
    <3> QED
      BY <1>8, <2>4, <3>2, DearerAndCheaper DEF Kept, lo, hi, rub
  <2>5. CASE to = Cheaper
    <3>1. Within(y, z, lo + rub)
      <4>1. CASE cur = Dearer
        <5>1. x = z /\ Within(y, x, lo)
          BY <1>4, <1>8, <2>5, <4>1 DEF lo
        <5> HIDE DEF z
        <5> QED
          BY <1>2, <1>4, <2>1, <5>1 DEF Within
      <4>2. CASE cur = Cheaper
        BY <1>5, <1>8, <2>5, <4>2
      <4>3. CASE cur = "RUB" /\ Within(x, z, rub)
        <5>1. Within(y, x, lo) /\ Within(x, z, rub)
          BY <1>4, <2>5, <4>3 DEF lo
        <5> HIDE DEF z
        <5> QED
          BY <1>2, <1>3, <1>4, <2>1, <5>1 DEF Within
      <4>4. CASE cur = "RUB" /\ \E k \in Int : Within(k * lo, z, lo + rub) /\ Within(x, k * lo, rub)
        <5>1. PICK k \in Int : Within(k * lo, z, lo + rub) /\ Within(x, k * lo, rub)
          BY <4>4
        <5>2. y = k * lo
          BY <1>2, <1>4, <2>5, <5>1 DEF lo
        <5> QED
          BY <5>1, <5>2
      <4> QED
        BY <1>8, <4>1, <4>2, <4>3, <4>4, DearerAndCheaper
    <3> QED
      BY <1>8, <2>5, <3>1, DearerAndCheaper DEF Kept, lo, hi, rub
  <2>6. CASE to = "RUB"
    <3>1. \/ Within(y, z, rub)
          \/ \E k \in Int : Within(k * lo, z, lo + rub) /\ Within(y, k * lo, rub)
      <4>1. CASE cur = Dearer
        BY <1>4, <1>8, <2>6, <4>1 DEF rub
      <4>2. CASE cur = Cheaper
        <5>1. x = n * lo /\ n \in Int
          BY <4>2 DEF x, lo
        <5>2. Within(n * lo, z, lo + rub) /\ Within(y, n * lo, rub)
          BY <1>4, <1>8, <2>6, <4>2, <5>1 DEF rub
        <5> QED
          BY <5>1, <5>2
      <4>3. CASE cur = "RUB"
        BY <1>5, <1>8, <2>6, <4>3
      <4> QED
        BY <4>1, <4>2, <4>3, DearerAndCheaper
    <3> QED
      BY <1>8, <2>6, <3>1, DearerAndCheaper DEF Kept, lo, hi, rub
  <2> QED
    BY <2>4, <2>5, <2>6, DearerAndCheaper
<1>9. Goal
  <2>1. Kept(x, cur, v)
    BY DEF x
  <2> HIDE DEF Goal
  <2> QED
    BY <1>6, <1>7, <1>8, <2>1 DEF Kept, lo, hi, rub
<1> QED
  BY <1>4, <1>9 DEF y, m

\* None of the three places is further than two thousandths of the dearer currency away.
LEMMA KeptIsNear ==
  ASSUME RatesApart, NEW x \in Int, NEW v \in Int, NEW cur \in Currencies, Kept(x, cur, v)
  PROVE  Abs(x - v) <= 2 * Rate[Dearer]
<1> DEFINE rub == Rate["RUB"]
           lo == Rate[Cheaper]
           hi == Rate[Dearer]
<1>1. rub \in Nat /\ lo \in Nat /\ hi \in Nat /\ hi > lo + 2 * rub
  BY RateAssumption, DearerAndCheaper DEF RatesApart
<1> HIDE DEF rub, lo, hi
<1>2. CASE cur = "RUB" /\ x = v
  BY <1>1, <1>2 DEF Abs, hi
<1>3. ASSUME NEW w \in Int, Within(w, v, lo), Within(x, w, rub) PROVE Abs(x - v) <= 2 * hi
  BY <1>1, <1>3 DEF Abs, Within
<1>4. CASE cur # Dearer /\ \E k \in Int : /\ Within(k * lo, v, lo)
                                          /\ cur = Cheaper => x = k * lo
                                          /\ cur = "RUB" => Within(x, k * lo, rub)
  <2>1. PICK k \in Int : /\ Within(k * lo, v, lo)
                         /\ cur = Cheaper => x = k * lo
                         /\ cur = "RUB" => Within(x, k * lo, rub)
    BY <1>4
  <2>2. k * lo \in Int
    BY <1>1
  <2>3. cur = Cheaper => Within(x, k * lo, rub)
    BY <1>1, <2>1, <2>2 DEF Within
  <2>4. Within(x, k * lo, rub)
    BY <1>4, <2>1, <2>3, DearerAndCheaper
  <2> QED
    BY <1>3, <2>1, <2>2, <2>4 DEF hi
<1>5. ASSUME NEW z \in Int, NEW w \in Int,
             Within(z, v, hi + lo + rub), Within(w, z, lo + rub), Within(x, w, rub)
      PROVE  Abs(x - v) <= 2 * hi
  BY <1>1, <1>5 DEF Abs, Within
<1>6. ASSUME NEW e \in Int,
             Within(e * hi, v, hi + lo + rub),
             cur = Dearer => x = e * hi,
             cur = Cheaper => Within(x, e * hi, lo + rub),
             cur = "RUB" => \/ Within(x, e * hi, rub)
                            \/ \E k \in Int : Within(k * lo, e * hi, lo + rub) /\ Within(x, k * lo, rub)
      PROVE  Abs(x - v) <= 2 * hi
  <2> DEFINE z == e * hi
  <2>1. z \in Int /\ Within(z, v, hi + lo + rub)
    BY <1>1, <1>6
  <2>2. \E w \in Int : Within(w, z, lo + rub) /\ Within(x, w, rub)
    <3>1. Within(x, x, rub) /\ Within(z, z, lo + rub)
      BY <1>1, <2>1 DEF Within
    <3>2. CASE cur = Dearer
      BY <1>6, <2>1, <3>1, <3>2
    <3>3. CASE cur = Cheaper
      BY <1>6, <3>1, <3>3
    <3>4. CASE cur = "RUB"
      <4>1. \A k \in Int : k * lo \in Int
        BY <1>1
      <4> QED
        BY <1>6, <2>1, <3>1, <3>4, <4>1
    <3> QED
      BY <3>2, <3>3, <3>4, DearerAndCheaper
  <2> HIDE DEF z
  <2> QED
    BY <1>5, <2>1, <2>2
<1> QED
  BY <1>2, <1>4, <1>6 DEF Kept, lo, hi, rub
================================================================================
