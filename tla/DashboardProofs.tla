----------------------------- MODULE DashboardProofs -----------------------------
(***************************************************************************)
(* For every set of items, rates and plans: types, sums, slider and        *)
(* forecast hold through any series of conversions, launches and slides;   *)
(* the savings do for all rates that are not close to each other.          *)
(***************************************************************************)
EXTENDS DashboardLemmas, SequenceTheorems

--------------------------------------------------------------------------------
(* Type correctness. *)

\* A column with one item more.
LEMMA AppendItem ==
  ASSUME NEW column \in ItemLists, NEW x \in Items, Len(column) < MaxItems
  PROVE  Append(column, x) \in ItemLists
<1> DEFINE n == Len(column)
<1>1. n \in Nat /\ column \in [1 .. n -> Items] /\ n + 1 \in 0 .. MaxItems
  BY ColumnIs, BoundsAssumption
<1>2. Append(column, x) \in [1 .. n + 1 -> Items]
  <2> HIDE DEF n
  <2>1. column \in Seq(Items) /\ Len(column) = n
    BY <1>1, SeqDef DEF n
  <2>2. Append(column, x) \in Seq(Items) /\ Len(Append(column, x)) = n + 1
    BY <2>1
  <2> QED
    BY <2>2, LenProperties
<1> QED
  BY <1>1, <1>2 DEF ItemLists

\* A column with an item in the place of another, as the edit window leaves it.
LEMMA ReplaceItem ==
  ASSUME NEW column \in ItemLists, NEW x \in Items, NEW i \in DOMAIN column
  PROVE  [column EXCEPT ![i] = x] \in ItemLists
<1>1. PICK n \in 0 .. MaxItems : column \in [1 .. n -> Items]
  BY DEF ItemLists
<1>2. [column EXCEPT ![i] = x] \in [1 .. n -> Items]
  BY <1>1
<1> QED
  BY <1>1, <1>2 DEF ItemLists

\* Savings stay whole thousandths through every conversion.
LEMMA ChangeCurrencyType ==
  ASSUME TypeOK, NEW to \in Currencies, ChangeCurrency(to)
  PROVE  freeMoney' \in Nat /\ lastCurr' \in Currencies
<1>1. Rate[lastCurr] \in Nat \ {0} /\ Rate[to] \in Nat \ {0} /\ freeMoney \in Nat
  BY RateAssumption DEF TypeOK
<1>2. freeMoney * Rate[lastCurr] \in Nat
  BY <1>1
<1> QED
  BY <1>1, <1>2, RoundDivNat DEF ChangeCurrency

\* initStatisticPage converts the savings or, cooling down, leaves them.
LEMMA InitStatisticPageType ==
  ASSUME TypeOK, NEW to \in Currencies, InitStatisticPage(to)
  PROVE  freeMoney' \in Nat /\ lastCurr' \in Currencies /\ cooling' \in BOOLEAN
  BY ChangeCurrencyType DEF InitStatisticPage, TypeOK, money

\* The slider is built anew within its range.
LEMMA RebuildSliderType ==
  ASSUME TypeOK, NEW delta \in Int, NEW max \in {delta, Abs(delta)}, RebuildSlider(delta, max)
  PROVE  share' \in -100 .. 100 /\ slid' \in Positions \cup {100, -1}
  BY RebuiltRange DEF RebuildSlider, TypeOK

\* What a forecast is computed from, for the share of the slider.
LEMMA InputsType ==
  ASSUME freeMoney \in Nat, sums \in [Columns -> Nat], plan \in Plans, NEW s \in -100 .. 100
  PROVE  Inputs(s) \in [money : Nat, delta : Int, plan : Plans, share : -100 .. 100]
<1>1. Whole(freeMoney, 1000) \in Nat
  BY DEF Whole
<1> QED
  BY <1>1, DeltaInt DEF Inputs

\* Whatever the user enters, converts and slides, amounts and sums stay whole and not
\* negative, and the share within 100 percent of the spare money, which may be a debt.
THEOREM TypeOKHolds == Spec => []TypeOK
<1>1. Init => TypeOK
  <2> SUFFICES ASSUME Init PROVE TypeOK
    OBVIOUS
  <2>1. sums \in [Columns -> Nat]
    BY SumsNat DEF Init
  <2>2. freeMoney \in Nat /\ field \in Nat
    BY FieldsAre DEF Init
  <2>3. shown \in [money : Nat, delta : Int, plan : Plans, share : -100 .. 100]
    <3>1. 100 \in -100 .. 100 /\ plan \in Plans /\ shown = Inputs(100)
      BY DEF Init
    <3> QED
      BY <2>1, <2>2, <3>1, InputsType
  <2>4. typed \in [sum : Nat, of : Currencies] /\ edits \in 0 .. MaxEdits /\ share \in -100 .. 100
    BY <2>2, BoundsAssumption DEF Init
  <2> QED
    BY <2>1, <2>2, <2>3, <2>4 DEF Init, TypeOK
<1>2. TypeOK /\ [Next]_vars => TypeOK'
  <2> SUFFICES ASSUME TypeOK, [Next]_vars
               PROVE  TypeOK'
    OBVIOUS
  <2>1. CASE AddItem
    <3>1. PICK c \in Columns, x \in Items :
            Len(items[c]) < MaxItems /\ items' = [items EXCEPT ![c] = Append(items[c], x)]
      BY <2>1 DEF AddItem
    <3>2. items' \in [Columns -> ItemLists]
      BY <3>1, AppendItem DEF TypeOK
    <3>3. sums' \in [Columns -> Nat]
      BY <2>1, <3>2, SumsNat DEF AddItem, RunConvert, TypeOK
    <3>4. edits' \in 0 .. MaxEdits
      BY <2>1, BoundsAssumption DEF AddItem, Edit, TypeOK
    <3> QED
      BY <2>1, <3>2, <3>3, <3>4 DEF AddItem, money, TypeOK
  <2>2. CASE EditItem
    <3>1. PICK c \in Columns, x \in Items : \E i \in DOMAIN items[c] :
            items' = [items EXCEPT ![c][i] = x]
      BY <2>2 DEF EditItem
    <3>2. PICK i \in DOMAIN items[c] : items' = [items EXCEPT ![c][i] = x]
      BY <3>1
    <3>3. items[c] \in ItemLists /\ [items[c] EXCEPT ![i] = x] \in ItemLists
      BY ReplaceItem DEF TypeOK
    <3>4. items' = [items EXCEPT ![c] = [items[c] EXCEPT ![i] = x]]
      BY <3>2
    <3>5. items' \in [Columns -> ItemLists]
      BY <3>3, <3>4 DEF TypeOK
    <3>6. sums' \in [Columns -> Nat]
      BY <2>2, <3>5, SumsNat DEF EditItem, RunConvert, TypeOK
    <3>7. edits' \in 0 .. MaxEdits
      BY <2>2, BoundsAssumption DEF EditItem, Edit, TypeOK
    <3> QED
      BY <2>2, <3>5, <3>6, <3>7 DEF EditItem, money, TypeOK
  <2>3. CASE TypeSum
    <3>1. field' \in Nat /\ freeMoney' \in Nat
      <4>1. field' \in Amounts \cup {field} /\ freeMoney' = 1000 * field'
        BY <2>3 DEF TypeSum
      <4>2. field \in Nat
        BY DEF TypeOK
      <4> QED
        BY <4>1, <4>2, FieldsAre
    <3>2. edits' \in 0 .. MaxEdits
      BY <2>3, BoundsAssumption DEF TypeSum, Edit, TypeOK
    <3>3. typed' \in [sum : Nat, of : Currencies]
      BY <2>3, <3>1 DEF TypeSum, TypeOK
    <3> QED
      BY <2>3, <3>1, <3>2, <3>3 DEF TypeSum, TypeOK
  <2>4. CASE ClickSign
    <3>1. checkedCurr' \in Currencies
      BY <2>4 DEF ClickSign, NextCurrency, Currencies, TypeOK
    <3>2. freeMoney' \in Nat /\ lastCurr' \in Currencies
      BY <2>4, <3>1, ChangeCurrencyType DEF ClickSign
    <3>3. field' \in Nat
      BY <2>4, <3>2, RoundDivNat DEF ClickSign
    <3>4. Delta(sums) \in Int
      BY DeltaInt DEF TypeOK
    <3>5. share' \in -100 .. 100 /\ slid' \in Positions \cup {100, -1}
      BY <2>4, <3>4, RebuildSliderType DEF ClickSign
    <3>6. sums' \in [Columns -> Nat]
      BY <2>4, <3>1, SumsNat DEF ClickSign, RunConvert, TypeOK
    <3> QED
      BY <2>4, <3>1, <3>2, <3>3, <3>5, <3>6 DEF ClickSign, TypeOK
  <2>5. CASE Launch
    <3>1. freeMoney' \in Nat /\ lastCurr' \in Currencies /\ cooling' \in BOOLEAN
      BY <2>5, InitStatisticPageType DEF Launch, TypeOK
    <3>2. Delta(sums) \in Int
      BY DeltaInt DEF TypeOK
    <3>3. share' \in -100 .. 100 /\ slid' \in Positions \cup {100, -1}
      BY <2>5, <3>2, RebuildSliderType DEF Launch
    <3> QED
      BY <2>5, <3>1, <3>3 DEF Launch, TypeOK
  <2>6. CASE ChooseCurrency
    <3>1. checkedCurr' \in Currencies
      BY <2>6 DEF ChooseCurrency
    <3>2. freeMoney' \in Nat /\ lastCurr' \in Currencies /\ cooling' \in BOOLEAN
      BY <2>6, <3>1, InitStatisticPageType DEF ChooseCurrency
    <3>3. sums' \in [Columns -> Nat]
      BY <2>6, <3>1, SumsNat DEF ChooseCurrency, RunConvert, TypeOK
    <3>4. share' \in -100 .. 100 /\ slid' \in Positions \cup {100, -1}
      BY <2>6, <3>3, DeltaInt, RebuildSliderType DEF ChooseCurrency
    <3> QED
      BY <2>6, <3>1, <3>2, <3>3, <3>4 DEF ChooseCurrency, TypeOK
  <2>7. CASE Slide
    <3>1. PICK p \in Positions :
            /\ share' = ShareAt(p, Delta(sums), Abs(Delta(sums)))
            /\ slid' = IF Delta(sums) > 25 THEN p ELSE -1
      BY <2>7 DEF Slide
    <3>2. p \in 0 .. 100 /\ Delta(sums) \in Int
      BY FieldsAre, DeltaInt DEF TypeOK
    <3>3. share' \in -100 .. 100 /\ slid' \in Positions \cup {100, -1}
      BY <3>1, <3>2, ShareAtRange
    <3>4. Inputs(share') \in [money : Nat, delta : Int, plan : Plans, share : -100 .. 100]
      BY <3>3, InputsType DEF TypeOK
    <3>5. shown' = Inputs(share')
      BY <2>7 DEF Slide, InitSavingsCircles
    <3> QED
      BY <2>7, <3>3, <3>4, <3>5 DEF Slide, money, TypeOK
  <2>8. CASE \E timer \in due : Forecast(timer)
    <3>1. PICK timer \in due : Forecast(timer)
      BY <2>8
    <3>2. shown' = Inputs(100) \/ shown' = Inputs(share)
      BY <3>1 DEF Forecast, InitSavingsCircles
    <3>3. shown' \in [money : Nat, delta : Int, plan : Plans, share : -100 .. 100]
      <4>1. /\ 100 \in -100 .. 100 /\ share \in -100 .. 100
            /\ freeMoney \in Nat /\ sums \in [Columns -> Nat] /\ plan \in Plans
        BY DEF TypeOK
      <4> QED
        BY <3>2, <4>1, InputsType
    <3>4. due' \subseteq {"launch", "currency"}
      BY <3>1 DEF Forecast, TypeOK
    <3> QED
      BY <3>1, <3>3, <3>4 DEF Forecast, money, TypeOK
  <2>9. CASE FadeStatistic
    <3>1. field' \in Nat
      BY <2>9, RoundDivNat DEF FadeStatistic, TypeOK
    <3> QED
      BY <2>9, <3>1 DEF FadeStatistic, money, TypeOK
  <2>10. CASE CoolDown
    BY <2>10 DEF CoolDown, money, TypeOK
  <2>11. CASE UNCHANGED vars
    BY <2>11 DEF vars, money, TypeOK
  <2> QED
    BY <2>1, <2>2, <2>3, <2>4, <2>5, <2>6, <2>7, <2>8, <2>9, <2>10, <2>11 DEF Next
<1> QED
  BY <1>1, <1>2, PTL DEF Spec

--------------------------------------------------------------------------------
(* The sums. *)

\* The sums on the page are those of the present items in the currency chosen.
SumsAreCurrent == sums = Sums(items, checkedCurr)

\* Whatever changes an item or the currency converts the columns anew.
THEOREM SumsAreCurrentHolds == Spec => []SumsAreCurrent
<1>1. Init => SumsAreCurrent
  BY DEF Init, SumsAreCurrent
<1>2. SumsAreCurrent /\ [Next]_vars => SumsAreCurrent'
  <2> SUFFICES ASSUME SumsAreCurrent, [Next]_vars
               PROVE  SumsAreCurrent'
    OBVIOUS
  <2>1. ASSUME RunConvert(items', checkedCurr') PROVE SumsAreCurrent'
    <3>1. sums' = Sums(items', checkedCurr')
      BY <2>1 DEF RunConvert
    <3>2. Sums(items', checkedCurr') = Sums(items, checkedCurr)'
      BY DEF Sums, ColumnSum, Converted, Level, Abs, RoundDiv, PerMonth, FoldLeft, MapThenFoldSet, Max
    <3> QED
      BY <3>1, <3>2 DEF SumsAreCurrent
  <2>2. ASSUME UNCHANGED <<sums, items, checkedCurr>> PROVE SumsAreCurrent'
    BY <2>2 DEF SumsAreCurrent
  <2>3. CASE AddItem
    BY <2>1, <2>3 DEF AddItem
  <2>4. CASE EditItem
    BY <2>1, <2>4 DEF EditItem
  <2>5. CASE ClickSign
    <3>1. RunConvert(items, checkedCurr') /\ items' = items
      BY <2>5 DEF ClickSign
    <3> QED
      BY <2>1, <3>1
  <2>6. CASE ChooseCurrency
    <3>1. RunConvert(items, checkedCurr') /\ items' = items
      BY <2>6 DEF ChooseCurrency
    <3> QED
      BY <2>1, <3>1
  <2>7. CASE TypeSum \/ Launch \/ Slide \/ FadeStatistic \/ CoolDown
    BY <2>2, <2>7 DEF TypeSum, Launch, Slide, FadeStatistic, CoolDown
  <2>8. CASE \E timer \in due : Forecast(timer)
    BY <2>2, <2>8 DEF Forecast
  <2>9. CASE UNCHANGED vars
    BY <2>2, <2>9 DEF vars
  <2> QED
    BY <2>3, <2>4, <2>5, <2>6, <2>7, <2>8, <2>9 DEF Next
<1> QED
  BY <1>1, <1>2, PTL DEF Spec

\* For any rates and any items: however often the currency was changed, the sums are
\* right up to one unit for each item and 10 from levelling.
THEOREM SumsFitHolds == Spec => []SumsFit
<1>1. TypeOK /\ SumsAreCurrent => SumsFit
  <2> SUFFICES ASSUME TypeOK, SumsAreCurrent, NEW c \in Columns
               PROVE  Abs(12 * Rate[checkedCurr] * sums[c] - ExactSum(items[c]))
                        <= 12 * Rate[checkedCurr] * (Len(items[c]) + IF c = "expenses" THEN 10 ELSE 0)
    BY DEF SumsFit
  <2> DEFINE in == ColumnSum(items["incomes"], checkedCurr)
             out == ColumnSum(items["expenses"], checkedCurr)
             d == 12 * Rate[checkedCurr]
             sum == ColumnSum(items[c], checkedCurr)
             exact == ExactSum(items[c])
             n == Len(items[c])
  <2>1. items["incomes"] \in ItemLists /\ items["expenses"] \in ItemLists /\ items[c] \in ItemLists
        /\ checkedCurr \in Currencies
    BY DEF TypeOK, Columns
  <2>2. in \in Nat /\ out \in Nat /\ sum \in Nat /\ n \in Nat
    BY <2>1, ColumnSumNat, ColumnIs
  <2>3. d \in Nat
    BY <2>1, RateAssumption
  <2>4. exact \in Int /\ exact - n * d <= d * sum /\ d * sum <= exact + n * d
    BY <2>1, ColumnSumError
  <2>5. sums = [incomes |-> in, expenses |-> Level(in, Level(in, 0) + out)]
    BY DEF SumsAreCurrent, Sums
  <2>6. CASE c = "incomes"
    <3>1. sums[c] = sum
      BY <2>5, <2>6
    <3> HIDE DEF d, sum, exact, n
    <3>2. n * d = d * n /\ n * d \in Int /\ d * sum \in Int
      BY <2>2, <2>3
    <3>3. Abs(d * sum - exact) <= d * n
      BY <2>4, <3>2 DEF Abs
    <3> QED
      BY <2>2, <2>6, <3>1, <3>3 DEF d, exact, n
  <2>7. CASE c = "expenses"
    <3>1. sums[c] = Level(in, Level(in, 0) + out) /\ out = sum
      BY <2>5, <2>7
    <3>2. sums[c] \in Nat /\ Abs(sums[c] - sum) < 10
      BY <2>2, <3>1, LevellingIsSmall
    <3> DEFINE s == sums[c]
    <3> HIDE DEF d, sum, exact, n, s, in, out
    <3>3. s \in Nat /\ s <= sum + 10 /\ sum - 10 <= s
      BY <2>2, <3>2 DEF Abs, s
    <3>4. d * s <= d * (sum + 10) /\ d * (sum - 10) <= d * s
      BY <2>2, <2>3, <3>3
    <3>5. d * (sum + 10) = d * sum + 10 * d /\ d * (sum - 10) = d * sum - 10 * d
      BY <2>2, <2>3
    <3>6. d * (n + 10) = n * d + 10 * d
      BY <2>2, <2>3
    <3>7. d * s \in Int /\ d * sum \in Int /\ n * d \in Int
      BY <2>2, <2>3, <3>3
    <3>8. Abs(d * s - exact) <= d * (n + 10)
      BY <2>3, <2>4, <3>4, <3>5, <3>6, <3>7 DEF Abs
    <3> QED
      BY <2>7, <3>8 DEF d, exact, n, s
  <2> QED
    BY <2>6, <2>7 DEF Columns
<1> QED
  BY <1>1, TypeOKHolds, SumsAreCurrentHolds, PTL

--------------------------------------------------------------------------------
(* The forecast. *)

\* The statistics page shows the forecast of its present numbers once its timers have
\* gone off, for the slider's share or for all of the spare money.
THEOREM ForecastIsCurrentHolds == Spec => []ForecastIsCurrent
<1>1. Init => ForecastIsCurrent
  BY DEF Init, ForecastIsCurrent
<1>2. ForecastIsCurrent /\ [Next]_vars => ForecastIsCurrent'
  <2> SUFFICES ASSUME ForecastIsCurrent, [Next]_vars
               PROVE  ForecastIsCurrent'
    OBVIOUS
  \* The settings page: the page shows no forecast, or a timer has been started.
  <2>1. CASE AddItem
    BY <2>1 DEF AddItem, ForecastIsCurrent
  <2>2. CASE EditItem
    BY <2>2 DEF EditItem, ForecastIsCurrent
  <2>3. CASE TypeSum
    BY <2>3 DEF TypeSum, ForecastIsCurrent
  <2>4. CASE ClickSign
    BY <2>4 DEF ClickSign, ForecastIsCurrent
  <2>5. CASE Launch
    BY <2>5 DEF Launch, ForecastIsCurrent
  \* The statistics page.
  <2>6. CASE ChooseCurrency
    BY <2>6 DEF ChooseCurrency, ForecastIsCurrent
  <2>7. CASE Slide
    <3>1. shown' = Inputs(share') /\ UNCHANGED <<freeMoney, sums, plan>>
      BY <2>7 DEF Slide, money, InitSavingsCircles
    <3> QED
      BY <3>1 DEF ForecastIsCurrent, Inputs
  <2>8. CASE \E timer \in due : Forecast(timer)
    <3>1. PICK timer \in due : Forecast(timer)
      BY <2>8
    <3>2. shown' = Inputs(100) \/ shown' = Inputs(share)
      BY <3>1 DEF Forecast, InitSavingsCircles
    <3>3. UNCHANGED <<freeMoney, sums, plan, share>>
      BY <3>1 DEF Forecast, money
    <3> QED
      BY <3>2, <3>3 DEF ForecastIsCurrent, Inputs
  <2>9. CASE FadeStatistic
    BY <2>9 DEF FadeStatistic, ForecastIsCurrent
  <2>10. CASE CoolDown
    <3>1. UNCHANGED <<page, due, shown, share, freeMoney, sums, plan>>
      BY <2>10 DEF CoolDown, money
    <3> QED
      BY <3>1 DEF ForecastIsCurrent, Inputs
  <2>11. CASE UNCHANGED vars
    <3>1. UNCHANGED <<page, due, shown, share, freeMoney, sums, plan>>
      BY <2>11 DEF vars, money
    <3> QED
      BY <3>1 DEF ForecastIsCurrent, Inputs
  <2> QED
    BY <2>1, <2>2, <2>3, <2>4, <2>5, <2>6, <2>7, <2>8, <2>9, <2>10, <2>11 DEF Next
<1> QED
  BY <1>1, <1>2, PTL DEF Spec

--------------------------------------------------------------------------------
(* The slider. *)

\* The slider, built anew where it is, stays there: above 25 the number that it cuts to
\* whole units still tells its positions apart.
THEOREM SliderStays ==
  ASSUME NEW delta \in Nat, delta > 25,
         NEW n \in 0 .. 20
  PROVE  Snapped(ShareAt(5 * n, delta, delta)) = 5 * n
<1> DEFINE p == 5 * n
           v == RoundDiv(p * delta, 100)
           s == (200 * v + delta - 1) \div (2 * delta)
<1>1. v \in Int /\ 200 * v <= 2 * (p * delta) + 100 /\ 200 * v > 2 * (p * delta) - 100
  BY DEF RoundDiv
<1>2. ShareAt(5 * n, delta, delta) = s
  BY DEF ShareAt
<1> HIDE DEF v
<1>3. (p - 2) * (2 * delta) <= 200 * v + delta - 1
  BY <1>1
<1>4. 200 * v + delta - 1 < (p + 3) * (2 * delta)
  BY <1>1
<1>5. s \in Int /\ p - 2 <= s /\ s <= p + 2
  BY <1>1, <1>3, <1>4, Quotient
<1> HIDE DEF s
<1>6. Snapped(s) = p
  BY <1>5 DEF Snapped, RoundDiv
<1> QED
  BY <1>2, <1>6

\* Where the slider is built anew for a share that it shows at position 5 * n, with enough
\* money, it shows it there again.
LEMMA RebuiltStays ==
  ASSUME NEW s \in -100 .. 100, NEW delta \in Nat, delta > 25,
         NEW n \in 0 .. 20, Snapped(s) = 5 * n
  PROVE  Snapped(Rebuilt(s, delta, delta)) = 5 * n
<1>1. Handle(s, delta, delta) = 5 * n
  <2>1. s * delta >= 100 * delta <=> s >= 100
    <3>1. s * delta >= 100 * delta <=> (s - 100) * delta >= 0
      OBVIOUS
    <3>2. (s - 100) * delta >= 0 <=> s >= 100
      OBVIOUS
    <3> QED
      BY <3>1, <3>2
  <2>2. CASE s >= 100
    <3>1. Handle(s, delta, delta) = 100
      BY <2>1, <2>2 DEF Handle
    <3>2. Snapped(s) = 100
      BY <2>2 DEF Snapped, RoundDiv
    <3> QED
      BY <3>1, <3>2
  <2>3. CASE s < 0
    <3>1. s * delta < 100 * delta /\ ~(s * delta >= 100 * delta)
      BY <2>1, <2>3
    <3>2. Handle(s, delta, delta) = 0
      BY <2>3, <3>1 DEF Handle
    <3>3. Snapped(s) <= 0
      BY <2>3 DEF Snapped, RoundDiv
    <3> QED
      BY <3>2, <3>3
  <2>4. CASE s >= 0 /\ s < 100
    <3>1. ~(s * delta >= 100 * delta)
      BY <2>1, <2>4
    <3>2. Handle(s, delta, delta) = Snapped(s)
      BY <2>4, <3>1 DEF Handle
    <3> QED
      BY <3>2
  <2> QED
    BY <2>2, <2>3, <2>4
<1> QED
  BY <1>1, SliderStays DEF Rebuilt

\* For any sums and rates, the slider stays where the user left it, as long as there is
\* enough to tell its positions apart whenever it is built anew.
THEOREM SliderHoldsAlways == Spec => []SliderHolds
<1>1. Init => SliderHolds
  BY DEF Init, SliderHolds, Snapped, RoundDiv
<1>2. TypeOK /\ SliderHolds /\ [Next]_vars => SliderHolds'
  <2> SUFFICES ASSUME TypeOK, SliderHolds, [Next]_vars
               PROVE  SliderHolds'
    OBVIOUS
  <2>1. ASSUME NEW delta \in Int, NEW max \in {delta, Abs(delta)}, RebuildSlider(delta, max)
        PROVE  SliderHolds'
    <3> SUFFICES ASSUME slid' # -1 PROVE Snapped(share') = slid'
      BY DEF SliderHolds, Snapped, RoundDiv
    <3>1. delta > 25 /\ slid' = slid /\ share' = Rebuilt(share, delta, max)
      BY <2>1 DEF RebuildSlider
    <3>2. max = delta /\ delta \in Nat
      BY <3>1 DEF Abs
    <3>3. PICK n \in 0 .. 20 : slid = 5 * n
      <4>1. slid \in Positions \cup {100}
        BY <3>1 DEF TypeOK
      <4>2. 100 = 5 * 20
        OBVIOUS
      <4> QED
        BY <4>1, <4>2, FieldsAre
    <3>4. share \in -100 .. 100 /\ Snapped(share) = 5 * n
      BY <3>1, <3>3 DEF SliderHolds, TypeOK
    <3>5. Snapped(Rebuilt(share, delta, delta)) = 5 * n
      BY <3>1, <3>2, <3>4, RebuiltStays
    <3> QED
      BY <3>1, <3>2, <3>3, <3>5
  <2>2. ASSUME UNCHANGED <<share, slid>> PROVE SliderHolds'
    BY <2>2 DEF SliderHolds, Snapped, RoundDiv
  <2>3. CASE ClickSign
    <3>1. Delta(sums) \in Int /\ RebuildSlider(Delta(sums), Delta(sums))
      BY <2>3, DeltaInt DEF ClickSign, TypeOK
    <3> QED
      BY <2>1, <3>1
  <2>4. CASE Launch
    <3>1. Delta(sums) \in Int /\ RebuildSlider(Delta(sums), Abs(Delta(sums)))
      BY <2>4, DeltaInt DEF Launch, TypeOK
    <3> QED
      BY <2>1, <3>1
  <2>5. CASE ChooseCurrency
    <3>1. sums' \in [Columns -> Nat]
      BY <2>5, SumsNat DEF ChooseCurrency, RunConvert, TypeOK
    <3>2. Delta(sums') \in Int /\ RebuildSlider(Delta(sums'), Abs(Delta(sums')))
      BY <2>5, <3>1, DeltaInt DEF ChooseCurrency
    <3> QED
      BY <2>1, <3>2
  <2>6. CASE Slide
    <3> SUFFICES ASSUME slid' # -1 PROVE Snapped(share') = slid'
      BY DEF SliderHolds, Snapped, RoundDiv
    <3>1. PICK p \in Positions :
            /\ share' = ShareAt(p, Delta(sums), Abs(Delta(sums)))
            /\ slid' = IF Delta(sums) > 25 THEN p ELSE -1
      BY <2>6 DEF Slide
    <3>2. Delta(sums) \in Int /\ Delta(sums) > 25 /\ slid' = p
      BY <3>1, DeltaInt DEF TypeOK
    <3>3. Delta(sums) \in Nat /\ Abs(Delta(sums)) = Delta(sums)
      BY <3>2 DEF Abs
    <3>4. PICK n \in 0 .. 20 : p = 5 * n
      BY FieldsAre
    <3>5. Snapped(ShareAt(5 * n, Delta(sums), Delta(sums))) = 5 * n
      BY <3>2, <3>3, SliderStays
    <3> QED
      BY <3>1, <3>2, <3>3, <3>4, <3>5
  <2>7. CASE AddItem \/ EditItem \/ TypeSum \/ FadeStatistic \/ CoolDown
    BY <2>2, <2>7 DEF AddItem, EditItem, TypeSum, FadeStatistic, CoolDown
  <2>8. CASE \E timer \in due : Forecast(timer)
    BY <2>2, <2>8 DEF Forecast
  <2>9. CASE UNCHANGED vars
    BY <2>2, <2>9 DEF vars
  <2> QED
    BY <2>3, <2>4, <2>5, <2>6, <2>7, <2>8, <2>9 DEF Next
<1> QED
  BY <1>1, <1>2, TypeOKHolds, PTL DEF Spec

--------------------------------------------------------------------------------
(* The deposit. *)

\* The statistics page never shows a share of a debt while there is something to save:
\* the slider is built anew whenever the sums change there.
ShareOfSavings == page = "statistics" /\ Delta(sums) >= 0 => share >= 0

\* On the statistics page the sums change only with the currency, after which
\* initStatisticPage builds the slider anew from them.
THEOREM ShareOfSavingsHolds == Spec => []ShareOfSavings
<1>1. Init => ShareOfSavings
  BY DEF Init, ShareOfSavings
<1>2. TypeOK /\ TypeOK' /\ ShareOfSavings /\ [Next]_vars => ShareOfSavings'
  <2> SUFFICES ASSUME TypeOK, TypeOK', ShareOfSavings, [Next]_vars
               PROVE  ShareOfSavings'
    OBVIOUS
  <2>1. ASSUME NEW delta \in Int, delta = Delta(sums)', RebuildSlider(delta, Abs(delta))
        PROVE  ShareOfSavings'
    <3> SUFFICES ASSUME delta >= 0 PROVE share' >= 0
      BY <2>1 DEF ShareOfSavings
    <3>1. delta \in Nat /\ Abs(delta) = delta
      BY DEF Abs
    <3>2. share' = ShareAt(Handle(share, delta, delta), delta, delta)
      BY <2>1, <3>1 DEF RebuildSlider, Rebuilt
    <3>3. Handle(share, delta, delta) \in 0 .. 100
      BY HandleRange DEF TypeOK
    <3>4. ShareAt(Handle(share, delta, delta), delta, delta) \in 0 .. 100
      BY <3>1, <3>3, ShareAtNat
    <3> QED
      BY <3>2, <3>4
  <2>2. ASSUME page' = "settings" PROVE ShareOfSavings'
    BY <2>2 DEF ShareOfSavings
  <2>3. CASE AddItem \/ EditItem \/ TypeSum \/ ClickSign \/ FadeStatistic
    BY <2>2, <2>3 DEF AddItem, EditItem, TypeSum, ClickSign, FadeStatistic
  <2>4. CASE Launch
    <3>1. RebuildSlider(Delta(sums), Abs(Delta(sums))) /\ sums' = sums
      BY <2>4 DEF Launch
    <3>2. Delta(sums)' = Delta(sums) /\ Delta(sums) \in Int
      BY <3>1, DeltaInt DEF Delta, TypeOK
    <3> QED
      BY <2>1, <3>1, <3>2
  <2>5. CASE ChooseCurrency
    <3>1. RebuildSlider(Delta(sums'), Abs(Delta(sums'))) /\ Delta(sums') = Delta(sums)'
      BY <2>5 DEF ChooseCurrency, Delta
    <3>2. Delta(sums') \in Int
      BY DeltaInt DEF TypeOK
    <3> QED
      BY <2>1, <3>1, <3>2
  <2>6. CASE Slide
    <3>1. PICK p \in Positions : share' = ShareAt(p, Delta(sums), Abs(Delta(sums)))
      BY <2>6 DEF Slide
    <3>2. p \in 0 .. 100 /\ Delta(sums) \in Int /\ Delta(sums)' = Delta(sums)
      BY <2>6, FieldsAre, DeltaInt DEF Slide, Delta, TypeOK
    <3> SUFFICES ASSUME Delta(sums) >= 0 PROVE share' >= 0
      BY <3>2 DEF ShareOfSavings
    <3>3. Delta(sums) \in Nat /\ Abs(Delta(sums)) = Delta(sums)
      BY <3>2 DEF Abs
    <3>4. ShareAt(p, Delta(sums), Delta(sums)) \in 0 .. 100
      BY <3>2, <3>3, ShareAtNat
    <3> QED
      BY <3>1, <3>3, <3>4
  <2>7. ASSUME UNCHANGED <<page, sums, share>> PROVE ShareOfSavings'
    BY <2>7 DEF ShareOfSavings, Delta
  <2>8. CASE CoolDown \/ UNCHANGED vars
    BY <2>7, <2>8 DEF CoolDown, vars
  <2>9. CASE \E timer \in due : Forecast(timer)
    BY <2>7, <2>9 DEF Forecast
  <2> QED
    BY <2>3, <2>4, <2>5, <2>6, <2>8, <2>9 DEF Next
<1> QED
  BY <1>1, <1>2, TypeOKHolds, PTL DEF Spec

\* For any savings, percents and shares, the forecast that the page comes to rest on never
\* shows a deposit worse than none, but for what is cut off every month.
THEOREM InterestPaysHolds == Spec => []InterestPays
<1>1. TypeOK /\ ForecastIsCurrent /\ ShareOfSavings => InterestPays
  <2> SUFFICES ASSUME TypeOK, ForecastIsCurrent, ShareOfSavings,
                      page = "statistics" /\ due = {} /\ shown.delta >= 0
               PROVE  LET year(kind) == MonthSavings([shown EXCEPT !.plan.kind = kind])[12]
                      IN /\ year("off") <= year("simple")
                         /\ year("simple") <= year("capitalized") + 11 * 1199
                                                + 66 * shown.plan.percent
    BY DEF InterestPays
  <2>1. shown = Inputs(shown.share) /\ shown.share \in {share, 100}
    BY DEF ForecastIsCurrent
  <2>2. shown.delta = Delta(sums)
    BY <2>1 DEF Inputs
  <2>3. shown.share >= 0
    BY <2>1, <2>2 DEF ShareOfSavings
  <2>4. shown \in [money : Nat, delta : Int, plan : Plans, share : -100 .. 100]
    BY DEF TypeOK
  <2>5. shown \in [money : Nat, delta : Nat, plan : Plans, share : Nat]
    BY <2>3, <2>4
  <2> QED
    BY <2>5, DepositPays
<1> QED
  BY <1>1, TypeOKHolds, ForecastIsCurrentHolds, ShareOfSavingsHolds, PTL

--------------------------------------------------------------------------------
(* The savings. *)

\* The savings are in one of the three places of Kept, for the sum that the user typed.
SavingsArePlaced == Kept(freeMoney * Rate[lastCurr], lastCurr, typed.sum * Rate[typed.of])

\* If the rates are apart, no conversion on either page takes the savings out of these places.
LEMMA SavingsArePlacedHolds ==
  ASSUME RatesApart
  PROVE  Spec => []SavingsArePlaced
<1>1. Init => SavingsArePlaced
  <2> SUFFICES ASSUME Init PROVE SavingsArePlaced
    OBVIOUS
  <2>1. freeMoney \in Nat /\ lastCurr \in Currencies
    BY FieldsAre DEF Init
  <2>2. typed.sum = freeMoney /\ typed.of = lastCurr
    BY DEF Init
  <2> QED
    BY <2>1, <2>2, KeptTyped DEF SavingsArePlaced
<1>2. TypeOK /\ TypeOK' /\ SavingsArePlaced /\ [Next]_vars => SavingsArePlaced'
  <2> SUFFICES ASSUME TypeOK, TypeOK', SavingsArePlaced, [Next]_vars
               PROVE  SavingsArePlaced'
    OBVIOUS
  <2>1. typed.sum * Rate[typed.of] \in Int
    BY RateAssumption DEF TypeOK
  <2>2. ASSUME NEW to \in Currencies, ChangeCurrency(to), typed' = typed
        PROVE  SavingsArePlaced'
    <3>1. freeMoney \in Nat /\ lastCurr \in Currencies
      BY DEF TypeOK
    <3>2. freeMoney' = RoundDiv(freeMoney * Rate[lastCurr], Rate[to]) /\ lastCurr' = to
      BY <2>2 DEF ChangeCurrency
    <3>3. Kept(freeMoney' * Rate[to], to, typed.sum * Rate[typed.of])
      BY <2>1, <3>1, <3>2, KeptStep DEF SavingsArePlaced
    <3> QED
      BY <2>2, <3>2, <3>3 DEF SavingsArePlaced, Kept, Within, Dearer, Cheaper
  <2>3. ASSUME UNCHANGED <<freeMoney, lastCurr, typed>> PROVE SavingsArePlaced'
    BY <2>3 DEF SavingsArePlaced, Kept, Within, Dearer, Cheaper
  <2>4. ASSUME NEW to \in Currencies, InitStatisticPage(to), typed' = typed
        PROVE  SavingsArePlaced'
    BY <2>2, <2>3, <2>4 DEF InitStatisticPage, money
  <2>5. CASE TypeSum
    <3>1. freeMoney' \in Nat /\ lastCurr' \in Currencies
      BY DEF TypeOK
    <3>2. typed'.sum = freeMoney' /\ typed'.of = lastCurr'
      BY <2>5 DEF TypeSum
    <3>3. Kept(freeMoney' * Rate[lastCurr'], lastCurr', freeMoney' * Rate[lastCurr'])
      BY <3>1, KeptTyped
    <3> QED
      BY <3>2, <3>3 DEF SavingsArePlaced, Kept, Within, Dearer, Cheaper
  <2>6. CASE ClickSign
    <3>1. checkedCurr' \in Currencies /\ ChangeCurrency(checkedCurr') /\ typed' = typed
      BY <2>6 DEF ClickSign, TypeOK
    <3> QED
      BY <2>2, <3>1
  <2>7. CASE Launch
    <3>1. checkedCurr \in Currencies /\ InitStatisticPage(checkedCurr) /\ typed' = typed
      BY <2>7 DEF Launch, TypeOK
    <3> QED
      BY <2>4, <3>1
  <2>8. CASE ChooseCurrency
    <3>1. checkedCurr' \in Currencies /\ InitStatisticPage(checkedCurr') /\ typed' = typed
      BY <2>8 DEF ChooseCurrency
    <3> QED
      BY <2>4, <3>1
  <2>9. CASE AddItem \/ EditItem \/ Slide \/ FadeStatistic \/ CoolDown
    BY <2>3, <2>9 DEF AddItem, EditItem, Slide, FadeStatistic, CoolDown, money
  <2>10. CASE \E timer \in due : Forecast(timer)
    BY <2>3, <2>10 DEF Forecast, money
  <2>11. CASE UNCHANGED vars
    BY <2>3, <2>11 DEF vars, money
  <2> QED
    BY <2>5, <2>6, <2>7, <2>8, <2>9, <2>10, <2>11 DEF Next
<1> QED
  BY <1>1, <1>2, TypeOKHolds, PTL DEF Spec

\* For any sum, however often and in whatever order the currencies are chosen, the savings
\* stay worth what the user typed, if the rates are apart.
THEOREM SavingsKeptHolds ==
  ASSUME RatesApart
  PROVE  Spec => []SavingsKept
<1>1. TypeOK /\ SavingsArePlaced => SavingsKept
  <2> SUFFICES ASSUME TypeOK, SavingsArePlaced PROVE SavingsKept
    OBVIOUS
  <2>1. lastCurr \in Currencies /\ freeMoney * Rate[lastCurr] \in Int /\ typed.sum * Rate[typed.of] \in Int
    BY RateAssumption DEF TypeOK
  <2> QED
    BY <2>1, KeptIsNear DEF SavingsKept, SavingsArePlaced
<1> QED
  BY <1>1, TypeOKHolds, SavingsArePlacedHolds, PTL
==================================================================================
