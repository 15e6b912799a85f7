-------------------------------- MODULE Dashboard --------------------------------
(***************************************************************************)
(* The numbers of the web client: the monthly sums of both columns in the  *)
(* chosen currency, the savings as they follow the currency, the slider    *)
(* that splits the spare money, and the forecast of the savings over a     *)
(* year (dashboard.js, and the handlers of main.js that call it).          *)
(*                                                                         *)
(* What makes it hard: every conversion starts from the result of the last *)
(* one and rounds, initStatisticPage is debounced while runConvert is not, *)
(* and the forecast is computed by timers, from what the page holds then.  *)
(*                                                                         *)
(* The rates have come, and no item is deleted: WebClient has the rest.    *)
(* Amounts are whole, converted amounts are kept in thousandths; ties of   *)
(* toFixed, which the binary fractions decide, are rounded up.             *)
(***************************************************************************)
EXTENDS Integers, SequencesExt

CONSTANTS
  Items,      \* what may be in a column: [amount, currency, period]
  Amounts,    \* sums that the user may type
  Plans,      \* the deposit's fields: [kind, percent]
  Positions,  \* percents to which the user may drag the slider
  Rate,       \* roubles, in tenths, for one unit of a currency
  MaxItems,   \* bound: items in a column
  MaxEdits    \* bound: items and sums that the user enters

Currencies == {"RUB", "EUR", "USD"}
Columns == {"incomes", "expenses"}

\* How often a period fits into a month, as a fraction: 30.41666667 days are 365 / 12.
PerMonth == [MONTH |-> <<1, 1>>, HOUR |-> <<730, 1>>, DAY |-> <<365, 12>>,
             QUARTER |-> <<1, 3>>, YEAR |-> <<1, 12>>]

ASSUME ItemsAssumption ==
  Items \subseteq [amount : Nat, currency : Currencies, period : DOMAIN PerMonth]
ASSUME RateAssumption == Rate \in [Currencies -> Nat \ {0}] /\ Rate["RUB"] = 10
ASSUME FieldsAssumption ==
  /\ Amounts \subseteq Nat
  /\ Plans \subseteq [kind : {"off", "simple", "capitalized"}, percent : 0 .. 99]
  /\ Positions \subseteq {p \in 0 .. 100 : p % 5 = 0}
ASSUME BoundsAssumption == MaxItems \in Nat /\ MaxEdits \in Nat

VARIABLES
  page,                  \* "settings" or "statistics"
  items,                 \* incomes and expenses
  checkedCurr, lastCurr, \* the currency chosen, and that of the savings
  freeMoney,             \* the savings, in thousandths
  field,                 \* the number in #savingsvalue
  sums,                  \* incomesSumMonth and expensesSumMonth
  plan,                  \* savings.deposit, capitalization and percent
  share,                 \* the slider's checkedPercent, in hundredths
  cooling,               \* initStatisticPage ignores calls
  due,                   \* timers that have not called initSavingsCircles yet
  shown,                 \* what the forecast on the page was computed from
  \* history
  edits, typed, slid

money == <<freeMoney, lastCurr>>
vars == <<page, items, checkedCurr, money, field, sums, plan, share, cooling, due,
           shown, edits, typed, slid>>

--------------------------------------------------------------------------------
(* Arithmetic. *)

Abs(n) == IF n < 0 THEN -n ELSE n

\* The nearest whole number to a / b, ties up.
RoundDiv(a, b) == (2 * a + b) \div (2 * b)

\* parseInt of a / b.
Whole(a, b) == IF a < 0 THEN -((-a) \div b) ELSE a \div b

\* getConverted for one item, in thousandths of the chosen currency a month.
Converted(item, currency) ==
  LET roubles == RoundDiv(item.amount * 1000 * Rate[item.currency], 10)
      monthly == RoundDiv(roubles * PerMonth[item.period][1], PerMonth[item.period][2])
  IN RoundDiv(monthly * 10, Rate[currency])

ColumnSum(column, currency) ==
  FoldLeft(LAMBDA sum, item : sum + RoundDiv(Converted(item, currency), 1000), 0, column)

\* Expenses that are about as high as the incomes are taken to be as high.
Level(in, out) == IF Abs(in - out) < 10 THEN in ELSE out

\* The sums that runConvert leaves: getConverted levels them after each column.
Sums(is, currency) ==
  LET in == ColumnSum(is["incomes"], currency)
      out == ColumnSum(is["expenses"], currency)
  IN [incomes |-> in, expenses |-> Level(in, Level(in, 0) + out)]

\* Mutant of RunConvert: the sums are not reset.
RunConvertOnTop(is, currency) ==
  sums' = [c \in Columns |-> sums[c] + Sums(is, currency)[c]]

RunConvert(is, currency) == sums' = Sums(is, currency)

Delta(s) == s["incomes"] - s["expenses"]

\* The percent to which noUiSlider moves the handle for a share: 5 at a time.
Snapped(s) == 5 * RoundDiv(s, 5)

\* Mutant of ShareAt: the number itself is kept, not its part of delta.
ValueAt(percent, delta, max) == RoundDiv(percent * max, 100)

\* The share that the slider's callback computes for a handle at percent of the range:
\* the number is cut to whole units first, and delta + 0.001 divides it.
ShareAt(percent, delta, max) ==
  LET value == RoundDiv(percent * max, 100)
  IN CASE delta > 0 -> (200 * value + delta - 1) \div (2 * delta)
       [] delta = 0 -> 0
       [] delta < 0 -> -RoundDiv(100 * value, -delta)

\* Where noUiSlider puts the handle of a slider that starts at share s of delta, in a
\* range from 0 to max, which is delta or its absolute value.
Handle(s, delta, max) ==
  LET percent == IF max = delta THEN s ELSE -s
  IN CASE s * delta >= 100 * max               -> 100
       [] s * delta < 100 * max /\ percent < 0 -> 0
       [] OTHER                                -> Snapped(percent)

\* Mutant of Rebuilt: the slider starts from user.checkedPercent, which is always 1.
RebuiltFull(s, delta, max) == ShareAt(Handle(100, delta, max), delta, max)

\* The share after the slider was built anew.
Rebuilt(s, delta, max) == ShareAt(Handle(s, delta, max), delta, max)

--------------------------------------------------------------------------------
(* The forecast: initSavingsCircles. *)

\* Mutant of LastMonth: what is not sent to the deposit is left out.
LastMonthOfDeposit(f) ==
  1200 * f.money + 12 * f.plan.percent * f.money + 144 * f.delta * f.share
    + (66 * f.delta * f.share * f.plan.percent) \div 100

\* The last month of a deposit without capitalization, in 1/1200 of a unit: a year's
\* interest on the savings, and on every month's refill for the months after it.
LastMonth(f) ==
  1200 * f.money + 12 * f.plan.percent * f.money + 14400 * f.delta
    + (66 * f.delta * f.share * f.plan.percent) \div 100

\* monthSavings, in 1/1200 of a unit, for the inputs f.
MonthSavings(f) ==
  LET kind == IF f.delta < 0 THEN "off" ELSE f.plan.kind
      interest == IF kind = "capitalized" THEN f.plan.percent ELSE 0
      refill == 12 * f.delta * (IF kind = "off" THEN 100 ELSE f.share)
      deposit[i \in 0 .. 12] ==
        IF i = 0 THEN 1200 * f.money
        ELSE Whole(deposit[i - 1], 1200) * (1200 + interest) + refill
  IN [i \in 0 .. 12 |->
        CASE kind = "off"                -> deposit[i]
          [] kind = "capitalized"        -> deposit[i] + i * (1200 * f.delta - refill)
          [] kind = "simple" /\ i < 12   -> deposit[i]
          [] kind = "simple" /\ i = 12   -> LastMonth(f)]

\* What initSavingsCircles computes from, given a share.
Inputs(s) ==
  [money |-> Whole(freeMoney, 1000), delta |-> Delta(sums), plan |-> plan, share |-> s]

InitSavingsCircles(s) == shown' = Inputs(s)

\* It also leaves the slider to the user, or disables it.
Locked == shown.plan.kind = "off" \/ shown.delta <= 0

--------------------------------------------------------------------------------

ItemLists == UNION {[1 .. n -> Items] : n \in 0 .. MaxItems}

TypeOK ==
  /\ page \in {"settings", "statistics"}
  /\ items \in [Columns -> ItemLists]
  /\ checkedCurr \in Currencies /\ lastCurr \in Currencies
  /\ freeMoney \in Nat /\ field \in Nat
  /\ sums \in [Columns -> Nat]
  /\ plan \in Plans
  /\ share \in -100 .. 100
  /\ cooling \in BOOLEAN
  /\ due \subseteq {"launch", "currency"}
  /\ shown \in [money : Nat, delta : Int, plan : Plans, share : -100 .. 100]
  /\ edits \in 0 .. MaxEdits
  /\ typed \in [sum : Nat, of : Currencies]
  /\ slid \in Positions \cup {100, -1}

\* The page after initGreetingPage, once its timer has gone off.
Init ==
  /\ page = "settings"
  /\ items \in [Columns -> ItemLists]
  /\ checkedCurr \in Currencies /\ lastCurr = checkedCurr
  /\ field \in Amounts /\ freeMoney = 1000 * field
  /\ sums = Sums(items, checkedCurr)
  /\ plan \in Plans
  /\ share = 100
  /\ cooling = FALSE /\ due = {}
  /\ shown = Inputs(100)
  /\ edits = 0
  /\ typed = [sum |-> freeMoney, of |-> lastCurr]
  /\ slid = 100

--------------------------------------------------------------------------------
(* What the handlers call. *)

Edit == edits < MaxEdits /\ edits' = edits + 1

\* Mutant of ChangeCurrency: the savings are rounded to whole units.
ChangeCurrencyWhole(to) ==
  /\ freeMoney' = 1000 * RoundDiv(RoundDiv(freeMoney * Rate[lastCurr], Rate[to]), 1000)
  /\ lastCurr' = to

ChangeCurrency(to) ==
  /\ freeMoney' = RoundDiv(freeMoney * Rate[lastCurr], Rate[to])
  /\ lastCurr' = to

\* initStatisticPage and its debounce.
InitStatisticPage(currency) ==
  IF cooling THEN UNCHANGED <<money, cooling>>
  ELSE ChangeCurrency(currency) /\ cooling' = TRUE

\* The slider built anew for delta.  History: where the user left the slider, if since
\* then it was built for enough money to tell 5 percent from 10.
RebuildSlider(delta, max) ==
  /\ share' = Rebuilt(share, delta, max)
  /\ slid' = IF delta > 25 THEN slid ELSE -1

--------------------------------------------------------------------------------
(* The settings page. *)

AddItem ==
  /\ page = "settings"
  /\ Edit
  /\ \E c \in Columns, x \in Items :
       /\ Len(items[c]) < MaxItems
       /\ items' = [items EXCEPT ![c] = Append(items[c], x)]
  /\ RunConvert(items', checkedCurr)
  /\ UNCHANGED <<page, checkedCurr, money, field, plan, share, cooling, due, shown,
                 typed, slid>>

EditItem ==
  /\ page = "settings"
  /\ Edit
  /\ \E c \in Columns, x \in Items : \E i \in DOMAIN items[c] :
       items' = [items EXCEPT ![c][i] = x]
  /\ RunConvert(items', checkedCurr)
  /\ UNCHANGED <<page, checkedCurr, money, field, plan, share, cooling, due, shown,
                 typed, slid>>

\* Any key or click in the field of the savings takes the number that is in it.
TypeSum ==
  /\ page = "settings"
  /\ Edit
  /\ field' \in Amounts \cup {field}
  /\ freeMoney' = 1000 * field'
  /\ typed' = [sum |-> freeMoney', of |-> lastCurr]
  /\ UNCHANGED <<page, items, checkedCurr, lastCurr, sums, plan, share, cooling, due,
                 shown, slid>>

NextCurrency == [RUB |-> "EUR", EUR |-> "USD", USD |-> "RUB"]

\* The sign next to it: the slider is built for the sums in the old currency.
ClickSign ==
  /\ page = "settings"
  /\ checkedCurr' = NextCurrency[checkedCurr]
  /\ ChangeCurrency(checkedCurr')
  /\ field' = RoundDiv(freeMoney', 1000)
  /\ RebuildSlider(Delta(sums), Delta(sums))
  /\ RunConvert(items, checkedCurr')
  /\ UNCHANGED <<page, items, plan, cooling, due, shown, edits, typed>>

\* launchStatistic.  Its own debounce outlasts the timer that it starts.
Launch ==
  /\ page = "settings"
  /\ \A c \in Columns : items[c] # <<>>
  /\ "launch" \notin due
  /\ plan' \in Plans
  /\ InitStatisticPage(checkedCurr)
  /\ due' = due \cup {"launch"}
  /\ page' = "statistics"
  /\ RebuildSlider(Delta(sums), Abs(Delta(sums)))
  /\ UNCHANGED <<items, checkedCurr, field, sums, shown, edits, typed>>

--------------------------------------------------------------------------------
(* The statistics page. *)

\* Mutant of ChooseCurrency: the forecast is computed at once, from the old numbers.
ChooseAtOnce ==
  /\ page = "statistics"
  /\ checkedCurr' \in Currencies
  /\ RunConvert(items, checkedCurr')
  /\ InitStatisticPage(checkedCurr')
  /\ InitSavingsCircles(share)
  /\ RebuildSlider(Delta(sums'), Abs(Delta(sums')))
  /\ UNCHANGED <<page, items, field, plan, due, edits, typed>>

\* The currency buttons.
ChooseCurrency ==
  /\ page = "statistics"
  /\ checkedCurr' \in Currencies
  /\ RunConvert(items, checkedCurr')
  /\ InitStatisticPage(checkedCurr')
  /\ due' = due \cup {"currency"}
  /\ RebuildSlider(Delta(sums'), Abs(Delta(sums')))
  /\ UNCHANGED <<page, items, field, plan, shown, edits, typed>>

\* The handle dragged to another position.
Slide ==
  /\ page = "statistics"
  /\ ~Locked
  /\ \E p \in Positions :
       /\ share' = ShareAt(p, Delta(sums), Abs(Delta(sums)))
       /\ slid' = IF Delta(sums) > 25 THEN p ELSE -1
  /\ InitSavingsCircles(share')
  /\ UNCHANGED <<page, items, checkedCurr, money, field, sums, plan, cooling, due, edits, typed>>

\* The timers of launchStatistic, which forecasts for user.checkedPercent, and of the
\* currency buttons, which forecast for the slider.
Forecast(timer) ==
  /\ timer \in due
  /\ due' = due \ {timer}
  /\ InitSavingsCircles(IF timer = "launch" THEN 100 ELSE share)
  /\ UNCHANGED <<page, items, checkedCurr, money, field, sums, plan, share, cooling, edits,
                 typed, slid>>

FadeStatistic ==
  /\ page = "statistics"
  /\ page' = "settings"
  /\ field' = RoundDiv(freeMoney, 1000)
  /\ UNCHANGED <<items, checkedCurr, money, sums, plan, share, cooling, due, shown,
                 edits, typed, slid>>

\* The timer of initStatisticPage's debounce.
CoolDown ==
  /\ cooling
  /\ cooling' = FALSE
  /\ UNCHANGED <<page, items, checkedCurr, money, field, sums, plan, share, due,
                 shown, edits, typed, slid>>

--------------------------------------------------------------------------------

Next ==
  \/ AddItem \/ EditItem \/ TypeSum \/ ClickSign \/ Launch
  \/ ChooseCurrency \/ Slide \/ FadeStatistic \/ CoolDown
  \/ \E timer \in due : Forecast(timer)

Spec == Init /\ [][Next]_vars
================================================================================
