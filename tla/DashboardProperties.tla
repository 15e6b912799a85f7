--------------------------- MODULE DashboardProperties ---------------------------
(***************************************************************************)
(* What the numbers of the web client keep to through any series of        *)
(* conversions, launches and slides.                                       *)
(***************************************************************************)
EXTENDS Dashboard

\* The exact monthly sum of a column, in 1/120 of a rouble.
ExactSum(column) ==
  FoldLeft(LAMBDA sum, item :
             sum + item.amount * Rate[item.currency] * PerMonth[item.period][1]
                     * (12 \div PerMonth[item.period][2]),
           0, column)

\* Every sum is right in the chosen currency up to one unit for each item, and the
\* expenses up to another 10 from being levelled, once or twice, however often the
\* currency was changed on either page.
SumsFit ==
  \A c \in Columns :
    Abs(12 * Rate[checkedCurr] * sums[c] - ExactSum(items[c]))
      <= 12 * Rate[checkedCurr] * (Len(items[c]) + IF c = "expenses" THEN 10 ELSE 0)

\* The two foreign currencies, the dearer one first.
Dearer == IF Rate["EUR"] >= Rate["USD"] THEN "EUR" ELSE "USD"
Cheaper == IF Rate["EUR"] >= Rate["USD"] THEN "USD" ELSE "EUR"

\* The rates with which the savings keep: the foreign currencies are worth more than a
\* rouble, and differ by more than two.  Close to parity, a round through all of them may
\* end a thousandth from where it began, again and again in the same direction.
RatesApart ==
  /\ Rate[Cheaper] > Rate["RUB"]
  /\ Rate[Dearer] > Rate[Cheaper] + 2 * Rate["RUB"]

\* Conversions do not wear the savings out: however many there are, what is left of
\* the sum in the field is worth the same up to two thousandths of the dearer currency.
SavingsKept ==
  Abs(freeMoney * Rate[lastCurr] - typed.sum * Rate[typed.of]) <= 2 * Rate[Dearer]

\* The slider keeps the position to which the user dragged it through every change
\* of the currency and every launch, if the spare money was more than 25 each time.
SliderHolds == slid # -1 => Snapped(share) = slid

\* The statistics page does not keep a forecast of other numbers than it shows: once
\* the timers have gone off it is the forecast of the present sums, savings and deposit,
\* for the slider's share or, after a launch, for all of the spare money.
ForecastIsCurrent ==
  page = "statistics" /\ due = {}
  => /\ shown = Inputs(shown.share)
     /\ shown.share \in {share, 100}

\* A deposit never looks worse than none, nor capitalization worse than none, but for
\* what parseInt cuts off: less than a unit in each of 11 months, and the interest on it.
InterestPays ==
  page = "statistics" /\ due = {} /\ shown.delta >= 0
  => LET year(kind) == MonthSavings([shown EXCEPT !.plan.kind = kind])[12]
     IN /\ year("off") <= year("simple")
        /\ year("simple") <= year("capitalized") + 11 * 1199 + 66 * shown.plan.percent
================================================================================
