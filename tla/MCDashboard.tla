------------------------------- MODULE MCDashboard -------------------------------
(* Small columns around the limits of the roundings, in three currencies. *)
EXTENDS DashboardProperties

MCItem(a, c, p) == [amount |-> a, currency |-> c, period |-> p]
MCItems == {MCItem(100, "RUB", "QUARTER"), MCItem(1, "EUR", "HOUR")}
MCPlans == {[kind |-> "off", percent |-> 0], [kind |-> "simple", percent |-> 8]}
MCRate == [RUB |-> 10, EUR |-> 73, USD |-> 41]

\* The run is one of those for which SavingsKept is proved.
ASSUME MCRatesApart == RatesApart
================================================================================
