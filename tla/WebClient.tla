-------------------------------- MODULE WebClient --------------------------------
(***************************************************************************)
(* The web client: one browser page that loads the account, lets the user  *)
(* change it, and sends the whole of it to the server with every change    *)
(* (main.js, launch.js, login.js, the state of dashboard.js).              *)
(*                                                                         *)
(* What makes it hard: jsonDataSave is debounced by dropping calls, several *)
(* PUTs may be on their way at once, the rates for converting the sums come *)
(* from a third party at any time or never, and an exception in a slider   *)
(* ends whatever handler it happens in.                                    *)
(***************************************************************************)
EXTENDS Naturals, SequencesExt

CONSTANTS
  Contents,  \* what the user may enter: the content of an item, or a note
  MaxEdits,  \* bound: changes the user makes
  MaxPuts    \* bound: PUTs on their way at a time

ASSUME BoundsAssumption == MaxEdits \in Nat /\ MaxPuts \in Nat
ASSUME ContentsAssumption == "own" \notin Contents /\ "demo" \notin Contents

VARIABLES
  \* the browser's page
  page, permit, rates,           \* what is shown, global.savePermit, the rates have come
  items, note,                   \* incomes and expenses, user.notes
  money, checked, last,          \* savings.freeMoney, user.checkedCurr, user.lastCurr
  numeric,                       \* the two monthly sums are finite numbers
  filled, unseen,                \* the settings page is filled; items without a place on it
  second,                        \* the item that data("seconditem") names
  closing,                       \* the column of a window that is still closing
  cooling,                       \* debounced functions that ignore calls
  \* around it
  session, puts, stored,         \* the gateway's session, PUTs on their way, the account
  \* history
  edits, gap, spoilt

client == <<items, note, money, checked, last, numeric, filled, unseen, second>>
around == <<session, puts, stored>>
vars == <<page, permit, rates, client, closing, cooling, around, edits, gap, spoilt>>

Columns == {"incomes", "expenses"}
Currencies == {"RUB", "EUR", "USD"}

\* Mutant of NextCurrency: a currency that the conversions do not know.
OtherCurrency == [RUB |-> "EUR", EUR |-> "USD", USD |-> "GBP"]

\* The currency that a click on the sign of the savings changes to.
NextCurrency == [RUB |-> "EUR", EUR |-> "USD", USD |-> "RUB"]

\* A sum of money: where its number comes from, and the currency in which that
\* number is right.  NaN and Infinity are "null", as in JSON.
Money == [sum : {"own", "typed", "zero", "null"}, of : Currencies \cup {"none"}]

Entries == Contents \cup {"own", "demo"}

\* The body of PUT accounts/current.
Documents == [items : [Columns -> Seq(Entries)], note : Entries \cup {"blank"},
              money : Money, label : Currencies]
Document == [items |-> items, note |-> note, money |-> money, label |-> checked]

Both(s) == [c \in Columns |-> s]
NoItems == Both(<<>>)
Nothing == [sum |-> "zero", of |-> "RUB"]

\* The user's account, the demo account, and an account just created.
OwnAccount ==
  [items |-> Both(<<"own">>), note |-> "own",
   money |-> [sum |-> "own", of |-> "EUR"], label |-> "EUR"]
DemoAccount ==
  [items |-> Both(<<"demo">>), note |-> "demo",
   money |-> [sum |-> "own", of |-> "USD"], label |-> "USD"]
NewAccount ==
  [items |-> NoItems, note |-> "blank", money |-> [sum |-> "own", of |-> "USD"],
   label |-> "USD"]

TypeOK ==
  /\ page \in {"blank", "login", "loading", "settings", "statistics"}
  /\ permit \in BOOLEAN /\ rates \in BOOLEAN
  /\ items \in [Columns -> Seq(Entries)]
  /\ note \in Entries \cup {"blank"}
  /\ money \in Money
  /\ checked \in Currencies /\ last \in Currencies
  /\ numeric \in BOOLEAN /\ filled \in BOOLEAN
  /\ unseen \in [Columns -> Nat]
  /\ second \in {"none", "there", "gone"}
  /\ closing \in Columns \cup {"none"}
  /\ cooling \in SUBSET {"save", "statistic"}
  /\ session \in BOOLEAN
  /\ puts \in Seq(Documents)
  /\ stored \in Documents
  /\ edits \in 0 .. MaxEdits
  /\ gap \in {"none", "unsent", "network"}
  /\ spoilt \in BOOLEAN

--------------------------------------------------------------------------------
(* The page as the scripts set it up, and the account put into it. *)

\* A page that shows an account.
Shown == page \in {"loading", "settings", "statistics"}

\* User, Savings, AddIncome, AddExpense: what initAccount makes of an account.
Loaded(account) ==
  /\ items' = account.items
  /\ note' = account.note
  /\ money' = account.money
  /\ checked' = account.label
  /\ last' = account.label

\* No page: all that the scripts knew is gone.
NoPage ==
  /\ page' = "blank"
  /\ Loaded([NewAccount EXCEPT !.money = Nothing])
  /\ numeric' = TRUE /\ filled' = FALSE /\ unseen' = Both(0) /\ second' = "none"
  /\ closing' = "none"
  /\ cooling' = {}
  /\ permit' = TRUE /\ rates' = FALSE
  /\ gap' = "none"

InitAccount(account) ==
  /\ Loaded(account)
  /\ UNCHANGED <<numeric, filled, unseen, second>>

Init ==
  /\ page = "blank"
  /\ permit = TRUE /\ rates = FALSE
  /\ items = NewAccount.items /\ note = "blank" /\ money = Nothing
  /\ checked = "USD" /\ last = "USD"
  /\ numeric = TRUE /\ filled = FALSE /\ unseen = Both(0) /\ second = "none"
  /\ closing = "none"
  /\ cooling = {}
  /\ session \in BOOLEAN
  /\ puts = <<>>
  /\ stored = OwnAccount
  /\ edits = 0 /\ gap = "none" /\ spoilt = FALSE

--------------------------------------------------------------------------------
(* Conversion, as far as it decides what works and what is sent. *)

\* changeCurrency on a sum that it takes to be in from.  Without the rates,
\* global.eur and global.usd are 0.
Converted(m, from, to) ==
  CASE from = to        -> m
    [] m.sum = "null"   -> m
    [] rates            -> [m EXCEPT !.of = IF m.of = from THEN to ELSE "none"]
    [] OTHER            -> [sum |-> IF to = "RUB" THEN "zero" ELSE "null", of |-> "none"]

\* Mutant of ChangeCurrency: the sum keeps its number.
KeepSum(to) ==
  /\ last' = to
  /\ UNCHANGED <<money, spoilt>>

ChangeCurrency(to) ==
  /\ money' = Converted(money, last, to)
  /\ last' = to
  /\ spoilt' = (spoilt \/ (to # last /\ ~rates))

\* Whether the sums are finite: every item is divided by the rate of the chosen
\* currency, a rouble's rate apart.
FiniteSums(is, currency) == rates \/ currency = "RUB" \/ is = NoItems

\* runConvert on the items and the currency given.  It names the second expense for
\* the third circle, and does not forget it where there is none; kept says that the
\* item named so far is still there.
RunConvert(is, currency, kept) ==
  /\ numeric' = FiniteSums(is, currency)
  /\ second' = IF Len(is["expenses"]) > 1 THEN "there"
               ELSE IF second = "there" /\ ~kept THEN "gone" ELSE second

--------------------------------------------------------------------------------
(* Saving. *)

\* History: why the page may differ from what is stored.  A page that may not save
\* differs anyhow.
Gap(why) == gap' = IF ~permit THEN "none" ELSE IF gap = "network" THEN gap ELSE why

\* The debounced jsonDataSave, called with the given state of the page, in a step
\* that starts other timers.  A new document makes up for the ones before it,
\* unless the server may yet get them in another order.
JsonDataSave(document, timers) ==
  IF "save" \in cooling
  THEN /\ cooling' = cooling \cup timers
       /\ Gap("unsent")
       /\ UNCHANGED puts
  ELSE /\ cooling' = cooling \cup timers \cup {"save"}
       /\ IF permit
          THEN /\ Len(puts) < MaxPuts
               /\ puts' = Append(puts, document)
               /\ gap' = IF puts = <<>> THEN "none" ELSE "network"
          ELSE UNCHANGED <<puts, gap>>

Edit == edits < MaxEdits /\ edits' = edits + 1

--------------------------------------------------------------------------------
(* From an empty page to the account. *)

\* $(window).load: the account, or the login form where there is no session or the
\* request fails.
Load ==
  /\ page = "blank"
  /\ \/ /\ session
        /\ page' = "loading"
        /\ InitAccount(stored)
        /\ gap' = IF puts = <<>> THEN "none" ELSE "network"
     \/ /\ page' = "login"
        /\ UNCHANGED <<client, gap>>
  /\ UNCHANGED <<permit, rates, closing, cooling, around, edits, spoilt>>

\* The answer of the rates provider, which is asked once for each page.
RatesArrive ==
  /\ page # "blank"
  /\ ~rates
  /\ rates' = TRUE
  /\ UNCHANGED <<page, permit, client, closing, cooling, around, edits, gap, spoilt>>

\* The form leads through the gateway's login, and back to an empty page.
Login ==
  /\ page = "login"
  /\ session' = TRUE
  /\ NoPage
  /\ UNCHANGED <<puts, stored, edits, spoilt>>

\* The sign-up form, for a user whose earlier requests are answered; a refusal is
\* an alert and changes nothing.
SignUp ==
  /\ page = "login" /\ ~session /\ puts = <<>>
  /\ session' = TRUE
  /\ stored' = NewAccount
  /\ NoPage
  /\ UNCHANGED <<puts, edits, spoilt>>

\* Mutant of Demo: the page may save.
DemoWithPermit ==
  /\ page = "login"
  /\ page' = "loading"
  /\ InitAccount(DemoAccount)
  /\ UNCHANGED <<permit, rates, closing, cooling, around, edits, gap, spoilt>>

Demo ==
  /\ page = "login"
  /\ permit' = FALSE
  /\ page' = "loading"
  /\ InitAccount(DemoAccount)
  /\ gap' = "none"
  /\ UNCHANGED <<rates, closing, cooling, around, edits, spoilt>>

\* The settings page, with the greeting page that opens on it and closes it.
Free == page = "settings" /\ closing = "none"

\* initGreetingPage: the sums, the statistics page, the slider, then the settings
\* page.  The slider throws on sums that are not numbers, and the rest is not run.
Greet ==
  /\ page = "loading"
  /\ page' = "settings"
  /\ RunConvert(items, checked, TRUE)
  /\ filled' = numeric'
  /\ unseen' = [c \in Columns |-> IF filled' THEN 0 ELSE Len(items[c])]
  /\ cooling' = cooling \cup {"statistic"}
  /\ UNCHANGED <<permit, rates, items, note, money, checked, last, closing, around,
                 edits, gap, spoilt>>

Logout ==
  /\ Free
  /\ session' \in {session, FALSE}
  /\ NoPage
  /\ UNCHANGED <<puts, stored, edits, spoilt>>

Reload ==
  /\ page # "blank"
  /\ NoPage
  /\ UNCHANGED <<around, edits, spoilt>>

--------------------------------------------------------------------------------
(* The settings page. *)

\* fadeStatistic.
FadeStatistic ==
  /\ page = "statistics"
  /\ page' = "settings"
  /\ UNCHANGED <<permit, rates, client, closing, cooling, around, edits, gap, spoilt>>

\* The end of a window's transition.
WindowGone ==
  /\ closing # "none"
  /\ closing' = "none"
  /\ UNCHANGED <<page, permit, rates, client, cooling, around, edits, gap, spoilt>>

\* A window of the settings page is one step with its button: it covers the page, and
\* nothing that it holds changes meanwhile.  The columns become is, and are saved.
SaveItems(is, kept) ==
  /\ items' = is
  /\ RunConvert(is, checked, kept)
  /\ JsonDataSave([Document EXCEPT !.items = is], {})
  /\ UNCHANGED <<page, permit, rates, note, money, checked, last, filled, unseen,
                 session, stored, spoilt>>

SaveColumn(c, column) == SaveItems([items EXCEPT ![c] = column], TRUE)

\* The save button of the window for a new item.
AddItem ==
  /\ Free
  /\ Edit
  /\ \E c \in Columns, x \in Contents :
       /\ SaveColumn(c, Append(items[c], x))
       /\ closing' = c

\* For 200 ms the closing window keeps its fields and its button, which adds the
\* same item once more.
AddAgain ==
  /\ closing # "none"
  /\ Edit
  /\ SaveColumn(closing, Append(items[closing], Last(items[closing])))
  /\ UNCHANGED closing

\* The items with a place on the settings page, which a click opens.
Clickable(c) == unseen[c] + 1 .. Len(items[c])

\* The save button of the window of an old item.
EditItem ==
  /\ Free
  /\ Edit
  /\ \E c \in Columns : \E i \in Clickable(c), x \in Contents :
       SaveColumn(c, [items[c] EXCEPT ![i] = x])
  /\ UNCHANGED closing

\* Of two expenses the second is the one named; of one, that one may be.
KeepsSecond(c, i) == c # "expenses" \/ (i = 1 /\ Len(items[c]) = 2)

\* Mutant of DeleteItem: the account is sent before the item is taken out.
DeleteAfterSave ==
  /\ Free
  /\ Edit
  /\ \E c \in Columns : \E i \in Clickable(c) :
       /\ items' = [items EXCEPT ![c] = RemoveAt(items[c], i)]
       /\ RunConvert(items', checked, KeepsSecond(c, i))
  /\ JsonDataSave(Document, {})
  /\ UNCHANGED <<page, permit, rates, note, money, checked, last, filled, unseen, closing,
                 session, stored, spoilt>>

DeleteItem ==
  /\ Free
  /\ Edit
  /\ \E c \in Columns : \E i \in Clickable(c) :
       SaveItems([items EXCEPT ![c] = RemoveAt(items[c], i)], KeepsSecond(c, i))
  /\ UNCHANGED closing

\* Without a value or a title nothing changes, and jsonDataSave is called all the same;
\* so it is when a button of a closing window repeats a change or a deletion.
SaveNothing ==
  /\ page = "settings"
  /\ SaveItems(items, TRUE)
  /\ UNCHANGED <<closing, edits>>

\* The notes' save button.  On a page that was not filled the text area is empty
\* where the user enters nothing.
SaveNote ==
  /\ Free
  /\ Edit
  /\ \E x \in Contents \cup (IF filled THEN {} ELSE {"blank"}) :
       /\ note' = x
       /\ JsonDataSave([Document EXCEPT !.note = x], {})
  /\ UNCHANGED <<page, permit, rates, items, money, checked, last, numeric, filled, unseen,
                 second, closing, session, stored, spoilt>>

\* The savings' value, as soon as a key is hit.
TypeSum ==
  /\ Free /\ filled
  /\ Edit
  /\ money' = [sum |-> "typed", of |-> checked]
  /\ Gap("unsent")
  /\ UNCHANGED <<page, permit, rates, items, note, checked, last, numeric, filled, unseen,
                 second, closing, cooling, around, spoilt>>

\* The sign next to it.  A page not filled, or the slider on sums that are not
\* numbers, throws before runConvert.
ClickSign ==
  /\ Free
  /\ Edit
  /\ checked' = NextCurrency[checked]
  /\ ChangeCurrency(checked')
  /\ numeric' = (numeric /\ (filled => FiniteSums(items, checked')))
  /\ Gap("unsent")
  /\ UNCHANGED <<page, permit, rates, items, note, filled, unseen, second, closing, cooling,
                 around>>

\* The debounced initStatisticPage at the currency now checked.  It converts the
\* savings, and throws where the second expense has gone; done says that it did not.
InitStatisticPage(currency, done) ==
  IF "statistic" \in cooling
  THEN /\ done
       /\ spoilt' = (spoilt \/ last # currency)
       /\ UNCHANGED <<money, last>>
  ELSE /\ done <=> second # "gone"
       /\ ChangeCurrency(currency)

\* A handler that is cut short by an exception, with the savings perhaps converted.
CutShort(timers) ==
  /\ cooling' = cooling \cup timers
  /\ IF money' = money THEN UNCHANGED gap ELSE Gap("unsent")
  /\ UNCHANGED puts

\* launchStatistic.  On a page not filled the percent field throws, then perhaps
\* initStatisticPage, then the slider on sums that are not numbers; jsonDataSave is
\* the last call.  The function's own debounce only makes the user wait.
Launch ==
  /\ Free
  /\ UNCHANGED <<permit, rates, items, note, checked, numeric, filled, unseen, second, closing,
                 session, stored, edits>>
  /\ LET shown == \A c \in Columns : Len(items[c]) > unseen[c]
     IN \/ /\ ~shown
           /\ JsonDataSave(Document, {})
           /\ UNCHANGED <<page, money, last, spoilt>>
        \/ /\ shown /\ filled
           /\ InitStatisticPage(checked, FALSE)
           /\ CutShort({})
           /\ UNCHANGED page
        \/ /\ shown /\ filled
           /\ InitStatisticPage(checked, TRUE)
           /\ page' = "statistics"
           /\ IF numeric
              THEN JsonDataSave([Document EXCEPT !.money = money'], {"statistic"})
              ELSE CutShort({"statistic"})

\* The currency buttons of the statistics page.
ChooseCurrency ==
  /\ page = "statistics"
  /\ Edit
  /\ \E currency \in Currencies, done \in BOOLEAN :
       /\ checked' = currency
       /\ RunConvert(items, currency, TRUE)
       /\ InitStatisticPage(currency, done)
       /\ cooling' = IF done THEN cooling \cup {"statistic"} ELSE cooling
  /\ Gap("unsent")
  /\ UNCHANGED <<page, permit, rates, items, note, filled, unseen, closing, around>>

\* Mutant of CoolDown: the timer does not reset the state.
NeverCool(f) ==
  /\ f \in cooling
  /\ UNCHANGED vars

\* The timer of a debounced function.
CoolDown(f) ==
  /\ f \in cooling
  /\ cooling' = cooling \ {f}
  /\ UNCHANGED <<page, permit, rates, client, closing, around, edits, gap, spoilt>>

--------------------------------------------------------------------------------
(* The network, the gateway and account-service.  PUTs of one browser may overtake *)
(* each other; one without a session, or without an amount, is refused.            *)

Accepted(document) == session /\ document.money.sum # "null"

Deliver(i) ==
  /\ i \in DOMAIN puts
  /\ puts' = RemoveAt(puts, i)
  /\ \/ Accepted(puts[i]) /\ stored' = puts[i] /\ UNCHANGED gap
     \/ ~Accepted(puts[i]) /\ Gap("network") /\ UNCHANGED stored
  /\ UNCHANGED <<page, permit, rates, client, closing, cooling, session, edits, spoilt>>

LosePut(i) ==
  /\ puts' = RemoveAt(puts, i)
  /\ Gap("network")
  /\ UNCHANGED <<page, permit, rates, client, closing, cooling, session, stored, edits, spoilt>>

SessionExpires ==
  /\ session
  /\ session' = FALSE
  /\ UNCHANGED <<page, permit, rates, client, closing, cooling, puts, stored, edits, gap,
                 spoilt>>

--------------------------------------------------------------------------------

Change ==
  \/ AddItem \/ AddAgain \/ EditItem \/ DeleteItem \/ SaveNothing \/ SaveNote
  \/ TypeSum \/ ClickSign \/ ChooseCurrency

Navigate ==
  \/ Load \/ Login \/ SignUp \/ Demo \/ Greet \/ Logout \/ Reload
  \/ FadeStatistic \/ WindowGone

Next ==
  \/ Navigate \/ Change \/ Launch
  \/ RatesArrive \/ SessionExpires
  \/ \E f \in cooling : CoolDown(f)
  \/ \E i \in DOMAIN puts : Deliver(i) \/ LosePut(i)

Spec == Init /\ [][Next]_vars

\* Timers go off, a PUT that is sent again and again is answered in the end, and the
\* user goes on pressing the save button and coming back to the settings page.
Fairness ==
  /\ WF_vars(WindowGone) /\ \A f \in {"save", "statistic"} : WF_vars(CoolDown(f))
  /\ SF_vars(Deliver(1))
  /\ WF_vars(Launch) /\ WF_vars(FadeStatistic)

FairSpec == Spec /\ Fairness
================================================================================
