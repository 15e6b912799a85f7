# PiggyMetrics: specifications, model checking and proofs

TLA+ modules for the services of PiggyMetrics, the TLC configurations that check
them on small instances, and proofs, checked by TLAPS, of their main safety
properties for all instances. `PROJECT.json` lists every run, mutant and theorem,
and maps every definition to the lines of source it models.

    tlc -workers 2 -config MCAccountService.cfg MCAccountService
    tlapm AccountServiceProofs.tla

## 1. The system

Four services with a database each, a gateway that serves the web client, and
infrastructure (config server, Eureka registry, RabbitMQ, Prometheus). All calls
between services are synchronous HTTP through OpenFeign, a Resilience4j circuit
breaker and a time limit of 10 s. No service uses a transaction, a lock or a
document version.

| Component | State | Operations | Talks to | Modelled in |
|---|---|---|---|---|
| account-service | `accounts` collection | `create` (POST /accounts/), `saveChanges` (PUT /accounts/current), reads | auth (create user), statistics (update) | `AccountService` |
| auth-service, users | `users` collection | `create` (POST /users), demo seeder | - | `UserService` |
| auth-service, tokens | signing key in memory, authorizations | issue, refresh, login | all services validate its tokens | only as calls that fail |
| statistics-service, rates | the field `container` | `getCurrentRates`, `convert` | rates provider on the internet | `ExchangeRates`, `StatisticsService` |
| statistics-service, data points | `datapoints`, one per account and day | `save` (PUT /statistics/{name}), reads | rates | `StatisticsService`; the order of PUTs in `AccountService` |
| notification-service | `recipients`, tasks in the common pool | two cron jobs, `save` (PUT /recipients/current), `markNotified` | account (backup), mail server | `NotificationService` |
| gateway | sessions | routes, login, token relay | all | the session, in `WebClient` |
| web client: the account on the page | items, notes, savings, currencies, save permit, debounce timers | load, log in, edit, save, convert | gateway, rates provider | `WebClient` |
| web client: the numbers | sums, savings, slider, deposit, forecast timers | convert, level, slide, forecast | - | `Dashboard` |
| config, registry, deployment | files | - | - | only as far as the others depend on it |

What makes it hard, and what must hold all the same:

* **Registration** spans two services and two databases: check, remote call, save.
  Registrations of one name race, the remote call may be carried out after its
  caller gave up, either service may stop in between. No account without a user;
  nobody takes a taken name; nobody's password or data is replaced by a later
  registration.
* **Updates** are saved, then published to statistics-service, with a fallback
  that drops what it cannot deliver. Publications overtake each other. The data
  point must at least follow when updates do not overlap.
* **Notifications** are sent by asynchronous tasks that work on a copy of the
  recipient and write the whole copy back, racing with the user's PUT, with the
  task of the other job, with the next firing of their own, and with a crash
  between the mail and its mark. Mail must be wanted, not too frequent, and come.
* **Exchange rates** are cached in an unsynchronised field, dated by the clock at
  decoding, with an empty container as fallback. What is returned must be today's.
* **Data points**: a save takes its date, then asks for the rates once for each
  item, for the savings and for its record, while other threads replace them and
  midnight passes. What a data point holds must be of one day, its own.
* **The page** sends the whole account with every change, by a function that
  ignores calls for 1.8 s after each; PUTs pass each other; the rates come from a
  third party at any time or never; exceptions in a slider or a circle end whatever
  handler they happen in. What is shown must come to be stored, savings must not
  change their worth, the demo must stay a demo.
* **The numbers**: each conversion starts from the result of the last, rounded;
  one part of it is debounced, the other not; the forecast is computed by timers
  from globals. Sums, slider and forecast must agree all the same.

The full list of hazards, each at its line and with the properties that cover it,
is in `PROJECT.json`.

## 2. Modules

    UserService                    auth-service's users, and the call that creates one
      AccountService               + account-service, the publication to statistics
        AccountServiceProperties   properties; refinement of AccountLifecycle
          MCAccountService         symmetry for TLC
          AccountServiceProofs     theorems
    AccountLifecycle               abstract: free -> reserved -> open, for each name
    NotificationService            notification-service
      NotificationProperties
        MCNotification             values of Overlap for TLC
        NotificationProofs         theorems
    ExchangeRates                  the rates cache of statistics-service
      ExchangeRatesProperties
        ExchangeRatesProofs        theorems
      StatisticsService            + save, which calls the cache many times
        StatisticsServiceProperties
          MCStatisticsService      symmetry for TLC
          StatisticsServiceProofs  theorems, on top of ExchangeRatesProofs
    WebClient                      the page, its PUTs, and the account at the server
      WebClientProperties
        WebClientProofs            theorems
    Dashboard                      the numbers of the page
      DashboardProperties
        MCDashboard                items, plans and rates for TLC
        DashboardLemmas            what its operators compute, for all numbers
          DashboardProofs          theorems
    SumTheorems                    induction, sums and folds, for DashboardLemmas

Definitions marked as mutants in the component modules are variants that a
plausible bug would make of an action; no specification uses them. Each property
is known to fail under at least one.

### AccountService and UserService

Each request is a thread: `pc[t]` is its place in `create` or `saveChanges`, and
every database operation and remote call is a step.

| Source | Actions |
|---|---|
| `AccountServiceImpl.create` 48-49 | `Register`, `FindExisting` |
| 51, `AuthServiceClient` | `CallCreateUser` or `CallNotSent`; `ReceiveCreated`, `ReceiveError`, `AbandonCall` (time limit, lost connection) |
| `UserServiceImpl.create` 27-28, 30-33 | `FindUser`, `SaveUser`, `UserStoreFails` |
| 53-65 | `StoreNewAccount` |
| `saveChanges` 78-79, 81-86 | `Save`, `FindAccount`, `StoreChanges` |
| 90, client and fallback | `PublishChanges` or `PublicationNotSent`; `FinishSave` |
| `StatisticsServiceImpl.save` | `ApplyPublication`, `LosePublication` |
| any failure or stop | `AccountStoreFails`, `AccountServiceStops`, `AuthServiceStops` |

The content of an account is the update that wrote it (`saveChanges` replaces all
fields), or the defaults; a credential is the registration that brought it. A
failed save may or may not have been applied. A call that is given up goes on at
auth-service (`call[r]` is independent of `pc[r]`), and its answer is dropped.
`taken`, `serial` and `delivered` are history variables that no guard reads. A
request whose username fails validation is answered 400 before `Register` and
changes nothing.

### NotificationService

Time advances in half days, from cron to cron (reminders at midnight, backups at
noon). Every `lastNotified` is kept as its age, up to `MaxAge` = one half day
more than the frequency; above that the query cannot tell ages apart, so capping
loses nothing and behaviours are unbounded. At an age of exactly the frequency
the strict comparison of the query decides by milliseconds (the cron fires at the
hour at which the last task marked), so the model lets it find the recipient or
not (`ReadySince`, `FireCron`).

| Source | Actions |
|---|---|
| `NotificationServiceImpl` 31-47, 51-66, `RecipientRepository` queries | `FireCron`, `QueryFails` |
| 40 | `GetAccount`, `GetAccountFails` |
| 41 / 60, `EmailServiceImpl.send` | `Send`, `SendFails` (also when the server took the mail) |
| `RecipientServiceImpl.markNotified` | `MarkNotified`, `MarkFails` |
| `RecipientServiceImpl.save` | `SaveSettings` |
| clock, deployment | `Tick`, `Stop`, `Restart` |

A task holds the copy of the recipient that the query read (`tasks[x].copy`), and
`MarkNotified` saves it. `Overlap` bounds the tasks of one account and type at a
time: the code has no bound, the common pool queues them. The frequency is one
constant; in the code each type of each account chooses 7, 30 or 90 days. The
pool runs every task that `runAsync` gave it, so tasks are not ordered.

### ExchangeRates

Each thread runs `getCurrentRates` again and again: the check of line 34
(`Begin`), the request (`Answer`, `Fallback`), the assignment of line 35
(`Store`), and the two separate reads of the field in lines 40 and 41 (`ReadEUR`,
`ReadRUB`), between any of which other threads assign and midnight may pass.
`reachable` stands for the provider, the network and the circuit breaker
together; it changes at any time. Days are "today" and "earlier": the code only
compares with `LocalDate.now()`. The field is not volatile: a
compiler may merge its reads within a call, which equals reads with no assignment
in between, and is not modelled apart; a thread is taken to see assignments that
were made before it reads. A restart of
the service resets all to the initial state and is left out.

### StatisticsService

Extends `ExchangeRates`: a thread that runs `save` takes every call of
`getCurrentRates` step by step, so that any step of another thread, and midnight,
may come between two of its calls or into one.

| Source | Actions |
|---|---|
| `StatisticsServiceImpl.save` 53-64 | `Save`: the date, the number of calls to come |
| 103-106, 82, `convert` 50-54 | `Call`, then `Waiting` or `RequestFails` (the fallback) |
| `convert` 55-57, `createItemMetric`, `createStatisticMetrics` | `Return`: the day of the rate that converted the amount is added, or the exception ends `save` |
| 68-77 | `StorePoint`, `PointNotStored` |
| provider, clock | `ProviderTurns`, `NextDay` |

A dollar needs no other rate than 1, so an amount adds the day of one rate or none
(`Ratios`); the last call adds the days of the rates that are stored with the
amounts. `points` has the data points of today only: those of earlier days are not
written any more but by a save that began then, and are not followed. `failed` is
a history variable. A restart of the service, which empties the cache, is left out.

### WebClient

One browser, the PUTs that it has sent, and the account that account-service has
stored. A handler is one action, with everything that it calls, up to an
exception where it throws.

| Source | Actions |
|---|---|
| `launch.js` 43-97, `initAccount` | `Load`, `RatesArrive`, `Reload` |
| `login.js` | `Login`, `SignUp`, `Demo`, `Logout` |
| `initGreetingPage` | `Greet` |
| the windows, `main.js` 395-591 | `AddItem`, `AddAgain`, `EditItem`, `DeleteItem`, `SaveNothing`, `WindowGone` |
| notes, savings, sign | `SaveNote`, `TypeSum`, `ClickSign` |
| `launchStatistic`, currency buttons, `fadeStatistic` | `Launch`, `ChooseCurrency`, `FadeStatistic` |
| `debounce` | `CoolDown`; what ignores calls is `cooling` |
| `jsonDataSave` | within the actions above |
| the network, `saveChanges` | `Deliver` (in any order), `LosePut`, `SessionExpires` |

Items and notes are contents that the user enters, or "own" or "demo" for those
loaded. Of a sum of money the model knows where its number comes from and the
currency in which that number is right (`of`): a conversion that starts from the
wrong currency leaves "none". Where the rates have not come, `global.eur` and
`global.usd` are 0 and sums become `Infinity` or `NaN`, which the slider refuses
(noUiSlider throws), and which `JSON.stringify` sends as `null`. A page whose slider
was never built stays unfilled (`filled`): its number fields throw, so `TypeSum` and
a successful `Launch` need a filled page. `second` follows
`data("seconditem")` of `dashboard.js`. A window covers the page while it is open,
so opening, filling and saving it are one step; after its button it takes clicks for
another 200 ms (`closing`). `gap` and `spoilt` are history: why page and store may
differ, and that savings were converted in the cooling-down or without rates.

### Dashboard

| Source | Definitions |
|---|---|
| `getConverted` | `Converted`, `ColumnSum`, `Level`, `Sums` |
| `runConvert`, `changeCurrency`, `initStatisticPage` | `RunConvert`, `ChangeCurrency`, `InitStatisticPage` |
| savings slider, `main.js` 849-857, `dashboard.js` 574-582, 645-669 | `Handle`, `ShareAt`, `Rebuilt`, `RebuildSlider`, `Slide` |
| `initSavingsCircles` | `MonthSavings`, `LastMonth`, `InitSavingsCircles`, `Locked` |
| the pages' handlers and timers | `AddItem`, `EditItem`, `TypeSum`, `ClickSign`, `Launch`, `ChooseCurrency`, `Forecast`, `FadeStatistic`, `CoolDown` |

Numbers are integers: amounts whole, converted amounts in thousandths as `toFixed(3)`
leaves them, shares in hundredths, the forecast in 1/1200 of a unit, so that every
rounding of the code is a rounding of the model. The forecast that the page shows is
represented by what it was computed from (`shown`), and `MonthSavings` is the
computation. The rates have come and no item is deleted here: that is
`WebClient`'s part.

## 3. Runs

| Run | Checks | Bounds |
|---|---|---|
| `account_safety` | `TypeOK`, `AccountHasUser`, `TakenNameRefused`, `SerialUpdatesArrive`, `CredentialsSurvive`, `EditsSurvive`, `LifecycleSpec` | 2 names (one seeded), 2 registrations, 2 updates: 186 thousand states, symmetric in requests and in updates |
| `account_live` | `EveryRequestAnswered` | 2 registrations, 1 update, no symmetry |
| `notification_safety` | `TypeOK`, `SettingsHold`, `MailIsWanted`, `MailIsDue` | 1 account, frequency of 1 day, 2 overlapping backups and a reminder, 1 PUT, 1 stop: 970 thousand states |
| `notification_live` | `WantedIsMailed` | 1 task of each type, 1 PUT, 1 stop |
| `exchange_rates` | `TypeOK`, `QuietDayIsCurrent`, `AskedOnceADay`, `RatesRecover` | 2 threads, unbounded days and calls |
| `data_points` | `SavesTypeOK`, `PointOfTheDay`, `FailureHasCause` | 2 threads, 1 account, saves of 0 or 1 items (2 or 3 calls each), unbounded days and saves: 1.8 million states, symmetric in threads |
| `web_client` | `TypeOK`, `DemoIsNotSaved`, `ShownIsStored`, `SavingsStayTrue` | 2 changes by the user, 2 PUTs on their way at a time; reloads, logins, launches, sessions unbounded: 1.5 million states |
| `web_client_live` | `SavedInTheEnd` | 1 change, 2 PUTs: 46 thousand states |
| `dashboard` | `TypeOK`, `SumsFit`, `SavingsKept`, `SliderHolds`, `ForecastIsCurrent`, `InterestPays` | columns of at most 1 item to begin with and 1 change, in 3 currencies with rates that do not divide each other, 1 amount, 2 deposits, 1 slider position; conversions, launches and slides unbounded: 980 thousand states |

Why these are enough: the races on a name need two registrations, and a third
only repeats them (three registrations were also checked once: 2.9 million
states); overtaking needs two updates. Accounts of notification-service share
nothing but the moment of the cron, so one account shows what can happen to it;
two overlapping backups and a reminder give every pair of racing tasks, and a
PUT before, between and after them. Frequency 1 has ages below, at and above the
limit. Two threads give every race on the cache: a reader against an assigner, and
two assigners, and a save of one item has a first, a middle and a last call. Two
changes and two PUTs give a save dropped after another, two PUTs that
pass each other, and a lost one behind each; two changes of currency by the sign
and any number on the statistics page. `Dashboard`'s bounds are chosen at the limits
of its roundings, with quarters of small amounts and hourly wages; its conversions
are unbounded, but rounding makes its states finite. The safety properties are
proved for every instance (section 4).

In `account_*` each request runs once, so the system comes to rest: these runs do
not check deadlock, all others do.

What the properties say:

* `AccountHasUser`, `TakenNameRefused`, `CredentialsSurvive`, `EditsSurvive`: what
  registrations keep to in spite of their two unguarded checks. A window remains
  between requests that were in flight together, and the properties state its
  exact extent: nothing that arrived later ever gets through.
* `LifecycleSpec`: the two databases together implement `AccountLifecycle`, with
  the phase of a name computed from both. No name skips `reserved`, none goes back.
* `SerialUpdatesArrive`: updates that do not overlap, the last of which is
  delivered, leave the right data point, whatever was lost or late before.
* `SettingsHold`, `MailIsWanted`, `MailIsDue`: the same for notifications. `raced`
  and `excused` name the exceptions: a task in flight at the PUT, overlapping
  tasks of an account, a mail sent but not marked, a PUT of a date older than the
  last mail.
* `WantedIsMailed`, `EveryRequestAnswered`, `RatesRecover`: liveness.
* `QuietDayIsCurrent`, `AskedOnceADay`: on a day that began with no request to the
  provider open, calls return the day's rates, both of one day, and a thread asks
  the provider at most once.
* `PointOfTheDay`: on such a day no rate of another day gets into a data point of
  the day, whatever its save and other saves read when. `FailureHasCause`: what is
  left over from an earlier day never makes a call fail; an empty container that
  was cached today does, until midnight.
* `ShownIsStored` names every way in which page and store come apart (`gap`):
  savings typed or converted and not sent, a save dropped, a PUT that failed or
  that overtook another. `SavedInTheEnd`: none of them lasts if the user
  goes on pressing the button on a page that works. What "works" means is its
  premise: an item in each column, finite sums, no deleted second expense.
* `SavingsStayTrue`: the amount of savings that is sent is right in the currency sent
  with it, outside two exceptions that the code does have: a currency chosen within
  0.9 s of the last conversion, and a page without rates.
* `DemoIsNotSaved`: also for the user who is logged in but whose account failed to
  load, and after later reloads and logins.
* `SumsFit`, `SavingsKept`, `SliderHolds`: rounding does not add up, through any
  number of conversions. `SliderHolds` needs a spare money above 25, for the slider
  cuts its number to whole units. `SavingsKept` needs rates that are apart
  (`RatesApart`): both foreign currencies above a rouble, and more than two roubles
  between them, as the rates of statistics-service's tests are (80 and 100 roubles).
  With less than a rouble between them it may be false: from roubles to the
  one, to the other and back, the savings gain or lose a thousandth, and again in the
  next round, and end several thousandths from what was typed (with rates of 7.3 and
  7.2 roubles almost four).
* `ForecastIsCurrent`: whatever the order of the timers, the statistics page comes
  to rest on a forecast of the numbers that it shows. After a launch the forecast
  is for all of the spare money (`user.checkedPercent` is always 1) although the
  slider keeps its place: the property names this exception.
* `InterestPays`: the twelfth month of a simple deposit is no less than without
  interest, for the formula of its last month makes up for what months 1 to 11 leave
  out; that of a deposit with capitalization is no less than that of a simple one, but
  for what `parseInt` cuts off: less than a unit in each of 11 months, and the interest
  that this would have borne, which grows with the percent.

### Divergences found

Three runs end in a violation of what a comment, a javadoc or a message says:

| Run | The source says | The code does |
|---|---|---|
| `trying_again` | `login.js:35` "Please, try again." | a registration that failed between user and account can never succeed |
| `marking_only_stamps` | `RecipientService.java:37` "Updates `lastNotified` property" | `markNotified` restores the settings of the time of the query |
| `one_item_is_enough` | `main.js:861` "Please, add at least one item for each column" | after the second of two expenses was deleted the statistics page does not open, however many items there are for it, and the save button does not save |

Elsewhere the code keeps less than one may read into its comments, and a property
states exactly how much it does keep: two simultaneous registrations of a name both
succeed (`TakenNameRefused`, `CredentialsSurvive` and `EditsSurvive` say that later
ones do not); overlapping updates may leave the older one's data point
(`SerialUpdatesArrive`); a request open at midnight passes yesterday's rates off as
today's all day (`QuietDayIsCurrent`, `PointOfTheDay`); an empty fallback is cached
until midnight (`FailureHasCause`, `RatesRecover`).

### Fairness

* `AccountService`: weak fairness for the steps of each accepted request. The
  container runs its threads and every wait ends by the time limit
  (`application.yml` 14-30). Nothing is assumed of the other services.
* `NotificationService`: weak fairness for the clock, the restart
  (`restart: always`) and each task's next step, of either outcome: HTTP and mail
  calls return. Strong fairness for the firing of each job, and for the success
  of `GetAccount` and `Send` for the accounts in `Reachable`: a query, backup or
  mail that is tried again and again does not fail every time.
* `ExchangeRates`: weak fairness for midnight and for each call's next step. None
  for new calls or for the provider; that it stays reachable is a premise of
  `RatesRecover`.
* `WebClient`: weak fairness for the timers, strong fairness for the delivery of the
  oldest PUT (sent again and again, it is answered in the end), and for the user,
  who keeps pressing the save button and coming back from the statistics page:
  the client never retries by itself, so without this there is no liveness.

## 4. Proofs

All safety properties of the passing runs are proved for arbitrary constants, from
the named assumptions of the component modules only; `SavingsKept` from `RatesApart`
besides, which is a hypothesis of its theorem and, in `MCDashboard`, checked of the
rates that TLC uses.

* `AccountServiceProofs`: the inductive invariant joins the two services. The
  state of a thread and of its call fit together (`CallsFollowThreads`); a thread
  about to save an account has a user behind it (`UserBeforeAccount`, without
  which `AccountHasUser` is not inductive); a call for a taken name never gets past
  auth-service's lookup (`TakenNameStopped`); and the published states follow the
  stored one (`SerialUpdates`). The action properties and the refinement follow
  from it in one step each.
* `NotificationProofs`: `TasksWanted` and `CopiesCurrent` say what a task's copy
  still has in common with the stored recipient, which is what `MailIsWanted`
  needs when the mail goes out long after the query. `DatesSound` carries
  `MailIsDue`: outside the named exceptions an account has one task at a time, and
  no date, stored or copied, is older than the last mail of its type unless that
  task is about to mark it. Only the order of ages matters, and growing older
  preserves it (`OlderFacts`).
* `ExchangeRatesProofs`: `QuietDay` says of a quiet day that a container dated
  today has that day's rates, that all open requests are of that day, that readers
  who began that day find such a container, and that the container is of that day
  after any thread has asked.

* `StatisticsServiceProofs`: every step of the composition is a step of
  `ExchangeRates` or leaves it alone (`SavesStepMaps`), so `SavesSpec => Spec`, and
  `IInv` of `ExchangeRatesProofs` holds here without a new proof. On top of it
  `JobOfTheDay`: a save of the day has used that day's rates and makes its call
  on that day; and `MissingSound`: where a rate of today is missing, be it in the
  container, in a request's hand or read by a thread, a request has failed today.
* `WebClientProofs`: `TypeInv` joins the types with `WindowOverItem` (a closing
  window of the page is over an item that `AddAgain` can repeat). `DemoInv` says that
  a page without the permit is the only one with anything of the demo. `SavingsInv`:
  unless spoilt, the savings on the page are right in the currency last converted
  to and this is the chosen one, and every document is right. `Sync`: with the
  permit and no gap, the page equals the only PUT on its way or, with none, the
  store; two PUTs at once are a gap, which only a save with none before it ends.
* `SumTheorems`: the library's induction theorems take an operator as a parameter,
  which no installed prover instantiates. `Induction` is therefore stated of sets: it
  follows from `WFMin`, with the smallest number for which the claim fails. From it,
  functions defined by recursion over `0 .. n` exist (`IterationExists`), and
  `FoldLeft`, which is such a recursion, is the last of the partial sums of its
  sequence (`FoldSums`); two sums compare as their addends do (`SumsApart`).
* `DashboardLemmas`: `ColumnSumIs` gives a column's sum as the sum of the shares of its
  items, and `ShareError` bounds what the roundings of one item cost; together,
  `ColumnSumError`. The forecast's twelve months are a recursion as well
  (`DepositExists`): `YearCapitalized` adds up what each month's `parseInt` may cut
  off, to the bound of `DepositPays`.
* `DashboardProofs`: `TypeOK` needs the ranges of slider and roundings (`ShareAtRange`,
  `RoundDivNat`). `SumsFit` follows from `SumsAreCurrent`: the sums are those of the
  present items in the present currency, since every action that changes either
  converts anew. `SliderHolds` is inductive by itself, because a slider built anew
  above 25 shows the same position (`SliderStays`, `RebuiltStays`). `ForecastIsCurrent`
  is inductive too; with `ShareOfSavings`, without which the share might be one of a
  debt, it gives `InterestPays`, by `DepositPays`. `SavingsKept` is not inductive: a bound on the
  error says nothing of the next conversion's. `Kept` is: the savings are what was
  typed, or near a whole number of thousandths of the cheaper currency, or near one of
  the dearer, and since the conversion to a cheaper currency is finer than what it
  comes from, the way back finds that number again (`Nearest`, `KeptStep`).

Only model-checked: the liveness properties (`EveryRequestAnswered`, `WantedIsMailed`,
`RatesRecover`, `SavedInTheEnd`), which are outside the prover's reach. The three
runs that end in a violation are counterexamples, with nothing to prove.

## 5. Not modelled

* Tokens: the protocol is the authorization server's and each service's filter's. A
  token that is missing, expired or signed with a key from before a restart shows as
  a call that fails, at every call.
* Which scope and route each endpoint has, startup order, configuration refresh,
  registry, monitoring: declarative, with no state that changes.
* The normalisation of an item to the base currency and period in
  `StatisticsServiceImpl`, and items of one title collapsing in a set: functions of
  one call on one input.
* In the web client: scrolling of the columns, circles, lines and charts, layout, and
  the email form of the login page, which is hidden and cannot be reached. Its own
  functions for masking HTML are not followed either: texts are opaque.
* Two browsers of one user: the server's side of it is the overlapping updates of
  `AccountService`.

A next step would be one module that replaces `Deliver` of `WebClient` by the steps of
`AccountService`, and `ApplyPublication` of `AccountService` by those of
`StatisticsService`. Each is checked against what the other promises at that place:
delivery in any order or not at all, and a save that may fail.
