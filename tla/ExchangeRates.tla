------------------------------ MODULE ExchangeRates ------------------------------
(***************************************************************************)
(* statistics-service: the cache of the day's exchange rates, one field of *)
(* a singleton that every request thread reads and writes with no lock.    *)
(* The answer to a failed or late request to the rates provider is the     *)
(* fallback's container without rates, which is cached like any other.     *)
(*                                                                         *)
(* A day is told apart only as far as the code does, "today" or "earlier", *)
(* so that days pass without bound.                                        *)
(***************************************************************************)

CONSTANT Threads  \* the request threads of the service

VARIABLES container,  \* the field ExchangeRatesServiceImpl.container
          reachable,  \* the provider answers in time, and the circuit is closed
          pc,         \* where each thread is in getCurrentRates
          began,      \* the day its call began and, if it must, sent its request
          hand,       \* the container its request has returned
          eur, rub,   \* the rates it has read, by the day they are of
          asked,      \* history: the threads that sent a request today
          quiet       \* history: no request was open at the last midnight

vars == <<container, reachable, pc, began, hand, eur, rub, asked, quiet>>

Days == {"today", "earlier"}

\* date is the day the object was made, rates the day the provider's rates are of.
Container == [date : Days, rates : Days \cup {"missing"}]
Null == [date |-> "never", rates |-> "missing"]

Requesting == {"ask", "store"}
Reading == {"eur", "rub"}
Ended == {"returned", "failed"}

TypeOK ==
  /\ container \in Container \cup {Null}
  /\ reachable \in BOOLEAN
  /\ pc \in [Threads -> Requesting \cup Reading \cup Ended \cup {"idle"}]
  /\ began \in [Threads -> Days]
  /\ hand \in [Threads -> Container \cup {Null}]
  /\ eur \in [Threads -> Days \cup {"missing"}]
  /\ rub \in [Threads -> Days \cup {"missing"}]
  /\ asked \in SUBSET Threads
  /\ quiet \in BOOLEAN

Init ==
  /\ container = Null
  /\ reachable \in BOOLEAN
  /\ pc = [th \in Threads |-> "idle"]
  /\ began = [th \in Threads |-> "today"]
  /\ hand = [th \in Threads |-> Null]
  /\ eur = [th \in Threads |-> "missing"]
  /\ rub = [th \in Threads |-> "missing"]
  /\ asked = {}
  /\ quiet = TRUE

--------------------------------------------------------------------------------

\* Mutant of Current: only null is looked for.
Fetched == container # Null

\* getCurrentRates, line 34.
Current == container.date = "today"

\* A call begins, and goes on to the provider where the container is not today's.
Begin(th) ==
  /\ pc[th] \in Ended \cup {"idle"}
  /\ pc' = [pc EXCEPT ![th] = IF Current THEN "eur" ELSE "ask"]
  /\ asked' = IF Current THEN asked ELSE asked \cup {th}
  /\ began' = [began EXCEPT ![th] = "today"]
  /\ hand' = [hand EXCEPT ![th] = Null]
  /\ UNCHANGED <<container, reachable, eur, rub, quiet>>

\* Whatever the day the provider worked on, the container decoded is dated today.
Answer(th) ==
  /\ pc[th] = "ask"
  /\ reachable
  /\ \E day \in {began[th], "today"} :
       hand' = [hand EXCEPT ![th] = [date |-> "today", rates |-> day]]
  /\ pc' = [pc EXCEPT ![th] = "store"]
  /\ UNCHANGED <<container, reachable, began, eur, rub, asked, quiet>>

\* Mutant of Fallback: the container it makes has no date.
FallbackUndated(th) ==
  /\ pc[th] = "ask"
  /\ ~reachable
  /\ hand' = [hand EXCEPT ![th] = [rates |-> "missing"]]
  /\ pc' = [pc EXCEPT ![th] = "store"]
  /\ UNCHANGED <<container, reachable, began, eur, rub, asked, quiet>>

\* ExchangeRatesClientFallback: after a failed call, the 10 s limit, or an open circuit.
\* An answer that lacks a rate has the same effect.
Fallback(th) ==
  /\ pc[th] = "ask"
  /\ ~reachable
  /\ hand' = [hand EXCEPT ![th] = [date |-> "today", rates |-> "missing"]]
  /\ pc' = [pc EXCEPT ![th] = "store"]
  /\ UNCHANGED <<container, reachable, began, eur, rub, asked, quiet>>

\* Mutant of Store: a container without rates is not cached.
StoreIfComplete(th) ==
  /\ pc[th] = "store"
  /\ container' = IF hand[th].rates = "missing" THEN container ELSE hand[th]
  /\ pc' = [pc EXCEPT ![th] = "eur"]
  /\ UNCHANGED <<reachable, began, hand, eur, rub, asked, quiet>>

\* The assignment of line 35.
Store(th) ==
  /\ pc[th] = "store"
  /\ container' = hand[th]
  /\ pc' = [pc EXCEPT ![th] = "eur"]
  /\ UNCHANGED <<reachable, began, hand, eur, rub, asked, quiet>>

\* Lines 40 and 41 each read the field anew.
ReadEUR(th) ==
  /\ pc[th] = "eur"
  /\ eur' = [eur EXCEPT ![th] = container.rates]
  /\ pc' = [pc EXCEPT ![th] = "rub"]
  /\ UNCHANGED <<container, reachable, began, hand, rub, asked, quiet>>

\* ImmutableMap.of throws a NullPointerException on a missing rate.
ReadRUB(th) ==
  /\ pc[th] = "rub"
  /\ rub' = [rub EXCEPT ![th] = container.rates]
  /\ pc' = [pc EXCEPT ![th] =
              IF "missing" \in {eur[th], container.rates} THEN "failed" ELSE "returned"]
  /\ UNCHANGED <<container, reachable, began, hand, eur, asked, quiet>>

ProviderChanges ==
  /\ reachable' = ~reachable
  /\ UNCHANGED <<container, pc, began, hand, eur, rub, asked, quiet>>

Older(day) == IF day = "today" THEN "earlier" ELSE day
OlderContainer(c) == [date |-> Older(c.date), rates |-> Older(c.rates)]

\* Midnight: what was of today is of an earlier day.  Calls that ended are of no
\* further interest.
Midnight ==
  /\ container' = OlderContainer(container)
  /\ began' = [th \in Threads |-> Older(began[th])]
  /\ hand' = [th \in Threads |-> OlderContainer(hand[th])]
  /\ eur' = [th \in Threads |-> Older(eur[th])]
  /\ rub' = [th \in Threads |-> Older(rub[th])]
  /\ pc' = [th \in Threads |-> IF pc[th] \in Ended THEN "idle" ELSE pc[th]]
  /\ asked' = {}
  /\ quiet' = (\A th \in Threads : pc[th] \notin Requesting)
  /\ UNCHANGED reachable

--------------------------------------------------------------------------------

CallStep(th) ==
  Answer(th) \/ Fallback(th) \/ Store(th) \/ ReadEUR(th) \/ ReadRUB(th)

Next ==
  \/ \E th \in Threads : Begin(th) \/ CallStep(th)
  \/ ProviderChanges
  \/ Midnight

\* Days pass, and a call goes on: a request is answered or cut off after 10 s.
Fairness == WF_vars(Midnight) /\ \A th \in Threads : WF_vars(CallStep(th))

Spec == Init /\ [][Next]_vars
FairSpec == Spec /\ Fairness
================================================================================
