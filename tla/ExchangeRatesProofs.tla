--------------------------- MODULE ExchangeRatesProofs ---------------------------
(***************************************************************************)
(* Proofs, for any number of threads, of the safety properties of          *)
(* ExchangeRatesProperties.                                                *)
(***************************************************************************)
EXTENDS ExchangeRatesProperties, TLAPS

\* What a quiet day keeps true.  A container of that day holds that day's rates.
ContainerSound == Current => container.rates # "earlier"

\* A thread that requests does so since today, and is among those that asked.
RequestsSound ==
  \A th \in Threads :
    /\ pc[th] \in Requesting => began[th] = "today" /\ th \in asked
    /\ pc[th] = "store" => hand[th].date = "today" /\ hand[th].rates # "earlier"

\* A thread that reads and has begun today finds the container of today.
ReadsSound ==
  \A th \in Threads :
    began[th] = "today" =>
      /\ pc[th] \in Reading => Current
      /\ pc[th] = "rub" => eur[th] # "earlier"

\* After a request of today has returned, the container is of today.
AskedSound ==
  \A th \in Threads : th \in asked /\ pc[th] \notin Requesting => Current

QuietDay == ContainerSound /\ RequestsSound /\ ReadsSound /\ AskedSound

IInv == TypeOK /\ (quiet => QuietDay /\ QuietDayIsCurrent)

--------------------------------------------------------------------------------

LEMMA OlderType ==
  /\ \A d \in Days : Older(d) = "earlier"
  /\ \A c \in Container \cup {Null} : /\ OlderContainer(c) \in Container \cup {Null}
                                      /\ OlderContainer(c).date # "today"
  BY DEF Older, OlderContainer, Days, Container, Null

LEMMA InitIInv == Init => IInv
  BY DEF Init, IInv, TypeOK, QuietDay, ContainerSound, RequestsSound, ReadsSound,
         AskedSound, QuietDayIsCurrent, Current, Null, Requesting, Reading, Ended, Days

LEMMA NextType == TypeOK /\ [Next]_vars => TypeOK'
<1> SUFFICES ASSUME TypeOK, [Next]_vars PROVE TypeOK'
  OBVIOUS
<1> USE DEF TypeOK, Days, Requesting, Reading, Ended
<1>1. ASSUME NEW th \in Threads, Begin(th) PROVE TypeOK'
  BY <1>1 DEF Begin
<1>2. ASSUME NEW th \in Threads, Answer(th) PROVE TypeOK'
  BY <1>2 DEF Answer, Container
<1>3. ASSUME NEW th \in Threads, Fallback(th) PROVE TypeOK'
  BY <1>3 DEF Fallback, Container
<1>4. ASSUME NEW th \in Threads, Store(th) PROVE TypeOK'
  BY <1>4 DEF Store
<1>5. ASSUME NEW th \in Threads, ReadEUR(th) \/ ReadRUB(th) PROVE TypeOK'
  BY <1>5 DEF ReadEUR, ReadRUB, Container, Null
<1>6. CASE ProviderChanges
  BY <1>6 DEF ProviderChanges
<1>7. CASE Midnight
  <2>1. /\ container' \in Container \cup {Null}
        /\ hand' \in [Threads -> Container \cup {Null}]
    BY <1>7, OlderType DEF Midnight
  <2>2. /\ began' \in [Threads -> Days]
        /\ eur' \in [Threads -> Days \cup {"missing"}]
        /\ rub' \in [Threads -> Days \cup {"missing"}]
    BY <1>7 DEF Midnight, Older
  <2> QED
    BY <1>7, <2>1, <2>2 DEF Midnight
<1>8. CASE UNCHANGED vars
  BY <1>8 DEF vars
<1> QED
  BY <1>1, <1>2, <1>3, <1>4, <1>5, <1>6, <1>7, <1>8 DEF Next, CallStep

LEMMA NextQuiet == IInv /\ [Next]_vars /\ quiet' => QuietDay' /\ QuietDayIsCurrent'
<1> SUFFICES ASSUME IInv, [Next]_vars, quiet' PROVE QuietDay' /\ QuietDayIsCurrent'
  OBVIOUS
<1> USE DEF TypeOK, Requesting, Reading, Ended
<1>0. TypeOK /\ (quiet => QuietDay /\ QuietDayIsCurrent)
  BY DEF IInv
<1> DEFINE Conclusion == /\ ContainerSound' /\ RequestsSound' /\ ReadsSound'
                         /\ AskedSound' /\ QuietDayIsCurrent'
<1>1. ASSUME quiet, NEW th \in Threads, Begin(th) PROVE Conclusion
  BY <1>0, <1>1 DEF Begin, QuietDay, ContainerSound, RequestsSound, ReadsSound,
                    AskedSound, QuietDayIsCurrent, Current
<1>2. ASSUME quiet, NEW th \in Threads, Answer(th) PROVE Conclusion
  BY <1>0, <1>2 DEF Answer, QuietDay, ContainerSound, RequestsSound, ReadsSound,
                    AskedSound, QuietDayIsCurrent, Current
<1>3. ASSUME quiet, NEW th \in Threads, Fallback(th) PROVE Conclusion
  BY <1>0, <1>3 DEF Fallback, QuietDay, ContainerSound, RequestsSound, ReadsSound,
                    AskedSound, QuietDayIsCurrent, Current
<1>4. ASSUME quiet, NEW th \in Threads, Store(th) PROVE Conclusion
  BY <1>0, <1>4 DEF Store, QuietDay, ContainerSound, RequestsSound, ReadsSound,
                    AskedSound, QuietDayIsCurrent, Current
<1>5. ASSUME quiet, NEW th \in Threads, ReadEUR(th) PROVE Conclusion
  BY <1>0, <1>5 DEF ReadEUR, QuietDay, ContainerSound, RequestsSound, ReadsSound,
                    AskedSound, QuietDayIsCurrent, Current
<1>6. ASSUME quiet, NEW th \in Threads, ReadRUB(th) PROVE Conclusion
  <2>1. ContainerSound' /\ RequestsSound' /\ ReadsSound' /\ AskedSound'
    BY <1>0, <1>6 DEF ReadRUB, QuietDay, ContainerSound, RequestsSound, ReadsSound,
                      AskedSound, Current
  <2>2. ASSUME pc'[th] = "returned", began[th] = "today"
        PROVE  eur[th] = "today" /\ rub'[th] = "today"
    <3>1. eur[th] # "earlier" /\ container.rates # "earlier"
      BY <1>0, <1>6, <2>2 DEF ReadRUB, QuietDay, ContainerSound, ReadsSound
    <3>2. eur[th] # "missing" /\ container.rates # "missing"
      BY <1>0, <1>6, <2>2 DEF ReadRUB
    <3> QED
      BY <1>0, <1>6, <3>1, <3>2 DEF ReadRUB, Days, Container, Null
  <2>3. QuietDayIsCurrent'
    BY <1>0, <1>6, <2>2 DEF ReadRUB, QuietDayIsCurrent
  <2> QED
    BY <2>1, <2>3
<1>7. CASE Midnight
  <2>1. /\ \A th \in Threads : /\ pc[th] \notin Requesting
                               /\ began'[th] = "earlier"
                               /\ pc'[th] \notin Requesting
        /\ asked' = {}
    BY <1>0, <1>7, OlderType DEF Midnight
  <2>2. ~Current'
    BY <1>0, <1>7, OlderType DEF Midnight, Current
  <2> QED
    BY <2>1, <2>2 DEF QuietDay, ContainerSound, RequestsSound, ReadsSound, AskedSound,
                      QuietDayIsCurrent
<1>8. CASE ProviderChanges \/ UNCHANGED vars
  BY <1>0, <1>8 DEF ProviderChanges, vars, QuietDay, ContainerSound, RequestsSound,
                    ReadsSound, AskedSound, QuietDayIsCurrent, Current
<1>9. ASSUME NEW th \in Threads, Begin(th) \/ CallStep(th) PROVE quiet
  BY <1>9 DEF Begin, CallStep, Answer, Fallback, Store, ReadEUR, ReadRUB
<1> QED
  BY <1>1, <1>2, <1>3, <1>4, <1>5, <1>6, <1>7, <1>8, <1>9 DEF Next, CallStep, QuietDay

LEMMA NextIInv == IInv /\ [Next]_vars => IInv'
  BY NextType, NextQuiet DEF IInv

LEMMA Invariance == Spec => []IInv
  BY InitIInv, NextIInv, PTL DEF Spec

\* The cache and its threads are well-typed, for any number of threads.
THEOREM TypeCorrect == Spec => []TypeOK
<1>1. IInv => TypeOK
  BY DEF IInv
<1> QED
  BY <1>1, Invariance, PTL

\* However many threads race, on a quiet day no call of that day returns another
\* day's rates, nor a EUR and a RUB rate of different days.
THEOREM QuietDaysAreCurrent == Spec => []QuietDayIsCurrent
<1>1. IInv => QuietDayIsCurrent
  BY DEF IInv, QuietDayIsCurrent
<1> QED
  BY <1>1, Invariance, PTL

\* On a quiet day the provider gets at most one request for each thread.
THEOREM ThreadsAskOnce == Spec => AskedOnceADay
<1>1. IInv /\ [Next]_vars =>
        \A th \in Threads :
          quiet /\ pc[th] # "ask" /\ pc'[th] = "ask" => th \notin asked
  <2> SUFFICES ASSUME IInv, [Next]_vars, NEW th \in Threads,
                      quiet, pc[th] # "ask", pc'[th] = "ask"
               PROVE  th \notin asked
    OBVIOUS
  <2>1. Begin(th) /\ ~Current
    BY DEF IInv, TypeOK, Next, CallStep, Begin, Answer, Fallback, Store, ReadEUR,
           ReadRUB, ProviderChanges, Midnight, vars, Ended
  <2> QED
    BY <2>1 DEF IInv, QuietDay, AskedSound, Begin, Ended, Requesting
<1> QED
  BY <1>1, Invariance, PTL DEF Spec, AskedOnceADay
================================================================================
