----------------------------- MODULE WebClientProofs -----------------------------
(***************************************************************************)
(* Proofs, for any contents and any bounds, of the safety properties of    *)
(* WebClientProperties.                                                    *)
(***************************************************************************)
EXTENDS WebClientProperties, SequenceTheorems, TLAPS

--------------------------------------------------------------------------------
(* Types. *)

\* A window closes only on the settings page, over the column that has just got the
\* item which it may add once more.
WindowOverItem == closing # "none" => page = "settings" /\ items[closing] # <<>>

TypeInv == TypeOK /\ WindowOverItem

\* What can be done to a column or to the PUTs on their way.
LEMMA Sequence ==
  ASSUME NEW S, NEW s \in Seq(S)
  PROVE  /\ \A x \in S : Append(s, x) \in Seq(S) /\ Append(s, x) # <<>>
         /\ \A i \in DOMAIN s : RemoveAt(s, i) \in Seq(S)
         /\ \A i \in DOMAIN s, x \in S : [s EXCEPT ![i] = x] \in Seq(S)
         /\ s # <<>> => Last(s) \in S
<1>1. ASSUME NEW i \in DOMAIN s PROVE RemoveAt(s, i) \in Seq(S)
  <2>1. i \in 1 .. Len(s)
    OBVIOUS
  <2>2. SubSeq(s, 1, i - 1) \in Seq(S) /\ SubSeq(s, i + 1, Len(s)) \in Seq(S)
    BY <2>1
  <2> QED
    BY <2>2 DEF RemoveAt
<1>2. ASSUME NEW i \in DOMAIN s, NEW x \in S PROVE [s EXCEPT ![i] = x] \in Seq(S)
  BY ExceptSeq
<1>3. ASSUME s # <<>> PROVE Last(s) \in S
  BY <1>3 DEF Last
<1>4. \A x \in S : Append(s, x) \in Seq(S) /\ Append(s, x) # <<>>
  BY AppendProperties
<1> QED
  BY <1>1, <1>2, <1>3, <1>4

LEMMA ColumnsType ==
  ASSUME NEW E, NEW is \in [Columns -> Seq(E)], NEW c \in Columns, NEW column \in Seq(E)
  PROVE  [is EXCEPT ![c] = column] \in [Columns -> Seq(E)]
  OBVIOUS

LEMMA DocumentType ==
  ASSUME TypeOK
  PROVE  /\ Document \in Documents
         /\ \A is \in [Columns -> Seq(Entries)] : [Document EXCEPT !.items = is] \in Documents
         /\ \A n \in Entries \cup {"blank"} : [Document EXCEPT !.note = n] \in Documents
         /\ \A m \in Money : [Document EXCEPT !.money = m] \in Documents
  BY DEF TypeOK, Document, Documents

LEMMA AccountsType ==
  /\ OwnAccount \in Documents /\ DemoAccount \in Documents /\ NewAccount \in Documents
  /\ [NewAccount EXCEPT !.money = Nothing] \in Documents
<1>1. /\ Both(<<"own">>) \in [Columns -> Seq(Entries)]
      /\ Both(<<"demo">>) \in [Columns -> Seq(Entries)]
      /\ NoItems \in [Columns -> Seq(Entries)]
  BY DEF Both, NoItems, Entries
<1>2. Nothing \in Money
  BY DEF Nothing, Money, Currencies
<1>3. OwnAccount \in Documents
  BY <1>1 DEF OwnAccount, Documents, Money, Currencies, Entries
<1>4. DemoAccount \in Documents
  BY <1>1 DEF DemoAccount, Documents, Money, Currencies, Entries
<1>5. NewAccount \in Documents
  BY <1>1 DEF NewAccount, Documents, Money, Currencies, Entries
<1> QED
  BY <1>2, <1>3, <1>4, <1>5 DEF Documents

LEMMA LoadedType ==
  ASSUME NEW account \in Documents, Loaded(account)
  PROVE  /\ items' \in [Columns -> Seq(Entries)]
         /\ note' \in Entries \cup {"blank"}
         /\ money' \in Money /\ checked' \in Currencies /\ last' \in Currencies
  BY DEF Loaded, Documents

LEMMA ConvertedType ==
  ASSUME TypeOK, NEW m \in Money, NEW from \in Currencies, NEW to \in Currencies
  PROVE  Converted(m, from, to) \in Money
  BY DEF TypeOK, Converted, Money

LEMMA ChangeCurrencyType ==
  ASSUME TypeOK, NEW to \in Currencies, ChangeCurrency(to)
  PROVE  money' \in Money /\ last' \in Currencies /\ spoilt' \in BOOLEAN
<1>1. money \in Money /\ last \in Currencies
  BY DEF TypeOK
<1>2. money' = Converted(money, last, to) /\ last' = to
  BY DEF ChangeCurrency
<1>3. money' \in Money
  BY <1>1, <1>2, ConvertedType
<1> QED
  BY <1>2, <1>3 DEF ChangeCurrency

LEMMA JsonDataSaveType ==
  ASSUME TypeOK, NEW document \in Documents,
         NEW timers \in SUBSET {"save", "statistic"}, JsonDataSave(document, timers)
  PROVE  /\ cooling' \in SUBSET {"save", "statistic"}
         /\ puts' \in Seq(Documents)
         /\ gap' \in {"none", "unsent", "network"}
<1>1. Append(puts, document) \in Seq(Documents)
  BY DEF TypeOK
<1> QED
  BY <1>1 DEF TypeOK, JsonDataSave, Gap

LEMMA RunConvertType ==
  ASSUME TypeOK, NEW is, NEW currency, NEW kept, RunConvert(is, currency, kept)
  PROVE  numeric' \in BOOLEAN /\ second' \in {"none", "there", "gone"}
  BY DEF TypeOK, RunConvert, FiniteSums

\* The type invariant but for what a button of the settings page may leave open.
LEMMA SaveItemsType ==
  ASSUME TypeOK, NEW is \in [Columns -> Seq(Entries)], NEW kept, SaveItems(is, kept),
         closing' \in Columns \cup {"none"}, edits' \in 0 .. MaxEdits
  PROVE  TypeOK'
<1>1. [Document EXCEPT !.items = is] \in Documents
  BY DocumentType
<1>2. JsonDataSave([Document EXCEPT !.items = is], {})
  BY DEF SaveItems
<1>3. /\ cooling' \in SUBSET {"save", "statistic"}
      /\ puts' \in Seq(Documents)
      /\ gap' \in {"none", "unsent", "network"}
  BY <1>1, <1>2, JsonDataSaveType
<1>4. numeric' \in BOOLEAN /\ second' \in {"none", "there", "gone"}
  BY RunConvertType DEF SaveItems
<1>5. /\ items' = is
      /\ UNCHANGED <<page, permit, rates, note, money, checked, last, filled, unseen,
                     session, stored, spoilt>>
  BY DEF SaveItems
<1> QED
  BY <1>3, <1>4, <1>5 DEF TypeOK

LEMMA EditType ==
  ASSUME TypeOK, Edit
  PROVE  edits' \in 0 .. MaxEdits
  BY BoundsAssumption DEF TypeOK, Edit

LEMMA NoPageType ==
  ASSUME TypeOK, NoPage,
         session' \in BOOLEAN, puts' \in Seq(Documents), stored' \in Documents,
         UNCHANGED <<edits, spoilt>>
  PROVE  TypeInv'
<1>1. /\ items' \in [Columns -> Seq(Entries)]
      /\ note' \in Entries \cup {"blank"}
      /\ money' \in Money /\ checked' \in Currencies /\ last' \in Currencies
  BY AccountsType, LoadedType DEF NoPage
<1> QED
  BY <1>1 DEF NoPage, TypeOK, TypeInv, WindowOverItem, Both, Columns

LEMMA TypeInit == Init => TypeInv
<1> SUFFICES ASSUME Init PROVE TypeInv
  OBVIOUS
<1>1. items \in [Columns -> Seq(Entries)]
  BY AccountsType DEF Init, Documents
<1>2. money \in Money /\ stored \in Documents /\ puts \in Seq(Documents)
  BY AccountsType DEF Init, Nothing, Money, Currencies
<1>3. unseen \in [Columns -> Nat]
  BY DEF Init, Both
<1>4. edits \in 0 .. MaxEdits
  BY BoundsAssumption DEF Init
<1>5. /\ permit \in BOOLEAN /\ rates \in BOOLEAN /\ numeric \in BOOLEAN
      /\ filled \in BOOLEAN /\ session \in BOOLEAN /\ spoilt \in BOOLEAN
  BY DEF Init
<1> QED
  BY <1>1, <1>2, <1>3, <1>4, <1>5 DEF Init, TypeInv, TypeOK, WindowOverItem, Currencies

LEMMA GapType ==
  ASSUME TypeOK, NEW why \in {"unsent", "network"}, Gap(why)
  PROVE  gap' \in {"none", "unsent", "network"}
  BY DEF TypeOK, Gap

LEMMA InitStatisticPageType ==
  ASSUME TypeOK, NEW currency \in Currencies, NEW done, InitStatisticPage(currency, done)
  PROVE  money' \in Money /\ last' \in Currencies /\ spoilt' \in BOOLEAN
<1>1. CASE "statistic" \in cooling
  BY <1>1 DEF InitStatisticPage, TypeOK
<1>2. CASE "statistic" \notin cooling
  BY <1>2, ChangeCurrencyType DEF InitStatisticPage
<1> QED
  BY <1>1, <1>2

LEMMA TypeStep == TypeInv /\ [Next]_vars => TypeInv'
<1> SUFFICES ASSUME TypeInv, [Next]_vars
             PROVE  TypeInv'
  OBVIOUS
<1>0. TypeOK /\ WindowOverItem
  BY DEF TypeInv
<1> USE <1>0
\* The pages.
<1>1. CASE Load
  <2>1. CASE page' = "loading"
    <3>1. Loaded(stored) /\ gap' \in {"none", "network"}
      BY <1>1, <2>1 DEF Load, InitAccount
    <3>2. /\ items' \in [Columns -> Seq(Entries)]
          /\ note' \in Entries \cup {"blank"}
          /\ money' \in Money /\ checked' \in Currencies /\ last' \in Currencies
      BY <3>1, LoadedType DEF TypeOK
    <3> QED
      BY <1>1, <2>1, <3>1, <3>2
         DEF Load, InitAccount, TypeInv, TypeOK, WindowOverItem, around
  <2>2. CASE page' = "login"
    BY <1>1, <2>2 DEF Load, client, around, TypeInv, TypeOK, WindowOverItem
  <2> QED
    BY <1>1, <2>1, <2>2 DEF Load
<1>2. CASE Login
  BY <1>2, NoPageType DEF Login, TypeOK
<1>3. CASE SignUp
  BY <1>3, NoPageType, AccountsType DEF SignUp, TypeOK
<1>4. CASE Demo
  <2>1. /\ items' \in [Columns -> Seq(Entries)]
        /\ note' \in Entries \cup {"blank"}
        /\ money' \in Money /\ checked' \in Currencies /\ last' \in Currencies
    BY <1>4, AccountsType, LoadedType DEF Demo, InitAccount
  <2> QED
    BY <1>4, <2>1 DEF Demo, InitAccount, TypeInv, TypeOK, WindowOverItem, around
<1>5. CASE Greet
  <2>1. /\ numeric' \in BOOLEAN /\ second' \in {"none", "there", "gone"}
        /\ filled' = numeric' /\ UNCHANGED items
    BY <1>5, RunConvertType DEF Greet
  <2>2. unseen' \in [Columns -> Nat]
    BY <1>5 DEF Greet, TypeOK
  <2>3. cooling' \in SUBSET {"save", "statistic"}
    BY <1>5 DEF Greet, TypeOK
  <2> QED
    BY <1>5, <2>1, <2>2, <2>3 DEF Greet, TypeInv, TypeOK, WindowOverItem, around
<1>6. CASE Logout
  <2>1. session' \in BOOLEAN
    BY <1>6 DEF Logout, TypeOK
  <2> QED
    BY <1>6, <2>1, NoPageType DEF Logout, TypeOK
<1>7. CASE Reload
  BY <1>7, NoPageType DEF Reload, TypeOK, around
<1>8. CASE FadeStatistic
  BY <1>8 DEF FadeStatistic, client, around, TypeInv, TypeOK, WindowOverItem
<1>23. CASE WindowGone
  BY <1>23 DEF WindowGone, client, around, TypeInv, TypeOK, WindowOverItem
\* The settings page.
<1>9. CASE AddItem
  <2>1. PICK c \in Columns, x \in Contents :
          SaveColumn(c, Append(items[c], x)) /\ closing' = c
    BY <1>9 DEF AddItem
  <2> DEFINE is == [items EXCEPT ![c] = Append(items[c], x)]
  <2>2. is \in [Columns -> Seq(Entries)] /\ is[c] # <<>>
    <3>1. items[c] \in Seq(Entries) /\ x \in Entries
      BY DEF TypeOK, Entries
    <3>2. Append(items[c], x) \in Seq(Entries) /\ Append(items[c], x) # <<>>
      BY <3>1, Sequence
    <3> QED
      BY <3>2, ColumnsType DEF TypeOK
  <2>3. SaveItems(is, TRUE)
    BY <2>1 DEF SaveColumn
  <2> HIDE DEF is
  <2>4. TypeOK'
    BY <1>9, <2>1, <2>2, <2>3, SaveItemsType, EditType DEF AddItem
  <2> QED
    BY <1>9, <2>1, <2>2, <2>3, <2>4
       DEF AddItem, Free, SaveItems, TypeInv, WindowOverItem
<1>10. CASE AddAgain
  <2> DEFINE column == Append(items[closing], Last(items[closing]))
             is == [items EXCEPT ![closing] = column]
  <2>1. closing \in Columns /\ page = "settings" /\ items[closing] # <<>>
    BY <1>10 DEF AddAgain, TypeOK, WindowOverItem
  <2>2. is \in [Columns -> Seq(Entries)] /\ is[closing] # <<>>
    <3>1. column \in Seq(Entries) /\ column # <<>>
      BY <2>1, Sequence DEF TypeOK
    <3> QED
      BY <2>1, <3>1, ColumnsType DEF TypeOK
  <2>3. SaveItems(is, TRUE)
    BY <1>10 DEF AddAgain, SaveColumn
  <2> HIDE DEF is
  <2>4. TypeOK'
    BY <1>10, <2>1, <2>2, <2>3, SaveItemsType, EditType DEF AddAgain
  <2> QED
    BY <1>10, <2>1, <2>2, <2>3, <2>4 DEF AddAgain, SaveItems, TypeInv, WindowOverItem
<1>11. CASE EditItem
  <2>1. PICK c \in Columns : \E i \in Clickable(c), x \in Contents :
          SaveColumn(c, [items[c] EXCEPT ![i] = x])
    BY <1>11 DEF EditItem
  <2>2. PICK i \in Clickable(c), x \in Contents :
          SaveColumn(c, [items[c] EXCEPT ![i] = x])
    BY <2>1
  <2> DEFINE is == [items EXCEPT ![c] = [items[c] EXCEPT ![i] = x]]
  <2>3. is \in [Columns -> Seq(Entries)]
    <3>1. i \in DOMAIN items[c] /\ x \in Entries
      BY DEF Clickable, TypeOK, Entries
    <3>2. [items[c] EXCEPT ![i] = x] \in Seq(Entries)
      BY <3>1, Sequence DEF TypeOK
    <3> QED
      BY <3>2, ColumnsType DEF TypeOK
  <2>4. SaveItems(is, TRUE) /\ UNCHANGED <<closing, page>>
    BY <1>11, <2>2 DEF EditItem, SaveColumn, SaveItems
  <2> HIDE DEF is
  <2>5. TypeOK'
    BY <1>11, <2>3, <2>4, SaveItemsType, EditType DEF EditItem, TypeOK
  <2> QED
    BY <1>11, <2>4, <2>5 DEF EditItem, Free, TypeInv, WindowOverItem
<1>12. CASE DeleteItem
  <2>1. PICK c \in Columns : \E i \in Clickable(c) :
          SaveItems([items EXCEPT ![c] = RemoveAt(items[c], i)], KeepsSecond(c, i))
    BY <1>12 DEF DeleteItem
  <2>2. PICK i \in Clickable(c) :
          SaveItems([items EXCEPT ![c] = RemoveAt(items[c], i)], KeepsSecond(c, i))
    BY <2>1
  <2> DEFINE is == [items EXCEPT ![c] = RemoveAt(items[c], i)]
  <2>3. is \in [Columns -> Seq(Entries)]
    <3>1. i \in DOMAIN items[c]
      BY DEF Clickable, TypeOK
    <3>2. RemoveAt(items[c], i) \in Seq(Entries)
      BY <3>1, Sequence DEF TypeOK
    <3> QED
      BY <3>2, ColumnsType DEF TypeOK
  <2>4. SaveItems(is, KeepsSecond(c, i)) /\ UNCHANGED closing
    BY <1>12, <2>2 DEF DeleteItem
  <2> HIDE DEF is
  <2>5. TypeOK'
    BY <1>12, <2>3, <2>4, SaveItemsType, EditType DEF DeleteItem, TypeOK
  <2> QED
    BY <1>12, <2>4, <2>5 DEF DeleteItem, Free, TypeInv, WindowOverItem
<1>13. CASE SaveNothing
  <2>1. SaveItems(items, TRUE) /\ UNCHANGED <<closing, edits>>
    BY <1>13 DEF SaveNothing
  <2>2. TypeOK'
    BY <2>1, SaveItemsType DEF TypeOK
  <2> QED
    BY <2>1, <2>2 DEF SaveItems, TypeInv, WindowOverItem
<1>14. CASE SaveNote
  <2>1. PICK x \in Contents \cup {"blank"} :
          note' = x /\ JsonDataSave([Document EXCEPT !.note = x], {})
    BY <1>14 DEF SaveNote
  <2>2. x \in Entries \cup {"blank"}
    BY DEF Entries
  <2>3. [Document EXCEPT !.note = x] \in Documents
    BY <2>2, DocumentType
  <2>4. /\ cooling' \in SUBSET {"save", "statistic"}
        /\ puts' \in Seq(Documents)
        /\ gap' \in {"none", "unsent", "network"}
    BY <2>1, <2>3, JsonDataSaveType
  <2> QED
    BY <1>14, <2>1, <2>2, <2>4, EditType DEF SaveNote, TypeInv, TypeOK, WindowOverItem
<1>15. CASE TypeSum
  <2>1. money' \in Money
    BY <1>15 DEF TypeSum, Money, TypeOK
  <2>2. gap' \in {"none", "unsent", "network"}
    BY <1>15, GapType DEF TypeSum
  <2> QED
    BY <1>15, <2>1, <2>2, EditType DEF TypeSum, TypeInv, TypeOK, WindowOverItem, around
<1>16. CASE ClickSign
  <2>1. checked' \in Currencies
    BY <1>16 DEF ClickSign, NextCurrency, TypeOK, Currencies
  <2>2. money' \in Money /\ last' \in Currencies /\ spoilt' \in BOOLEAN
    BY <1>16, <2>1, ChangeCurrencyType DEF ClickSign
  <2>3. gap' \in {"none", "unsent", "network"}
    BY <1>16, GapType DEF ClickSign
  <2>4. numeric' \in BOOLEAN
    BY <1>16 DEF ClickSign
  <2> QED
    BY <1>16, <2>1, <2>2, <2>3, <2>4, EditType
       DEF ClickSign, TypeInv, TypeOK, WindowOverItem, around
\* The statistics page.
<1>17. CASE Launch
  <2>1. PICK d \in Documents, timers \in SUBSET {"save", "statistic"} :
          /\ \/ JsonDataSave(d, timers)
             \/ CutShort(timers)
          /\ page' \in {"settings", "statistics"}
          /\ money' \in Money /\ last' \in Currencies /\ spoilt' \in BOOLEAN
    <3>1. CASE JsonDataSave(Document, {}) /\ UNCHANGED <<page, money, last, spoilt>>
      BY <1>17, <3>1, DocumentType DEF Launch, Free, TypeOK
    <3>2. ASSUME NEW done, InitStatisticPage(checked, done)
          PROVE  /\ money' \in Money /\ last' \in Currencies /\ spoilt' \in BOOLEAN
                 /\ [Document EXCEPT !.money = money'] \in Documents
      <4>1. checked \in Currencies
        BY DEF TypeOK
      <4> QED
        BY <3>2, <4>1, InitStatisticPageType, DocumentType
    <3>3. CASE InitStatisticPage(checked, FALSE) /\ CutShort({}) /\ UNCHANGED page
      BY <1>17, <3>2, <3>3 DEF Launch, Free
    <3>4. CASE /\ InitStatisticPage(checked, TRUE)
               /\ page' = "statistics"
               /\ \/ JsonDataSave([Document EXCEPT !.money = money'], {"statistic"})
                  \/ CutShort({"statistic"})
      BY <3>2, <3>4
    <3> QED
      BY <1>17, <3>1, <3>3, <3>4 DEF Launch
  <2>2. /\ cooling' \in SUBSET {"save", "statistic"}
        /\ puts' \in Seq(Documents)
        /\ gap' \in {"none", "unsent", "network"}
    <3>1. CASE JsonDataSave(d, timers)
      BY <3>1, JsonDataSaveType
    <3>2. CASE CutShort(timers)
      BY <3>2, GapType DEF CutShort, TypeOK
    <3> QED
      BY <2>1, <3>1, <3>2
  <2> QED
    BY <1>17, <2>1, <2>2 DEF Launch, Free, TypeInv, TypeOK, WindowOverItem
<1>18. CASE ChooseCurrency
  <2>1. PICK currency \in Currencies, done \in BOOLEAN :
          /\ checked' = currency
          /\ RunConvert(items, currency, TRUE)
          /\ InitStatisticPage(currency, done)
          /\ cooling' = IF done THEN cooling \cup {"statistic"} ELSE cooling
    BY <1>18 DEF ChooseCurrency
  <2>2. numeric' \in BOOLEAN /\ second' \in {"none", "there", "gone"}
    BY <2>1, RunConvertType
  <2>3. money' \in Money /\ last' \in Currencies /\ spoilt' \in BOOLEAN
    BY <2>1, InitStatisticPageType
  <2>4. gap' \in {"none", "unsent", "network"}
    BY <1>18, GapType DEF ChooseCurrency
  <2>5. cooling' \in SUBSET {"save", "statistic"}
    BY <2>1 DEF TypeOK
  <2> QED
    BY <1>18, <2>1, <2>2, <2>3, <2>4, <2>5, EditType
       DEF ChooseCurrency, TypeInv, TypeOK, WindowOverItem, around
\* Around the page.
<1>19. CASE RatesArrive
  BY <1>19 DEF RatesArrive, client, around, TypeInv, TypeOK, WindowOverItem
<1>24. CASE SessionExpires
  <2>1. /\ session' \in BOOLEAN
        /\ UNCHANGED <<page, permit, rates, client, closing, cooling, puts, stored, edits, gap,
                       spoilt>>
    BY <1>24 DEF SessionExpires
  <2> QED
    BY <2>1 DEF client, TypeInv, TypeOK, WindowOverItem
<1>20. CASE \E f \in cooling : CoolDown(f)
  BY <1>20 DEF CoolDown, client, around, TypeInv, TypeOK, WindowOverItem
<1>21. CASE \E i \in DOMAIN puts : Deliver(i) \/ LosePut(i)
  <2>1. PICK i \in DOMAIN puts : Deliver(i) \/ LosePut(i)
    BY <1>21
  <2>2. puts' = RemoveAt(puts, i) /\ (stored' = stored \/ stored' = puts[i])
    BY <2>1 DEF Deliver, LosePut
  <2>3. puts' \in Seq(Documents) /\ stored' \in Documents
    BY <2>2, Sequence DEF TypeOK
  <2>4. gap' \in {"none", "unsent", "network"}
    BY <2>1, GapType DEF Deliver, LosePut, TypeOK
  <2>5. UNCHANGED <<page, permit, rates, client, closing, cooling, session, edits, spoilt>>
    BY <2>1 DEF Deliver, LosePut
  <2> QED
    BY <2>3, <2>4, <2>5 DEF client, TypeInv, TypeOK, WindowOverItem
<1>22. CASE UNCHANGED vars
  BY <1>22 DEF vars, client, around, TypeInv, TypeOK, WindowOverItem
<1> QED
  BY <1>1, <1>2, <1>3, <1>4, <1>5, <1>6, <1>7, <1>8, <1>9, <1>10, <1>11, <1>12, <1>13, <1>14,
     <1>15, <1>16, <1>17, <1>18, <1>19, <1>20, <1>21, <1>22, <1>23, <1>24 DEF Next, Navigate, Change

\* The type invariant, for any contents and bounds.
THEOREM TypeCorrect == Spec => []TypeOK
<1>1. Spec => []TypeInv
  BY TypeInit, TypeStep, PTL DEF Spec
<1>2. TypeInv => TypeOK
  BY DEF TypeInv
<1> QED
  BY <1>1, <1>2, PTL

--------------------------------------------------------------------------------
(* What is sent. *)

\* jsonDataSave sends its document or nothing, and nothing where the page may not save.
LEMMA SentOrNot ==
  ASSUME NEW document, NEW timers, JsonDataSave(document, timers)
  PROVE  \/ puts' = puts
         \/ permit /\ puts' = Append(puts, document)
  BY DEF JsonDataSave

LEMMA SentIn ==
  ASSUME NEW D, puts \in Seq(D), NEW document, NEW timers, JsonDataSave(document, timers),
         permit => document \in D
  PROVE  puts' \in Seq(D)
<1>1. \A d \in D : Append(puts, d) \in Seq(D)
  BY Sequence
<1> QED
  BY <1>1, SentOrNot

\* A PUT that is answered or lost, and what the server then has, was on its way before.
LEMMA TakenOut ==
  ASSUME NEW D, puts \in Seq(D), stored \in D, NEW i \in DOMAIN puts,
         Deliver(i) \/ LosePut(i)
  PROVE  puts' \in Seq(D) /\ stored' \in D
<1>1. puts' = RemoveAt(puts, i) /\ (stored' = stored \/ stored' = puts[i])
  BY DEF Deliver, LosePut
<1> QED
  BY <1>1, Sequence

\* A page that may save holds nothing of the demo account, nor does what it sent.
CleanEntries == Entries \ {"demo"}
CleanDocuments ==
  {d \in Documents : d.items \in [Columns -> Seq(CleanEntries)] /\ d.note # "demo"}
DemoInv ==
  /\ permit => items \in [Columns -> Seq(CleanEntries)] /\ note # "demo"
  /\ puts \in Seq(CleanDocuments) /\ stored \in CleanDocuments

LEMMA CleanAccounts ==
  /\ OwnAccount \in CleanDocuments /\ NewAccount \in CleanDocuments
  /\ [NewAccount EXCEPT !.money = Nothing] \in CleanDocuments
<1>1. Both(<<"own">>) \in [Columns -> Seq(CleanEntries)]
  <2>1. "own" \in CleanEntries
    BY DEF CleanEntries, Entries
  <2> QED
    BY <2>1 DEF Both
<1>2. NoItems \in [Columns -> Seq(CleanEntries)]
  BY DEF NoItems, Both
<1>3. OwnAccount \in CleanDocuments
  BY <1>1, AccountsType DEF OwnAccount, CleanDocuments
<1>4. NewAccount \in CleanDocuments
  BY <1>2, AccountsType DEF NewAccount, CleanDocuments
<1>5. [NewAccount EXCEPT !.money = Nothing] \in CleanDocuments
  BY <1>2, AccountsType DEF NewAccount, CleanDocuments
<1> QED
  BY <1>3, <1>4, <1>5

LEMMA CleanLoaded ==
  ASSUME NEW account \in CleanDocuments, Loaded(account)
  PROVE  items' \in [Columns -> Seq(CleanEntries)] /\ note' # "demo"
  BY DEF Loaded, CleanDocuments

LEMMA CleanDocument ==
  ASSUME TypeOK, DemoInv, permit
  PROVE  /\ Document \in CleanDocuments
         /\ \A is \in [Columns -> Seq(CleanEntries)] :
              [Document EXCEPT !.items = is] \in CleanDocuments
         /\ \A n \in CleanEntries \cup {"blank"} :
              [Document EXCEPT !.note = n] \in CleanDocuments
         /\ \A m \in Money : [Document EXCEPT !.money = m] \in CleanDocuments
<1>1. /\ Document.items \in [Columns -> Seq(CleanEntries)] /\ Document.note # "demo"
      /\ Document \in Documents
  BY DocumentType DEF DemoInv, Document
<1>2. [Columns -> Seq(CleanEntries)] \subseteq [Columns -> Seq(Entries)]
  <2>1. Seq(CleanEntries) \subseteq Seq(Entries)
    BY SeqMonotonic DEF CleanEntries
  <2> QED
    BY <2>1
<1>3. Document \in CleanDocuments
  BY <1>1 DEF CleanDocuments
<1>4. ASSUME NEW is \in [Columns -> Seq(CleanEntries)]
      PROVE  [Document EXCEPT !.items = is] \in CleanDocuments
  BY <1>1, <1>2, DocumentType DEF CleanDocuments, Document
<1>5. ASSUME NEW n \in CleanEntries \cup {"blank"}
      PROVE  [Document EXCEPT !.note = n] \in CleanDocuments
  BY <1>1, DocumentType DEF CleanDocuments, CleanEntries, Document
<1>6. ASSUME NEW m \in Money
      PROVE  [Document EXCEPT !.money = m] \in CleanDocuments
  BY <1>1, DocumentType DEF CleanDocuments, Document
<1> QED
  BY <1>3, <1>4, <1>5, <1>6

LEMMA CleanColumns ==
  ASSUME TypeOK, DemoInv, permit, NEW c \in Columns
  PROVE  /\ \A x \in Contents :
              [items EXCEPT ![c] = Append(items[c], x)] \in [Columns -> Seq(CleanEntries)]
         /\ items[c] # <<>> => [items EXCEPT ![c] = Append(items[c], Last(items[c]))]
                               \in [Columns -> Seq(CleanEntries)]
         /\ \A i \in DOMAIN items[c], x \in Contents :
              [items EXCEPT ![c] = [items[c] EXCEPT ![i] = x]] \in [Columns -> Seq(CleanEntries)]
         /\ \A i \in DOMAIN items[c] :
              [items EXCEPT ![c] = RemoveAt(items[c], i)] \in [Columns -> Seq(CleanEntries)]
<1>1. items \in [Columns -> Seq(CleanEntries)] /\ items[c] \in Seq(CleanEntries)
  BY DEF DemoInv
<1>2. Contents \subseteq CleanEntries
  BY ContentsAssumption DEF CleanEntries, Entries
<1>3. \A x \in Contents : Append(items[c], x) \in Seq(CleanEntries)
  BY <1>1, <1>2, Sequence
<1>4. items[c] # <<>> => Append(items[c], Last(items[c])) \in Seq(CleanEntries)
  BY <1>1, Sequence
<1>5. \A i \in DOMAIN items[c], x \in Contents :
        [items[c] EXCEPT ![i] = x] \in Seq(CleanEntries)
  BY <1>1, <1>2, Sequence
<1>6. \A i \in DOMAIN items[c] : RemoveAt(items[c], i) \in Seq(CleanEntries)
  BY <1>1, Sequence
<1> QED
  BY <1>1, <1>3, <1>4, <1>5, <1>6, ColumnsType

LEMMA CleanItems ==
  ASSUME TypeOK, DemoInv, NEW is, NEW kept, SaveItems(is, kept),
         permit => is \in [Columns -> Seq(CleanEntries)]
  PROVE  DemoInv'
<1>1. permit => [Document EXCEPT !.items = is] \in CleanDocuments
  BY CleanDocument
<1>2. puts' \in Seq(CleanDocuments)
  BY <1>1, SentIn DEF SaveItems, DemoInv
<1> QED
  BY <1>2 DEF SaveItems, DemoInv

LEMMA DemoStep == TypeInv /\ DemoInv /\ [Next]_vars => DemoInv'
<1> SUFFICES ASSUME TypeInv, DemoInv, [Next]_vars
             PROVE  DemoInv'
  OBVIOUS
<1>0. TypeOK /\ WindowOverItem
  BY DEF TypeInv
<1> USE <1>0
\* The pages: what is loaded is clean, or the demo account, which takes the permit.
<1>1. CASE Load
  BY <1>1, CleanLoaded DEF Load, InitAccount, DemoInv, client, around
<1>2. CASE Login \/ SignUp \/ Logout \/ Reload
  <2>1. NoPage /\ UNCHANGED puts /\ (stored' = stored \/ stored' = NewAccount)
    BY <1>2 DEF Login, SignUp, Logout, Reload, around
  <2>2. items' \in [Columns -> Seq(CleanEntries)] /\ note' # "demo"
    BY <2>1, CleanAccounts, CleanLoaded DEF NoPage
  <2> QED
    BY <2>1, <2>2, CleanAccounts DEF DemoInv
<1>3. CASE Demo
  BY <1>3 DEF Demo, DemoInv, around
\* Changes of the columns and of the note.
<1>4. CASE AddItem
  BY <1>4, CleanItems, CleanColumns DEF AddItem, SaveColumn
<1>5. CASE AddAgain
  <2>1. closing \in Columns /\ items[closing] # <<>>
    BY <1>5 DEF AddAgain, TypeOK, WindowOverItem
  <2> QED
    BY <1>5, <2>1, CleanItems, CleanColumns DEF AddAgain, SaveColumn
<1>6. CASE EditItem
  <2>1. \A c \in Columns : Clickable(c) \subseteq DOMAIN items[c]
    BY DEF Clickable, TypeOK
  <2> QED
    BY <1>6, <2>1, CleanItems, CleanColumns DEF EditItem, SaveColumn
<1>7. CASE DeleteItem
  <2>1. \A c \in Columns : Clickable(c) \subseteq DOMAIN items[c]
    BY DEF Clickable, TypeOK
  <2> QED
    BY <1>7, <2>1, CleanItems, CleanColumns DEF DeleteItem
<1>8. CASE SaveNothing
  BY <1>8, CleanItems DEF SaveNothing, DemoInv
<1>9. CASE SaveNote
  <2>1. PICK x \in Contents \cup {"blank"} :
          note' = x /\ JsonDataSave([Document EXCEPT !.note = x], {})
    BY <1>9 DEF SaveNote
  <2>2. x \in CleanEntries \cup {"blank"} /\ x # "demo"
    BY ContentsAssumption DEF CleanEntries, Entries
  <2>3. puts' \in Seq(CleanDocuments)
    BY <2>1, <2>2, SentIn, CleanDocument DEF DemoInv
  <2> QED
    BY <1>9, <2>1, <2>2, <2>3 DEF SaveNote, DemoInv
\* A launch sends the rest of the page as it is.
<1>10. CASE Launch
  <2>1. ASSUME NEW done, InitStatisticPage(checked, done)
        PROVE  permit => [Document EXCEPT !.money = money'] \in CleanDocuments
    <3>1. money' \in Money
      BY <2>1, InitStatisticPageType DEF TypeOK
    <3> QED
      BY <3>1, CleanDocument
  <2>2. puts' \in Seq(CleanDocuments)
    <3>1. CASE JsonDataSave(Document, {})
      BY <3>1, SentIn, CleanDocument DEF DemoInv
    <3>2. CASE /\ InitStatisticPage(checked, TRUE)
               /\ JsonDataSave([Document EXCEPT !.money = money'], {"statistic"})
      BY <2>1, <3>2, SentIn DEF DemoInv
    <3>3. CASE UNCHANGED puts
      BY <3>3 DEF DemoInv
    <3> QED
      BY <1>10, <3>1, <3>2, <3>3 DEF Launch, CutShort
  <2> QED
    BY <1>10, <2>2 DEF Launch, DemoInv
\* The network, and steps that touch neither items nor notes nor PUTs.
<1>11. CASE \E i \in DOMAIN puts : Deliver(i) \/ LosePut(i)
  <2>1. puts' \in Seq(CleanDocuments) /\ stored' \in CleanDocuments
    BY <1>11, TakenOut DEF DemoInv
  <2> QED
    BY <1>11, <2>1 DEF Deliver, LosePut, DemoInv, client
<1>12. CASE \/ Greet \/ FadeStatistic \/ WindowGone \/ TypeSum \/ ClickSign \/ ChooseCurrency
            \/ RatesArrive \/ SessionExpires \/ (\E f \in cooling : CoolDown(f))
            \/ UNCHANGED vars
  <2>1. UNCHANGED <<permit, items, note, puts, stored>>
    BY <1>12 DEF Greet, FadeStatistic, WindowGone, TypeSum, ClickSign, ChooseCurrency,
                 RatesArrive, SessionExpires, CoolDown, vars, client, around
  <2> QED
    BY <2>1 DEF DemoInv
<1> QED
  BY <1>1, <1>2, <1>3, <1>4, <1>5, <1>6, <1>7, <1>8, <1>9, <1>10, <1>11, <1>12
     DEF Next, Navigate, Change

\* Nothing of the demo account reaches the server, through any pages, saves and
\* sessions.
THEOREM DemoIsNotSavedHolds == Spec => []DemoIsNotSaved
<1>1. Init => DemoInv
  <2>1. "own" \in CleanEntries
    BY DEF CleanEntries, Entries
  <2>2. NoItems \in [Columns -> Seq(CleanEntries)]
    BY DEF NoItems, Both
  <2> QED
    BY <2>2, CleanAccounts DEF Init, DemoInv, NewAccount
<1>2. DemoInv => DemoIsNotSaved
  BY DEF DemoInv, DemoIsNotSaved, CleanDocuments, CleanEntries, Range
<1> QED
  BY <1>1, <1>2, TypeInit, TypeStep, DemoStep, PTL DEF Spec

--------------------------------------------------------------------------------
(* What the amount of the savings means. *)

\* As long as no conversion was skipped or made without rates, the page's savings are in
\* the currency that both pages take them to be in, and so are those sent and stored.
\* An amount that is no number would stay in its currency through a conversion.
RightDocuments ==
  {d \in Documents : d.money.of = d.label /\ d.money.sum # "null"}
Agreed(currency) == money.of = currency /\ money.sum # "null" /\ last = currency
SavingsInv ==
  ~spoilt => /\ puts \in Seq(RightDocuments) /\ stored \in RightDocuments
             /\ Shown => Agreed(checked)

LEMMA ConversionAgrees ==
  ASSUME TypeOK, Agreed(checked), NEW to \in Currencies, ChangeCurrency(to), ~spoilt'
  PROVE  ~spoilt /\ Agreed(to)'
<1>1. ~spoilt /\ (to = last \/ rates) /\ last' = to /\ money' = Converted(money, last, to)
  BY DEF ChangeCurrency
<1>2. money \in Money /\ money.of = last /\ money.sum # "null"
  BY DEF Agreed, TypeOK
<1>3. CASE to = last
  BY <1>1, <1>2, <1>3 DEF Converted, Agreed
<1>4. CASE to # last
  <2>1. money' = [money EXCEPT !.of = to]
    BY <1>1, <1>2, <1>4 DEF Converted
  <2>2. money'.of = to /\ money'.sum = money.sum
    BY <1>2, <2>1 DEF Money
  <2> QED
    BY <1>1, <1>2, <2>2 DEF Agreed
<1> QED
  BY <1>3, <1>4

LEMMA StatisticPageAgrees ==
  ASSUME TypeOK, Agreed(checked), NEW currency \in Currencies, NEW done,
         InitStatisticPage(currency, done), ~spoilt'
  PROVE  ~spoilt /\ Agreed(currency)'
<1>1. CASE "statistic" \in cooling
  BY <1>1 DEF InitStatisticPage, Agreed
<1>2. CASE "statistic" \notin cooling
  BY <1>2, ConversionAgrees DEF InitStatisticPage
<1> QED
  BY <1>1, <1>2

LEMMA RightDocument ==
  ASSUME TypeOK, Agreed(checked)
  PROVE  /\ Document \in RightDocuments
         /\ \A is \in [Columns -> Seq(Entries)] :
              [Document EXCEPT !.items = is] \in RightDocuments
         /\ \A n \in Entries \cup {"blank"} : [Document EXCEPT !.note = n] \in RightDocuments
         /\ \A m \in Money : m.of = checked /\ m.sum # "null"
                             => [Document EXCEPT !.money = m] \in RightDocuments
  BY DocumentType DEF RightDocuments, Agreed, Document

LEMMA RightAccounts ==
  OwnAccount \in RightDocuments /\ NewAccount \in RightDocuments
  BY AccountsType DEF OwnAccount, NewAccount, RightDocuments

\* A step of the settings page that sends the columns, whatever they are.
LEMMA RightItems ==
  ASSUME TypeOK, SavingsInv, page = "settings", NEW is, NEW kept, SaveItems(is, kept), TypeOK'
  PROVE  SavingsInv'
<1> SUFFICES ASSUME ~spoilt'
             PROVE  /\ puts' \in Seq(RightDocuments) /\ stored' \in RightDocuments
                    /\ Agreed(checked)'
  BY DEF SavingsInv
<1>1. ~spoilt /\ items' = is /\ UNCHANGED <<stored, money, checked, last>>
  BY DEF SaveItems
<1>2. Agreed(checked) /\ puts \in Seq(RightDocuments) /\ stored \in RightDocuments
  BY <1>1 DEF SavingsInv, Shown
<1>3. [Document EXCEPT !.items = is] \in RightDocuments
  BY <1>1, <1>2, RightDocument DEF TypeOK
<1>4. puts' \in Seq(RightDocuments)
  BY <1>2, <1>3, SentIn DEF SaveItems
<1> QED
  BY <1>1, <1>2, <1>4 DEF Agreed

LEMMA SavingsStep == TypeInv /\ TypeInv' /\ SavingsInv /\ [Next]_vars => SavingsInv'
<1> SUFFICES ASSUME TypeInv, TypeInv', SavingsInv, [Next]_vars
             PROVE  SavingsInv'
  OBVIOUS
<1>0. TypeOK /\ WindowOverItem /\ TypeOK'
  BY DEF TypeInv
<1> USE <1>0
\* What is loaded is in the currency of its label.
<1>1. CASE Load
  BY <1>1 DEF Load, InitAccount, Loaded, SavingsInv, Shown, Agreed, RightDocuments, client,
              around
<1>2. CASE Login \/ SignUp \/ Logout \/ Reload
  <2>1. /\ page' = "blank" /\ UNCHANGED <<puts, spoilt>>
        /\ stored' = stored \/ stored' = NewAccount
    BY <1>2 DEF Login, SignUp, Logout, Reload, NoPage, around
  <2> QED
    BY <2>1, RightAccounts DEF SavingsInv, Shown
<1>3. CASE Demo
  BY <1>3 DEF Demo, InitAccount, Loaded, DemoAccount, SavingsInv, Agreed, around
\* The columns are sent with the savings as they are.
<1>4. CASE AddItem \/ AddAgain \/ EditItem \/ DeleteItem \/ SaveNothing
  <2>1. page = "settings"
    BY <1>4 DEF AddItem, AddAgain, EditItem, DeleteItem, SaveNothing, Free, WindowOverItem
  <2>2. \E is, kept : SaveItems(is, kept)
    BY <1>4 DEF AddItem, AddAgain, EditItem, DeleteItem, SaveNothing, SaveColumn
  <2> QED
    BY <2>1, <2>2, RightItems
<1>5. CASE SaveNote
  <2>1. PICK x \in Contents \cup {"blank"} :
          note' = x /\ JsonDataSave([Document EXCEPT !.note = x], {})
    BY <1>5 DEF SaveNote
  <2>2. x \in Entries \cup {"blank"} /\ Shown /\ UNCHANGED <<spoilt, stored, money, checked, last>>
    BY <1>5 DEF SaveNote, Free, Shown, Entries
  <2>3. ASSUME ~spoilt
        PROVE  puts' \in Seq(RightDocuments) /\ Agreed(checked)'
    <3>1. Agreed(checked) /\ puts \in Seq(RightDocuments)
      BY <2>2, <2>3 DEF SavingsInv
    <3>2. [Document EXCEPT !.note = x] \in RightDocuments
      BY <2>2, <3>1, RightDocument
    <3> QED
      BY <2>1, <2>2, <3>1, <3>2, SentIn DEF Agreed
  <2> QED
    BY <2>2, <2>3 DEF SavingsInv
\* A sum that is typed is in the currency shown, which is the one it is converted from.
<1>6. CASE TypeSum
  <2>1. /\ money' = [sum |-> "typed", of |-> checked] /\ Shown
        /\ UNCHANGED <<checked, last, puts, stored, spoilt>>
    BY <1>6 DEF TypeSum, Free, Shown, around
  <2> QED
    BY <2>1 DEF SavingsInv, Agreed
\* The conversions.
<1>7. CASE ClickSign
  <2>1. /\ checked' \in Currencies /\ ChangeCurrency(checked') /\ Shown
        /\ UNCHANGED <<puts, stored>>
    BY <1>7 DEF ClickSign, Free, Shown, around, TypeOK
  <2>2. ASSUME ~spoilt' PROVE ~spoilt /\ Agreed(checked)'
    <3>1. ~spoilt
      BY <2>1, <2>2 DEF ChangeCurrency
    <3>2. Agreed(checked)
      BY <2>1, <3>1 DEF SavingsInv
    <3> QED
      BY <2>1, <2>2, <3>1, <3>2, ConversionAgrees DEF Agreed
  <2> QED
    BY <2>1, <2>2 DEF SavingsInv
<1>8. CASE ChooseCurrency
  <2>1. PICK currency \in Currencies, done \in BOOLEAN :
          checked' = currency /\ InitStatisticPage(currency, done)
    BY <1>8 DEF ChooseCurrency
  <2>2. Shown /\ UNCHANGED <<puts, stored>>
    BY <1>8 DEF ChooseCurrency, Shown, around
  <2>3. ASSUME ~spoilt' PROVE ~spoilt /\ Agreed(checked)'
    <3>1. ~spoilt
      BY <2>1, <2>3 DEF InitStatisticPage, ChangeCurrency
    <3>2. Agreed(checked)
      BY <2>2, <3>1 DEF SavingsInv
    <3> QED
      BY <2>1, <2>3, <3>1, <3>2, StatisticPageAgrees DEF Agreed
  <2> QED
    BY <2>2, <2>3 DEF SavingsInv
<1>9. CASE Launch
  <2>1. Shown /\ UNCHANGED <<checked, stored>>
    BY <1>9 DEF Launch, Free, Shown
  <2>2. CASE JsonDataSave(Document, {}) /\ UNCHANGED <<money, last, spoilt>>
    <3>1. ASSUME ~spoilt
          PROVE  puts' \in Seq(RightDocuments) /\ Agreed(checked)'
      <4>1. Agreed(checked) /\ puts \in Seq(RightDocuments)
        BY <2>1, <3>1 DEF SavingsInv
      <4>2. Document \in RightDocuments
        BY <4>1, RightDocument
      <4> QED
        BY <2>1, <2>2, <4>1, <4>2, SentIn DEF Agreed
    <3> QED
      BY <2>1, <2>2, <3>1 DEF SavingsInv
  <2>3. ASSUME NEW done, InitStatisticPage(checked, done), NEW timers,
               \/ JsonDataSave([Document EXCEPT !.money = money'], timers)
               \/ CutShort(timers)
        PROVE  SavingsInv'
    <3> SUFFICES ASSUME ~spoilt'
                 PROVE  /\ puts' \in Seq(RightDocuments) /\ stored' \in RightDocuments
                        /\ Agreed(checked)'
      BY DEF SavingsInv
    <3>1. ~spoilt
      BY <2>3 DEF InitStatisticPage, ChangeCurrency
    <3>2. Agreed(checked) /\ puts \in Seq(RightDocuments) /\ stored \in RightDocuments
      BY <2>1, <3>1 DEF SavingsInv
    <3>3. checked \in Currencies
      BY DEF TypeOK
    <3>4. Agreed(checked)'
      BY <2>1, <2>3, <3>2, <3>3, StatisticPageAgrees DEF Agreed
    <3>5. [Document EXCEPT !.money = money'] \in RightDocuments
      BY <2>1, <3>2, <3>4, RightDocument DEF Agreed, TypeOK
    <3>6. puts' \in Seq(RightDocuments)
      <4>1. CASE JsonDataSave([Document EXCEPT !.money = money'], timers)
        BY <3>2, <3>5, <4>1, SentIn
      <4>2. CASE CutShort(timers)
        BY <3>2, <4>2 DEF CutShort
      <4> QED
        BY <2>3, <4>1, <4>2
    <3> QED
      BY <2>1, <3>2, <3>4, <3>6
  <2> QED
    BY <1>9, <2>2, <2>3 DEF Launch
\* The network, and steps that touch none of it.
<1>10. CASE \E i \in DOMAIN puts : Deliver(i) \/ LosePut(i)
  <2>1. UNCHANGED <<page, money, checked, last, spoilt>>
    BY <1>10 DEF Deliver, LosePut, client
  <2>2. ~spoilt => puts' \in Seq(RightDocuments) /\ stored' \in RightDocuments
    BY <1>10, TakenOut DEF SavingsInv
  <2> QED
    BY <2>1, <2>2 DEF SavingsInv, Shown, Agreed
<1>11. CASE \/ Greet \/ FadeStatistic \/ WindowGone \/ RatesArrive \/ SessionExpires
            \/ (\E f \in cooling : CoolDown(f)) \/ UNCHANGED vars
  <2>1. (Shown' => Shown) /\ UNCHANGED <<money, checked, last, puts, stored, spoilt>>
    BY <1>11 DEF Greet, FadeStatistic, WindowGone, RatesArrive, SessionExpires, CoolDown,
                 Shown, vars, client, around
  <2> QED
    BY <2>1 DEF SavingsInv, Agreed
<1> QED
  BY <1>1, <1>2, <1>3, <1>4, <1>5, <1>6, <1>7, <1>8, <1>9, <1>10, <1>11
     DEF Next, Navigate, Change

\* The savings are sent and stored in the currency they are labelled with, through any
\* number of conversions, unless one was skipped or made without rates.
THEOREM SavingsStayTrueHolds == Spec => []SavingsStayTrue
<1>1. Init => SavingsInv
  BY RightAccounts DEF Init, SavingsInv, Shown
<1>2. SavingsInv => SavingsStayTrue
  BY DEF SavingsInv, SavingsStayTrue, RightDocuments, Range
<1> QED
  BY <1>1, <1>2, TypeInit, TypeStep, SavingsStep, PTL DEF Spec

--------------------------------------------------------------------------------
(* What the page shows. *)

\* While nothing is missing, what the page shows is stored, or is in the only PUT on its
\* way.
Sync ==
  Shown /\ permit /\ gap = "none" =>
    \/ puts = <<>> /\ stored = Document
    \/ puts = <<Document>>

\* A save after which nothing is missing is the only one on its way.
LEMMA SavedAlone ==
  ASSUME TypeOK, NEW document, NEW timers, JsonDataSave(document, timers), permit,
         gap' = "none"
  PROVE  puts' = <<document>>
<1>1. "save" \notin cooling
  BY DEF JsonDataSave, Gap
<1>2. puts = <<>> /\ puts' = Append(puts, document)
  BY <1>1 DEF JsonDataSave
<1> QED
  BY <1>2

LEMMA SyncStep == TypeInv /\ Sync /\ [Next]_vars => Sync'
<1> SUFFICES ASSUME TypeInv, Sync, [Next]_vars, Shown', permit', gap' = "none"
             PROVE  \/ puts' = <<>> /\ stored' = Document'
                    \/ puts' = <<Document'>>
  BY DEF Sync
<1>0. TypeOK /\ WindowOverItem
  BY DEF TypeInv
<1> USE <1>0
\* A page that has just loaded the account.
<1>1. CASE Load
  <2>1. /\ page' = "loading" /\ Loaded(stored) /\ UNCHANGED <<puts, stored>>
        /\ puts = <<>>
    BY <1>1 DEF Load, Shown, InitAccount, around
  <2>2. Document' = [items |-> stored.items, note |-> stored.note, money |-> stored.money,
                     label |-> stored.label]
    BY <2>1 DEF Loaded, Document
  <2>3. stored \in Documents
    BY DEF TypeOK
  <2>4. stored = Document'
    BY <2>2, <2>3 DEF Documents
  <2> QED
    BY <2>1, <2>4
\* Pages without an account, and the demo page.
<1>2. CASE Login \/ SignUp \/ Logout \/ Reload
  BY <1>2 DEF Login, SignUp, Logout, Reload, NoPage, Shown
<1>3. CASE Demo
  BY <1>3 DEF Demo
\* Changes that are sent.
<1>4. CASE AddItem \/ AddAgain \/ EditItem \/ DeleteItem \/ SaveNothing
  <2>1. PICK is, kept : SaveItems(is, kept)
    BY <1>4 DEF AddItem, AddAgain, EditItem, DeleteItem, SaveNothing, SaveColumn
  <2>2. permit /\ Document' = [Document EXCEPT !.items = is]
    BY <2>1 DEF SaveItems, Document
  <2> QED
    BY <2>1, <2>2, SavedAlone DEF SaveItems
<1>5. CASE SaveNote
  <2>1. PICK x : note' = x /\ JsonDataSave([Document EXCEPT !.note = x], {})
    BY <1>5 DEF SaveNote
  <2>2. permit /\ Document' = [Document EXCEPT !.note = x]
    BY <1>5, <2>1 DEF SaveNote, Document
  <2> QED
    BY <2>1, <2>2, SavedAlone
<1>6. CASE Launch
  <2>1. permit /\ UNCHANGED <<items, note, checked, stored>>
    BY <1>6 DEF Launch
  <2>2. ASSUME NEW timers, JsonDataSave([Document EXCEPT !.money = money'], timers)
        PROVE  puts' = <<Document'>>
    <3>1. Document' = [Document EXCEPT !.money = money']
      BY <2>1 DEF Document
    <3> QED
      BY <2>1, <2>2, <3>1, SavedAlone
  <2>3. CASE JsonDataSave(Document, {}) /\ UNCHANGED money
    <3>1. Document' = Document
      BY <2>1, <2>3 DEF Document
    <3> QED
      BY <2>1, <2>3, <3>1, SavedAlone
  <2>4. ASSUME NEW timers, CutShort(timers), Shown
        PROVE  \/ puts' = <<>> /\ stored' = Document'
               \/ puts' = <<Document'>>
    <3>1. UNCHANGED <<money, gap, puts>>
      BY <2>1, <2>4 DEF CutShort, Gap
    <3>2. Document' = Document
      BY <2>1, <3>1 DEF Document
    <3> QED
      BY <2>1, <2>4, <3>1, <3>2 DEF Sync
  <2> QED
    BY <1>6, <2>2, <2>3, <2>4 DEF Launch, Free, Shown
\* Changes that are not.
<1>7. CASE TypeSum \/ ClickSign \/ ChooseCurrency
  BY <1>7 DEF TypeSum, ClickSign, ChooseCurrency, Gap
\* The answer to the only PUT.
<1>8. CASE \E i \in DOMAIN puts : Deliver(i) \/ LosePut(i)
  <2>1. PICK i \in DOMAIN puts : Deliver(i) \/ LosePut(i)
    BY <1>8
  <2>2. /\ UNCHANGED <<page, permit, items, note, money, checked>>
        /\ puts' = RemoveAt(puts, i)
    BY <2>1 DEF Deliver, LosePut, client
  <2>3. stored' = puts[i] /\ UNCHANGED gap
    BY <2>1, <2>2 DEF Deliver, LosePut, Gap
  <2>4. puts = <<Document>> /\ i = 1 /\ Document' = Document
    BY <2>1, <2>2, <2>3 DEF Sync, Shown, Document
  <2>5. puts' = <<>>
    BY <2>2, <2>4 DEF RemoveAt
  <2> QED
    BY <2>3, <2>4, <2>5
\* Steps that touch none of it.
<1>9. CASE \/ Greet \/ FadeStatistic \/ WindowGone \/ RatesArrive \/ SessionExpires
           \/ (\E f \in cooling : CoolDown(f)) \/ UNCHANGED vars
  <2>1. Shown /\ UNCHANGED <<permit, gap, items, note, money, checked, puts, stored>>
    BY <1>9 DEF Greet, FadeStatistic, WindowGone, RatesArrive, SessionExpires, CoolDown,
                Shown, vars, client, around
  <2> QED
    BY <2>1 DEF Sync, Document
<1> QED
  BY <1>1, <1>2, <1>3, <1>4, <1>5, <1>6, <1>7, <1>8, <1>9 DEF Next, Navigate, Change

\* What the page shows is what the server stores, but for the cases that gap names.
THEOREM ShownIsStoredHolds == Spec => []ShownIsStored
<1>1. Init => Sync
  BY DEF Init, Sync, Shown
<1>2. Sync => ShownIsStored
  BY DEF Sync, ShownIsStored
<1> QED
  BY <1>1, <1>2, TypeInit, TypeStep, SyncStep, PTL DEF Spec
================================================================================
