--------------------------- MODULE NotificationProofs ---------------------------
(***************************************************************************)
(* Proofs, for any set of accounts, any frequency and any bounds, of the   *)
(* safety properties of NotificationProperties.                            *)
(***************************************************************************)
EXTENDS NotificationProperties, TLAPS

\* A task was started for a user who had its type active in the copy.
TasksWanted ==
  \A x \in Slots : tasks[x].pc # "free" => TypeOf(x) \in tasks[x].copy.active

\* Where no task raced with the last PUT, no copy disagrees with it.
CopiesCurrent ==
  \A a \in Accounts : ~raced[a] =>
    /\ recipients[a].active = choice[a]
    /\ \A x \in InFlight(a) : tasks[x].copy.active = choice[a]

\* One task of an account at a time; no date is older than the last mail of its type
\* unless it is about to be marked; and a task that has not yet sent its mail found
\* its date older than the frequency.
OneTask(a) == \A x, y \in InFlight(a) : x = y
StoredSound(a) ==
  \A t \in Types :
    (\A x \in InFlight(a) : t # TypeOf(x) \/ tasks[x].pc # "mark")
    => recipients[a].age[t] <= sinceMail[a][t]
CopySound(a, x) ==
  /\ \A t \in Types : t # TypeOf(x) \/ tasks[x].pc # "mark"
                      => tasks[x].copy.age[t] <= sinceMail[a][t]
  /\ tasks[x].pc # "mark" => tasks[x].copy.age[TypeOf(x)] >= Due
Sound(a) == OneTask(a) /\ StoredSound(a) /\ \A x \in InFlight(a) : CopySound(a, x)

\* This holds of every account whose dates are not excused.
DatesSound == \A a \in Accounts : ~excused[a] => Sound(a)

IInv == TypeOK /\ TasksWanted /\ CopiesCurrent /\ DatesSound

--------------------------------------------------------------------------------

\* A slot names an account and a type.
LEMMA SlotParts ==
  ASSUME NEW x \in Slots
  PROVE  AccountOf(x) \in Accounts /\ TypeOf(x) \in Types
  BY DEF Slots, AccountOf, TypeOf

LEMMA AgeFacts ==
  /\ Due \in Nat /\ MaxAge \in Nat /\ Due < MaxAge
  /\ 0 \in Ages /\ Due \in Ages /\ MaxAge \in Ages
  /\ PutAges \subseteq Ages
  BY FrequencyAssumption, PutAgesAssumption DEF Due, MaxAge, Ages

\* Growing older keeps an age an age, and keeps the order of two ages.
LEMMA OlderFacts ==
  /\ \A p \in Ages : Older(p) \in Ages /\ p <= Older(p)
  /\ \A p, q \in Ages : p <= q => Older(p) <= Older(q)
  /\ \A p \in Ages : p >= Due => Older(p) >= Due
  BY AgeFacts DEF Older, Ages

LEMMA OlderAgesType ==
  ASSUME NEW ages \in [Types -> Ages]
  PROVE  /\ OlderAges(ages) \in [Types -> Ages]
         /\ \A t \in Types : OlderAges(ages)[t] = Older(ages[t])
  BY OlderFacts DEF OlderAges

LEMMA OlderRecipient ==
  ASSUME NEW r \in Recipient
  PROVE  /\ [r EXCEPT !.age = OlderAges(@)] \in Recipient
         /\ [r EXCEPT !.age = OlderAges(@)].active = r.active
         /\ \A t \in Types : [r EXCEPT !.age = OlderAges(@)].age[t] = Older(r.age[t])
<1>1. r.age \in [Types -> Ages]
  BY DEF Recipient
<1> QED
  BY <1>1, OlderAgesType DEF Recipient

LEMMA OlderTask ==
  ASSUME NEW k \in TaskState
  PROVE  /\ [k EXCEPT !.copy.age = OlderAges(@)] \in TaskState
         /\ [k EXCEPT !.copy.age = OlderAges(@)].pc = k.pc
         /\ [k EXCEPT !.copy.age = OlderAges(@)].copy.active = k.copy.active
         /\ \A t \in Types :
              [k EXCEPT !.copy.age = OlderAges(@)].copy.age[t] = Older(k.copy.age[t])
<1>1. k.copy \in Recipient /\ k.copy.age \in [Types -> Ages]
  BY DEF TaskState, Recipient
<1> QED
  BY <1>1, OlderAgesType DEF TaskState, Recipient

LEMMA MarkedRecipient ==
  ASSUME NEW r \in Recipient, NEW s \in Types
  PROVE  /\ [r EXCEPT !.age[s] = 0] \in Recipient
         /\ [r EXCEPT !.age[s] = 0].active = r.active
         /\ [r EXCEPT !.age[s] = 0].age = [r.age EXCEPT ![s] = 0]
  BY AgeFacts DEF Recipient

LEMMA FreeType == Blank \in Recipient /\ Free \in TaskState
  BY AgeFacts DEF Blank, Free, Recipient, TaskState

LEMMA InitType == Init => TypeOK
<1> SUFFICES ASSUME Init PROVE TypeOK
  OBVIOUS
<1>1. recipients \in [Accounts -> Recipient]
  BY AgeFacts DEF Init, Recipient
<1>2. choice \in [Accounts -> SUBSET Types]
  BY <1>1 DEF Init, Recipient
<1>3. sinceMail \in [Accounts -> [Types -> Ages]]
  BY AgeFacts DEF Init
<1>4. puts \in 0 .. MaxPuts /\ crashes \in 0 .. MaxCrashes
  BY BoundsAssumption DEF Init
<1>5. tasks \in [Slots -> TaskState]
  BY FreeType DEF Init
<1> QED
  BY <1>1, <1>2, <1>3, <1>4, <1>5 DEF Init, TypeOK, Types

LEMMA NextType == TypeOK /\ [Next]_vars => TypeOK'
<1> SUFFICES ASSUME TypeOK, [Next]_vars PROVE TypeOK'
  OBVIOUS
<1> USE DEF TypeOK, history
<1>1. CASE Tick
  <2>1. sinceMail' \in [Accounts -> [Types -> Ages]]
    BY <1>1, OlderAgesType DEF Tick
  <2>2. recipients' \in [Accounts -> Recipient]
    BY <1>1, OlderRecipient DEF Tick
  <2>3. tasks' \in [Slots -> TaskState]
    BY <1>1, OlderTask DEF Tick
  <2> QED
    BY <1>1, <2>1, <2>2, <2>3 DEF Tick, Types
<1>2. CASE FireCron
  <2>1. tasks' \in [Slots -> TaskState]
    BY <1>2, SlotParts DEF FireCron, TaskState
  <2>2. excused' \in [Accounts -> BOOLEAN]
    BY <1>2 DEF FireCron
  <2> QED
    BY <1>2, <2>1, <2>2 DEF FireCron
<1>3. CASE QueryFails
  BY <1>3 DEF QueryFails
<1>4. ASSUME NEW x \in Slots, TaskStep(x) PROVE TypeOK'
  <2> USE SlotParts, FreeType, AgeFacts DEF End, Mailed
  <2>0. ASSUME NEW from, NEW to \in {"free", "get", "send", "mark"}, Goto(x, from, to)
        PROVE  tasks' \in [Slots -> TaskState]
    BY <2>0 DEF Goto, TaskState
  <2>1. CASE GetAccount(x)
    BY <2>0, <2>1 DEF GetAccount
  <2>2. CASE GetAccountFails(x)
    BY <2>2 DEF GetAccountFails
  <2>3. CASE Send(x)
    BY <2>0, <2>3 DEF Send
  <2>4. CASE SendFails(x)
    <3>1. CASE Mailed(x)
      <4>1. [sinceMail[AccountOf(x)] EXCEPT ![TypeOf(x)] = 0] \in [Types -> Ages]
        OBVIOUS
      <4>2. sinceMail' = [sinceMail EXCEPT ![AccountOf(x)] =
                            [sinceMail[AccountOf(x)] EXCEPT ![TypeOf(x)] = 0]]
        BY <3>1
      <4> QED
        BY <2>4, <4>1, <4>2 DEF SendFails
    <3>2. CASE UNCHANGED <<sinceMail, excused>>
      BY <2>4, <3>2 DEF SendFails
    <3> QED
      BY <2>4, <3>1, <3>2 DEF SendFails
  <2>5. CASE MarkNotified(x)
    <3>1. [tasks[x].copy EXCEPT !.age[TypeOf(x)] = 0] \in Recipient
      BY MarkedRecipient DEF TaskState
    <3> QED
      BY <2>5, <3>1 DEF MarkNotified
  <2>6. CASE MarkFails(x)
    BY <2>6 DEF MarkFails
  <2> QED
    BY <1>4, <2>1, <2>2, <2>3, <2>4, <2>5, <2>6 DEF TaskStep
<1>5. ASSUME NEW a \in Accounts, SaveSettings(a) PROVE TypeOK'
  <2>1. PICK active \in SUBSET Types, age \in [Types -> PutAges] :
          /\ recipients' = [recipients EXCEPT ![a] = [active |-> active, age |-> age]]
          /\ choice' = [choice EXCEPT ![a] = active]
          /\ raced' = [raced EXCEPT ![a] = (InFlight(a) # {})]
          /\ excused' = [excused EXCEPT ![a] =
               (InFlight(a) # {} \/ \E t \in Types : age[t] > sinceMail[a][t])]
    BY <1>5 DEF SaveSettings
  <2>2. [active |-> active, age |-> age] \in Recipient
    BY AgeFacts DEF Recipient
  <2>3. /\ (InFlight(a) # {}) \in BOOLEAN
        /\ (InFlight(a) # {} \/ \E t \in Types : age[t] > sinceMail[a][t]) \in BOOLEAN
    OBVIOUS
  <2>4. raced' \in [Accounts -> BOOLEAN] /\ excused' \in [Accounts -> BOOLEAN]
    BY <2>1, <2>3
  <2> QED
    BY <1>5, <2>1, <2>2, <2>4, BoundsAssumption DEF SaveSettings
<1>6. CASE Stop
  <2>1. excused' \in [Accounts -> BOOLEAN]
    BY <1>6 DEF Stop
  <2>2. crashes' \in 0 .. MaxCrashes
    BY <1>6, BoundsAssumption DEF Stop
  <2>3. tasks' \in [Slots -> TaskState]
    BY <1>6, FreeType DEF Stop
  <2> QED
    BY <1>6, <2>1, <2>2, <2>3 DEF Stop
<1>7. CASE Restart
  BY <1>7 DEF Restart
<1>8. CASE UNCHANGED vars
  BY <1>8 DEF vars
<1> QED
  BY <1>1, <1>2, <1>3, <1>4, <1>5, <1>6, <1>7, <1>8 DEF Next


--------------------------------------------------------------------------------

\* What a step does to a task: it begins, with the stored recipient as its copy, it
\* grows older, it moves on with its copy, or it is over.
LEMMA TaskMoves ==
  ASSUME TypeOK, [Next]_vars, NEW x \in Slots, tasks'[x].pc # "free"
  PROVE  \/ /\ FireCron
            /\ TypeOf(x) \in recipients[AccountOf(x)].active
            /\ tasks'[x].copy = recipients[AccountOf(x)]
         \/ /\ tasks[x].pc # "free"
            /\ tasks'[x].copy.active = tasks[x].copy.active
<1> USE SlotParts, FreeType DEF TypeOK
<1>1. CASE Tick
  BY <1>1, OlderTask DEF Tick
<1>2. CASE FireCron
  <2>1. PICK ready \in SUBSET ReadySince(job, Due) :
          tasks' = [y \in Slots |->
            IF /\ AccountOf(y) \in ready
               /\ TypeOf(y) = job
               /\ y[3] = FirstFree(AccountOf(y), job)
            THEN [pc |-> IF job = "BACKUP" THEN "get" ELSE "send",
                  copy |-> recipients[AccountOf(y)]]
            ELSE tasks[y]]
    BY <1>2 DEF FireCron
  <2>2. CASE tasks'[x] = tasks[x]
    BY <2>2
  <2>3. CASE tasks'[x] # tasks[x]
    <3>1. AccountOf(x) \in ready /\ TypeOf(x) = job
      BY <2>1, <2>3
    <3>2. tasks'[x].copy = recipients[AccountOf(x)]
      BY <2>1, <2>3
    <3> QED
      BY <1>2, <3>1, <3>2 DEF ReadySince
  <2> QED
    BY <2>2, <2>3
<1>3. CASE QueryFails
  BY <1>3 DEF QueryFails
<1>4. ASSUME NEW z \in Slots, TaskStep(z)
      PROVE  tasks[x].pc # "free" /\ tasks'[x].copy.active = tasks[x].copy.active
  <2>1. ASSUME NEW from, from # "free", NEW to, Goto(z, from, to)
        PROVE  tasks[x].pc # "free" /\ tasks'[x].copy.active = tasks[x].copy.active
    BY <2>1 DEF Goto, TaskState
  <2>2. ASSUME NEW from, End(z, from)
        PROVE  tasks[x].pc # "free" /\ tasks'[x].copy.active = tasks[x].copy.active
    BY <2>2 DEF End, Free
  <2> QED
    BY <1>4, <2>1, <2>2 DEF TaskStep, GetAccount, GetAccountFails, Send, SendFails,
                           MarkNotified, MarkFails
<1>5. ASSUME NEW a \in Accounts, SaveSettings(a) PROVE tasks' = tasks
  BY <1>5 DEF SaveSettings
<1>6. CASE Stop
  BY <1>6 DEF Stop, Free
<1>7. CASE Restart
  BY <1>7 DEF Restart
<1>8. CASE UNCHANGED vars
  BY <1>8 DEF vars
<1> QED
  BY <1>1, <1>2, <1>3, <1>4, <1>5, <1>6, <1>7, <1>8 DEF Next

LEMMA NextTasksWanted == TypeOK /\ TasksWanted /\ [Next]_vars => TasksWanted'
<1> SUFFICES ASSUME TypeOK, TasksWanted, [Next]_vars,
                    NEW x \in Slots, tasks'[x].pc # "free"
             PROVE  TypeOf(x) \in tasks'[x].copy.active
  BY DEF TasksWanted, TypeOf, Slots, Types
<1> QED
  BY TaskMoves DEF TasksWanted

LEMMA NextCopiesCurrent == TypeOK /\ CopiesCurrent /\ [Next]_vars => CopiesCurrent'
<1> SUFFICES ASSUME TypeOK, CopiesCurrent, [Next]_vars, NEW a \in Accounts, ~raced'[a]
             PROVE  /\ recipients'[a].active = choice'[a]
                    /\ \A x \in Slots : AccountOf(x) = a /\ tasks'[x].pc # "free"
                                       => tasks'[x].copy.active = choice'[a]
  BY DEF CopiesCurrent, InFlight, AccountOf
<1> USE DEF TypeOK, history
\* But for a PUT, choice and raced stay, and so does the content of every recipient.
<1>1. ASSUME choice' = choice, raced' = raced, recipients'[a].active = choice[a]
      PROVE  /\ recipients'[a].active = choice'[a]
             /\ \A x \in Slots : AccountOf(x) = a /\ tasks'[x].pc # "free"
                                => tasks'[x].copy.active = choice'[a]
  <2>1. /\ recipients[a].active = choice[a]
        /\ \A x \in Slots : AccountOf(x) = a /\ tasks[x].pc # "free"
                           => tasks[x].copy.active = choice[a]
    BY <1>1 DEF CopiesCurrent, InFlight
  <2> QED
    BY <1>1, <2>1, TaskMoves
<1>2. CASE recipients' = recipients /\ choice' = choice /\ raced' = raced
  <2>1. recipients'[a].active = choice[a]
    BY <1>2 DEF CopiesCurrent
  <2> QED
    BY <1>1, <1>2, <2>1
<1>3. CASE Tick
  <2>1. recipients'[a].active = recipients[a].active
    BY <1>3, OlderRecipient DEF Tick
  <2>2. choice' = choice /\ raced' = raced
    BY <1>3 DEF Tick
  <2> QED
    BY <1>1, <2>1, <2>2 DEF CopiesCurrent
<1>4. ASSUME NEW x \in Slots, MarkNotified(x)
      PROVE  recipients'[a].active = choice[a] /\ choice' = choice /\ raced' = raced
  <2>0. choice' = choice /\ raced' = raced
    BY <1>4 DEF MarkNotified
  <2>1. CASE AccountOf(x) = a
    <3>1. x \in InFlight(a)
      BY <1>4, <2>1 DEF MarkNotified, End, InFlight
    <3>2. recipients'[a].active = tasks[x].copy.active
      BY <1>4, <2>1, MarkedRecipient, SlotParts DEF MarkNotified, TaskState
    <3> QED
      BY <2>0, <3>1, <3>2 DEF CopiesCurrent
  <2>2. CASE AccountOf(x) # a
    BY <1>4, <2>0, <2>2, SlotParts DEF MarkNotified, CopiesCurrent
  <2> QED
    BY <2>1, <2>2
<1>5. ASSUME NEW b \in Accounts, SaveSettings(b)
      PROVE  /\ recipients'[a].active = choice'[a]
             /\ \A x \in Slots : AccountOf(x) = a /\ tasks'[x].pc # "free"
                                => tasks'[x].copy.active = choice'[a]
  <2>1. PICK active \in SUBSET Types, age \in [Types -> PutAges] :
          /\ recipients' = [recipients EXCEPT ![b] = [active |-> active, age |-> age]]
          /\ choice' = [choice EXCEPT ![b] = active]
          /\ raced' = [raced EXCEPT ![b] = (InFlight(b) # {})]
          /\ tasks' = tasks
    BY <1>5 DEF SaveSettings
  <2>2. CASE a = b
    <3>1. InFlight(a) = {}
      BY <2>1, <2>2
    <3>2. \A x \in Slots : AccountOf(x) = a => tasks'[x].pc = "free"
      BY <2>1, <3>1 DEF InFlight
    <3> QED
      BY <2>1, <2>2, <3>2
  <2>3. CASE a # b
    <3>1. ~raced[a] /\ recipients'[a] = recipients[a] /\ choice'[a] = choice[a]
      BY <2>1, <2>3
    <3> QED
      BY <2>1, <3>1 DEF CopiesCurrent, InFlight
  <2> QED
    BY <2>2, <2>3
<1>6. CASE FireCron \/ QueryFails \/ Stop \/ Restart \/ UNCHANGED vars
  BY <1>2, <1>6 DEF FireCron, QueryFails, Stop, Restart, vars
<1>7. ASSUME NEW x \in Slots, TaskStep(x)
      PROVE  \/ MarkNotified(x)
             \/ recipients' = recipients /\ choice' = choice /\ raced' = raced
  BY <1>7 DEF TaskStep, GetAccount, GetAccountFails, Send, SendFails, MarkFails
<1> QED
  BY <1>1, <1>2, <1>3, <1>4, <1>5, <1>6, <1>7 DEF Next


--------------------------------------------------------------------------------

\* A step that leaves an account's tasks, dates and mails alone.
LEMMA SoundStays ==
  ASSUME NEW a \in Accounts, Sound(a),
         recipients'[a] = recipients[a], sinceMail'[a] = sinceMail[a],
         \A x \in Slots : AccountOf(x) = a => tasks'[x] = tasks[x]
  PROVE  Sound(a)'
<1>1. InFlight(a)' = InFlight(a)
  BY DEF InFlight, AccountOf
<1>2. \A x \in InFlight(a) : tasks'[x] = tasks[x]
  BY DEF InFlight
<1> QED
  BY <1>1, <1>2 DEF Sound, OneTask, StoredSound, CopySound, TypeOf

LEMMA TickSound ==
  ASSUME TypeOK, Tick, NEW a \in Accounts, Sound(a)
  PROVE  Sound(a)'
<1> USE SlotParts DEF TypeOK, Tick
<1>1. InFlight(a)' = InFlight(a)
  BY OlderTask DEF InFlight, AccountOf
<1>2. \A x \in InFlight(a) :
        /\ tasks'[x].pc = tasks[x].pc
        /\ \A t \in Types : tasks'[x].copy.age[t] = Older(tasks[x].copy.age[t])
  BY OlderTask DEF InFlight
<1>3. \A t \in Types : /\ recipients'[a].age[t] = Older(recipients[a].age[t])
                       /\ sinceMail'[a][t] = Older(sinceMail[a][t])
  BY OlderRecipient, OlderAgesType
<1>4. \A t \in Types : recipients[a].age[t] \in Ages /\ sinceMail[a][t] \in Ages
  BY DEF Recipient
<1>5. \A x \in Slots, t \in Types : tasks[x].copy.age[t] \in Ages
  BY DEF TaskState, Recipient
<1>6. StoredSound(a)'
  <2> SUFFICES ASSUME NEW t \in Types,
                      \A x \in InFlight(a) : t # TypeOf(x) \/ tasks[x].pc # "mark"
               PROVE  recipients'[a].age[t] <= sinceMail'[a][t]
    BY <1>1, <1>2 DEF StoredSound, TypeOf
  <2>1. recipients[a].age[t] <= sinceMail[a][t]
    BY DEF Sound, StoredSound
  <2> QED
    BY <1>3, <1>4, <2>1, OlderFacts
<1>7. ASSUME NEW x \in InFlight(a) PROVE CopySound(a, x)'
  <2> HIDE DEF TypeOK, Tick
  <2>1. x \in Slots /\ TypeOf(x) \in Types
    BY DEF InFlight
  <2>2. ASSUME NEW t \in Types, t # TypeOf(x) \/ tasks'[x].pc # "mark"
        PROVE  tasks'[x].copy.age[t] <= sinceMail'[a][t]
    <3>1. tasks[x].copy.age[t] <= sinceMail[a][t]
      BY <1>2, <2>2 DEF Sound, CopySound
    <3> QED
      BY <1>2, <1>3, <1>4, <1>5, <2>1, <3>1, OlderFacts
  <2>3. ASSUME tasks'[x].pc # "mark" PROVE tasks'[x].copy.age[TypeOf(x)] >= Due
    <3>1. tasks[x].copy.age[TypeOf(x)] >= Due
      BY <1>2, <2>3 DEF Sound, CopySound
    <3>2. tasks[x].copy.age[TypeOf(x)] \in Ages
      BY <1>5, <2>1
    <3>3. Older(tasks[x].copy.age[TypeOf(x)]) >= Due
      BY <3>1, <3>2, OlderFacts
    <3> QED
      BY <1>2, <2>1, <3>3
  <2> QED
    BY <2>2, <2>3 DEF CopySound, TypeOf
<1> QED
  BY <1>1, <1>6, <1>7 DEF Sound, OneTask

LEMMA FireSound ==
  ASSUME TypeOK, FireCron, NEW a \in Accounts, ~excused'[a], Sound(a)
  PROVE  Sound(a)'
<1> USE SlotParts DEF TypeOK
<1>1. PICK ready \in SUBSET ReadySince(job, Due) :
        /\ tasks' = [x \in Slots |->
             IF /\ AccountOf(x) \in ready
                /\ TypeOf(x) = job
                /\ x[3] = FirstFree(AccountOf(x), job)
             THEN [pc |-> IF job = "BACKUP" THEN "get" ELSE "send",
                   copy |-> recipients[AccountOf(x)]]
             ELSE tasks[x]]
        /\ excused' = [b \in Accounts |->
                         excused[b] \/ (b \in ready /\ InFlight(b) # {})]
  BY DEF FireCron
<1>2. recipients' = recipients /\ sinceMail' = sinceMail
  BY DEF FireCron
<1>3. CASE a \notin ready
  <2>1. \A x \in Slots : AccountOf(x) = a => tasks'[x] = tasks[x]
    BY <1>1, <1>3
  <2> QED
    BY <1>2, <2>1, SoundStays
<1>4. CASE a \in ready
  <2>1. InFlight(a) = {}
    BY <1>1, <1>4
  <2>2. \A x \in Slots : AccountOf(x) = a => tasks[x].pc = "free"
    BY <2>1 DEF InFlight
  <2>3. ASSUME NEW x \in Slots, AccountOf(x) = a, tasks'[x].pc # "free"
        PROVE  /\ x = <<a, job, FirstFree(a, job)>>
               /\ tasks'[x].pc # "mark"
               /\ tasks'[x].copy = recipients[a]
    <3>1. TypeOf(x) = job /\ x[3] = FirstFree(a, job)
      BY <1>1, <2>2, <2>3
    <3>2. x = <<x[1], x[2], x[3]>>
      BY DEF Slots
    <3> QED
      BY <1>1, <1>4, <2>3, <3>1, <3>2 DEF AccountOf, TypeOf
  <2>4. \A t \in Types : recipients[a].age[t] <= sinceMail[a][t]
    BY <2>1 DEF Sound, StoredSound
  <2>5. recipients[a].age[job] >= Due
    BY <1>1, <1>4 DEF ReadySince
  <2>6. InFlight(a)' = {x \in Slots : AccountOf(x) = a /\ tasks'[x].pc # "free"}
    BY DEF InFlight, AccountOf
  <2>7. OneTask(a)'
    BY <2>3, <2>6 DEF OneTask
  <2>8. StoredSound(a)'
    BY <1>2, <2>4 DEF StoredSound
  <2>9. ASSUME NEW x \in Slots, AccountOf(x) = a, tasks'[x].pc # "free"
        PROVE  CopySound(a, x)'
    <3>1. TypeOf(x) = job
      BY <2>3, <2>9 DEF TypeOf
    <3> QED
      BY <1>2, <2>3, <2>4, <2>5, <2>9, <3>1 DEF CopySound, TypeOf
  <2> QED
    BY <2>6, <2>7, <2>8, <2>9 DEF Sound
<1> QED
  BY <1>3, <1>4


LEMMA SaveSound ==
  ASSUME TypeOK, NEW b \in Accounts, SaveSettings(b),
         NEW a \in Accounts, ~excused'[a], ~excused[a] => Sound(a)
  PROVE  Sound(a)'
<1> USE DEF TypeOK
<1>1. PICK active \in SUBSET Types, age \in [Types -> PutAges] :
        /\ recipients' = [recipients EXCEPT ![b] = [active |-> active, age |-> age]]
        /\ excused' = [excused EXCEPT ![b] =
             (InFlight(b) # {} \/ \E t \in Types : age[t] > sinceMail[b][t])]
        /\ tasks' = tasks /\ sinceMail' = sinceMail
  BY DEF SaveSettings
<1>2. CASE a = b
  <2>1. InFlight(a) = {} /\ \A t \in Types : ~(age[t] > sinceMail[a][t])
    BY <1>1, <1>2
  <2>2. InFlight(a)' = {}
    BY <1>1, <2>1 DEF InFlight, AccountOf
  <2>3. ASSUME NEW t \in Types PROVE age[t] <= sinceMail[a][t]
    <3>1. age[t] \in Ages /\ sinceMail[a][t] \in Ages
      BY AgeFacts
    <3>2. age[t] \in Nat /\ sinceMail[a][t] \in Nat
      BY <3>1 DEF Ages
    <3> QED
      BY <2>1, <3>2
  <2>4. \A t \in Types : recipients'[a].age[t] <= sinceMail'[a][t]
    BY <1>1, <1>2, <2>3
  <2> QED
    BY <2>2, <2>4 DEF Sound, OneTask, StoredSound
<1>3. CASE a # b
  <2>1. recipients'[a] = recipients[a] /\ ~excused[a]
    BY <1>1, <1>3
  <2> QED
    BY <1>1, <2>1, SoundStays
<1> QED
  BY <1>2, <1>3

LEMMA StopSound ==
  ASSUME TypeOK, Stop, NEW a \in Accounts, ~excused'[a], Sound(a)
  PROVE  Sound(a)'
<1>1. \A x \in InFlight(a) : tasks[x].pc # "mark"
  BY DEF Stop, TypeOK
<1>2. \A t \in Types : recipients'[a].age[t] <= sinceMail'[a][t]
  BY <1>1 DEF Stop, Sound, StoredSound
<1>3. InFlight(a)' = {}
  BY DEF Stop, InFlight, AccountOf, Free
<1> QED
  BY <1>2, <1>3 DEF Sound, OneTask, StoredSound

\* A step of an account's only task, which ends it or sends its mail.
LEMMA TaskSound ==
  ASSUME TypeOK, NEW x \in Slots, TaskStep(x),
         NEW a \in Accounts, ~excused'[a], ~excused[a] => Sound(a)
  PROVE  Sound(a)'
<1> USE SlotParts DEF TypeOK
<1>1. ~excused[a] /\ Sound(a)
  BY DEF TaskStep, GetAccount, GetAccountFails, Send, SendFails, MarkNotified,
         MarkFails, Mailed, history
<1>2. CASE AccountOf(x) # a
  <2>1. \A y \in Slots : AccountOf(y) = a => tasks'[y] = tasks[y]
    BY <1>2 DEF TaskStep, GetAccount, GetAccountFails, Send, SendFails, MarkNotified,
                MarkFails, Goto, End
  <2>2. recipients'[a] = recipients[a]
    BY <1>2 DEF TaskStep, GetAccount, GetAccountFails, Send, SendFails, MarkNotified,
                MarkFails
  <2>3. sinceMail'[a] = sinceMail[a]
    BY <1>2 DEF TaskStep, GetAccount, GetAccountFails, Send, SendFails, MarkNotified,
                MarkFails, Mailed, history
  <2> QED
    BY <1>1, <2>1, <2>2, <2>3, SoundStays
<1>3. CASE AccountOf(x) = a
  <2>1. x \in InFlight(a)
    BY <1>3 DEF TaskStep, GetAccount, GetAccountFails, Send, SendFails, MarkNotified,
                MarkFails, Goto, End, InFlight
  <2>2. InFlight(a) = {x}
    BY <1>1, <2>1 DEF Sound, OneTask
  <2>3. \A y \in Slots : AccountOf(y) = a /\ y # x => tasks[y].pc = "free"
    BY <2>2 DEF InFlight
  <2>4. CopySound(a, x)
    BY <1>1, <2>1 DEF Sound
  \* A task that ends: the dates stored must now be right.
  <2>5. ASSUME NEW from, End(x, from), \A t \in Types : recipients'[a].age[t] <= sinceMail'[a][t]
        PROVE  Sound(a)'
    <3>1. InFlight(a)' = {}
      BY <2>3, <2>5 DEF End, Free, InFlight, AccountOf
    <3> QED
      BY <2>5, <3>1 DEF Sound, OneTask, StoredSound
  <2>6. tasks[x].pc # "mark" => \A t \in Types : recipients[a].age[t] <= sinceMail[a][t]
    BY <1>1, <2>2 DEF Sound, StoredSound
  <2>7. CASE GetAccount(x)
    <3>1. /\ InFlight(a)' = {x} /\ tasks[x].pc = "get"
          /\ tasks'[x].copy = tasks[x].copy /\ tasks'[x].pc = "send"
      BY <1>3, <2>3, <2>7 DEF GetAccount, Goto, InFlight, AccountOf, TaskState
    <3>2. recipients' = recipients /\ sinceMail' = sinceMail
      BY <2>7 DEF GetAccount, history
    <3> QED
      BY <2>4, <2>6, <3>1, <3>2 DEF Sound, OneTask, StoredSound, CopySound, TypeOf
  <2>8. CASE Send(x)
    <3>1. /\ InFlight(a)' = {x} /\ tasks[x].pc = "send"
          /\ tasks'[x].copy = tasks[x].copy /\ tasks'[x].pc = "mark"
      BY <1>3, <2>3, <2>8 DEF Send, Goto, InFlight, AccountOf, TaskState
    <3>2. /\ recipients' = recipients
          /\ \A t \in Types : t # TypeOf(x) => sinceMail'[a][t] = sinceMail[a][t]
      BY <1>3, <2>8 DEF Send, Mailed
    <3> QED
      BY <2>4, <2>6, <3>1, <3>2 DEF Sound, OneTask, StoredSound, CopySound, TypeOf
  <2>9. CASE MarkNotified(x)
    <3>1. recipients'[a] = [tasks[x].copy EXCEPT !.age[TypeOf(x)] = 0]
      BY <1>3, <2>9 DEF MarkNotified
    <3>2. tasks[x].copy \in Recipient
      BY DEF TaskState
    <3>3. recipients'[a].age = [tasks[x].copy.age EXCEPT ![TypeOf(x)] = 0]
      BY <3>1, <3>2, MarkedRecipient
    <3>4. sinceMail' = sinceMail /\ \A t \in Types : sinceMail[a][t] >= 0
      BY <2>9 DEF MarkNotified, history, Ages
    <3>5. tasks[x].copy.age \in [Types -> Ages]
      BY <3>2 DEF Recipient
    <3>6. ASSUME NEW t \in Types PROVE recipients'[a].age[t] <= sinceMail'[a][t]
      BY <2>4, <3>3, <3>4, <3>5 DEF CopySound
    <3> QED
      BY <2>5, <2>9, <3>6 DEF MarkNotified
  <2>10. CASE GetAccountFails(x)
    BY <2>5, <2>6, <2>10 DEF GetAccountFails, End, history
  <2>11. CASE SendFails(x)
    <3>1. UNCHANGED <<sinceMail, excused, recipients>>
      BY <1>3, <2>11 DEF SendFails
    <3> QED
      BY <2>5, <2>6, <2>11, <3>1 DEF SendFails, End
  <2>12. CASE MarkFails(x)
    BY <1>3, <2>12 DEF MarkFails
  <2> QED
    BY <2>7, <2>8, <2>9, <2>10, <2>11, <2>12 DEF TaskStep
<1> QED
  BY <1>2, <1>3

LEMMA NextDatesSound == TypeOK /\ DatesSound /\ [Next]_vars => DatesSound'
<1> SUFFICES ASSUME TypeOK, DatesSound, [Next]_vars, NEW a \in Accounts, ~excused'[a]
             PROVE  Sound(a)'
  BY DEF DatesSound
<1>0. ~excused[a] => Sound(a)
  BY DEF DatesSound
<1>1. CASE Tick
  BY <1>0, <1>1, TickSound DEF Tick
<1>2. CASE FireCron
  <2>1. ~excused[a]
    BY <1>2 DEF FireCron, TypeOK
  <2> QED
    BY <1>0, <1>2, <2>1, FireSound
<1>3. ASSUME NEW x \in Slots, TaskStep(x) PROVE Sound(a)'
  BY <1>0, <1>3, TaskSound
<1>4. ASSUME NEW b \in Accounts, SaveSettings(b) PROVE Sound(a)'
  BY <1>0, <1>4, SaveSound
<1>5. CASE Stop
  <2>1. ~excused[a]
    BY <1>5 DEF Stop, TypeOK
  <2> QED
    BY <1>0, <1>5, <2>1, StopSound
<1>6. CASE QueryFails \/ Restart \/ UNCHANGED vars
  <2>1. recipients' = recipients /\ tasks' = tasks /\ sinceMail' = sinceMail /\ excused' = excused
    BY <1>6 DEF QueryFails, Restart, vars, history
  <2> QED
    BY <1>0, <2>1, SoundStays
<1> QED
  BY <1>1, <1>2, <1>3, <1>4, <1>5, <1>6 DEF Next

--------------------------------------------------------------------------------

LEMMA InitIInv == Init => IInv
<1> SUFFICES ASSUME Init PROVE IInv
  OBVIOUS
<1>1. TypeOK
  BY InitType
<1>2. \A x \in Slots : tasks[x].pc = "free"
  BY DEF Init, Free
<1>3. \A a \in Accounts : InFlight(a) = {}
  BY <1>2 DEF InFlight
<1>4. CopiesCurrent
  BY <1>3 DEF Init, CopiesCurrent
<1>5. ASSUME NEW a \in Accounts PROVE Sound(a)
  <2>1. \A t \in Types : recipients[a].age[t] \in Ages /\ sinceMail[a][t] = MaxAge
    BY <1>1 DEF Init, TypeOK, Recipient
  <2>2. \A t \in Types : recipients[a].age[t] <= sinceMail[a][t]
    BY <2>1, AgeFacts DEF Ages
  <2> QED
    BY <1>3, <2>2 DEF Sound, OneTask, StoredSound
<1> QED
  BY <1>1, <1>2, <1>4, <1>5 DEF IInv, TasksWanted, DatesSound

LEMMA NextIInv == IInv /\ [Next]_vars => IInv'
  BY NextType, NextTasksWanted, NextCopiesCurrent, NextDatesSound DEF IInv

LEMMA Invariance == Spec => []IInv
  BY InitIInv, NextIInv, PTL DEF Spec

\* The service's state is well-typed for every frequency and any bounds.
THEOREM TypeCorrect == Spec => []TypeOK
  BY InitType, NextType, PTL DEF Spec

\* Whatever the crons, tasks and PUTs do, the stored settings are those of the last
\* PUT that no task was in flight for.
THEOREM SettingsDoHold == Spec => []SettingsHold
<1>1. IInv => SettingsHold
  BY DEF IInv, CopiesCurrent, SettingsHold
<1> QED
  BY <1>1, Invariance, PTL

\* A mail that is being sent is one that the user's last PUT asked for, unless its
\* task was already in flight then.
THEOREM MailsAreWanted == Spec => []MailIsWanted
<1>1. IInv => MailIsWanted
  BY SlotParts DEF IInv, TasksWanted, CopiesCurrent, MailIsWanted, InFlight
<1> QED
  BY <1>1, Invariance, PTL

\* For every frequency, number of overlapping tasks and pattern of crashes, two mails
\* of a type are the frequency apart unless a named exception applied.
THEOREM MailsAreDue == Spec => []MailIsDue
<1>1. IInv => MailIsDue
  <2> SUFFICES ASSUME IInv, NEW x \in Slots,
                      tasks[x].pc = "send", ~excused[AccountOf(x)]
               PROVE  sinceMail[AccountOf(x)][TypeOf(x)] >= Due
    BY DEF MailIsDue
  <2>1. x \in InFlight(AccountOf(x)) /\ AccountOf(x) \in Accounts /\ TypeOf(x) \in Types
    BY SlotParts DEF InFlight
  <2>2. /\ tasks[x].copy.age[TypeOf(x)] <= sinceMail[AccountOf(x)][TypeOf(x)]
        /\ tasks[x].copy.age[TypeOf(x)] >= Due
    BY <2>1 DEF IInv, DatesSound, Sound, CopySound
  <2>3. /\ tasks[x].copy.age[TypeOf(x)] \in Ages
        /\ sinceMail[AccountOf(x)][TypeOf(x)] \in Ages
    BY <2>1 DEF IInv, TypeOK, TaskState, Recipient
  <2> QED
    BY <2>2, <2>3, AgeFacts DEF Ages
<1> QED
  BY <1>1, Invariance, PTL
================================================================================
