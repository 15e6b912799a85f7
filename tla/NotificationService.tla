-------------------------- MODULE NotificationService --------------------------
(***************************************************************************)
(* notification-service: the recipients' settings, the two cron jobs that  *)
(* look for recipients whose last notification is older than the frequency *)
(* they chose, and the asynchronous task per recipient that fetches a      *)
(* backup, sends a mail and marks the recipient as notified.               *)
(*                                                                         *)
(* A task works on the copy of the recipient that the job's query read;    *)
(* markNotified writes that whole copy back.  Nothing orders a task and    *)
(* the user's PUT, the other job's task, or the next firing of its own job.*)
(*                                                                         *)
(* Time advances by half days, from cron to cron: reminders at midnight,   *)
(* backups at noon.  Every date is kept as its age in half days, up to     *)
(* MaxAge, beyond which ages are not told apart: behaviours are unbounded. *)
(***************************************************************************)
EXTENDS Naturals, FiniteSets

CONSTANTS Accounts,    \* account names
          Frequency,   \* days between two notifications of a type
          Overlap,     \* bound, for each type: tasks of one account at a time
          MaxPuts,     \* bound: how often settings are saved
          MaxCrashes,  \* bound: how often the service stops
          PutAges,     \* ages of the dates that clients send with settings
          Reachable    \* accounts whose mail and backup do not fail forever

ASSUME FrequencyAssumption == Frequency \in Nat \ {0}
ASSUME PutAgesAssumption == 0 \in PutAges /\ PutAges \subseteq 0 .. 2 * Frequency + 1
ASSUME ReachableAssumption == Reachable \subseteq Accounts

Types == {"BACKUP", "REMIND"}

ASSUME BoundsAssumption ==
  /\ Overlap \in [Types -> Nat \ {0}]
  /\ MaxPuts \in Nat
  /\ MaxCrashes \in Nat

Due == 2 * Frequency
MaxAge == Due + 1
Ages == 0 .. MaxAge

\* A recipient: the types set active, and the age of each type's lastNotified.  A
\* type without an entry, and an account without a recipient, count as inactive.
Recipient == [active : SUBSET Types, age : [Types -> Ages]]
TaskState == [pc : {"free", "get", "send", "mark"}, copy : Recipient]
Blank == [active |-> {}, age |-> [t \in Types |-> 0]]

Slots == UNION {Accounts \X {t} \X (1 .. Overlap[t]) : t \in Types}
AccountOf(x) == x[1]
TypeOf(x) == x[2]

VARIABLES recipients,  \* the recipient stored for each account
          tasks,       \* the tasks in flight, each with its copy of a recipient
          job,         \* the type whose cron comes or came last
          cronDue,     \* its moment is now
          up,          \* the service is running
          puts, crashes,
          choice,      \* history: the active types of the last PUT
          raced,       \* history: a task was in flight at the last PUT
          sinceMail,   \* history: the age of the last mail of each type
          excused      \* history: the copies and dates in use may be off

serviceVars == <<recipients, tasks, job, cronDue, up>>
history == <<choice, raced, sinceMail, excused>>
vars == <<recipients, tasks, job, cronDue, up, puts, crashes, history>>

Free == [pc |-> "free", copy |-> Blank]

TypeOK ==
  /\ recipients \in [Accounts -> Recipient]
  /\ tasks \in [Slots -> TaskState]
  /\ job \in Types
  /\ cronDue \in BOOLEAN
  /\ up \in BOOLEAN
  /\ puts \in 0 .. MaxPuts
  /\ crashes \in 0 .. MaxCrashes
  /\ choice \in [Accounts -> SUBSET Types]
  /\ raced \in [Accounts -> BOOLEAN]
  /\ sinceMail \in [Accounts -> [Types -> Ages]]
  /\ excused \in [Accounts -> BOOLEAN]

\* Each account has saved settings, or none (Blank), and no mail was sent lately.
Init ==
  /\ recipients \in [Accounts -> [active : SUBSET Types, age : [Types -> PutAges]]]
  /\ tasks = [x \in Slots |-> Free]
  /\ job = "BACKUP"
  /\ cronDue = FALSE
  /\ up = TRUE
  /\ puts = 0
  /\ crashes = 0
  /\ choice = [a \in Accounts |-> recipients[a].active]
  /\ raced = [a \in Accounts |-> FALSE]
  /\ sinceMail = [a \in Accounts |-> [t \in Types |-> MaxAge]]
  /\ excused = [a \in Accounts |-> FALSE]

InFlight(a) == {x \in Slots : AccountOf(x) = a /\ tasks[x].pc # "free"}

--------------------------------------------------------------------------------

Older(age) == IF age < MaxAge THEN age + 1 ELSE age
OlderAges(ages) == [t \in Types |-> Older(ages[t])]

\* Half a day passes.  The scheduler does not sleep over a moment of a cron; a
\* moment that comes while the service is down is missed.
Tick ==
  /\ ~cronDue
  /\ job' = IF job = "BACKUP" THEN "REMIND" ELSE "BACKUP"
  /\ cronDue' = up
  /\ recipients' = [a \in Accounts |->
                      [recipients[a] EXCEPT !.age = OlderAges(@)]]
  /\ tasks' = [x \in Slots |-> IF tasks[x].pc = "free" THEN tasks[x]
                               ELSE [tasks[x] EXCEPT !.copy.age = OlderAges(@)]]
  /\ sinceMail' = [a \in Accounts |-> OlderAges(sinceMail[a])]
  /\ UNCHANGED <<up, puts, crashes, choice, raced, excused>>

\* Mutants of ReadySince: the condition on active is dropped, the other type's date is
\* compared, and the recipient must be found on the day.
ReadyOrInactive(t, age) == {a \in Accounts : recipients[a].age[t] >= age}
ReadyByBackup(t, age) ==
  {a \in Accounts : t \in recipients[a].active /\ recipients[a].age["BACKUP"] >= age}
ReadyOnTheDay(t, age) ==
  {a \in Accounts : t \in recipients[a].active /\ recipients[a].age[t] = Due}

\* findReadyToNotify: active, and last notified before now minus the frequency.
ReadySince(t, age) ==
  {a \in Accounts : t \in recipients[a].active /\ recipients[a].age[t] >= age}

FirstFree(a, t) ==
  CHOOSE k \in 1 .. Overlap[t] :
    /\ tasks[<<a, t, k>>].pc = "free"
    /\ \A i \in 1 .. Overlap[t] : tasks[<<a, t, i>>].pc = "free" => k <= i

\* sendBackupNotifications and sendRemindNotifications: one query, then a task for
\* each recipient found, with the recipient as the query read it.  At an age of
\* exactly the frequency, whether the query finds it depends on how far into the half
\* day the date was set and the query runs.
FireCron ==
  /\ up /\ cronDue
  /\ cronDue' = FALSE
  /\ \E ready \in SUBSET ReadySince(job, Due) :
       /\ ReadySince(job, Due + 1) \subseteq ready
       /\ \A a \in ready : \E k \in 1 .. Overlap[job] : tasks[<<a, job, k>>].pc = "free"
       /\ tasks' = [x \in Slots |->
            IF /\ AccountOf(x) \in ready
               /\ TypeOf(x) = job
               /\ x[3] = FirstFree(AccountOf(x), job)
            THEN [pc |-> IF job = "BACKUP" THEN "get" ELSE "send",
                  copy |-> recipients[AccountOf(x)]]
            ELSE tasks[x]]
       /\ excused' = [a \in Accounts |->
                        excused[a] \/ (a \in ready /\ InFlight(a) # {})]
  /\ UNCHANGED <<recipients, job, up, puts, crashes, choice, raced, sinceMail>>

\* The query fails: @Scheduled logs the error and waits for the next moment.
QueryFails ==
  /\ up /\ cronDue
  /\ cronDue' = FALSE
  /\ UNCHANGED <<recipients, tasks, job, up, puts, crashes, history>>

(***************************************************************************)
(* A task.  Every error ends it: runAsync's body catches Throwable.        *)
(***************************************************************************)

Goto(x, from, to) ==
  /\ tasks[x].pc = from
  /\ tasks' = [tasks EXCEPT ![x].pc = to]

End(x, from) ==
  /\ tasks[x].pc = from
  /\ tasks' = [tasks EXCEPT ![x] = Free]

\* client.getAccount, for the attachment of a backup.
GetAccount(x) ==
  /\ Goto(x, "get", "send")
  /\ UNCHANGED <<recipients, job, cronDue, up, puts, crashes, history>>

GetAccountFails(x) ==
  /\ End(x, "get")
  /\ UNCHANGED <<recipients, job, cronDue, up, puts, crashes, history>>

Mailed(x) == sinceMail' = [sinceMail EXCEPT ![AccountOf(x)][TypeOf(x)] = 0]

\* emailService.send
Send(x) ==
  /\ Goto(x, "send", "mark")
  /\ Mailed(x)
  /\ UNCHANGED <<recipients, job, cronDue, up, puts, crashes, choice, raced, excused>>

\* The mail server may have accepted a mail whose sending failed.
SendFails(x) ==
  /\ End(x, "send")
  /\ \/ UNCHANGED <<sinceMail, excused>>
     \/ /\ Mailed(x)
        /\ excused' = [excused EXCEPT ![AccountOf(x)] = TRUE]
  /\ UNCHANGED <<recipients, job, cronDue, up, puts, crashes, choice, raced>>

\* Mutant of MarkNotified: the document saved holds the dates only.
MarkDatesOnly(x) ==
  /\ End(x, "mark")
  /\ recipients' = [recipients EXCEPT ![AccountOf(x)] =
                      [age |-> [tasks[x].copy.age EXCEPT ![TypeOf(x)] = 0]]]
  /\ UNCHANGED <<job, cronDue, up, puts, crashes, history>>

\* recipientService.markNotified stamps the copy and saves all of it.
MarkNotified(x) ==
  /\ End(x, "mark")
  /\ recipients' = [recipients EXCEPT ![AccountOf(x)] =
                      [tasks[x].copy EXCEPT !.age[TypeOf(x)] = 0]]
  /\ UNCHANGED <<job, cronDue, up, puts, crashes, history>>

MarkFails(x) ==
  /\ End(x, "mark")
  /\ excused' = [excused EXCEPT ![AccountOf(x)] = TRUE]
  /\ UNCHANGED <<recipients, job, cronDue, up, puts, crashes, choice, raced, sinceMail>>

(***************************************************************************)
(* The user and the operator.                                              *)
(***************************************************************************)

\* Mutant of SaveSettings: active types are added to those stored.
AddSettings(a) ==
  /\ up
  /\ puts < MaxPuts
  /\ puts' = puts + 1
  /\ \E active \in SUBSET Types :
       /\ recipients' = [recipients EXCEPT ![a].active = @ \cup active]
       /\ choice' = [choice EXCEPT ![a] = active]
  /\ raced' = [raced EXCEPT ![a] = (InFlight(a) # {})]
  /\ excused' = [excused EXCEPT ![a] = (InFlight(a) # {})]
  /\ UNCHANGED <<tasks, job, cronDue, up, crashes, sinceMail>>

\* PUT /recipients/current: RecipientServiceImpl.save upserts the recipient as sent.
\* A lastNotified left out becomes now (age 0); the web client always leaves it out,
\* others may send any date.
SaveSettings(a) ==
  /\ up
  /\ puts < MaxPuts
  /\ puts' = puts + 1
  /\ \E active \in SUBSET Types, age \in [Types -> PutAges] :
       /\ recipients' = [recipients EXCEPT ![a] = [active |-> active, age |-> age]]
       /\ choice' = [choice EXCEPT ![a] = active]
       /\ raced' = [raced EXCEPT ![a] = (InFlight(a) # {})]
       /\ excused' = [excused EXCEPT ![a] =
            (InFlight(a) # {} \/ \E t \in Types : age[t] > sinceMail[a][t])]
  /\ UNCHANGED <<tasks, job, cronDue, up, crashes, sinceMail>>

\* The service stops: the tasks are lost with it.
Stop ==
  /\ up
  /\ crashes < MaxCrashes
  /\ crashes' = crashes + 1
  /\ up' = FALSE
  /\ cronDue' = FALSE
  /\ tasks' = [x \in Slots |-> Free]
  /\ excused' = [a \in Accounts |->
                   excused[a] \/ \E x \in InFlight(a) : tasks[x].pc = "mark"]
  /\ UNCHANGED <<recipients, job, puts, choice, raced, sinceMail>>

\* docker-compose restarts it (restart: always).
Restart ==
  /\ ~up
  /\ up' = TRUE
  /\ UNCHANGED <<recipients, tasks, job, cronDue, puts, crashes, history>>

--------------------------------------------------------------------------------

TaskStep(x) ==
  \/ GetAccount(x) \/ GetAccountFails(x)
  \/ Send(x) \/ SendFails(x)
  \/ MarkNotified(x) \/ MarkFails(x)

Next ==
  \/ Tick
  \/ FireCron
  \/ QueryFails
  \/ \E x \in Slots : TaskStep(x)
  \/ \E a \in Accounts : SaveSettings(a)
  \/ Stop
  \/ Restart

\* Time passes, the service is restarted, and every task ends (mail and HTTP calls
\* return).  The database does not fail every query, nor the mail server and
\* account-service every call for a Reachable account.
Fairness ==
  /\ WF_vars(Tick)
  /\ WF_vars(Restart)
  /\ \A t \in Types : SF_vars(job = t /\ FireCron)
  /\ \A x \in Slots :
       /\ WF_vars(TaskStep(x))
       /\ AccountOf(x) \in Reachable => SF_vars(GetAccount(x)) /\ SF_vars(Send(x))

Spec == Init /\ [][Next]_vars
FairSpec == Spec /\ Fairness
================================================================================
