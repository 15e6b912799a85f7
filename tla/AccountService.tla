----------------------------- MODULE AccountService -----------------------------
(***************************************************************************)
(* account-service: AccountServiceImpl.create and saveChanges, each run by *)
(* one thread per HTTP request, with a step for every database operation   *)
(* and every remote call.  A registration calls auth-service (UserService) *)
(* between its lookup and its save; an update calls statistics-service     *)
(* after its save.  Nothing is transactional: a thread, a remote call or a *)
(* service can fail between any two steps.                                 *)
(*                                                                         *)
(* The content of an account is identified by the update that wrote it:    *)
(* saveChanges overwrites every field but the name.                        *)
(***************************************************************************)
EXTENDS UserService

Absent == "absent"
Default == "default"
DemoData == "demo data"

ASSUME ContentAssumption == Saves \cap {Absent, Default, DemoData} = {}

VARIABLES pc,          \* where each request's thread is
          accounts,    \* the account stored under each name
          put,         \* the PUT /statistics/{name} of each update
          statistics,  \* the account state the current data point was computed from
          taken,       \* history: the name had a user when the registration arrived
          serial,      \* history: no two updates between save and publication
          delivered    \* history: the last update of the name reached statistics-service

vars == <<users, name, call, pc, accounts, put, statistics, taken, serial, delivered>>
history == <<taken, serial, delivered>>

InFlight == {"find", "call", "wait", "store", "publish", "await"}
Answered == {"created", "saved", "rejected", "refused", "failed"}
Contents == Saves \cup {Default, DemoData}

TypeOK ==
  /\ UserTypeOK
  /\ pc \in [Threads -> InFlight \cup Answered \cup {"idle"}]
  /\ accounts \in [Names -> Contents \cup {Absent}]
  /\ put \in [Saves -> {"none", "sent", "applied", "failed"}]
  /\ statistics \in [Names -> Saves \cup {Absent}]
  /\ taken \in [Requests -> BOOLEAN]
  /\ serial \in [Names -> BOOLEAN]
  /\ delivered \in [Names -> BOOLEAN]

Init ==
  /\ UserInit
  /\ pc = [t \in Threads |-> "idle"]
  /\ accounts = [n \in Names |-> IF n \in Seeded THEN DemoData ELSE Absent]
  /\ put = [s \in Saves |-> "none"]
  /\ statistics = [n \in Names |-> Absent]
  /\ taken = [r \in Requests |-> FALSE]
  /\ serial = [n \in Names |-> TRUE]
  /\ delivered = [n \in Names |-> TRUE]

Goto(t, from, to) == pc[t] = from /\ pc' = [pc EXCEPT ![t] = to]

(***************************************************************************)
(* Variants used as mutants: what plausible bugs would make of the actions *)
(* below.  No specification uses them.                                     *)
(***************************************************************************)

\* A fallback for AuthServiceClient, like the one statistics has, that goes on.
AbandonCallWithFallback(r) ==
  /\ Goto(r, "wait", "store")
  /\ UNCHANGED <<authVars, accounts, put, statistics, history>>

\* No time limit: the wait ends only when the connection is lost.
AbandonClosedCall(r) == call[r] = "closed" /\ AbandonCallWithFallback(r)

\* A retry made to work by taking "user already exists" for success.
ReceiveExistsAsCreated(r) ==
  /\ call[r] \in {"exists", "error"}
  /\ Goto(r, "wait", IF call[r] = "exists" THEN "store" ELSE "failed")
  /\ call' = [call EXCEPT ![r] = "closed"]
  /\ UNCHANGED <<users, name, accounts, put, statistics, history>>

\* The account is saved before its defaults are set.
StoreBlankAccount(r) ==
  /\ Goto(r, "store", "created")
  /\ accounts' = [accounts EXCEPT ![name[r]] = "blank"]
  /\ UNCHANGED <<authVars, put, statistics, history>>

\* The data point of the day is inserted, not replaced.
ApplyFirstPublication(s) ==
  /\ put[s] = "sent"
  /\ put' = [put EXCEPT ![s] = "applied"]
  /\ statistics' = [statistics EXCEPT ![name[s]] = IF @ = Absent THEN s ELSE @]
  /\ UNCHANGED <<authVars, pc, accounts, history>>

(***************************************************************************)
(* Registration: POST /accounts/ -> AccountServiceImpl.create              *)
(***************************************************************************)

\* A valid User arrives; the endpoint needs no authentication.
Register(r) ==
  /\ Goto(r, "idle", "find")
  /\ taken' = [taken EXCEPT ![r] = users[name[r]] # NoUser]
  /\ UNCHANGED <<authVars, accounts, put, statistics, serial, delivered>>

\* repository.findByName and Assert.isNull, answered 400 by ErrorHandler.
FindExisting(r) ==
  /\ Goto(r, "find", IF accounts[name[r]] = Absent THEN "call" ELSE "rejected")
  /\ UNCHANGED <<authVars, accounts, put, statistics, history>>

\* authClient.createUser: the request leaves for auth-service.
CallCreateUser(r) ==
  /\ Goto(r, "call", "wait")
  /\ call' = [call EXCEPT ![r] = "sent"]
  /\ UNCHANGED <<users, name, accounts, put, statistics, history>>

\* No client-credentials token, circuit breaker open, or connection refused.
CallNotSent(r) ==
  /\ Goto(r, "call", "failed")
  /\ UNCHANGED <<authVars, accounts, put, statistics, history>>

\* The answer of auth-service; any error status is a FeignException (500).
ReceiveCreated(r) ==
  /\ call[r] = "created"
  /\ Goto(r, "wait", "store")
  /\ call' = [call EXCEPT ![r] = "closed"]
  /\ UNCHANGED <<users, name, accounts, put, statistics, history>>

ReceiveError(r) ==
  /\ call[r] \in {"exists", "error"}
  /\ Goto(r, "wait", IF call[r] = "exists" THEN "refused" ELSE "failed")
  /\ call' = [call EXCEPT ![r] = "closed"]
  /\ UNCHANGED <<users, name, accounts, put, statistics, history>>

\* The time limiter (10 s) or a lost connection ends the wait.  AuthServiceClient
\* has no fallback.  The call itself goes on at auth-service.
AbandonCall(r) ==
  /\ Goto(r, "wait", "failed")
  /\ UNCHANGED <<authVars, accounts, put, statistics, history>>

\* repository.save of the account with default parameters.
StoreNewAccount(r) ==
  /\ Goto(r, "store", "created")
  /\ accounts' = [accounts EXCEPT ![name[r]] = Default]
  /\ UNCHANGED <<authVars, put, statistics, history>>

(***************************************************************************)
(* Update: PUT /accounts/current -> AccountServiceImpl.saveChanges         *)
(***************************************************************************)

\* The principal's token was issued to a user auth-service knows.
Save(s) ==
  /\ users[name[s]] # NoUser
  /\ Goto(s, "idle", "find")
  /\ UNCHANGED <<authVars, accounts, put, statistics, history>>

\* repository.findByName and Assert.notNull (400).
FindAccount(s) ==
  /\ Goto(s, "find", IF accounts[name[s]] = Absent THEN "rejected" ELSE "store")
  /\ UNCHANGED <<authVars, accounts, put, statistics, history>>

\* Updates of n saved but not yet published, and publications still on their way.
Pending(n) == {s \in Saves : /\ name[s] = n
                             /\ pc[s] \in {"publish", "await"} \/ put[s] = "sent"}

\* repository.save upserts the whole account.
StoreChanges(s) ==
  /\ Goto(s, "store", "publish")
  /\ accounts' = [accounts EXCEPT ![name[s]] = s]
  /\ serial' = [serial EXCEPT ![name[s]] = (Pending(name[s]) = {})]
  /\ delivered' = [delivered EXCEPT ![name[s]] = TRUE]
  /\ UNCHANGED <<authVars, put, statistics, taken>>

\* statisticsClient.updateStatistics: the request leaves ...
PublishChanges(s) ==
  /\ Goto(s, "publish", "await")
  /\ put' = [put EXCEPT ![s] = "sent"]
  /\ UNCHANGED <<authVars, accounts, statistics, history>>

\* ... or cannot leave, and StatisticsServiceClientFallback logs the error.
PublicationNotSent(s) ==
  /\ Goto(s, "publish", "saved")
  /\ delivered' = [delivered EXCEPT ![name[s]] = FALSE]
  /\ UNCHANGED <<authVars, accounts, put, statistics, taken, serial>>

\* statistics-service replaces the data point of the day.
ApplyPublication(s) ==
  /\ put[s] = "sent"
  /\ put' = [put EXCEPT ![s] = "applied"]
  /\ statistics' = [statistics EXCEPT ![name[s]] = s]
  /\ UNCHANGED <<authVars, pc, accounts, history>>

\* It is down, rejects the account (400: no incomes list) or fails (500: no
\* exchange rates), or the request is lost.
LosePublication(s) ==
  /\ put[s] = "sent"
  /\ put' = [put EXCEPT ![s] = "failed"]
  /\ delivered' = [delivered EXCEPT ![name[s]] = FALSE]
  /\ UNCHANGED <<authVars, pc, accounts, statistics, taken, serial>>

\* An answer, or the fallback after an error or a timeout: both end in 200.
FinishSave(s) ==
  /\ Goto(s, "await", "saved")
  /\ UNCHANGED <<authVars, accounts, put, statistics, history>>

(***************************************************************************)
(* Failures of account-service                                             *)
(***************************************************************************)

\* The database fails under a request.  A failed save may have been applied.
AccountStoreFails(t) ==
  /\ \/ /\ Goto(t, "find", "failed")
        /\ UNCHANGED <<accounts, serial, delivered>>
     \/ /\ Goto(t, "store", "failed")
        /\ \/ UNCHANGED <<accounts, serial, delivered>>
           \/ /\ accounts' = [accounts EXCEPT ![name[t]] =
                                IF t \in Saves THEN t ELSE Default]
              /\ delivered' = IF t \in Saves
                              THEN [delivered EXCEPT ![name[t]] = FALSE]
                              ELSE delivered
              /\ UNCHANGED serial
  /\ UNCHANGED <<authVars, put, statistics, taken>>

\* account-service stops: every request in flight is cut off.  What it already
\* sent to other services is not.
AccountServiceStops ==
  /\ \E t \in Threads : pc[t] \in InFlight
  /\ pc' = [t \in Threads |-> IF pc[t] \in InFlight THEN "failed" ELSE pc[t]]
  /\ delivered' = [n \in Names |->
        IF \E s \in Saves : name[s] = n /\ pc[s] = "publish" THEN FALSE ELSE delivered[n]]
  /\ UNCHANGED <<authVars, accounts, put, statistics, taken, serial>>

--------------------------------------------------------------------------------

RegistrationStep(r) ==
  \/ FindExisting(r)
  \/ CallCreateUser(r)
  \/ CallNotSent(r)
  \/ ReceiveCreated(r)
  \/ ReceiveError(r)
  \/ AbandonCall(r)
  \/ StoreNewAccount(r)

SaveStep(s) ==
  \/ FindAccount(s)
  \/ StoreChanges(s)
  \/ PublishChanges(s)
  \/ PublicationNotSent(s)
  \/ FinishSave(s)

AuthStep(r) ==
  /\ FindUser(r) \/ SaveUser(r) \/ UserStoreFails(r)
  /\ UNCHANGED <<pc, accounts, put, statistics, history>>

StatisticsStep(s) == ApplyPublication(s) \/ LosePublication(s)

Stop ==
  \/ AccountServiceStops
  \/ AuthServiceStops /\ UNCHANGED <<pc, accounts, put, statistics, history>>

Next ==
  \/ \E r \in Requests : Register(r) \/ RegistrationStep(r) \/ AuthStep(r)
  \/ \E s \in Saves : Save(s) \/ SaveStep(s) \/ StatisticsStep(s)
  \/ \E t \in Threads : AccountStoreFails(t)
  \/ Stop

\* Tomcat runs every thread it has started, and every wait has a timeout.  Nothing
\* is assumed of the other services, nor of the arrival of requests.
Fairness ==
  /\ \A r \in Requests : WF_vars(RegistrationStep(r))
  /\ \A s \in Saves : WF_vars(SaveStep(s))

Spec == Init /\ [][Next]_vars
FairSpec == Spec /\ Fairness
================================================================================
