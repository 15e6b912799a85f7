-------------------------- MODULE AccountServiceProofs --------------------------
(***************************************************************************)
(* Proofs, for any sets of names, registrations and updates, of the safety *)
(* properties of AccountServiceProperties.                                 *)
(***************************************************************************)
EXTENDS AccountServiceProperties, TLAPS

\* A call is only sent from "call" on, a publication only from "publish" on.
CallsFollowThreads ==
  /\ \A r \in Requests : pc[r] \in {"idle", "find", "call"} => call[r] = "none"
  /\ \A s \in Saves : pc[s] \in {"idle", "find", "store", "publish"} => put[s] = "none"

\* Whoever is about to save an account, or is about to learn that it may, knows
\* that the user exists.
UserBeforeAccount ==
  /\ \A r \in Requests : call[r] = "created" => users[name[r]] # NoUser
  /\ \A t \in Threads : pc[t] = "store" => users[name[t]] # NoUser

\* A registration of a taken name gets past neither of the two services.
TakenNameStopped ==
  \A r \in Requests : taken[r] =>
    /\ users[name[r]] # NoUser
    /\ call[r] \notin {"checked", "created"}
    /\ pc[r] \notin {"store", "created"}

\* While updates of n are serial and none is lost, only the update the account
\* holds can be pending, and it is pending until the data point shows it.
SerialUpdates ==
  \A n \in Names :
    /\ serial[n] /\ delivered[n]
    /\ accounts[n] \in Saves
    => /\ name[accounts[n]] = n
       /\ Pending(n) \subseteq {accounts[n]}
       /\ \/ pc[accounts[n]] = "publish"
          \/ put[accounts[n]] = "sent"
          \/ statistics[n] = accounts[n]

IInv ==
  /\ TypeOK
  /\ CallsFollowThreads
  /\ AccountHasUser
  /\ UserBeforeAccount
  /\ TakenNameStopped
  /\ SerialUpdates

--------------------------------------------------------------------------------

\* The type invariant.
LEMMA InitType == Init => TypeOK
  BY SeededAssumption DEF Init, UserInit, TypeOK, UserTypeOK, CallStates, Contents,
     InFlight, Answered, Threads

LEMMA NextType == TypeOK /\ [Next]_vars => TypeOK'
<1> SUFFICES ASSUME TypeOK, [Next]_vars PROVE TypeOK'
  OBVIOUS
<1> USE DEF TypeOK, UserTypeOK, CallStates, Contents, InFlight, Answered, Threads,
            authVars, history, Goto
<1>1. ASSUME NEW r \in Requests, Register(r) \/ RegistrationStep(r) PROVE TypeOK'
  BY <1>1 DEF Register, RegistrationStep, FindExisting, CallCreateUser, CallNotSent,
     ReceiveCreated, ReceiveError, AbandonCall, StoreNewAccount
<1>2. ASSUME NEW r \in Requests, AuthStep(r) PROVE TypeOK'
  BY <1>2 DEF AuthStep, FindUser, SaveUser, UserStoreFails
<1>3. ASSUME NEW s \in Saves, Save(s) \/ SaveStep(s) PROVE TypeOK'
  <2>1. CASE StoreChanges(s)
    <3>1. (Pending(name[s]) = {}) \in BOOLEAN
      OBVIOUS
    <3> QED
      BY <2>1, <3>1 DEF StoreChanges
  <2>2. CASE Save(s) \/ FindAccount(s) \/ PublishChanges(s) \/ FinishSave(s)
    BY <2>2 DEF Save, FindAccount, PublishChanges, FinishSave
  <2>3. CASE PublicationNotSent(s)
    BY <2>3 DEF PublicationNotSent
  <2> QED
    BY <1>3, <2>1, <2>2, <2>3 DEF SaveStep
<1>4. ASSUME NEW s \in Saves, StatisticsStep(s) PROVE TypeOK'
  BY <1>4 DEF StatisticsStep, ApplyPublication, LosePublication
<1>5. ASSUME NEW t \in Threads, AccountStoreFails(t) PROVE TypeOK'
  <2>1. CASE Goto(t, "find", "failed") /\ UNCHANGED <<accounts, serial, delivered>>
    BY <1>5, <2>1 DEF AccountStoreFails
  <2>2. CASE Goto(t, "store", "failed")
    BY <1>5, <2>2 DEF AccountStoreFails
  <2> QED
    BY <1>5, <2>1, <2>2 DEF AccountStoreFails
<1>6. CASE Stop
  <2>1. CASE AccountServiceStops
    BY <2>1 DEF AccountServiceStops
  <2>2. CASE AuthServiceStops /\ UNCHANGED <<pc, accounts, put, statistics, history>>
    BY <2>2 DEF AuthServiceStops, Open
  <2> QED
    BY <1>6, <2>1, <2>2 DEF Stop
<1>7. CASE UNCHANGED vars
  BY <1>7 DEF vars
<1> QED
  BY <1>1, <1>2, <1>3, <1>4, <1>5, <1>6, <1>7 DEF Next

THEOREM TypeCorrect == Spec => []TypeOK
<1>1. QED
  BY InitType, NextType, PTL DEF Spec

--------------------------------------------------------------------------------

\* No user and no account is ever removed.
LEMMA NothingRemoved ==
  ASSUME TypeOK, [Next]_vars, NEW n \in Names
  PROVE  /\ users[n] # NoUser => users'[n] # NoUser
         /\ accounts[n] # Absent => accounts'[n] # Absent
<1> USE ThreadsAssumption, ContentAssumption
    DEF TypeOK, UserTypeOK, Threads, authVars, history, Goto
<1> DEFINE Kept == /\ users[n] # NoUser => users'[n] # NoUser
                   /\ accounts[n] # Absent => accounts'[n] # Absent
<1>1. ASSUME NEW r \in Requests, Register(r) \/ RegistrationStep(r) PROVE Kept
  BY <1>1 DEF Register, RegistrationStep, FindExisting, CallCreateUser, CallNotSent,
     ReceiveCreated, ReceiveError, AbandonCall, StoreNewAccount, Default, Absent
<1>2. ASSUME NEW r \in Requests, AuthStep(r) PROVE Kept
  BY <1>2 DEF AuthStep, FindUser, SaveUser, UserStoreFails
<1>3. ASSUME NEW s \in Saves, Save(s) \/ SaveStep(s) PROVE Kept
  BY <1>3 DEF Save, SaveStep, FindAccount, StoreChanges, PublishChanges,
     PublicationNotSent, FinishSave
<1>4. ASSUME NEW s \in Saves, StatisticsStep(s) PROVE Kept
  BY <1>4 DEF StatisticsStep, ApplyPublication, LosePublication
<1>5. ASSUME NEW t \in Threads, AccountStoreFails(t) PROVE Kept
  BY <1>5 DEF AccountStoreFails, Default, Absent
<1>6. CASE Stop
  BY <1>6 DEF Stop, AccountServiceStops, AuthServiceStops
<1>7. CASE UNCHANGED vars
  BY <1>7 DEF vars
<1> QED
  BY <1>1, <1>2, <1>3, <1>4, <1>5, <1>6, <1>7 DEF Next

LEMMA NextCallsFollowThreads ==
  TypeOK /\ CallsFollowThreads /\ [Next]_vars => CallsFollowThreads'
<1> SUFFICES ASSUME TypeOK, CallsFollowThreads, [Next]_vars PROVE CallsFollowThreads'
  OBVIOUS
<1> USE ThreadsAssumption
    DEF TypeOK, UserTypeOK, Threads, authVars, history, Goto, CallsFollowThreads
<1>1. ASSUME NEW r \in Requests, Register(r) \/ RegistrationStep(r)
      PROVE CallsFollowThreads'
  BY <1>1 DEF Register, RegistrationStep, FindExisting, CallCreateUser, CallNotSent,
     ReceiveCreated, ReceiveError, AbandonCall, StoreNewAccount
<1>2. ASSUME NEW r \in Requests, AuthStep(r) PROVE CallsFollowThreads'
  BY <1>2 DEF AuthStep, FindUser, SaveUser, UserStoreFails
<1>3. ASSUME NEW s \in Saves, Save(s) \/ SaveStep(s) PROVE CallsFollowThreads'
  BY <1>3 DEF Save, SaveStep, FindAccount, StoreChanges, PublishChanges,
     PublicationNotSent, FinishSave
<1>4. ASSUME NEW s \in Saves, StatisticsStep(s) PROVE CallsFollowThreads'
  BY <1>4 DEF StatisticsStep, ApplyPublication, LosePublication
<1>5. ASSUME NEW t \in Threads, AccountStoreFails(t) PROVE CallsFollowThreads'
  BY <1>5 DEF AccountStoreFails
<1>6. CASE Stop
  <2>1. CASE AccountServiceStops
    BY <2>1 DEF AccountServiceStops, InFlight
  <2>2. CASE AuthServiceStops /\ UNCHANGED <<pc, accounts, put, statistics, history>>
    BY <2>2 DEF AuthServiceStops, Open
  <2> QED
    BY <1>6, <2>1, <2>2 DEF Stop
<1>7. CASE UNCHANGED vars
  BY <1>7 DEF vars
<1> QED
  BY <1>1, <1>2, <1>3, <1>4, <1>5, <1>6, <1>7 DEF Next

\* An account is only saved for a name whose user exists, and users stay.
LEMMA NextUserBeforeAccount ==
  /\ TypeOK /\ AccountHasUser /\ UserBeforeAccount
  /\ [Next]_vars
  => AccountHasUser' /\ UserBeforeAccount'
<1> SUFFICES ASSUME TypeOK, AccountHasUser, UserBeforeAccount, [Next]_vars
             PROVE  AccountHasUser' /\ UserBeforeAccount'
  OBVIOUS
<1> DEFINE Goal == AccountHasUser' /\ UserBeforeAccount'
<1>0. \A n \in Names : users[n] # NoUser => users'[n] # NoUser
  BY NothingRemoved
<1> USE <1>0, ThreadsAssumption, ContentAssumption
    DEF TypeOK, UserTypeOK, Threads, authVars, history, Goto,
        AccountHasUser, UserBeforeAccount
<1>1. ASSUME NEW r \in Requests, Register(r) \/ RegistrationStep(r) PROVE Goal
  BY <1>1 DEF Register, RegistrationStep, FindExisting, CallCreateUser, CallNotSent,
     ReceiveCreated, ReceiveError, AbandonCall, StoreNewAccount
<1>2. ASSUME NEW r \in Requests, AuthStep(r) PROVE Goal
  BY <1>2 DEF AuthStep, FindUser, SaveUser, UserStoreFails
<1>3. ASSUME NEW s \in Saves, Save(s) \/ SaveStep(s) PROVE Goal
  BY <1>3 DEF Save, SaveStep, FindAccount, StoreChanges, PublishChanges,
     PublicationNotSent, FinishSave
<1>4. ASSUME NEW s \in Saves, StatisticsStep(s) PROVE Goal
  BY <1>4 DEF StatisticsStep, ApplyPublication, LosePublication
<1>5. ASSUME NEW t \in Threads, AccountStoreFails(t) PROVE Goal
  BY <1>5 DEF AccountStoreFails
<1>6. CASE Stop
  BY <1>6 DEF Stop, AccountServiceStops, AuthServiceStops, Open, InFlight
<1>7. CASE UNCHANGED vars
  BY <1>7 DEF vars
<1> QED
  BY <1>1, <1>2, <1>3, <1>4, <1>5, <1>6, <1>7 DEF Next

\* A registration of a taken name is refused by auth-service at the latest.
LEMMA NextTakenNameStopped ==
  /\ TypeOK /\ CallsFollowThreads /\ TakenNameStopped
  /\ [Next]_vars
  => TakenNameStopped'
<1> SUFFICES ASSUME TypeOK, CallsFollowThreads, TakenNameStopped, [Next]_vars
             PROVE  TakenNameStopped'
  OBVIOUS
<1>0. \A n \in Names : users[n] # NoUser => users'[n] # NoUser
  BY NothingRemoved
<1> USE <1>0, ThreadsAssumption
    DEF TypeOK, UserTypeOK, Threads, authVars, history, Goto,
        CallsFollowThreads, TakenNameStopped
<1>1. ASSUME NEW r \in Requests, Register(r) \/ RegistrationStep(r)
      PROVE  TakenNameStopped'
  BY <1>1 DEF Register, RegistrationStep, FindExisting, CallCreateUser, CallNotSent,
     ReceiveCreated, ReceiveError, AbandonCall, StoreNewAccount
<1>2. ASSUME NEW r \in Requests, AuthStep(r) PROVE TakenNameStopped'
  BY <1>2 DEF AuthStep, FindUser, SaveUser, UserStoreFails
<1>3. ASSUME NEW s \in Saves, Save(s) \/ SaveStep(s) PROVE TakenNameStopped'
  BY <1>3 DEF Save, SaveStep, FindAccount, StoreChanges, PublishChanges,
     PublicationNotSent, FinishSave
<1>4. ASSUME NEW s \in Saves, StatisticsStep(s) PROVE TakenNameStopped'
  BY <1>4 DEF StatisticsStep, ApplyPublication, LosePublication
<1>5. ASSUME NEW t \in Threads, AccountStoreFails(t) PROVE TakenNameStopped'
  BY <1>5 DEF AccountStoreFails
<1>6. CASE Stop
  <2>1. CASE AccountServiceStops
    BY <2>1 DEF AccountServiceStops, InFlight
  <2>2. CASE AuthServiceStops /\ UNCHANGED <<pc, accounts, put, statistics, history>>
    BY <2>2 DEF AuthServiceStops, Open
  <2> QED
    BY <1>6, <2>1, <2>2 DEF Stop
<1>7. CASE UNCHANGED vars
  BY <1>7 DEF vars
<1> QED
  BY <1>1, <1>2, <1>3, <1>4, <1>5, <1>6, <1>7 DEF Next

\* The argument is about the one update whose content the account holds; each
\* case says what the step does to the updates that are pending.
LEMMA NextSerialUpdates ==
  /\ TypeOK /\ CallsFollowThreads /\ SerialUpdates
  /\ [Next]_vars
  => SerialUpdates'
<1> SUFFICES ASSUME TypeOK, CallsFollowThreads, SerialUpdates, [Next]_vars
             PROVE  SerialUpdates'
  OBVIOUS
<1> USE ThreadsAssumption, ContentAssumption
    DEF TypeOK, UserTypeOK, Threads, authVars, history, Goto,
        CallsFollowThreads, SerialUpdates, Pending
<1>1. ASSUME NEW r \in Requests, Register(r) \/ RegistrationStep(r)
      PROVE  SerialUpdates'
  <2>1. CASE StoreNewAccount(r)
    BY <2>1 DEF StoreNewAccount, Default
  <2> QED
    BY <1>1, <2>1 DEF Register, RegistrationStep, FindExisting, CallCreateUser,
       CallNotSent, ReceiveCreated, ReceiveError, AbandonCall
<1>2. ASSUME NEW r \in Requests, AuthStep(r) PROVE SerialUpdates'
  BY <1>2 DEF AuthStep, FindUser, SaveUser, UserStoreFails
<1>3. ASSUME NEW s \in Saves, Save(s) \/ SaveStep(s) PROVE SerialUpdates'
  <2>1. CASE Save(s) \/ FindAccount(s)
    BY <2>1 DEF Save, FindAccount
  <2>2. CASE StoreChanges(s)
    <3> SUFFICES ASSUME NEW n \in Names, serial'[n], delivered'[n],
                        accounts'[n] \in Saves
                 PROVE  /\ name'[accounts'[n]] = n
                        /\ Pending(n)' \subseteq {accounts'[n]}
                        /\ \/ pc'[accounts'[n]] = "publish"
                           \/ put'[accounts'[n]] = "sent"
                           \/ statistics'[n] = accounts'[n]
      OBVIOUS
    <3>1. CASE n = name[s]
      <4>1. Pending(n) = {} /\ accounts'[n] = s /\ pc'[s] = "publish"
        <5> DEFINE alone == Pending(n) = {}
        <5>1. serial' = [serial EXCEPT ![n] = alone]
          BY <2>2, <3>1 DEF StoreChanges
        <5> HIDE DEF alone
        <5>2. serial'[n] = alone
          BY <5>1
        <5>3. alone
          BY <5>2
        <5> QED
          BY <2>2, <3>1, <5>3 DEF StoreChanges, alone
      <4>2. Pending(n)' \subseteq {s}
        BY <2>2, <4>1 DEF StoreChanges
      <4> QED
        BY <2>2, <3>1, <4>1, <4>2 DEF StoreChanges
    <3>2. CASE n # name[s]
      <4>1. /\ serial[n] /\ delivered[n]
            /\ accounts'[n] = accounts[n]
            /\ accounts[n] # s
        BY <2>2, <3>2 DEF StoreChanges
      <4>2. Pending(n)' = Pending(n)
        BY <2>2, <3>2 DEF StoreChanges
      <4> QED
        BY <2>2, <4>1, <4>2 DEF StoreChanges
    <3> QED
      BY <3>1, <3>2
  <2>3. CASE PublishChanges(s)
    BY <2>3 DEF PublishChanges
  <2>4. CASE PublicationNotSent(s)
    BY <2>4 DEF PublicationNotSent
  <2>5. CASE FinishSave(s)
    BY <2>5 DEF FinishSave
  <2> QED
    BY <1>3, <2>1, <2>2, <2>3, <2>4, <2>5 DEF SaveStep
<1>4. ASSUME NEW s \in Saves, StatisticsStep(s) PROVE SerialUpdates'
  <2>1. CASE ApplyPublication(s)
    BY <2>1 DEF ApplyPublication
  <2>2. CASE LosePublication(s)
    BY <2>2 DEF LosePublication
  <2> QED
    BY <1>4, <2>1, <2>2 DEF StatisticsStep
<1>5. ASSUME NEW t \in Threads, AccountStoreFails(t) PROVE SerialUpdates'
  BY <1>5 DEF AccountStoreFails, Default
<1>6. CASE Stop
  <2>1. CASE AccountServiceStops
    BY <2>1 DEF AccountServiceStops, InFlight
  <2>2. CASE AuthServiceStops /\ UNCHANGED <<pc, accounts, put, statistics, history>>
    BY <2>2 DEF AuthServiceStops
  <2> QED
    BY <1>6, <2>1, <2>2 DEF Stop
<1>7. CASE UNCHANGED vars
  BY <1>7 DEF vars
<1> QED
  BY <1>1, <1>2, <1>3, <1>4, <1>5, <1>6, <1>7 DEF Next

--------------------------------------------------------------------------------

LEMMA InitIInv == Init => IInv
<1> SUFFICES ASSUME Init PROVE IInv
  OBVIOUS
<1>1. TypeOK
  BY InitType
<1>2. CallsFollowThreads /\ UserBeforeAccount /\ TakenNameStopped
  BY DEF Init, UserInit, CallsFollowThreads, UserBeforeAccount, TakenNameStopped, Threads
<1>3. AccountHasUser
  BY DEF Init, UserInit, AccountHasUser, NoUser, SeedUser
<1>4. SerialUpdates
  BY ContentAssumption DEF Init, SerialUpdates
<1> QED
  BY <1>1, <1>2, <1>3, <1>4 DEF IInv

LEMMA NextIInv == IInv /\ [Next]_vars => IInv'
  BY NextType, NextCallsFollowThreads, NextUserBeforeAccount, NextTakenNameStopped,
     NextSerialUpdates DEF IInv

LEMMA Inductive == Spec => []IInv
  BY InitIInv, NextIInv, PTL DEF Spec

\* Every account has a user it can be logged in to with (create() saves the account
\* only after auth-service confirmed the user).
THEOREM AccountsHaveUsers == Spec => []AccountHasUser
<1>1. IInv => AccountHasUser
  BY DEF IInv
<1> QED
  BY <1>1, Inductive, PTL

\* A registration of a name that already had a user when it arrived is never
\* answered with 200 (the lookups of create() in both services).
THEOREM TakenNamesAreRefused == Spec => []TakenNameRefused
<1>1. IInv => TakenNameRefused
  BY DEF IInv, TakenNameStopped, TakenNameRefused
<1> QED
  BY <1>1, Inductive, PTL

\* With serial updates, none lost, the data point follows the account
\* (saveChanges publishes what it has saved).
THEOREM SerialUpdatesDoArrive == Spec => []SerialUpdatesArrive
<1>1. IInv => SerialUpdatesArrive
  <2> SUFFICES ASSUME IInv, NEW n \in Names, Pending(n) = {},
                      serial[n], delivered[n], accounts[n] \in Saves
               PROVE  statistics[n] = accounts[n]
    BY DEF SerialUpdatesArrive
  <2>1. accounts[n] \notin Pending(n)
    OBVIOUS
  <2> QED
    BY <2>1 DEF IInv, SerialUpdates, Pending
<1> QED
  BY <1>1, Inductive, PTL

\* UserServiceImpl.create replaces a stored password only for a registration that
\* had arrived before it was stored.
THEOREM CredentialsDoSurvive == Spec => CredentialsSurvive
<1> DEFINE Kept == \A n \in Names, r \in Requests :
                      users'[n] = r /\ users[n] # r => ~taken[r]
<1>1. IInv /\ [Next]_vars => [Kept]_vars
  <2> SUFFICES ASSUME IInv, [Next]_vars, NEW n \in Names, NEW r \in Requests,
                      users'[n] = r, users[n] # r
               PROVE  ~taken[r]
    OBVIOUS
  <2> USE ThreadsAssumption
      DEF IInv, TypeOK, UserTypeOK, TakenNameStopped, Threads, authVars, history, Goto
  <2>1. ASSUME NEW q \in Requests, Register(q) \/ RegistrationStep(q) PROVE ~taken[r]
    BY <2>1 DEF Register, RegistrationStep, FindExisting, CallCreateUser, CallNotSent,
       ReceiveCreated, ReceiveError, AbandonCall, StoreNewAccount
  <2>2. ASSUME NEW q \in Requests, AuthStep(q) PROVE ~taken[r]
    BY <2>2 DEF AuthStep, FindUser, SaveUser, UserStoreFails
  <2>3. ASSUME NEW s \in Saves, Save(s) \/ SaveStep(s) PROVE ~taken[r]
    BY <2>3 DEF Save, SaveStep, FindAccount, StoreChanges, PublishChanges,
       PublicationNotSent, FinishSave
  <2>4. ASSUME NEW s \in Saves, StatisticsStep(s) PROVE ~taken[r]
    BY <2>4 DEF StatisticsStep, ApplyPublication, LosePublication
  <2>5. ASSUME NEW t \in Threads, AccountStoreFails(t) PROVE ~taken[r]
    BY <2>5 DEF AccountStoreFails
  <2>6. CASE Stop
    BY <2>6 DEF Stop, AccountServiceStops, AuthServiceStops
  <2>7. CASE UNCHANGED vars
    BY <2>7 DEF vars
  <2> QED
    BY <2>1, <2>2, <2>3, <2>4, <2>5, <2>6, <2>7 DEF Next
<1> QED
  BY <1>1, Inductive, PTL DEF Spec, CredentialsSurvive

\* Saved content falls back to the defaults only through StoreNewAccount, or its
\* failing save, of a registration that arrived before the name had a user.
THEOREM EditsDoSurvive == Spec => EditsSurvive
<1> DEFINE Kept == \A n \in Names :
                     accounts[n] \in Saves /\ accounts'[n] \notin Saves
                     => \E r \in Requests : /\ name[r] = n
                                            /\ ~taken[r]
                                            /\ pc[r] = "store"
                                            /\ pc'[r] # "store"
<1>1. IInv /\ [Next]_vars => [Kept]_vars
  <2> SUFFICES ASSUME IInv, [Next]_vars, NEW n \in Names,
                      accounts[n] \in Saves, accounts'[n] \notin Saves
               PROVE  \E r \in Requests : /\ name[r] = n
                                          /\ ~taken[r]
                                          /\ pc[r] = "store"
                                          /\ pc'[r] # "store"
    OBVIOUS
  <2> DEFINE Culprit(r) == /\ name[r] = n
                           /\ ~taken[r]
                           /\ pc[r] = "store"
                           /\ pc'[r] # "store"
  <2> USE ThreadsAssumption
      DEF IInv, TypeOK, UserTypeOK, TakenNameStopped, Threads, authVars, history, Goto
  <2>1. ASSUME NEW r \in Requests, Register(r) \/ RegistrationStep(r) PROVE Culprit(r)
    BY <2>1 DEF Register, RegistrationStep, FindExisting, CallCreateUser, CallNotSent,
       ReceiveCreated, ReceiveError, AbandonCall, StoreNewAccount
  <2>2. ASSUME NEW r \in Requests, AuthStep(r) PROVE FALSE
    BY <2>2 DEF AuthStep
  <2>3. ASSUME NEW s \in Saves, Save(s) \/ SaveStep(s) PROVE FALSE
    BY <2>3 DEF Save, SaveStep, FindAccount, StoreChanges, PublishChanges,
       PublicationNotSent, FinishSave
  <2>4. ASSUME NEW s \in Saves, StatisticsStep(s) PROVE FALSE
    BY <2>4 DEF StatisticsStep, ApplyPublication, LosePublication
  <2>5. ASSUME NEW t \in Threads, AccountStoreFails(t) PROVE t \in Requests /\ Culprit(t)
    BY <2>5 DEF AccountStoreFails
  <2>6. CASE Stop
    BY <2>6 DEF Stop, AccountServiceStops
  <2>7. CASE UNCHANGED vars
    BY <2>7 DEF vars
  <2> QED
    BY <2>1, <2>2, <2>3, <2>4, <2>5, <2>6, <2>7 DEF Next
<1> QED
  BY <1>1, Inductive, PTL DEF Spec, EditsSurvive

\* The stores of account-service and auth-service implement AccountLifecycle: each
\* name is free, reserved by its user, then open, and never goes back.
THEOREM Refinement == Spec => LifecycleSpec
<1>1. Init => Lifecycle!Init
  <2> SUFFICES ASSUME Init PROVE Lifecycle!Init
    OBVIOUS
  <2>1. \A n \in Names :
          /\ accounts[n] # Absent <=> n \in Seeded
          /\ n \notin Seeded => users[n] = NoUser
    BY DEF Init, UserInit, Absent, DemoData
  <2>2. \A n \in Names : phase[n] = IF n \in Seeded THEN "open" ELSE "free"
    BY <2>1 DEF phase
  <2>3. phase = [n \in Names |-> phase[n]]
    BY DEF phase
  <2> QED
    BY <2>2, <2>3 DEF Lifecycle!Init
<1>2. IInv /\ IInv' /\ [Next]_vars => [Lifecycle!Next]_phase
  <2> SUFFICES ASSUME IInv, IInv', [Next]_vars, phase' # phase
               PROVE  Lifecycle!Next
    OBVIOUS
  <2>1. PICK n \in Names : phase'[n] # phase[n]
    BY DEF phase
  <2>2. /\ users[n] # NoUser => users'[n] # NoUser
        /\ accounts[n] # Absent => accounts'[n] # Absent
    BY NothingRemoved DEF IInv
  <2>3. \A m \in Names \ {n} : phase'[m] = phase[m]
    <3> USE ThreadsAssumption
        DEF IInv, TypeOK, UserTypeOK, Threads, authVars, history, Goto, phase
    <3>1. ASSUME NEW r \in Requests, Register(r) \/ RegistrationStep(r)
          PROVE  \A m \in Names \ {n} : phase'[m] = phase[m]
      BY <2>1, <3>1 DEF Register, RegistrationStep, FindExisting, CallCreateUser,
         CallNotSent, ReceiveCreated, ReceiveError, AbandonCall, StoreNewAccount
    <3>2. ASSUME NEW r \in Requests, AuthStep(r)
          PROVE  \A m \in Names \ {n} : phase'[m] = phase[m]
      BY <2>1, <3>2 DEF AuthStep, FindUser, SaveUser, UserStoreFails
    <3>3. ASSUME NEW s \in Saves, Save(s) \/ SaveStep(s)
          PROVE  \A m \in Names \ {n} : phase'[m] = phase[m]
      BY <2>1, <3>3 DEF Save, SaveStep, FindAccount, StoreChanges, PublishChanges,
         PublicationNotSent, FinishSave
    <3>4. ASSUME NEW s \in Saves, StatisticsStep(s)
          PROVE  \A m \in Names \ {n} : phase'[m] = phase[m]
      BY <2>1, <3>4 DEF StatisticsStep, ApplyPublication, LosePublication
    <3>5. ASSUME NEW t \in Threads, AccountStoreFails(t)
          PROVE  \A m \in Names \ {n} : phase'[m] = phase[m]
      BY <2>1, <3>5 DEF AccountStoreFails
    <3>6. CASE Stop
      BY <2>1, <3>6 DEF Stop, AccountServiceStops, AuthServiceStops
    <3>7. CASE UNCHANGED vars
      BY <2>1, <3>7 DEF vars
    <3> QED
      BY <3>1, <3>2, <3>3, <3>4, <3>5, <3>6, <3>7 DEF Next
  <2>4. \/ phase[n] = "free" /\ phase'[n] = "reserved"
        \/ phase[n] = "reserved" /\ phase'[n] = "open"
        \/ phase[n] = "free" /\ phase'[n] = "open"
    BY <2>1, <2>2 DEF phase
  <2>5. ~(phase[n] = "free" /\ phase'[n] = "open")
    <3> SUFFICES ASSUME users[n] = NoUser, accounts[n] = Absent, accounts'[n] # Absent
                 PROVE  FALSE
      BY DEF phase
    <3>1. users'[n] = NoUser
      <4> USE ThreadsAssumption
          DEF IInv, TypeOK, UserTypeOK, Threads, authVars, history, Goto
      <4> QED
        BY DEF Next, vars, Register, RegistrationStep, FindExisting, CallCreateUser,
           CallNotSent, ReceiveCreated, ReceiveError, AbandonCall, StoreNewAccount,
           AuthStep, Save, SaveStep, FindAccount, StoreChanges, PublishChanges,
           PublicationNotSent, FinishSave, StatisticsStep, ApplyPublication,
           LosePublication, AccountStoreFails, Stop, AccountServiceStops
    <3> QED
      BY <3>1 DEF IInv, AccountHasUser
  <2>6. ASSUME NEW from, NEW to, phase[n] = from, phase'[n] = to
        PROVE  Lifecycle!Advance(n, from, to)
    <3>1. phase' = [phase EXCEPT ![n] = to]
      BY <2>3, <2>6 DEF phase
    <3> QED
      BY <2>6, <3>1 DEF Lifecycle!Advance
  <2> QED
    BY <2>4, <2>5, <2>6 DEF Lifecycle!Next
<1> QED
  BY <1>1, <1>2, Inductive, PTL DEF Spec, LifecycleSpec, Lifecycle!Spec
================================================================================
