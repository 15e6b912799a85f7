------------------------ MODULE AccountServiceProperties ------------------------
(***************************************************************************)
(* What account-service and auth-service guarantee together, and what the  *)
(* sources say of them that they do not guarantee.                         *)
(***************************************************************************)
EXTENDS AccountService

\* Every account can be logged in to: auth-service has a user for every account
\* name.  create() saves the account only after auth-service confirmed the user.
AccountHasUser ==
  \A n \in Names : accounts[n] # Absent => users[n] # NoUser

\* A registration that arrives when its name already has a user is never
\* answered with 200, whatever its two lookups race with: at least one of the two
\* services refuses it, also where an earlier registration left a user without
\* an account.
TakenNameRefused ==
  \A r \in Requests : taken[r] => pc[r] # "created"

\* A stored password is replaced only by a registration that had arrived before
\* it was stored: a later sign-up never takes over an existing user.
CredentialsSurvive ==
  [][\A n \in Names, r \in Requests :
       users'[n] = r /\ users[n] # r => ~taken[r]]_vars

\* Saved content of an account goes back to the defaults only through a
\* registration of that name that arrived before the name had a user.
EditsSurvive ==
  [][\A n \in Names :
       accounts[n] \in Saves /\ accounts'[n] \notin Saves
       => \E r \in Requests : /\ name[r] = n
                              /\ ~taken[r]
                              /\ pc[r] = "store"
                              /\ pc'[r] # "store"]_vars

\* Once nothing is on its way to statistics-service, its data point was computed
\* from the account as stored, provided the last update reached it and was
\* stored after the publication of the one before had ended.  The next such
\* update repairs a data point that a lost or a late publication left behind.
SerialUpdatesArrive ==
  \A n \in Names :
    /\ Pending(n) = {}
    /\ serial[n] /\ delivered[n]
    /\ accounts[n] \in Saves
    => statistics[n] = accounts[n]

\* The two stores move each name through the phases of AccountLifecycle.
phase == [n \in Names |-> IF accounts[n] # Absent THEN "open"
                          ELSE IF users[n] # NoUser THEN "reserved"
                          ELSE "free"]
Lifecycle == INSTANCE AccountLifecycle WITH Names <- Names, Seeded <- Seeded, phase <- phase
LifecycleSpec == Lifecycle!Spec

\* Every request gets an answer, also when the other services never answer.
EveryRequestAnswered ==
  \A t \in Threads : pc[t] \in InFlight ~> pc[t] \in Answered

--------------------------------------------------------------------------------
\* A claim of the sources.

\* login.js:35 "An error during account creation. Please, try again.": trying again
\* is of use, that is, auth-service refuses a name only if its account exists or
\* another registration of it is still in flight.
TryingAgainHelps ==
  \A r \in Requests :
    pc[r] = "refused" =>
      \/ accounts[name[r]] # Absent
      \/ \E q \in Requests : name[q] = name[r] /\ pc[q] \in InFlight
================================================================================
