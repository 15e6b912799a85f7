------------------------------ MODULE UserService ------------------------------
(***************************************************************************)
(* auth-service: the store of credentials and POST /users, the call by     *)
(* which account-service creates a user.  UserServiceImpl.create looks the *)
(* username up and saves it in two database operations; repository.save is *)
(* an upsert by the username, so the second of two racing calls overwrites *)
(* the password of the first.                                              *)
(*                                                                         *)
(* A stored credential is identified by the request that brought it: the   *)
(* hash of the password in its body.                                       *)
(***************************************************************************)
CONSTANTS Names,     \* usernames, which are also account names
          Requests,  \* registration requests (POST /accounts/)
          Saves,     \* account updates (PUT /accounts/current)
          Seeded     \* names with a user and an account before any request (demo)

NoUser == "no user"
SeedUser == "seed user"

ASSUME SeededAssumption == Seeded \subseteq Names
ASSUME ThreadsAssumption ==
  /\ Requests \cap Saves = {}
  /\ Requests \cap {NoUser, SeedUser} = {}

Threads == Requests \cup Saves

VARIABLES users,  \* the credential stored under each name
          name,   \* the username each request carries, chosen by its client
          call    \* the POST /users of each registration, as auth-service sees it

authVars == <<users, name, call>>

CallStates == {"none", "sent", "checked", "created", "exists", "error", "closed"}

\* The calls auth-service holds: received, or answered but not yet read.
Open(r) == call[r] \in {"sent", "checked", "created", "exists", "error"}

UserTypeOK ==
  /\ users \in [Names -> Requests \cup {NoUser, SeedUser}]
  /\ name \in [Threads -> Names]
  /\ call \in [Requests -> CallStates]

UserInit ==
  /\ users = [n \in Names |-> IF n \in Seeded THEN SeedUser ELSE NoUser]
  /\ name \in [Threads -> Names]
  /\ call = [r \in Requests |-> "none"]

\* Variant used as a mutant: the lookup is left to the caller.
FindUserUnchecked(r) ==
  /\ call[r] = "sent"
  /\ call' = [call EXCEPT ![r] = "checked"]
  /\ UNCHANGED <<users, name>>

\* repository.findById: an existing user ends the call with an exception, for
\* which auth-service has no handler (500).
FindUser(r) ==
  /\ call[r] = "sent"
  /\ call' = [call EXCEPT ![r] =
                IF users[name[r]] = NoUser THEN "checked" ELSE "exists"]
  /\ UNCHANGED <<users, name>>

\* The password is hashed and repository.save upserts the user.
SaveUser(r) ==
  /\ call[r] = "checked"
  /\ users' = [users EXCEPT ![name[r]] = r]
  /\ call' = [call EXCEPT ![r] = "created"]
  /\ UNCHANGED name

\* The database fails during the call.  A failed save may have been applied.
UserStoreFails(r) ==
  /\ \/ /\ call[r] = "sent"
        /\ UNCHANGED users
     \/ /\ call[r] = "checked"
        /\ \/ UNCHANGED users
           \/ users' = [users EXCEPT ![name[r]] = r]
  /\ call' = [call EXCEPT ![r] = "error"]
  /\ UNCHANGED name

\* auth-service stops: the calls it holds, and the answers it has not
\* delivered, are gone.  Its database stays.
AuthServiceStops ==
  /\ \E r \in Requests : Open(r)
  /\ call' = [r \in Requests |-> IF Open(r) THEN "closed" ELSE call[r]]
  /\ UNCHANGED <<users, name>>
================================================================================
