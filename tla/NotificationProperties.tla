------------------------- MODULE NotificationProperties -------------------------
(***************************************************************************)
(* What notification-service guarantees, and what its sources say that it  *)
(* does not.                                                               *)
(***************************************************************************)
EXTENDS NotificationService

\* The stored active types are those of the user's last PUT, unless a task for the
\* account was in flight when that PUT arrived: markNotified writes back what the
\* user may have replaced.
SettingsHold ==
  \A a \in Accounts : ~raced[a] => recipients[a].active = choice[a]

\* No mail is sent to a user whose last PUT switched its type off, with the same
\* exception, however long ago the mail's task was started.
MailIsWanted ==
  \A x \in Slots :
    tasks[x].pc = "send" /\ ~raced[AccountOf(x)] => TypeOf(x) \in choice[AccountOf(x)]

\* Two mails of a type are at least the frequency apart, unless tasks of the account
\* overlapped, a mail was sent but could not be marked, or a PUT set an older date.
MailIsDue ==
  \A x \in Slots :
    tasks[x].pc = "send" /\ ~excused[AccountOf(x)]
    => sinceMail[AccountOf(x)][TypeOf(x)] >= Due

\* A user who wants a type of mail gets it in the end, when settings and service
\* have settled, whatever backups, mails and marks failed before and still do.
WantedIsMailed ==
  \A a \in Reachable, t \in Types :
    t \in recipients[a].active /\ puts = MaxPuts /\ crashes = MaxCrashes
    ~> sinceMail[a][t] = 0 \/ t \notin recipients[a].active

--------------------------------------------------------------------------------
\* RecipientService.java:37 "Updates {@link NotificationType} {@code lastNotified}
\* property with current date": marking changes nothing else, so that only a PUT
\* changes which types are active.
MarkingOnlyStamps ==
  [][\A a \in Accounts :
       recipients'[a].active # recipients[a].active => puts' # puts]_vars
================================================================================
