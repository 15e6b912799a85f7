----------------------------- MODULE MCNotification -----------------------------
(***************************************************************************)
(* The instances of NotificationService that TLC checks.                   *)
(***************************************************************************)
EXTENDS NotificationProperties

\* A backup can still be in flight when the next one starts; reminders are not.
BackupsOverlap == [t \in Types |-> IF t = "BACKUP" THEN 2 ELSE 1]
NoOverlap == [t \in Types |-> 1]
================================================================================
