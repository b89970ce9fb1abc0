------------------------ MODULE MCNotificationPipeline ------------------------
(* NotificationPipeline for TLC.                                               *)
EXTENDS NotificationPipeline

CONSTANTS u1, u2, u3

\* One user writes everything.
WrittenByOne == [m \in Message |-> u1]
=============================================================================
