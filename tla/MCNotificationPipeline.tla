----------------------- MODULE MCNotificationPipeline -----------------------
(* A small instance of the notification engine for TLC. *)
EXTENDS NotificationProperties, TLC

\* Requests, and workers, differ in nothing but their names.
Symmetry == Permutations(Request) \cup Permutations(Worker)
=============================================================================
