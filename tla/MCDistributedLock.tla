-------------------------- MODULE MCDistributedLock --------------------------
(* A small instance of the distributed lock for TLC. *)
EXTENDS DistributedLockProperties
=============================================================================
