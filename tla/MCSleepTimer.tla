---------------------------- MODULE MCSleepTimer ----------------------------
(* Instances of SleepTimer for TLC. *)
EXTENDS SleepTimer
=============================================================================
