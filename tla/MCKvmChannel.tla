---------------------------- MODULE MCKvmChannel ----------------------------
(* The KVM channel as an instance for TLC.                                  *)
EXTENDS KvmChannel
=============================================================================
