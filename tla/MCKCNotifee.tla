---------------------------- MODULE MCKCNotifee ----------------------------
(***************************************************************************)
(* An instance of KCNotifee for TLC: every call may fail.                  *)
(***************************************************************************)
EXTENDS KCNotifee

EveryCall == {"data", "config", "nonce", "hash", "sign", "send"}
=============================================================================
