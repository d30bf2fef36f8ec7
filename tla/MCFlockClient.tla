---------------------------- MODULE MCFlockClient ----------------------------
(***************************************************************************)
(* Small instances of FlockClient for TLC.                                 *)
(***************************************************************************)
EXTENDS MCFlockIndex, FlockClient

\* One fund that charges both a streaming and an issue fee, and a redeem fee.
ClientParams == {Fees(1, 1, 1, 0, 1)}
==============================================================================
