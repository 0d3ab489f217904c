---------------------------- MODULE MCHwcService ----------------------------
(* Three creation times (two rebuilds), two outages, three init retries. *)
EXTENDS HwcService
=============================================================================
