----------------------------- MODULE MCWatchDog -----------------------------
(* Three children, so that SIGCHLDs coalesce and a one-byte pipe fills. *)
EXTENDS WatchDog

MCChildren == {"c1", "c2", "c3"}
=============================================================================
