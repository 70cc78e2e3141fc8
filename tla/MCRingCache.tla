---------------------------- MODULE MCRingCache ----------------------------
(***************************************************************************)
(* TLC instances of RingCache.                                             *)
(***************************************************************************)
EXTENDS RingCache

CONSTANTS b1, b2, m1
=============================================================================
