---------------------------- MODULE MCSendQueue ----------------------------
(***************************************************************************)
(* TLC instances of SendQueue.                                             *)
(***************************************************************************)
EXTENDS SendQueue

CONSTANT a

OneChannel == {a}
=============================================================================
