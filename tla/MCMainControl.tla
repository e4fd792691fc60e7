--------------------------- MODULE MCMainControl ----------------------------
(***************************************************************************)
(* An instance of MainControl.  Liveness is checked, so there is no        *)
(* symmetry.                                                               *)
(***************************************************************************)
EXTENDS MainControl
=============================================================================
