--------------------------- MODULE MCClientSelect ---------------------------
(***************************************************************************)
(* Instances of ClientSelect.  Nothing is symmetric where liveness is      *)
(* checked.                                                                *)
(***************************************************************************)
EXTENDS ClientSelect
=============================================================================
