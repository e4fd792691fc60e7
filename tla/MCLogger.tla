------------------------------ MODULE MCLogger ------------------------------
(* Logger with a few threads that log at a time. *)
EXTENDS Logger
=============================================================================
