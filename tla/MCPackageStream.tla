-------------------------- MODULE MCPackageStream ---------------------------
(***************************************************************************)
(* A head of two bytes and buffers for about two packages: packages that   *)
(* are split in the head or in the data, several that arrive together, one *)
(* without data, one that fills a buffer exactly, and one that never fits. *)
(***************************************************************************)
EXTENDS PackageStream
=============================================================================
