------------------------------- MODULE Optional -------------------------------
(****************************************************************************)
(* The value of a field that is not given: a nil pointer in Go.             *)
(****************************************************************************)
CONSTANT None
================================================================================
