------------------------------- MODULE Option -------------------------------
(***************************************************************************)
(* Rust's Option: a value that may be missing is the value itself or None. *)
(***************************************************************************)
CONSTANT None
=============================================================================
