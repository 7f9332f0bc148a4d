------------------------------- MODULE MCRtc -------------------------------
(***************************************************************************)
(* A clock with three registers, and the conversions of what it shows.     *)
(***************************************************************************)
EXTENDS Calendar
=============================================================================
