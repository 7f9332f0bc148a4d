------------------------------ MODULE MCStdio ------------------------------
(***************************************************************************)
(* Items shorter and longer than the buffer, and reads that drain it in    *)
(* the middle.                                                             *)
(***************************************************************************)
EXTENDS Stdio

MCItems == {<<1>>, <<2, 3, 4, 5, 6>>}
=============================================================================
