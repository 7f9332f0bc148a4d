--------------------------- MODULE MCYieldWindow ---------------------------
(***************************************************************************)
(* Small instances of YieldWindow.                                         *)
(***************************************************************************)
EXTENDS YieldWindow
=============================================================================
