----------------------------- MODULE MCUMalloc -----------------------------
(***************************************************************************)
(* The real header size, chunks of 128 bytes, two of them.                 *)
(***************************************************************************)
EXTENDS UMalloc
=============================================================================
