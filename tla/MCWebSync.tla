------------------------------ MODULE MCWebSync ------------------------------
(***************************************************************************)
(* Small instances of WebSync.                                             *)
(***************************************************************************)
EXTENDS WebSync

CONSTANTS i1, i2, t1  \* model values

=============================================================================
