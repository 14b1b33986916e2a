---------------------------- MODULE MCMobileSync ----------------------------
(***************************************************************************)
(* Small instances of MobileSync.                                          *)
(***************************************************************************)
EXTENDS MobileSync

CONSTANTS i1, i2, p1  \* model values

=============================================================================
