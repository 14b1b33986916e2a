--------------------------- MODULE MCExtensionSync ---------------------------
(***************************************************************************)
(* Small instances of ExtensionSync.                                       *)
(***************************************************************************)
EXTENDS ExtensionSync

CONSTANTS i1, i2, e1  \* model values

=============================================================================
