------------------------- MODULE MCDocumentWorkspace -------------------------
(* Instances of DocumentWorkspace for TLC. *)
EXTENDS DocumentWorkspace
=============================================================================
