------------------------- MODULE MCDocumentVersions -------------------------
(* Instance of DocumentVersions for TLC. *)
EXTENDS DocumentVersions

=============================================================================
