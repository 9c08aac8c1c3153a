------------------------- MODULE MCArtifactUploads -------------------------
(* Instance of ArtifactUploads for TLC. *)
EXTENDS ArtifactUploads

=============================================================================
