--------------------------- MODULE MCAttachments ---------------------------
(* A file of two artifacts: itself and its representation.                  *)
EXTENDS Attachments

MCParts == [d \in Uploads |-> 2]

============================================================================
