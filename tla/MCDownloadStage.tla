-------------------------- MODULE MCDownloadStage --------------------------
(* Small instances of DownloadStage. *)
EXTENDS DownloadStage

CONSTANTS home, item

=============================================================================
