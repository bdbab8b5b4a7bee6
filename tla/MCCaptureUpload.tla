--------------------------- MODULE MCCaptureUpload ---------------------------
(* CaptureUpload with two rows and two storage keys. *)
EXTENDS CaptureUpload

MCRows == 1..2
MCKeys == 1..2
=============================================================================
