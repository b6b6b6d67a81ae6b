--------------------------- MODULE MCScannerPage ----------------------------
(* ScannerPage with two requests at once and two jobs. *)
EXTENDS ScannerPage
=============================================================================
