------------------------- MODULE MCDiagnosticService -------------------------
(* Three calls for two runs: two or three may be for one run, one after the   *)
(* other or at once.                                                          *)
EXTENDS DiagnosticService
=============================================================================
