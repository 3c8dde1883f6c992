--------------------------- MODULE MCDiagnosticApi ---------------------------
(* Two runs that share two connections.                                       *)
EXTENDS DiagnosticApi
=============================================================================
