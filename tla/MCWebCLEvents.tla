----------------------------- MODULE MCWebCLEvents -----------------------------
(* Small instances of WebCLEvents for TLC. *)
EXTENDS WebCLEvents

=============================================================================
