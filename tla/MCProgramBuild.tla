---------------------------- MODULE MCProgramBuild ----------------------------
(* Small instances of ProgramBuild for TLC. *)
EXTENDS ProgramBuild

=============================================================================
