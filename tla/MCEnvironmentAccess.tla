------------------------ MODULE MCEnvironmentAccess ------------------------
(* EnvironmentAccess for TLC: three invocations of any kind.                *)
EXTENDS EnvironmentAccess

=============================================================================
