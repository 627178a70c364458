-------------------------- MODULE MCRunSupervisor --------------------------
\* Instances of RunSupervisor.
EXTENDS RunSupervisor, TLC
=============================================================================
