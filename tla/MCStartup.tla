----------------------------- MODULE MCStartup -----------------------------
\* Instances of Startup.
EXTENDS Startup, TLC

\* Each model has a hash of its own.
OwnHash == [m \in Models |-> m]

AllConfigurations == [required : BOOLEAN, checks : BOOLEAN, database : BOOLEAN]
ReadinessOnly     == [required : {TRUE}, checks : {FALSE}, database : {FALSE}]

\* For the run without a liveness property.
Symmetry == Permutations(Models)
=============================================================================
