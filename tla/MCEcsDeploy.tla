---------------------------- MODULE MCEcsDeploy ----------------------------
EXTENDS EcsDeploy, TLC

Symmetry == Permutations(Execution)

============================================================================
