-------------------------- MODULE MCCommandService --------------------------
EXTENDS CommandService, TLC

Symmetry == Permutations(ID) \cup Permutations(Client)
=============================================================================
