--------------------------- MODULE MCEventStream ---------------------------
EXTENDS EventStream, TLC

Symmetry == Permutations(Conn) \cup Permutations(CommandID)
=============================================================================
