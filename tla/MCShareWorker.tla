--------------------------- MODULE MCShareWorker ---------------------------
\* The share worker for TLC: two requests at a time, which are interchangeable.
EXTENDS ShareWorker, TLC

Symmetry == Permutations(Slots)

=============================================================================
