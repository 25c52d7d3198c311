------------------------ MODULE MCAlgorithmSession ------------------------
EXTENDS AlgorithmSession, TLC

\* SDKs are interchangeable, and so are handles.
Symmetry == Permutations(Handles) \cup Permutations(Sdks)
===========================================================================
