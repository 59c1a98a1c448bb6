------------------------------- MODULE MCBio --------------------------------
EXTENDS Bio, TLC

\* Processes and contents are interchangeable; sectors of one kind too.
BioSymmetry == Permutations(Proc) \cup Permutations(Sector \ Outer)
=============================================================================
