---------------------------- MODULE MCFat32Write ----------------------------
EXTENDS Fat32Read, TLC

NameSymmetry == Permutations(Names)

\* No property that holds says anything of a volume on which one of two names
\* of a file was removed or replaced, so that it need not be followed further.
Followed == twins # "spoiled"
=============================================================================
