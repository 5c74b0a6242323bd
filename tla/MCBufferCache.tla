---------------------------- MODULE MCBufferCache ----------------------------
\* Small instances of BufferCache for TLC.
EXTENDS BufferCache, TLC

CONSTANTS t1, t2, s1, s2, s3

TwoThreads   == {t1, t2}
OneThread    == {t1}
NoResetters  == {}
TwoSectors   == {s1, s2}
ThreeSectors == {s1, s2, s3}

ThreadSymmetry == Permutations(TwoThreads)
=============================================================================
