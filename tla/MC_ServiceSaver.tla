--------------------------- MODULE MC_ServiceSaver ---------------------------
EXTENDS ServiceSaver, TLC

CONSTANTS s1, s2

MCSvcs == {s1, s2}

MCSymmetry == Permutations(MCSvcs)
=============================================================================
