--------------------------- MODULE MCBufferClose ---------------------------
EXTENDS BufferClose, TLC
CONSTANTS chan, query, s1, s2
OneChannel == {chan}
OneQuery == {query}
OneCloser == {s1}
TwoClosers == {s1, s2}
CloserSymmetry == Permutations(TwoClosers)
=============================================================================
