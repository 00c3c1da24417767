----------------------------- MODULE MCReadingCodec -----------------------------
EXTENDS ReadingCodec

MCFinite == -2..2
MCNonFinite == {NegInf, PosInf, NaN}
MCGrowth == {-1, 0, 1}
MCShrinks == {-1, 0}
MCNuls == {"none", "marked", "kept"}
MCNoNul == {"none"}
=============================================================================
