---------------------------- MODULE MC_EpochMath ----------------------------
EXTENDS EpochMath

\* Every exponent up to 40: past 3 (the other branch), 11 (shift 64) and
\* 32 (the last that fits the 32-byte target); 0x1d of 0x1d00ffff among them.
MCSizes == 0 .. 40

\* 0x000001, 0x00ffff (as in 0x1d00ffff), 0x123456 and the largest 0x7fffff.
MCWords == {1, 65535, 1193046, 8388607}

\* The first epochs; their product with 0x01000193 stays below 2^31.
MCEpochs == 0 .. 3
=============================================================================
