---------------------------- MODULE MCRingBuffer ----------------------------
EXTENDS RingBuffer

MCByte == {0, 1}
=============================================================================
