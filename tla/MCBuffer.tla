------------------------------ MODULE MCBuffer ------------------------------
EXTENDS Buffer

MCByte == {0, 1}
=============================================================================
