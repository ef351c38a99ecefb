--------------------------- MODULE MCBinaryString ---------------------------
EXTENDS BinaryString
=============================================================================
