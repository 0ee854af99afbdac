---------------------------- MODULE MCRecvPacket ----------------------------
\* RecvPacket with a header of 3 bytes and packets of at most 5: lengths below
\* the header, of the header alone, with a body of one and of two bytes, and
\* above the maximum.
EXTENDS RecvPacket

MCLens == 2..6
=============================================================================
