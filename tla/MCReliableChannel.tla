------------------------- MODULE MCReliableChannel -------------------------
EXTENDS ReliableChannel
MCWindowSteps == {-1, 1}
=============================================================================
