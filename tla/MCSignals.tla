----------------------------- MODULE MCSignals -----------------------------
EXTENDS Signals
MCLimits == {-2, 0, 2}
MCValues == -1 .. 2
=============================================================================
