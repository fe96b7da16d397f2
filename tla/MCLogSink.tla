------------------------------ MODULE MCLogSink ------------------------------
EXTENDS LogSink

\* The output of one daemon is followed; the other comes and goes.
OneWriter == [d1 |-> 3, d2 |-> 0]
=============================================================================
