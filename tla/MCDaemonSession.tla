--------------------------- MODULE MCDaemonSession ---------------------------
EXTENDS DaemonSession, TLC

\* Daemons and pids are interchangeable: no action and no safety property
\* mentions a particular one.
Symmetry == Permutations(Daemon) \cup Permutations(Pid)
=============================================================================
