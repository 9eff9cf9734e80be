---------------------------- MODULE MCWorkerRuntime ----------------------------
EXTENDS WorkerRuntime

CONSTANTS c1, c2, s1, s2

=============================================================================
