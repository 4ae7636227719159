------------------------------- MODULE MCMonitor -------------------------------
(* Model values for Monitor: three threads, two mutexes, one condvar.         *)
EXTENDS Monitor

CONSTANTS w1, w2, w3, m1, m2, c1

MCThreads  == {w1, w2, w3}
MCMutexes  == {m1, m2}
MCCondvars == {c1}
===============================================================================
