---------------------------- MODULE MCJoinHandle ----------------------------
(* Model values for JoinHandle: two tasks that may spawn, join and drop each  *)
(* other's handles and their own, next to the main thread.                    *)
EXTENDS JoinHandle

CONSTANTS t1, t2

MCTasks == {t1, t2}
=============================================================================
