--------------------------- MODULE MCWorkerWindow ---------------------------
(***************************************************************************)
(* Instance of WorkerWindow for TLC: two threads that create the window at *)
(* once, two formatting dialogs, and every call that may fail.             *)
(***************************************************************************)
EXTENDS WorkerWindow

CONSTANTS t1, t2, d1, d2

MCThreads == {t1, t2}
MCDialogs == {d1, d2}
AllFaults == {"cocreate", "register", "window", "notify"}

=============================================================================
