----------------------------- MODULE MCCoreLoop -----------------------------
(***************************************************************************)
(* Instances of CoreLoop for TLC.  The window's and the console's threads  *)
(* post next to the worker's own handlers.                                 *)
(***************************************************************************)
EXTENDS CoreLoop

CONSTANTS gui, con, t1, t2, f1, f2

ASSUME OneFunctionPerTask

\* t1 is posted from all sides, as is gsync's core_task; t2 is a command's task:
\* posted by the worker alone, again and again (com->async()).
AllSites ==
  {<<gui, t1, f1>>, <<con, t1, f1>>, <<Worker, t1, f1>>, <<Worker, t2, f2>>}
=============================================================================
