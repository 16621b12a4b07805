---------------------------- MODULE TaskService ----------------------------
(***************************************************************************)
(* What core->task() (fcom.h, struct fcom_core) promises its callers,      *)
(* without queue, lock, wake-up event or loop: a request to call function  *)
(* f for task object t is pending until the worker takes it; the worker    *)
(* calls one function at a time, only functions somebody asked for, and    *)
(* none after it has stopped.  A request that is already pending is not    *)
(* doubled.  Nothing here says that a request is ever served: CoreLoop     *)
(* states that as a liveness property of its own.                          *)
(***************************************************************************)
CONSTANTS Requests, NoRequest

VARIABLES
  pending,   \* the requests not yet taken
  running,   \* the request whose function the worker is in, or NoRequest
  stopped    \* the worker has left its loop

vars == <<pending, running, stopped>>

Init == pending = {} /\ running = NoRequest /\ stopped = FALSE

Post(r) == pending' = pending \cup {r} /\ UNCHANGED <<running, stopped>>

Start(r) ==
  /\ ~stopped
  /\ running = NoRequest
  /\ r \in pending
  /\ pending' = pending \ {r}
  /\ running' = r
  /\ UNCHANGED stopped

Return == running' = NoRequest /\ UNCHANGED <<pending, stopped>>

Stop == running = NoRequest /\ stopped' = TRUE /\ UNCHANGED <<pending, running>>

Next == (\E r \in Requests : Post(r) \/ Start(r)) \/ Return \/ Stop

Spec == Init /\ [][Next]_vars
=============================================================================
