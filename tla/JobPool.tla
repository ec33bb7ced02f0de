------------------------------ MODULE JobPool ------------------------------
(* What both work queues of threads/work_queue promise: a job handed in    *)
(* with insert_job() waits in the pool until exactly one worker takes it   *)
(* with get_job(), and that worker runs it once.                           *)
CONSTANTS
  Workers,  \* the worker threads
  Jobs      \* the jobs that can be handed in

VARIABLES
  pending,  \* the jobs waiting in the pool
  running,  \* the jobs each worker has taken and not finished
  done      \* the jobs that were run

poolVars == <<pending, running, done>>

PoolInit ==
  /\ pending = {}
  /\ running = [w \in Workers |-> {}]
  /\ done = {}

\* A job is handed in at most once, whatever happened to it since.
Known == pending \cup done \cup UNION {running[w] : w \in Workers}

Submit(j) ==
  /\ j \notin Known
  /\ pending' = pending \cup {j}
  /\ UNCHANGED <<running, done>>

Take(w, j) ==
  /\ j \in pending
  /\ running[w] = {}
  /\ pending' = pending \ {j}
  /\ running' = [running EXCEPT ![w] = {j}]
  /\ UNCHANGED done

Finish(w, j) ==
  /\ running[w] = {j}
  /\ running' = [running EXCEPT ![w] = {}]
  /\ done' = done \cup {j}
  /\ UNCHANGED pending

PoolNext ==
  \/ \E j \in Jobs : Submit(j)
  \/ \E w \in Workers : \E j \in pending : Take(w, j)
  \/ \E w \in Workers : \E j \in running[w] : Finish(w, j)

PoolSpec == PoolInit /\ [][PoolNext]_poolVars
=============================================================================
