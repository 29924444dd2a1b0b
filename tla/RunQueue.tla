------------------------------ MODULE RunQueue ------------------------------
(***************************************************************************)
(* What the scheduler promises, without pointers: a queue of processes.    *)
(* New processes go to the end; a switch moves the head to the end and     *)
(* runs the new head.  The slot of a process that could not be created     *)
(* holds NULL and stops the queue when it becomes the head.                *)
(***************************************************************************)
EXTENDS Naturals, Sequences

CONSTANTS
  Processes,   \* the processes
  NULL         \* the result of a failed process_create

VARIABLES
  queue,       \* the runnable processes
  running      \* the process that runs, NULL before the first switch

vars == <<queue, running>>

Init == queue = <<>> /\ running = NULL

Add(p) ==
  /\ queue' = Append(queue, p)
  /\ UNCHANGED running

Rotated == IF Len(queue) > 1 THEN Append(Tail(queue), Head(queue)) ELSE queue

Switch ==
  /\ queue # <<>> /\ Head(queue) # NULL
  /\ queue' = Rotated
  /\ running' = IF Head(Rotated) = NULL THEN running ELSE Head(Rotated)

Next == Switch \/ \E p \in Processes \cup {NULL} : Add(p)

Spec == Init /\ [][Next]_vars
=============================================================================
