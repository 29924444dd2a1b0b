----------------------------- MODULE Scheduler -----------------------------
(***************************************************************************)
(* kernel/scheduler.c: the list of runnable processes, with its pointers,  *)
(* and the way kernel_main uses it: process_create takes a pid from        *)
(* scheduler_next_pid, its result, NULL included, goes to                  *)
(* scheduler_add_process, and scheduler_schedule switches to a process.    *)
(***************************************************************************)
EXTENDS Integers, Sequences, FiniteSets

CONSTANTS
  Elements,   \* bound: list elements that kmalloc can hand out, 1 .. n
  MaxSwitches \* bound of the history counters

ASSUME SchedulerAssumption ==
  /\ Elements \subseteq Nat \ {0}
  /\ IsFiniteSet(Elements)
  /\ MaxSwitches \in Nat

NULL == 0

\* The pids that can occur: one for each element, and one for a process that
\* finds no element.
Pids == 1 .. (Cardinality(Elements) + 1)

VARIABLES
  start,    \* runnable_processes.start
  end,      \* runnable_processes.end
  next,     \* the next fields of the elements in use
  ps,       \* the ps fields: the pid of the process, or NULL
  created,  \* the result of process_create that is not yet added
  running,  \* the process that run_process_in_user_mode was called for
  message,  \* what the last call printed, if it was scheduler_schedule
  skipped   \* history: skipped[e] switches since e was added or ran

list == <<start, end, next, ps>>
vars == <<list, created, running, message, skipped>>

None == -1     \* nothing is waiting to be added

Init ==
  /\ start = NULL /\ end = NULL
  /\ next = [e \in {} |-> NULL]
  /\ ps = [e \in {} |-> NULL]
  /\ created = None
  /\ running = NULL
  /\ message = "none"
  /\ skipped = [e \in {} |-> 0]

-----------------------------------------------------------------------------
Max0(S) == IF S = {} THEN 0 ELSE CHOOSE x \in S : \A y \in S : y <= x

\* Mutant: looks at the end of the list only.
scheduler_next_pid_Last ==
  IF start = NULL THEN 1 ELSE ps[end] + 1

scheduler_next_pid == Max0({ps[e] : e \in DOMAIN ps} \ {NULL}) + 1

\* process_create, seen from here: a pid, or NULL when it fails.
process_create(ok) ==
  /\ created = None
  /\ created' = IF ok THEN scheduler_next_pid ELSE NULL
  /\ message' = "none"
  /\ UNCHANGED <<list, running, skipped>>

AddDone(e) ==
  /\ created' = None
  /\ message' = "none"
  /\ skipped' = [x \in DOMAIN skipped \cup {e} |-> IF x = e THEN 0 ELSE skipped[x]]
  /\ UNCHANGED running

\* Mutants: the new element goes to the front; end is not moved.
scheduler_add_process_Front(e) ==
  /\ created # None
  /\ next' = [x \in DOMAIN next \cup {e} |-> IF x = e THEN start ELSE next[x]]
  /\ ps' = [x \in DOMAIN ps \cup {e} |-> IF x = e THEN created ELSE ps[x]]
  /\ start' = e
  /\ end' = IF end = NULL THEN e ELSE end
  /\ AddDone(e)
scheduler_add_process_NoEnd(e) ==
  /\ created # None
  /\ next' = [x \in DOMAIN next \cup {e} |->
                CASE x = e -> NULL
                  [] x # e /\ x = end -> e
                  [] OTHER -> next[x]]
  /\ ps' = [x \in DOMAIN ps \cup {e} |-> IF x = e THEN created ELSE ps[x]]
  /\ start' = IF start = NULL THEN e ELSE start
  /\ UNCHANGED end
  /\ AddDone(e)

\* kmalloc returns an element e that is not in use.
scheduler_add_process(e) ==
  /\ created # None
  /\ next' = [x \in DOMAIN next \cup {e} |->
                CASE x = e -> NULL
                  [] x # e /\ x = end -> e
                  [] OTHER -> next[x]]
  /\ ps' = [x \in DOMAIN ps \cup {e} |-> IF x = e THEN created ELSE ps[x]]
  /\ start' = IF start = NULL THEN e ELSE start
  /\ end' = e
  /\ AddDone(e)

\* kmalloc returns NULL: the process is not added, and kernel_main does not
\* look at the result.
scheduler_add_process_fails ==
  /\ created # None
  /\ created' = None
  /\ message' = "none"
  /\ UNCHANGED <<list, running, skipped>>

-----------------------------------------------------------------------------
HeadRunnable == IF start = NULL THEN FALSE ELSE ps[start] # NULL

schedule_none ==
  /\ ~HeadRunnable
  /\ message' = "There are no runnable processes to schedule"
  /\ UNCHANGED <<list, created, running, skipped>>

\* Mutants: the old head keeps its next pointer; the rotation is left out.
Rotate_KeepsNext ==
  IF next[start] = NULL THEN UNCHANGED list
  ELSE /\ start' = next[start]
       /\ next' = [next EXCEPT ![end] = start]
       /\ end' = start
       /\ UNCHANGED ps
Rotate_Skipped == UNCHANGED list

Rotate ==
  IF next[start] = NULL THEN UNCHANGED list
  ELSE /\ start' = next[start]
       /\ next' = [next EXCEPT ![start] = NULL, ![end] = start]
       /\ end' = start
       /\ UNCHANGED ps

\* After the rotation the new head runs: tss_set_kernel_stack,
\* pdt_load_process_pdt and run_process_in_user_mode (see Process).
schedule ==
  /\ HeadRunnable
  /\ Rotate
  /\ IF ps'[start'] = NULL
     THEN message' = "No process to schedule" /\ UNCHANGED <<running, skipped>>
     ELSE /\ message' = "none"
          /\ running' = ps'[start']
          /\ \A e \in DOMAIN skipped : skipped[e] < MaxSwitches
          /\ skipped' = [e \in DOMAIN skipped |->
                           IF e = start' THEN 0 ELSE skipped[e] + 1]
  /\ UNCHANGED created

Next ==
  \/ \E ok \in BOOLEAN : process_create(ok)
  \/ \E e \in Elements \ DOMAIN next : scheduler_add_process(e)
  \/ scheduler_add_process_fails
  \/ schedule_none \/ schedule

Spec == Init /\ [][Next]_vars

-----------------------------------------------------------------------------
(***************************************************************************)
(* Properties.                                                             *)
(***************************************************************************)
\* start and end are both NULL or both on the list, and every next pointer
\* leads to an element of the list or is NULL.
TypeOK ==
  /\ IF DOMAIN next = {} THEN start = NULL /\ end = NULL
     ELSE start \in DOMAIN next /\ end \in DOMAIN next
  /\ DOMAIN next \subseteq Elements
  /\ next \in [DOMAIN next -> {NULL} \cup DOMAIN next]
  /\ ps \in [DOMAIN next -> {NULL} \cup Pids]
  /\ created \in {None, NULL} \cup Pids
  /\ running \in {NULL} \cup Pids
  /\ skipped \in [DOMAIN next -> 0 .. MaxSwitches]

\* The elements in the order in which the next pointers reach them.
Walk ==
  LET f[k \in 1 .. Cardinality(DOMAIN next)] ==
        IF k = 1 THEN start
        ELSE IF f[k - 1] = NULL THEN NULL ELSE next[f[k - 1]]
  IN  f

\* The list is one chain from start to end through all elements: whatever is
\* added and rotated, no element becomes unreachable and no cycle appears, so
\* scheduler_next_pid terminates and sees every process.
Chain ==
  DOMAIN next # {} =>
       /\ {Walk[k] : k \in DOMAIN Walk} = DOMAIN next
       /\ Walk[Cardinality(DOMAIN next)] = end
       /\ next[end] = NULL

\* No two processes of the list have the same pid, and the process that
\* kernel_main is about to add has none of theirs: scheduler_next_pid looks
\* at runnable processes only, and rotation changes their order.
PidsUnique ==
  /\ \A d, e \in DOMAIN ps : d # e /\ ps[d] # NULL => ps[d] # ps[e]
  /\ created > 0 => \A e \in DOMAIN ps : ps[e] # created

\* Round robin: a process in the list is passed over at most once for every
\* other element before it runs, also while new processes are added.
NoStarvation ==
  \A e \in DOMAIN skipped : skipped[e] < Cardinality(DOMAIN next)

Queue == [k \in 1 .. Cardinality(DOMAIN next) |-> ps[Walk[k]]]

AbstractQueue == INSTANCE RunQueue WITH queue <- Queue, Processes <- Pids

\* The pointer list implements the queue: the order of the processes is kept
\* by every addition and every rotation.
QueueSpec == AbstractQueue!Spec

\* What scheduler_schedule says when it gives up at the head of the list:
\* that no process of the list can run.
NoneRunnable ==
  message = "There are no runnable processes to schedule"
    => \A e \in DOMAIN ps : ps[e] = NULL
=============================================================================
