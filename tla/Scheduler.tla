----------------------------- MODULE Scheduler -----------------------------
(***************************************************************************)
(* The scheduler (scheduler.cpp) and the states of a process               *)
(* (process.cpp).  The tick interrupt runs sched_on_tick; the kernel's     *)
(* thread adds and removes processes, one at a time, and can be            *)
(* interrupted between any two of the stores the tick looks at.  The       *)
(* queue's nodes are linked and unlinked for a walk from the head by one   *)
(* store each, before the length is changed: the queue is a sequence here, *)
(* with a length of its own.  Execution is not implemented in the kernel:  *)
(* a process is the states it is given.                                    *)
(***************************************************************************)
EXTENDS Naturals, Sequences, FiniteSets

CONSTANTS
  Procs,        \* the processes that are ever added
  nullptr,
  pid_max,
  Slices,       \* ticks of HIGH, NORM and LOW priority processes
  MaxRemoved    \* how many are removed

Priorities == {"HIGH", "NORM", "LOW"}

ASSUME SchedulerAssumption ==
  /\ nullptr \notin Procs
  /\ pid_max \in Nat \ {0}
  /\ Slices \in [Priorities -> Nat]
  /\ MaxRemoved \in Nat

VARIABLES
  pids,                       \* the pids that are taken
  process_queue, length,      \* the vector, and its size
  cur_process,
  ticks_left_for_cur_proc,
  overtaken,                  \* was the current process paused by add_proccess?
  state, pid, priority,       \* the processes' fields
  pc,                         \* what the kernel's thread does next
  proc,                       \* with which process
  fault,                      \* has the kernel panicked, or lost its queue?
  removed,                    \* the processes that were removed
  exhausted                   \* were all pids taken when one was asked for?

queueVars == <<process_queue, length>>
fields == <<pid, priority>>
tickVars == <<cur_process, ticks_left_for_cur_proc, overtaken>>
vars == <<pids, queueVars, tickVars, state, fields, pc, proc, fault, removed, exhausted>>

Init ==
  /\ pids = {}
  /\ process_queue = <<>> /\ length = 0
  /\ cur_process = nullptr /\ ticks_left_for_cur_proc = 0
  /\ overtaken = FALSE
  /\ state = [p \in Procs |-> "none"]
  /\ pid = [p \in Procs |-> 0]
  /\ priority = [p \in Procs |-> "NORM"]
  /\ pc = "idle" /\ proc = nullptr
  /\ fault = FALSE
  /\ removed = {}
  /\ exhausted = FALSE

Queued(p) == \E i \in DOMAIN process_queue : process_queue[i] = p

(***************************************************************************)
(* sched_on_tick.                                                          *)
(***************************************************************************)
Position(p) == CHOOSE i \in DOMAIN process_queue : process_queue[i] = p

\* at(0) of an empty list and at(idx + 1) of the last process follow nullptr.
NextFaults ==
  \/ cur_process = nullptr /\ length > 0 /\ process_queue = <<>>
  \/ Queued(cur_process) /\ Position(cur_process) = Len(process_queue)

\* Mutant of get_next_proc_in_queue: the search starts over from the head at every swap.
get_first_proc_in_queue ==
  IF process_queue = <<>> THEN nullptr ELSE process_queue[1]

\* Mutant of get_next_proc_in_queue: a current process that is not found is kept.
get_next_or_current ==
  IF cur_process = nullptr
  THEN IF length > 0 THEN process_queue[1] ELSE nullptr
  ELSE IF Queued(cur_process) THEN process_queue[Position(cur_process) + 1] ELSE cur_process

\* A current process that is not in the queue: the end of the function is reached, and
\* the register of its result holds the 0 of the loop's last comparison.
get_next_proc_in_queue ==
  IF cur_process = nullptr
  THEN IF length > 0 THEN process_queue[1] ELSE nullptr
  ELSE IF Queued(cur_process) THEN process_queue[Position(cur_process) + 1] ELSE nullptr

\* Mutant of Paused: the process that has used up its ticks is not paused.
NotPaused == state

\* The states, when the current process has been paused.
Paused ==
  IF cur_process = nullptr THEN state ELSE [state EXCEPT ![cur_process] = "PAUSED"]

\* Mutant of Resumed: resume is called before cur_process is changed.
ResumedTooEarly(next) ==
  IF cur_process = nullptr THEN state ELSE [state EXCEPT ![cur_process] = "RUNNING"]

\* The states, when the next process has been resumed after that.
Resumed(next) == [Paused EXCEPT ![next] = "RUNNING"]

swap_to_next_process ==
  IF NextFaults
  THEN /\ state' = Paused
       /\ fault' = TRUE
       /\ UNCHANGED tickVars
  ELSE LET next == get_next_proc_in_queue
       IN  /\ cur_process' = next
           /\ overtaken' = FALSE
           /\ IF next = nullptr
              THEN state' = Paused /\ UNCHANGED ticks_left_for_cur_proc
              ELSE /\ state' = Resumed(next)
                   /\ ticks_left_for_cur_proc' = Slices[priority[next]]
           /\ UNCHANGED fault

Tick ==
  /\ ~fault
  /\ \/ /\ ticks_left_for_cur_proc = 0
        /\ swap_to_next_process
     \/ /\ ticks_left_for_cur_proc > 0
        /\ ticks_left_for_cur_proc' = ticks_left_for_cur_proc - 1
        /\ UNCHANGED <<cur_process, overtaken, state, fault>>
  /\ UNCHANGED <<pids, queueVars, fields, pc, proc, removed, exhausted>>

(***************************************************************************)
(* add_proccess.                                                           *)
(***************************************************************************)
Step(from, to) == ~fault /\ pc = from /\ pc' = to

\* The first pid that is not taken.  With all of them taken the end of get_available_pid
\* is reached, and what its loop's last comparison left is their number.
get_available_pid(id) == id \in (0 .. pid_max) \ pids /\ 0 .. id - 1 \subseteq pids

\* Mutant of pids_set: the pid is not marked.
pids_unset(id) == pids

pids_set(id) == IF id = pid_max THEN pids ELSE pids \cup {id}

\* The pid and the new object.
NewProcess(p, pri, id) ==
  /\ Step("idle", "link")
  /\ state[p] = "none"
  /\ get_available_pid(id)
  /\ pids' = pids_set(id)
  /\ pid' = [pid EXCEPT ![p] = id]
  /\ exhausted' = (exhausted \/ id = pid_max)
  /\ priority' = [priority EXCEPT ![p] = pri]
  /\ state' = [state EXCEPT ![p] = "STARTING"]
  /\ proc' = p
  /\ UNCHANGED <<queueVars, tickVars, fault, removed>>

\* process_queue().push_back(proc), in two steps.
Link ==
  /\ Step("link", "count")
  /\ process_queue' = Append(process_queue, proc)
  /\ UNCHANGED <<pids, length, tickVars, state, fields, proc, fault, removed, exhausted>>

Count ==
  /\ Step("count", "run")
  /\ length' = length + 1
  /\ UNCHANGED <<pids, process_queue, tickVars, state, fields, proc, fault, removed, exhausted>>

Run ==
  /\ Step("run", "pause")
  /\ state' = [state EXCEPT ![proc] = "RUNNING"]
  /\ UNCHANGED <<pids, queueVars, tickVars, fields, proc, fault, removed, exhausted>>

\* The tick may have chosen the process already: it is paused all the same.
Pause ==
  /\ Step("pause", "idle")
  /\ state' = [state EXCEPT ![proc] = "PAUSED"]
  /\ overtaken' = (overtaken \/ proc = cur_process)
  /\ proc' = nullptr
  /\ UNCHANGED <<pids, queueVars, cur_process, ticks_left_for_cur_proc, fields, fault, removed,
                 exhausted>>

(***************************************************************************)
(* remove_process.                                                         *)
(***************************************************************************)
\* The first process of the queue with the pid.
get_proc_by_pid(id, p) ==
  /\ Queued(p) /\ pid[p] = id
  /\ \A j \in 1 .. Position(p) - 1 : pid[process_queue[j]] # id

\* remove_process(pid), of the pid of a process.
Stop(id, p) ==
  /\ Step("idle", "unlink")
  /\ Cardinality(removed) < MaxRemoved
  /\ get_proc_by_pid(id, p)
  /\ proc' = p
  /\ state' = [state EXCEPT ![p] = "STOPPING"]
  /\ UNCHANGED <<pids, queueVars, tickVars, fields, fault, removed, exhausted>>

\* remove_process(pid), of a pid that no process has: the end of get_proc_by_pid is
\* reached, with the 0 of its loop's last comparison, and stop is called on nullptr.
StopUnknown(id) ==
  /\ Step("idle", "idle")
  /\ \A i \in DOMAIN process_queue : pid[process_queue[i]] # id
  /\ fault' = TRUE
  /\ UNCHANGED <<pids, queueVars, tickVars, state, fields, proc, removed, exhausted>>

\* process_queue().del_by_value(proc), in two steps.
Unlink ==
  /\ Step("unlink", "uncount")
  /\ process_queue' = [i \in 1 .. Len(process_queue) - 1 |->
                         process_queue[IF i < Position(proc) THEN i ELSE i + 1]]
  /\ UNCHANGED <<pids, length, tickVars, state, fields, proc, fault, removed, exhausted>>

Uncount ==
  /\ Step("uncount", "remove_pid")
  /\ length' = length - 1
  /\ UNCHANGED <<pids, process_queue, tickVars, state, fields, proc, fault, removed, exhausted>>

\* Mutant of remove_pid: the pid stays taken.
keep_pid(id) == pids

\* The pid of a process that found all pids taken is behind the end of the list:
\* set follows nullptr (RemovePid).
remove_pid(id) == pids \ {id}

RemovePid ==
  /\ Step("remove_pid", "idle")
  /\ IF pid[proc] = pid_max
     THEN fault' = TRUE /\ UNCHANGED pids
     ELSE pids' = remove_pid(pid[proc]) /\ UNCHANGED fault
  /\ removed' = removed \cup {proc}
  /\ proc' = nullptr
  /\ UNCHANGED <<queueVars, tickVars, state, fields, exhausted>>

(***************************************************************************)
(* The monitor's ps copies the vector: the copy has the same nodes, which  *)
(* its destructor deletes.  What the scheduler then makes of a queue in    *)
(* free memory is not followed.                                            *)
(***************************************************************************)
Ps ==
  /\ Step("idle", "idle")
  /\ length > 0
  /\ fault' = TRUE
  /\ UNCHANGED <<pids, queueVars, tickVars, state, fields, proc, removed, exhausted>>

Thread ==
  \/ \E p \in Procs, pri \in Priorities, id \in 0 .. pid_max : NewProcess(p, pri, id)
  \/ Link \/ Count \/ Run \/ Pause
  \/ \E id \in 0 .. pid_max, p \in Procs : Stop(id, p)
  \/ \E id \in 0 .. pid_max : StopUnknown(id)
  \/ Unlink \/ Uncount \/ RemovePid
  \/ Ps

Next == Tick \/ Thread

\* The timer's line is unmasked for good (Boot!TimerServed), and the tick's gate returns
\* to the thread.
Spec == Init /\ [][Next]_vars /\ WF_vars(Tick) /\ WF_vars(pc # "idle" /\ Thread)

(***************************************************************************)
(* Properties.                                                             *)
(***************************************************************************)
TypeOK ==
  /\ pids \subseteq 0 .. pid_max - 1
  /\ process_queue \in Seq(Procs)
  /\ length \in Nat
  /\ cur_process \in Procs \cup {nullptr}
  /\ ticks_left_for_cur_proc \in Nat
  /\ overtaken \in BOOLEAN
  /\ state \in [Procs -> {"none", "STARTING", "RUNNING", "PAUSED", "STOPPING"}]
  /\ pid \in [Procs -> 0 .. pid_max]
  /\ priority \in [Procs -> Priorities]
  /\ pc \in {"idle", "link", "count", "run", "pause", "unlink", "uncount", "remove_pid"}
  /\ proc \in IF pc = "idle" THEN {nullptr} ELSE Procs
  /\ fault \in BOOLEAN
  /\ removed \subseteq Procs
  /\ exhausted \in BOOLEAN

\* No two processes are in state RUNNING, but for the one that add_proccess runs and
\* pauses at once: run, pause and resume leave the one the scheduler chose, whatever
\* the order of the tick and the thread.
OneRunning ==
  \A p \in Procs : state[p] = "RUNNING" => p = cur_process \/ (pc = "pause" /\ p = proc)

\* Between two operations the states follow the turns: every process that waits for its
\* turn can be resumed, not half started or stopped, and the one whose turn it is runs.
\* The exception is named: the tick made it the current one before add_proccess came to
\* its pause, and the process then spends its turn PAUSED.
StatesFollowTurns ==
  pc = "idle" =>
    \A p \in Procs : Queued(p) =>
      IF p = cur_process
      THEN state[p] = "RUNNING" \/ overtaken \/ fault
      ELSE state[p] = "PAUSED"

\* Two processes of the queue have the same pid only if all pids were taken once:
\* the pid of a removed process is given again, and no other.
PidsDistinct ==
  ~exhausted =>
    \A i, j \in DOMAIN process_queue : pid[process_queue[i]] = pid[process_queue[j]] => i = j

\* Between two operations the taken pids are those of the queue: none is lost.
PidsAgree ==
  pc = "idle" /\ ~fault =>
    pids = {pid[process_queue[i]] : i \in DOMAIN process_queue} \ {pid_max}

\* Round robin: a process of the queue is dispatched, unless it is removed or the kernel
\* panics first; the ticks of the others end.
EventuallyDispatched ==
  \A p \in Procs : Queued(p) ~> cur_process = p \/ ~Queued(p) \/ fault

\* remove_process leaves cur_process as it is: a removed process is left at the end of
\* its ticks at the latest, and never taken up again.
RemovedLetGo ==
  \A p \in Procs : p \in removed ~> [](cur_process # p) \/ fault

\* The comment in get_next_proc_in_queue (scheduler.cpp:46-47): at the end of the last
\* process's ticks the first one follows.
WrapsAround ==
  [][LET n == Len(process_queue)
     IN  Tick /\ ticks_left_for_cur_proc = 0 /\ n > 0 /\ cur_process = process_queue[n]
           => cur_process' = process_queue[1]]_vars
=============================================================================
