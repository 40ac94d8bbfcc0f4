-------------------------- MODULE SchedulerProofs --------------------------
(***************************************************************************)
(* The safety of the scheduler, for any number of processes, pids and      *)
(* ticks.  The invariants are about the processes of the queue and the one *)
(* the thread is working on; IInv says which of the two it is in at every  *)
(* step of the thread, and that no process is queued twice.                *)
(***************************************************************************)
EXTENDS Scheduler, TLAPS

\* The processes that own a pid: those of the queue, and the one that is on its way in
\* or out.
Live == {p \in Procs : Queued(p) \/ (pc \in {"link", "uncount", "remove_pid"} /\ p = proc)}

QueuedOnce ==
  \A i, j \in DOMAIN process_queue : process_queue[i] = process_queue[j] => i = j

\* The length lags behind the list by the one that is put in or taken out.
LengthCounts ==
  /\ pc = "count" => length + 1 = Len(process_queue)
  /\ pc = "uncount" => length = Len(process_queue) + 1
  /\ pc \notin {"count", "uncount"} => length = Len(process_queue)

\* Where the thread's process is.
Whereabouts ==
  /\ pc \in {"link", "uncount", "remove_pid"} => ~Queued(proc)
  /\ pc \in {"count", "run", "pause", "unlink"} => Queued(proc)
  /\ \A p \in Procs : state[p] = "none" => ~Queued(p) /\ p # cur_process /\ p # proc

\* StatesFollowTurns, in the middle of an operation.
OthersFollow ==
  \A p \in Procs : Queued(p) /\ p # proc =>
    /\ p # cur_process => state[p] = "PAUSED"
    /\ p = cur_process => state[p] = "RUNNING" \/ overtaken \/ fault

\* The pids of live processes are taken, each by one, and no others are.  Processes that
\* found all of them taken have pid_max.
PidsOwned ==
  /\ \A p \in Live : /\ pid[p] # pid_max => pid[p] \in pids
                     /\ pid[p] = pid_max => exhausted
                     /\ \A q \in Live : pid[p] = pid[q] => p = q \/ pid[p] = pid_max
  /\ \A id \in pids : \E p \in Live : pid[p] = id

IInv ==
  /\ TypeOK /\ QueuedOnce /\ LengthCounts /\ Whereabouts
  /\ OneRunning /\ OthersFollow
  /\ PidsOwned

-----------------------------------------------------------------------------
\* Where a queued process is found.
LEMMA PositionType ==
  ASSUME TypeOK, NEW p, Queued(p)
  PROVE  /\ Position(p) \in 1 .. Len(process_queue)
         /\ process_queue[Position(p)] = p
         /\ p \in Procs
BY DEF Position, Queued, TypeOK

\* The process that follows is one of the queue, or none.
LEMMA NextType ==
  ASSUME TypeOK, ~NextFaults
  PROVE  \/ get_next_proc_in_queue = nullptr
         \/ get_next_proc_in_queue \in Procs /\ Queued(get_next_proc_in_queue)
<1>1. CASE cur_process = nullptr /\ length > 0
  <2>1. process_queue # <<>>
    BY <1>1 DEF NextFaults
  <2>2. 1 \in DOMAIN process_queue /\ process_queue[1] \in Procs
    BY <2>1 DEF TypeOK
  <2> QED BY <1>1, <2>2 DEF get_next_proc_in_queue, Queued
<1>2. CASE cur_process # nullptr /\ Queued(cur_process)
  <2> DEFINE i == Position(cur_process)
  <2>1. i \in 1 .. Len(process_queue) /\ i # Len(process_queue)
    BY <1>2, PositionType DEF NextFaults
  <2>2. i + 1 \in DOMAIN process_queue /\ process_queue[i + 1] \in Procs
    <3>1. Len(process_queue) \in Nat /\ DOMAIN process_queue = 1 .. Len(process_queue)
      BY DEF TypeOK
    <3>2. i + 1 \in 1 .. Len(process_queue)
      BY <2>1, <3>1
    <3> QED BY <3>1, <3>2 DEF TypeOK
  <2> QED BY <1>2, <2>2 DEF get_next_proc_in_queue, Queued
<1> QED BY <1>1, <1>2 DEF get_next_proc_in_queue

\* Unlink takes the process out, once, and leaves the others.
LEMMA UnlinkQueue ==
  ASSUME TypeOK, QueuedOnce, Unlink, Queued(proc)
  PROVE  /\ process_queue' \in Seq(Procs)
         /\ Len(process_queue') = Len(process_queue) - 1
         /\ QueuedOnce'
         /\ \A p : Queued(p)' <=> Queued(p) /\ p # proc
<1> DEFINE n == Len(process_queue)
           k == Position(proc)
           at(i) == IF i < k THEN i ELSE i + 1
<1>1. /\ n \in Nat \ {0} /\ k \in 1 .. n /\ process_queue[k] = proc
      /\ DOMAIN process_queue = 1 .. n
      /\ \A i \in 1 .. n : process_queue[i] \in Procs
  BY PositionType DEF TypeOK
<1>2. /\ process_queue' = [i \in 1 .. n - 1 |-> process_queue[at(i)]]
      /\ n - 1 \in Nat
  BY <1>1 DEF Unlink
<1>3. \A i \in 1 .. n - 1 : at(i) \in 1 .. n /\ at(i) # k
  BY <1>1
<1>4. /\ process_queue' \in Seq(Procs) /\ DOMAIN process_queue' = 1 .. n - 1
      /\ Len(process_queue') = n - 1
  BY <1>1, <1>2, <1>3
<1>5. \A i, j \in 1 .. n - 1 : at(i) = at(j) => i = j
  BY <1>1
<1>6. QueuedOnce'
  BY <1>1, <1>2, <1>3, <1>4, <1>5 DEF QueuedOnce
<1>7. ASSUME NEW p, Queued(p)' PROVE Queued(p) /\ p # proc
  <2>1. PICK i \in 1 .. n - 1 : process_queue[at(i)] = p
    BY <1>2, <1>4, <1>7 DEF Queued
  <2>2. at(i) \in 1 .. n /\ at(i) # k
    BY <1>3
  <2> QED BY <1>1, <2>1, <2>2 DEF Queued, QueuedOnce
<1>8. ASSUME NEW p, Queued(p), p # proc PROVE Queued(p)'
  <2>1. PICK m \in 1 .. n : process_queue[m] = p
    BY <1>1, <1>8 DEF Queued
  <2>2. m # k
    BY <1>1, <1>8, <2>1
  <2>3. CASE m < k
    <3>1. m \in 1 .. n - 1 /\ at(m) = m
      BY <1>1, <2>3
    <3> QED BY <1>2, <1>4, <2>1, <3>1 DEF Queued
  <2>4. CASE m > k
    <3>1. m - 1 \in 1 .. n - 1 /\ at(m - 1) = m
      BY <1>1, <2>4
    <3> QED BY <1>2, <1>4, <2>1, <3>1 DEF Queued
  <2> QED BY <1>1, <2>2, <2>3, <2>4
<1> QED BY <1>4, <1>6, <1>7, <1>8

\* Link puts it in.
LEMMA LinkQueue ==
  ASSUME TypeOK, QueuedOnce, Link, ~Queued(proc)
  PROVE  /\ process_queue' \in Seq(Procs)
         /\ Len(process_queue') = Len(process_queue) + 1
         /\ QueuedOnce'
         /\ \A p : Queued(p)' <=> Queued(p) \/ p = proc
<1> DEFINE n == Len(process_queue)
<1>1. proc \in Procs /\ n \in Nat /\ DOMAIN process_queue = 1 .. n
  BY DEF TypeOK, Link, Step
<1>2. /\ process_queue' = Append(process_queue, proc)
      /\ process_queue' \in Seq(Procs)
      /\ DOMAIN process_queue' = 1 .. n + 1 /\ Len(process_queue') = n + 1
      /\ process_queue'[n + 1] = proc
      /\ \A i \in 1 .. n : process_queue'[i] = process_queue[i]
  BY <1>1 DEF Link, TypeOK
<1>3. \A i \in 1 .. n + 1 : i \in 1 .. n \/ i = n + 1
  BY <1>1
<1>4. n + 1 \in 1 .. n + 1 /\ 1 .. n \subseteq 1 .. n + 1
  BY <1>1
<1>5. QueuedOnce'
  BY <1>1, <1>2, <1>3 DEF QueuedOnce, Queued
<1>6. \A p : Queued(p)' <=> Queued(p) \/ p = proc
  BY <1>1, <1>2, <1>3, <1>4 DEF Queued
<1> QED BY <1>2, <1>5, <1>6

-----------------------------------------------------------------------------
\* A step that leaves the queue, the thread's process and the pids alone.
LEMMA SameQueue ==
  ASSUME process_queue' = process_queue
  PROVE  \A p : Queued(p)' <=> Queued(p)
BY DEF Queued

LEMMA SamePids ==
  ASSUME PidsOwned, UNCHANGED <<pids, pid, exhausted>>, Live' = Live
  PROVE  PidsOwned'
BY DEF PidsOwned

LEMMA InitInv == Init => IInv
<1> SUFFICES ASSUME Init PROVE IInv
  OBVIOUS
<1> USE SchedulerAssumption DEF Init, Queued
<1>1. TypeOK
  <2>1. <<>> \in Seq(Procs) /\ 0 \in 0 .. pid_max /\ "NORM" \in Priorities
    BY DEF Priorities
  <2> QED BY <2>1 DEF TypeOK
<1>2. QueuedOnce /\ LengthCounts /\ Whereabouts /\ OneRunning /\ OthersFollow
  BY DEF QueuedOnce, LengthCounts, Whereabouts, OneRunning, OthersFollow
<1>3. PidsOwned
  BY DEF PidsOwned, Live
<1> QED BY <1>1, <1>2, <1>3 DEF IInv

\* The tick: the current process is paused, and the one that is next runs.
LEMMA TickInv == IInv /\ Tick => IInv'
<1> SUFFICES ASSUME IInv, Tick PROVE IInv'
  OBVIOUS
<1> USE SchedulerAssumption
<1>1. /\ UNCHANGED <<pids, process_queue, length, pid, priority, pc, proc, removed, exhausted>>
      /\ \A p : Queued(p)' <=> Queued(p)
  BY DEF Tick, queueVars, fields, Queued
<1>2. QueuedOnce' /\ LengthCounts'
  BY <1>1 DEF IInv, QueuedOnce, LengthCounts
<1>3. PidsOwned'
  BY <1>1, SamePids DEF IInv, Live
<1>4. CASE ticks_left_for_cur_proc > 0 /\ UNCHANGED <<cur_process, overtaken, state, fault>>
           /\ ticks_left_for_cur_proc' = ticks_left_for_cur_proc - 1
  <2>1. TypeOK'
    BY <1>1, <1>4 DEF IInv, TypeOK
  <2>2. Whereabouts' /\ OneRunning' /\ OthersFollow'
    BY <1>1, <1>4 DEF IInv, Whereabouts, OneRunning, OthersFollow
  <2> QED BY <1>2, <1>3, <2>1, <2>2 DEF IInv
<1>5. CASE swap_to_next_process
  <2>1. /\ Paused \in [Procs -> {"none", "STARTING", "RUNNING", "PAUSED", "STOPPING"}]
        /\ \A p \in Procs : Paused[p] = IF p = cur_process THEN "PAUSED" ELSE state[p]
    BY DEF IInv, TypeOK, Paused
  <2>2. CASE NextFaults
    <3>1. state' = Paused /\ fault' = TRUE /\ UNCHANGED tickVars
      BY <1>5, <2>2 DEF swap_to_next_process
    <3>2. TypeOK'
      BY <1>1, <2>1, <3>1 DEF IInv, TypeOK, tickVars
    <3>3. Whereabouts' /\ OneRunning' /\ OthersFollow'
      BY <1>1, <2>1, <3>1 DEF IInv, Whereabouts, OneRunning, OthersFollow, tickVars
    <3> QED BY <1>2, <1>3, <3>2, <3>3 DEF IInv
  <2>3. CASE ~NextFaults
    <3> DEFINE next == get_next_proc_in_queue
    <3> HIDE DEF next
    <3>1. next = nullptr \/ (next \in Procs /\ Queued(next))
      BY <2>3, NextType DEF IInv, next
    <3>2. CASE next = nullptr
      <4>1. cur_process' = nullptr /\ state' = Paused
            /\ overtaken' = FALSE /\ UNCHANGED <<ticks_left_for_cur_proc, fault>>
        BY <1>5, <2>3, <3>2 DEF swap_to_next_process, next
      <4>2. TypeOK'
        BY <1>1, <2>1, <4>1 DEF IInv, TypeOK
      <4>3. Whereabouts' /\ OneRunning' /\ OthersFollow'
        BY <1>1, <2>1, <4>1 DEF IInv, TypeOK, Whereabouts, OneRunning, OthersFollow
      <4> QED BY <1>2, <1>3, <4>2, <4>3 DEF IInv
    <3>3. CASE next # nullptr
      <4>1. /\ cur_process' = next /\ overtaken' = FALSE
            /\ state' = [Paused EXCEPT ![next] = "RUNNING"]
            /\ ticks_left_for_cur_proc' = Slices[priority[next]]
            /\ UNCHANGED fault
        BY <1>5, <2>3, <3>3 DEF swap_to_next_process, Resumed, next
      <4>2. ticks_left_for_cur_proc' \in Nat
        BY <3>1, <3>3, <4>1 DEF IInv, TypeOK
      <4>3. \A p \in Procs : state'[p] = IF p = next THEN "RUNNING" ELSE Paused[p]
        BY <2>1, <4>1
      <4>4. TypeOK'
        BY <1>1, <2>1, <3>1, <3>3, <4>1, <4>2 DEF IInv, TypeOK
      <4>5. Whereabouts' /\ OneRunning' /\ OthersFollow'
        BY <1>1, <2>1, <3>1, <3>3, <4>1, <4>3
        DEF IInv, TypeOK, Whereabouts, OneRunning, OthersFollow
      <4> QED BY <1>2, <1>3, <4>4, <4>5 DEF IInv
    <3> QED BY <3>2, <3>3
  <2> QED BY <2>2, <2>3
<1> QED BY <1>4, <1>5 DEF Tick

\* The pid a new process gets is nobody's.
LEMMA NewProcessInv ==
  ASSUME NEW p \in Procs, NEW pri \in Priorities, NEW id \in 0 .. pid_max,
         IInv, NewProcess(p, pri, id)
  PROVE  IInv'
<1> USE SchedulerAssumption
<1>1. /\ pc = "idle" /\ pc' = "link" /\ proc' = p /\ state[p] = "none"
      /\ UNCHANGED <<process_queue, length, cur_process, ticks_left_for_cur_proc, overtaken, fault, removed>>
      /\ \A q : Queued(q)' <=> Queued(q)
  BY DEF NewProcess, Step, queueVars, tickVars, Queued
<1>2. /\ id \notin pids
      /\ pids' = (IF id = pid_max THEN pids ELSE pids \cup {id})
      /\ pid' = [pid EXCEPT ![p] = id]
      /\ exhausted' = (exhausted \/ id = pid_max)
  BY DEF NewProcess, get_available_pid, pids_set
<1>3. state' = [state EXCEPT ![p] = "STARTING"] /\ priority' = [priority EXCEPT ![p] = pri]
  BY DEF NewProcess
<1>4. TypeOK'
  BY <1>1, <1>2, <1>3 DEF IInv, TypeOK
<1>5. QueuedOnce' /\ LengthCounts'
  BY <1>1 DEF IInv, QueuedOnce, LengthCounts
<1>6. Whereabouts' /\ OneRunning' /\ OthersFollow'
  BY <1>1, <1>3 DEF IInv, TypeOK, Whereabouts, OneRunning, OthersFollow
<1>7. PidsOwned'
  <2>1. \A q \in Live' : q = p \/ (q \in Live /\ q # p)
    BY <1>1 DEF Live, IInv, Whereabouts
  <2>2. \A q \in Procs : pid'[q] = IF q = p THEN id ELSE pid[q]
    BY <1>2 DEF IInv, TypeOK
  <2>3. p \in Live' /\ Live \subseteq Live' /\ Live' \subseteq Procs /\ p \notin Live
    BY <1>1 DEF Live, IInv, Whereabouts
  <2>4. \A q \in Live : pid'[q] = pid[q] /\ pid[q] \in 0 .. pid_max
    BY <2>2, <2>3 DEF IInv, TypeOK
  <2>5. pids \subseteq pids' /\ (id # pid_max => id \in pids') /\ (id = pid_max => exhausted')
    BY <1>2
  <2>6. exhausted => exhausted'
    BY <1>2
  <2>7. ASSUME NEW q \in Live'
        PROVE  /\ pid'[q] # pid_max => pid'[q] \in pids'
               /\ pid'[q] = pid_max => exhausted'
               /\ \A r \in Live' : pid'[q] = pid'[r] => q = r \/ pid'[q] = pid_max
    <3>1. CASE q = p
      BY <1>2, <2>1, <2>2, <2>3, <2>4, <2>5, <3>1 DEF IInv, PidsOwned
    <3>2. CASE q # p
      BY <1>2, <2>1, <2>2, <2>3, <2>4, <2>5, <2>6, <3>2 DEF IInv, PidsOwned
    <3> QED BY <3>1, <3>2
  <2>8. ASSUME NEW i \in pids' PROVE \E q \in Live' : pid'[q] = i
    BY <1>2, <2>2, <2>3, <2>4 DEF IInv, PidsOwned
  <2> QED BY <2>7, <2>8 DEF PidsOwned
<1> QED BY <1>4, <1>5, <1>6, <1>7 DEF IInv

LEMMA LinkInv == IInv /\ Link => IInv'
<1> SUFFICES ASSUME IInv, Link PROVE IInv'
  OBVIOUS
<1>1. /\ pc = "link" /\ pc' = "count" /\ ~Queued(proc)
      /\ UNCHANGED <<pids, length, cur_process, ticks_left_for_cur_proc, overtaken, state, pid, priority,
                     proc, fault, removed, exhausted>>
  BY DEF Link, Step, tickVars, fields, IInv, Whereabouts
<1>2. /\ process_queue' \in Seq(Procs) /\ QueuedOnce' /\ LengthCounts'
      /\ \A p : Queued(p)' <=> Queued(p) \/ p = proc
  BY <1>1, LinkQueue DEF IInv, LengthCounts, TypeOK
<1>3. TypeOK'
  BY <1>1, <1>2 DEF IInv, TypeOK
<1>4. Whereabouts' /\ OneRunning' /\ OthersFollow'
  BY <1>1, <1>2 DEF IInv, Whereabouts, OneRunning, OthersFollow
<1>5. PidsOwned'
  BY <1>1, <1>2, SamePids DEF IInv, Live
<1> QED BY <1>2, <1>3, <1>4, <1>5 DEF IInv

LEMMA UnlinkInv == IInv /\ Unlink => IInv'
<1> SUFFICES ASSUME IInv, Unlink PROVE IInv'
  OBVIOUS
<1>1. /\ pc = "unlink" /\ pc' = "uncount" /\ Queued(proc)
      /\ UNCHANGED <<pids, length, cur_process, ticks_left_for_cur_proc, overtaken, state, pid, priority,
                     proc, fault, removed, exhausted>>
  BY DEF Unlink, Step, tickVars, fields, IInv, Whereabouts
<1>2. /\ process_queue' \in Seq(Procs) /\ QueuedOnce' /\ LengthCounts'
      /\ \A p : Queued(p)' <=> Queued(p) /\ p # proc
  BY <1>1, UnlinkQueue DEF IInv, LengthCounts, TypeOK
<1>3. TypeOK'
  BY <1>1, <1>2 DEF IInv, TypeOK
<1>4. Whereabouts' /\ OneRunning' /\ OthersFollow'
  BY <1>1, <1>2 DEF IInv, Whereabouts, OneRunning, OthersFollow
<1>5. PidsOwned'
  BY <1>1, <1>2, SamePids DEF IInv, Live
<1> QED BY <1>2, <1>3, <1>4, <1>5 DEF IInv

\* The steps that change the process's state, or the length.
LEMMA LocalInv ==
  IInv /\ (Count \/ Run \/ Pause \/ Uncount \/ \E id \in 0 .. pid_max, p \in Procs : Stop(id, p))
    => IInv'
<1> SUFFICES ASSUME IInv,
                    Count \/ Run \/ Pause \/ Uncount
                      \/ \E id \in 0 .. pid_max, p \in Procs : Stop(id, p)
             PROVE  IInv'
  OBVIOUS
<1> USE SchedulerAssumption
<1>1. /\ UNCHANGED <<pids, process_queue, cur_process, ticks_left_for_cur_proc, pid, priority,
                     fault, removed, exhausted>>
      /\ \A q : Queued(q)' <=> Queued(q)
  BY DEF Count, Run, Pause, Uncount, Stop, queueVars, tickVars, fields, Queued
<1>o. /\ overtaken' \in BOOLEAN /\ (overtaken => overtaken')
      /\ Pause /\ proc = cur_process => overtaken'
  <2>1. overtaken \in BOOLEAN
    BY DEF IInv, TypeOK
  <2>2. CASE Pause
    BY <2>1, <2>2 DEF Pause
  <2>3. CASE ~Pause
    BY <2>1, <2>3 DEF Count, Run, Uncount, Stop, tickVars
  <2> QED BY <2>2, <2>3
<1>2. QueuedOnce'
  BY <1>1 DEF IInv, QueuedOnce
<1>3. CASE Count \/ Uncount
  <2>0. length' \in Nat /\ LengthCounts'
    <3>1. CASE Count
      BY <1>1, <3>1 DEF IInv, TypeOK, LengthCounts, Count, Step
    <3>2. CASE Uncount
      <4>1. Len(process_queue) \in Nat /\ length = Len(process_queue) + 1
        BY <3>2 DEF IInv, TypeOK, LengthCounts, Uncount, Step
      <4>2. length' = Len(process_queue') /\ pc' = "remove_pid"
        BY <1>1, <3>2, <4>1 DEF Uncount, Step
      <4> QED BY <1>1, <4>1, <4>2 DEF LengthCounts
    <3> QED BY <1>3, <3>1, <3>2
  <2>1. TypeOK'
    <3>1. /\ pc' \in {"run", "remove_pid"} /\ pc # "idle"
          /\ UNCHANGED <<state, proc>>
      BY <1>3 DEF Count, Uncount, Step
    <3> QED BY <1>1, <1>o, <2>0, <3>1 DEF IInv, TypeOK
  <2>2. Whereabouts' /\ OneRunning' /\ OthersFollow'
    BY <1>1, <1>o, <1>3 DEF IInv, Whereabouts, OneRunning, OthersFollow, Count, Uncount, Step
  <2>3. PidsOwned'
    BY <1>1, <1>3, SamePids DEF IInv, Live, Count, Uncount, Step
  <2> QED BY <1>2, <2>0, <2>1, <2>2, <2>3 DEF IInv
<1>4. CASE Run
  <2>1. /\ pc = "run" /\ pc' = "pause" /\ UNCHANGED <<proc, length>>
        /\ state' = [state EXCEPT ![proc] = "RUNNING"]
    BY <1>4 DEF Run, Step, queueVars
  <2>2. TypeOK' /\ LengthCounts'
    BY <1>1, <1>o, <2>1 DEF IInv, TypeOK, LengthCounts
  <2>3. Whereabouts' /\ OneRunning' /\ OthersFollow'
    BY <1>1, <1>o, <2>1 DEF IInv, TypeOK, Whereabouts, OneRunning, OthersFollow
  <2>4. PidsOwned'
    BY <1>1, <2>1, SamePids DEF IInv, Live
  <2> QED BY <1>2, <2>2, <2>3, <2>4 DEF IInv
<1>5. CASE Pause
  <2>1. /\ pc = "pause" /\ pc' = "idle" /\ proc' = nullptr /\ UNCHANGED length
        /\ state' = [state EXCEPT ![proc] = "PAUSED"]
    BY <1>5 DEF Pause, Step, queueVars
  <2>2. TypeOK' /\ LengthCounts'
    BY <1>1, <1>o, <2>1 DEF IInv, TypeOK, LengthCounts
  <2>3. Whereabouts' /\ OneRunning' /\ OthersFollow'
    BY <1>1, <1>o, <1>5, <2>1 DEF IInv, TypeOK, Whereabouts, OneRunning, OthersFollow
  <2>4. PidsOwned'
    BY <1>1, <2>1, SamePids DEF IInv, Live
  <2> QED BY <1>2, <2>2, <2>3, <2>4 DEF IInv
<1>6. ASSUME NEW id \in 0 .. pid_max, NEW p \in Procs, Stop(id, p) PROVE IInv'
  <2>1. /\ pc = "idle" /\ pc' = "unlink" /\ proc' = p /\ Queued(p) /\ UNCHANGED length
        /\ state' = [state EXCEPT ![p] = "STOPPING"]
    BY <1>6 DEF Stop, Step, queueVars, get_proc_by_pid
  <2>2. TypeOK' /\ LengthCounts'
    BY <1>1, <1>o, <2>1 DEF IInv, TypeOK, LengthCounts
  <2>3. Whereabouts' /\ OneRunning' /\ OthersFollow'
    BY <1>1, <1>o, <2>1 DEF IInv, TypeOK, Whereabouts, OneRunning, OthersFollow
  <2>4. PidsOwned'
    BY <1>1, <2>1, SamePids DEF IInv, Live
  <2> QED BY <1>2, <2>2, <2>3, <2>4 DEF IInv
<1> QED BY <1>3, <1>4, <1>5, <1>6

\* The pid that is freed belonged to the removed process alone.
LEMMA RemovePidInv == IInv /\ RemovePid => IInv'
<1> SUFFICES ASSUME IInv, RemovePid PROVE IInv'
  OBVIOUS
<1> USE SchedulerAssumption
<1>1. /\ pc = "remove_pid" /\ pc' = "idle" /\ proc' = nullptr /\ proc \in Procs
      /\ removed' = removed \cup {proc}
      /\ UNCHANGED <<process_queue, length, cur_process, ticks_left_for_cur_proc, overtaken, state, pid,
                     priority, exhausted>>
      /\ \A q : Queued(q)' <=> Queued(q)
  BY DEF RemovePid, Step, queueVars, tickVars, fields, Queued, IInv, TypeOK
<1>2. pids' = pids \ {pid[proc]}
  <2>1. CASE pid[proc] = pid_max
    <3>1. pids' = pids
      BY <2>1 DEF RemovePid
    <3>2. pid_max \notin pids
      BY DEF IInv, TypeOK
    <3> QED BY <2>1, <3>1, <3>2
  <2>2. CASE pid[proc] # pid_max
    BY <2>2 DEF RemovePid, remove_pid
  <2> QED BY <2>1, <2>2
<1>f. fault' \in BOOLEAN /\ (fault => fault')
  <2>1. fault \in BOOLEAN
    BY DEF IInv, TypeOK
  <2>2. fault' = TRUE \/ fault' = fault
    BY DEF RemovePid
  <2> QED BY <2>1, <2>2
<1>3. TypeOK'
  BY <1>1, <1>2, <1>f DEF IInv, TypeOK
<1>4. QueuedOnce' /\ LengthCounts'
  BY <1>1 DEF IInv, QueuedOnce, LengthCounts
<1>5. Whereabouts' /\ OneRunning' /\ OthersFollow'
  BY <1>1, <1>f DEF IInv, TypeOK, Whereabouts, OneRunning, OthersFollow
<1>6. PidsOwned'
  <2>1. proc \in Live /\ Live' = Live \ {proc}
    BY <1>1 DEF Live, IInv, Whereabouts
  <2>2. pid[proc] = pid_max => pid[proc] \notin pids
    BY DEF IInv, TypeOK
  <2> QED BY <1>1, <1>2, <2>1, <2>2 DEF IInv, PidsOwned
<1> QED BY <1>3, <1>4, <1>5, <1>6 DEF IInv

\* ps, and the removal of a pid that nobody has, change nothing but the fault.
LEMMA FaultInv ==
  IInv /\ (Ps \/ \E id \in 0 .. pid_max : StopUnknown(id)) => IInv'
<1> SUFFICES ASSUME IInv, Ps \/ \E id \in 0 .. pid_max : StopUnknown(id) PROVE IInv'
  OBVIOUS
<1>1. /\ fault' = TRUE /\ pc' = pc
      /\ UNCHANGED <<pids, queueVars, tickVars, state, fields, proc, removed, exhausted>>
  BY DEF Ps, StopUnknown, Step
<1>2. TypeOK'
  BY <1>1 DEF IInv, TypeOK, queueVars, tickVars, fields
<1> QED
  BY <1>1, <1>2 DEF queueVars, tickVars, fields, IInv, QueuedOnce, LengthCounts, Whereabouts,
                    OneRunning, OthersFollow, PidsOwned, Live, Queued

-----------------------------------------------------------------------------
\* IInv is inductive.
THEOREM Invariance == Spec => []IInv
<1>1. Init => IInv
  BY InitInv
<1>2. IInv /\ [Next]_vars => IInv'
  <2> SUFFICES ASSUME IInv, [Next]_vars PROVE IInv'
    OBVIOUS
  <2>1. CASE UNCHANGED vars
    BY <2>1 DEF vars, queueVars, tickVars, fields, IInv, TypeOK, QueuedOnce, LengthCounts,
                Whereabouts, OneRunning, OthersFollow, PidsOwned, Live, Queued
  <2>2. CASE Tick
    BY <2>2, TickInv
  <2>3. CASE \E p \in Procs, pri \in Priorities, id \in 0 .. pid_max : NewProcess(p, pri, id)
    BY <2>3, NewProcessInv
  <2>4. CASE Link
    BY <2>4, LinkInv
  <2>5. CASE Count \/ Run \/ Pause \/ Uncount \/ \E id \in 0 .. pid_max, p \in Procs : Stop(id, p)
    BY <2>5, LocalInv
  <2>6. CASE Unlink
    BY <2>6, UnlinkInv
  <2>7. CASE RemovePid
    BY <2>7, RemovePidInv
  <2>8. CASE Ps \/ \E id \in 0 .. pid_max : StopUnknown(id)
    BY <2>8, FaultInv
  <2> QED BY <2>1, <2>2, <2>3, <2>4, <2>5, <2>6, <2>7, <2>8 DEF Next, Thread
<1> QED BY <1>1, <1>2, PTL DEF Spec

\* The tick and the thread never leave two processes running.
THEOREM OneRunningAlways == Spec => []OneRunning
<1>1. IInv => OneRunning
  BY DEF IInv
<1> QED BY <1>1, Invariance, PTL

\* Between two operations every process that waits can be resumed, and the current one
\* runs unless add_proccess overtook the tick.
THEOREM StatesFollowTurnsAlways == Spec => []StatesFollowTurns
<1>1. IInv => StatesFollowTurns
  BY SchedulerAssumption DEF IInv, TypeOK, OthersFollow, StatesFollowTurns
<1> QED BY <1>1, Invariance, PTL

\* No two queued processes share a pid while there are pids to give.
THEOREM PidsDistinctAlways == Spec => []PidsDistinct
<1>1. IInv => PidsDistinct
  <2> SUFFICES ASSUME IInv, ~exhausted,
                      NEW i \in DOMAIN process_queue, NEW j \in DOMAIN process_queue,
                      pid[process_queue[i]] = pid[process_queue[j]]
               PROVE  i = j
    BY DEF PidsDistinct
  <2>1. process_queue[i] \in Live /\ process_queue[j] \in Live
    BY DEF IInv, TypeOK, Live, Queued
  <2> QED BY <2>1 DEF IInv, PidsOwned, QueuedOnce
<1> QED BY <1>1, Invariance, PTL

\* No pid is lost: between two operations those taken are those of the queue.
THEOREM PidsAgreeAlways == Spec => []PidsAgree
<1>1. IInv => PidsAgree
  <2> SUFFICES ASSUME IInv, pc = "idle"
               PROVE  pids = {pid[process_queue[i]] : i \in DOMAIN process_queue} \ {pid_max}
    BY DEF PidsAgree
  <2>1. \A p : p \in Live <=> \E i \in DOMAIN process_queue : process_queue[i] = p
    BY DEF IInv, TypeOK, Live, Queued
  <2>2. \A i \in DOMAIN process_queue : process_queue[i] \in Live
    BY <2>1
  <2>3. pid_max \notin pids
    BY SchedulerAssumption DEF IInv, TypeOK
  <2> QED BY <2>1, <2>2, <2>3 DEF IInv, PidsOwned
<1> QED BY <1>1, Invariance, PTL
=============================================================================
