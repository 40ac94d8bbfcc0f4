------------------------------- MODULE Clock -------------------------------
(***************************************************************************)
(* The timer's ticks and sleep (pit.cpp, time.cpp) and the driver of the   *)
(* real time clock (rtc.cpp), which reads the time in a callback of the    *)
(* tick.  The two clocks run by themselves and drift against each other.   *)
(* The kernel's thread sleeps, or shows the time (ClockShowCommand), one   *)
(* field after the other, with the tick's interrupt in between.            *)
(***************************************************************************)
EXTENDS Integers, Sequences

CONSTANTS
  Calendar,     \* the seconds modelled: <<sec, min, hours, day, month, year>> of each
  TicksPerSec,  \* 1000 in the kernel (set_tick_hz)
  Drift,        \* a second of the RTC is TicksPerSec - Drift .. TicksPerSec + Drift ticks
  Uip,          \* the RTC announces an update at most so many ticks before it
  divisor,      \* the one update_time is registered with
  MaxLost,      \* ticks lost because the one before was not served yet
  Sleeps        \* the arguments of sleep, milliseconds

Fields == 1 .. 6
Zeros == [i \in Fields |-> 0]

\* The order of times, by the last field that differs.
NotBefore(a, b) ==
  \/ a = b
  \/ \E i \in Fields : a[i] > b[i] /\ \A j \in i + 1 .. 6 : a[j] = b[j]

\* Seconds follow each other in time.  Between two of them there is time for an update:
\* the lost ticks, the announced one and divisor more.
ASSUME ClockAssumption ==
  /\ Len(Calendar) > 1 /\ Calendar \in Seq([Fields -> 0 .. 99])
  /\ \A i \in 1 .. Len(Calendar) - 1 :
       Calendar[i + 1][1] # Calendar[i][1] /\ NotBefore(Calendar[i + 1], Calendar[i])
  /\ {TicksPerSec, Drift, Uip, MaxLost} \cup Sleeps \subseteq Nat
  /\ divisor \in Nat \ {0}
  /\ divisor + MaxLost + Uip + Drift < TicksPerSec

VARIABLES
  first,      \* the second the kernel was booted in
  now,        \* the second it is, by the RTC
  since,      \* periods of the timer since it began
  uip,        \* bit 7 of register A: the RTC is about to change its registers
  irq0,       \* a tick is waiting for the processor
  lost,
  ticks,      \* pit_driver::ticks
  fields,     \* sec, min, hours, day, month and year of rtc_driver
  pc, end, left,  \* the thread: sleep's end, and the periods that it should still take
  shown, done,    \* ClockShowCommand: the arguments, how many are evaluated,
  before          \* and the fields when it began

hw == <<first, now, since, uip, irq0, lost>>
thread == <<pc, end, left, shown, done, before>>
vars == <<hw, ticks, fields, thread>>

Over == now = Len(Calendar)

(***************************************************************************)
(* The two clocks.                                                         *)
(***************************************************************************)
Init ==
  /\ now \in 1 .. 2 /\ first = now /\ since = 0 /\ uip = FALSE
  /\ irq0 = FALSE /\ lost = 0
  /\ ticks = 0
  /\ fields = Zeros
  /\ pc = "idle" /\ end = 0 /\ left = 0
  /\ shown = Zeros /\ done = 0 /\ before = Zeros

\* A period of the timer ends.  A request that has not been served hides the next one.
Period ==
  /\ ~Over
  /\ since < TicksPerSec + Drift
  /\ irq0 => lost < MaxLost
  /\ lost' = IF irq0 THEN lost + 1 ELSE lost
  /\ irq0' = TRUE
  /\ since' = since + 1
  /\ left' = IF left > 0 THEN left - 1 ELSE 0
  /\ UNCHANGED <<first, now, uip, ticks, fields, pc, end, shown, done, before>>

Announce ==
  /\ ~Over /\ ~uip
  /\ since >= TicksPerSec - Drift - Uip
  /\ uip' = TRUE
  /\ UNCHANGED <<first, now, since, irq0, lost, ticks, fields, thread>>

Second ==
  /\ ~Over /\ uip
  /\ since >= TicksPerSec - Drift
  /\ now' = now + 1
  /\ since' = 0 /\ uip' = FALSE
  /\ lost' = 0
  /\ UNCHANGED <<first, irq0, ticks, fields, thread>>

(***************************************************************************)
(* The tick's interrupt.                                                   *)
(***************************************************************************)
\* What the register of a field holds: two decimal digits.
Register(i) == (Calendar[now][i] \div 10) * 16 + (Calendar[now][i] % 10)

Decoded(byte) ==
  LET high == (byte \div 16) * 16
  IN  high \div 2 + high \div 8 + (byte % 16)

\* Mutant of update_time: what is left to do when the second has changed is forgotten.
update_sec_only ==
  IF uip THEN fields ELSE [fields EXCEPT ![1] = Decoded(Register(1))]

\* The fields after update_time.  Six reads take microseconds: an update that is not
\* announced yet does not fall between them.
update_time ==
  IF uip \/ Decoded(Register(1)) = fields[1]
  THEN fields
  ELSE [i \in Fields |-> Decoded(Register(i))]

\* irq_handler and run_callbacks.
Tick ==
  /\ irq0
  /\ irq0' = FALSE
  /\ ticks' = ticks + 1
  /\ fields' = IF ticks' % divisor = 0 THEN update_time ELSE fields
  /\ UNCHANGED <<first, now, since, uip, lost, thread>>

(***************************************************************************)
(* The thread.                                                             *)
(***************************************************************************)
\* Mutant of SleepEnd: the wait ends a tick early.
EarlyEnd(milli) == ticks + milli - 1

SleepEnd(milli) == ticks + milli

Sleep(milli) ==
  /\ pc = "idle"
  /\ pc' = "sleep"
  /\ end' = SleepEnd(milli)
  /\ left' = IF irq0 /\ milli > 0 THEN milli - 1 ELSE milli
  /\ UNCHANGED <<hw, ticks, fields, shown, done, before>>

\* Mutant of Waited: the loop waits for the very tick of its end.
WaitedExactly == ticks = end

Waited == ticks >= end

Wake ==
  /\ pc = "sleep" /\ Waited
  /\ pc' = "awake"
  /\ UNCHANGED <<hw, ticks, fields, end, left, shown, done, before>>

Return ==
  /\ pc = "awake"
  /\ pc' = "idle" /\ end' = 0 /\ left' = 0
  /\ UNCHANGED <<hw, ticks, fields, shown, done, before>>

Show ==
  /\ pc = "idle"
  /\ pc' = "show"
  /\ before' = fields
  /\ UNCHANGED <<hw, ticks, fields, end, left, shown, done>>

\* Mutant of Argument: the arguments are evaluated from the left.
ArgumentFromLeft == 6 - done

\* The argument that is evaluated after so many others: the compiler goes from the
\* right, get_seconds first.
Argument == done + 1

Get ==
  /\ pc = "show" /\ done < 6
  /\ shown' = [shown EXCEPT ![Argument] = fields[Argument]]
  /\ done' = done + 1
  /\ UNCHANGED <<hw, ticks, fields, pc, end, left, before>>

ShowTime ==
  /\ pc = "show" /\ done = 6
  /\ pc' = "idle" /\ shown' = Zeros /\ before' = Zeros /\ done' = 0
  /\ UNCHANGED <<hw, ticks, fields, end, left>>

Next ==
  \/ Period \/ Announce \/ Second \/ Tick
  \/ \E milli \in Sleeps : Sleep(milli)
  \/ Wake \/ Return \/ Show \/ Get \/ ShowTime

Spec ==
  /\ Init /\ [][Next]_vars
  /\ WF_vars(Period) /\ WF_vars(Announce) /\ WF_vars(Second)
  /\ WF_vars(Tick)
  /\ WF_vars(Wake) /\ WF_vars(Return) /\ WF_vars(Get) /\ WF_vars(ShowTime)

(***************************************************************************)
(* Properties.                                                             *)
(***************************************************************************)
\* What get_seconds ... get_year answer is the time of this second or of the one before,
\* in all fields: bailing out on an equal second leaves no field behind.  A boot in a
\* second 0 is the exception: the driver takes it for the second it has, until the next.
FieldsRecent ==
  \/ fields \in {Calendar[i] : i \in {now, now - 1} \cap 1 .. now}
  \/ fields = Zeros /\ now <= first + 1

\* Lost ticks make a sleep longer, never shorter: so many periods of the timer have
\* ended when it returns, counting the one whose tick was waiting when it began.
SleepLongEnough == pc = "awake" => left = 0

\* The ticks that are served for sure in the seconds modelled that have not begun.
Ahead == (Len(Calendar) - 1 - now) * (TicksPerSec - Drift - MaxLost)

\* A sleep ends, if the seconds modelled that are left suffice for it: the tick that makes
\* up its end may be missed by the loop, but the loop does not need to see it.
SleepEnds == (pc = "sleep" /\ end - ticks <= Ahead) ~> pc # "sleep"

\* The clock command may mix fields of two seconds, as the tick comes in between, but
\* never goes back behind the time it began with: seconds are read first.
ShownNotBefore == done = 6 => NotBefore(shown, before)
=============================================================================
