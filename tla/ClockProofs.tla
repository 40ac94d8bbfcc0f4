----------------------------- MODULE ClockProofs -----------------------------
(***************************************************************************)
(* The clocks, for any calendar, rates, divisor and sleeps.                *)
(*                                                                         *)
(* FieldsRecent is a matter of timing: RecentInv counts the ticks of a     *)
(* second that were served without an update, of which there are fewer     *)
(* than divisor, and so fewer than the second has before it announces the  *)
(* next one.  SleepInv compares the periods a sleep should still take with *)
(* the ticks it still waits for.  ShownInv fills up the arguments that are *)
(* evaluated with the driver's fields.                                     *)
(***************************************************************************)
EXTENDS Clock, TLAPS

Time == [Fields -> 0 .. 99]

TypeOK ==
  /\ first \in 1 .. Len(Calendar) /\ now \in first .. Len(Calendar)
  /\ since \in Nat /\ lost \in Nat /\ ticks \in Nat
  /\ uip \in BOOLEAN /\ irq0 \in BOOLEAN
  /\ fields \in Time /\ shown \in Time /\ before \in Time
  /\ pc \in {"idle", "sleep", "awake", "show"}
  /\ end \in Nat /\ left \in Nat
  /\ done \in 0 .. 6

-----------------------------------------------------------------------------
(***************************************************************************)
(* The inductive invariant behind FieldsRecent.                            *)
(***************************************************************************)
\* The fields have this second, or what the driver takes for it.
Fresh ==
  \/ fields = Calendar[now]
  \/ fields = Zeros /\ now = first /\ Calendar[now][1] = 0

\* They have the second before, or none yet.
Stale ==
  \/ now > first /\ fields = Calendar[now - 1]
  \/ fields = Zeros /\ now = first
  \/ fields = Zeros /\ now = first + 1 /\ Calendar[first][1] = 0

\* The ticks of this second that were served: all periods had one, but the lost.
Served == since - lost - (IF irq0 THEN 1 ELSE 0)

RecentInv ==
  /\ TypeOK
  /\ lost <= MaxLost
  /\ Fresh \/ (Stale /\ ~uip /\ Served <= ticks % divisor)

-----------------------------------------------------------------------------
\* What % returns is the remainder of a division.
LEMMA Division ==
  ASSUME NEW n \in Nat, NEW d \in Nat \ {0}, NEW q \in Int, NEW r \in Int,
         q = n \div d, r = n % d
  PROVE  n = q * d + r /\ r \in 0 .. d - 1 /\ q \in Nat
OBVIOUS

LEMMA RemainderOf ==
  ASSUME NEW n \in Nat, NEW d \in Nat \ {0}, NEW q \in Nat, NEW r \in 0 .. d - 1, n = q * d + r
  PROVE  n % d = r
BY SMTT(60)

\* Counting up, a remainder goes up with it or back to zero.
LEMMA NextRemainder ==
  ASSUME NEW n \in Nat, NEW d \in Nat \ {0}
  PROVE  /\ n % d \in 0 .. d - 1
         /\ (n + 1) % d # 0 => (n + 1) % d = (n % d) + 1
<1>1. PICK q \in Int, r \in Int : q = n \div d /\ r = n % d
  OBVIOUS
<1>2. n = q * d + r /\ r \in 0 .. d - 1 /\ q \in Nat
  BY <1>1, Division
<1>3. CASE r = d - 1
  <2>1. n + 1 = (q + 1) * d + 0 /\ 0 \in 0 .. d - 1
    BY <1>2, <1>3
  <2>2. (n + 1) % d = 0
    BY <1>2, <2>1, RemainderOf
  <2> QED
    BY <1>1, <1>2, <2>2
<1>4. CASE r # d - 1
  <2>1. n + 1 = q * d + (r + 1) /\ r + 1 \in 0 .. d - 1
    BY <1>2, <1>4
  <2>2. (n + 1) % d = r + 1
    BY <1>2, <2>1, RemainderOf
  <2> QED
    BY <1>1, <1>2, <2>2
<1> QED
  BY <1>3, <1>4

\* The two digits of a register are read as the number they were made from.
LEMMA Digits ==
  ASSUME NEW v \in 0 .. 99
  PROVE  Decoded((v \div 10) * 16 + (v % 10)) = v
<1>1. PICK q \in Int, r \in Int : q = v \div 10 /\ r = v % 10
  OBVIOUS
<1>2. v = q * 10 + r /\ q \in 0 .. 9 /\ r \in 0 .. 9
  BY <1>1, Division
<1>3. (q * 16 + r) \div 16 = q /\ (q * 16 + r) % 16 = r
  BY <1>2
<1>4. (q * 16) \div 2 = 8 * q /\ (q * 16) \div 8 = 2 * q
  BY <1>2
<1> QED
  BY <1>1, <1>2, <1>3, <1>4 DEF Decoded

LEMMA CalendarTimes ==
  /\ Len(Calendar) \in Nat /\ Len(Calendar) > 1
  /\ \A i \in 1 .. Len(Calendar) : Calendar[i] \in Time
  /\ Zeros \in Time
<1>1. Calendar \in Seq(Time)
  BY ClockAssumption DEF Time
<1>2. Len(Calendar) \in Nat /\ Len(Calendar) > 1
  BY <1>1, ClockAssumption
<1>3. \A i \in 1 .. Len(Calendar) : Calendar[i] \in Time
  BY <1>1
<1>4. Zeros \in Time
  BY DEF Time, Zeros
<1> QED
  BY <1>2, <1>3, <1>4

\* What update_time reads is the time.
LEMMA RegistersRead ==
  ASSUME TypeOK
  PROVE  /\ now \in 1 .. Len(Calendar) /\ Calendar[now] \in Time
         /\ \A i \in Fields : Decoded(Register(i)) = Calendar[now][i]
         /\ update_time = IF uip \/ Calendar[now][1] = fields[1] THEN fields ELSE Calendar[now]
<1>1. now \in 1 .. Len(Calendar)
  BY CalendarTimes DEF TypeOK
<1>2. Calendar[now] \in Time
  BY <1>1, CalendarTimes
<1>3. ASSUME NEW i \in Fields
      PROVE  Decoded(Register(i)) = Calendar[now][i]
  BY <1>2, Digits DEF Register, Time
<1>4. Calendar[now] = [i \in Fields |-> Calendar[now][i]]
  BY <1>2 DEF Time
<1>5. [i \in Fields |-> Decoded(Register(i))] = Calendar[now]
  BY <1>3, <1>4
<1> QED
  BY <1>1, <1>2, <1>3, <1>5 DEF update_time, Fields

-----------------------------------------------------------------------------
LEMMA InitType == Init => TypeOK
<1> SUFFICES ASSUME Init PROVE TypeOK
  OBVIOUS
<1>1. now \in 1 .. 2 /\ first = now /\ 2 \in 1 .. Len(Calendar)
  BY CalendarTimes DEF Init
<1>2. first \in 1 .. Len(Calendar) /\ now \in first .. Len(Calendar)
  BY <1>1, CalendarTimes
<1> QED
  <2>1. fields \in Time /\ shown \in Time /\ before \in Time
    BY CalendarTimes DEF Init
  <2>2. uip \in BOOLEAN /\ irq0 \in BOOLEAN
    BY Zenon DEF Init
  <2>3. /\ since \in Nat /\ lost \in Nat /\ ticks \in Nat /\ end \in Nat /\ left \in Nat
        /\ done \in 0 .. 6
    BY DEF Init
  <2> QED
    BY <1>2, <2>1, <2>2, <2>3 DEF Init, TypeOK

LEMMA NextType == TypeOK /\ [Next]_vars => TypeOK'
<1> SUFFICES ASSUME TypeOK, [Next]_vars PROVE TypeOK'
  OBVIOUS
<1>1. CASE Period
  BY <1>1 DEF TypeOK, Period
<1>2. CASE Announce \/ UNCHANGED vars
  BY <1>2 DEF TypeOK, Announce, vars, hw, thread
<1>3. CASE Second
  <2>1. now' \in first .. Len(Calendar)
    BY <1>3, CalendarTimes DEF TypeOK, Second, Over
  <2> QED
    BY <1>3, <2>1 DEF TypeOK, Second, thread
<1>4. CASE Tick
  <2>1. fields' \in Time
    BY <1>4, RegistersRead DEF TypeOK, Tick
  <2>2. ticks' \in Nat /\ irq0' \in BOOLEAN
    <3>1. ticks' = ticks + 1 /\ irq0' = FALSE
      BY <1>4, Zenon DEF Tick
    <3>2. ticks' \in Nat
      <4>1. ticks' = ticks + 1
        BY <3>1
      <4> QED
        BY <4>1 DEF TypeOK
    <3> QED
      BY <3>1, <3>2, Zenon
  <2>3. UNCHANGED <<first, now, since, uip, lost, pc, end, left, shown, done, before>>
    BY <1>4 DEF Tick, thread
  <2> QED
    BY <2>1, <2>2, <2>3 DEF TypeOK
<1>5. CASE \E milli \in Sleeps : Sleep(milli)
  <2>1. PICK milli \in Sleeps : Sleep(milli)
    BY <1>5
  <2>2. milli \in Nat
    BY ClockAssumption
  <2> QED
    BY <2>1, <2>2 DEF TypeOK, Sleep, SleepEnd, hw
<1>6. CASE Wake \/ Return \/ Show
  BY <1>6 DEF TypeOK, Wake, Return, Show, hw
<1>7. CASE Get
  <2>1. Argument \in Fields /\ done + 1 \in 0 .. 6
    BY <1>7 DEF TypeOK, Get, Argument, Fields
  <2>2. shown' \in Time
    BY <1>7, <2>1 DEF TypeOK, Get, Time
  <2> QED
    BY <1>7, <2>1, <2>2 DEF TypeOK, Get, hw
<1>8. CASE ShowTime
  BY <1>8, CalendarTimes DEF TypeOK, ShowTime, hw
<1> QED
  BY <1>1, <1>2, <1>3, <1>4, <1>5, <1>6, <1>7, <1>8 DEF Next

-----------------------------------------------------------------------------
LEMMA InitRecent == Init => RecentInv
<1> SUFFICES ASSUME Init PROVE RecentInv
  OBVIOUS
<1>1. divisor \in Nat \ {0} /\ MaxLost \in Nat
  BY ClockAssumption
<1>2. ticks = 0 /\ 0 <= 0 % divisor
  BY <1>1, NextRemainder DEF Init
<1>3. Stale /\ Served = 0
  <2>1. fields = Zeros /\ now = first
    BY DEF Init
  <2>2. since = 0 /\ lost = 0 /\ ~irq0
    BY Zenon DEF Init
  <2>3. Served = 0
    <3>1. Served = since - lost - 0
      BY <2>2, Zenon DEF Served
    <3>2. since = 0 /\ lost = 0
      BY <2>2
    <3> QED
      BY <3>1, <3>2
  <2> QED
    BY <2>1, <2>3 DEF Stale
<1> QED
  BY <1>1, <1>2, <1>3, InitType DEF Init, RecentInv

\* A second has more ticks before its announcement than an update can be away.
LEMMA AnnouncedFresh ==
  ASSUME RecentInv, Announce
  PROVE  Fresh
<1>1. ticks % divisor \in 0 .. divisor - 1
  BY ClockAssumption, NextRemainder DEF RecentInv, TypeOK
<1>2. {TicksPerSec, Drift, Uip, MaxLost, divisor} \subseteq Nat
      /\ divisor + MaxLost + Uip + Drift < TicksPerSec
  BY ClockAssumption
<1>3. since >= TicksPerSec - Drift - Uip /\ lost <= MaxLost /\ since \in Nat /\ lost \in Nat
  BY DEF Announce, RecentInv, TypeOK
<1>4. Served >= since - lost - 1
  BY <1>3 DEF Served
<1>5. ~(Served <= ticks % divisor)
  BY <1>1, <1>2, <1>3, <1>4 DEF Served
<1> QED
  BY <1>5 DEF RecentInv

LEMMA NextRecent == RecentInv /\ [Next]_vars => RecentInv'
<1> SUFFICES ASSUME RecentInv, [Next]_vars PROVE RecentInv'
  OBVIOUS
<1>1. TypeOK /\ TypeOK'
  BY NextType DEF RecentInv
<1>2. MaxLost \in Nat
  BY ClockAssumption
<1>3. CASE Period
  <2>1. UNCHANGED <<first, now, uip, ticks, fields>>
    BY <1>3 DEF Period
  <2>2. Served' = Served /\ lost' <= MaxLost
    <3>1. CASE irq0
      BY <1>1, <1>2, <1>3, <3>1 DEF Period, Served, TypeOK
    <3>2. CASE ~irq0
      BY <1>1, <1>2, <1>3, <3>2 DEF Period, Served, TypeOK, RecentInv
    <3> QED
      BY <3>1, <3>2
  <2> QED
    BY <1>1, <2>1, <2>2 DEF RecentInv, Fresh, Stale
<1>4. CASE Announce
  <2>1. Fresh /\ UNCHANGED <<first, now, lost, fields>>
    BY <1>4, AnnouncedFresh DEF Announce
  <2> QED
    BY <1>1, <2>1 DEF RecentInv, Fresh
<1>5. CASE Second
  <2>1. /\ now' = now + 1 /\ since' = 0 /\ lost' = 0 /\ uip /\ uip' = FALSE
        /\ UNCHANGED <<first, irq0, ticks, fields>>
    BY <1>5 DEF Second
  <2>2. Fresh
    BY <2>1 DEF RecentInv
  <2>3. Stale'
    BY <1>1, <2>1, <2>2 DEF Fresh, Stale, TypeOK
  <2>4. Served' <= 0
    BY <2>1 DEF Served
  <2>5. ticks' % divisor >= 0 /\ ticks' % divisor \in Nat /\ Served' \in Int
    BY <1>1, <2>1, ClockAssumption, NextRemainder DEF TypeOK, Served
  <2> QED
    BY <1>1, <1>2, <2>1, <2>3, <2>4, <2>5 DEF RecentInv
<1>6. CASE Tick
  <2>1. /\ irq0 /\ irq0' = FALSE /\ ticks' = ticks + 1
        /\ fields' = IF ticks' % divisor = 0 THEN update_time ELSE fields
        /\ UNCHANGED <<first, now, since, uip, lost>>
    BY <1>6 DEF Tick
  <2>2. CASE Fresh
    <3>1. fields' = fields
      <4>1. update_time = IF uip \/ Calendar[now][1] = fields[1] THEN fields ELSE Calendar[now]
        BY <1>1, RegistersRead
      <4>2. CASE fields = Calendar[now]
        BY <2>1, <4>1, <4>2
      <4>3. CASE fields = Zeros /\ Calendar[now][1] = 0
        BY <2>1, <4>1, <4>3 DEF Zeros, Fields
      <4> QED
        BY <2>2, <4>2, <4>3 DEF Fresh
    <3> QED
      BY <1>1, <2>1, <2>2, <3>1 DEF RecentInv, Fresh
  <2>3. CASE Stale /\ ~uip /\ Served <= ticks % divisor
    <3>1. CASE ticks' % divisor = 0
      <4>1. fields' = IF Calendar[now][1] = fields[1] THEN fields ELSE Calendar[now]
        BY <1>1, <2>1, <2>3, <3>1, RegistersRead
      <4>2. Fresh'
        <5>1. CASE Calendar[now][1] # fields[1]
          BY <2>1, <4>1, <5>1 DEF Fresh
        <5>2. CASE Calendar[now][1] = fields[1]
          <6>1. now > first => Calendar[now][1] # Calendar[now - 1][1]
            <7>1. now > first => /\ now - 1 \in 1 .. Len(Calendar) - 1
                                 /\ (now - 1) + 1 = now
              BY <1>1, CalendarTimes DEF TypeOK
            <7> QED
              BY <7>1, ClockAssumption
          <6>2. now = first + 1 => now > first /\ now - 1 = first
            BY <1>1 DEF TypeOK
          <6>3. fields = Zeros => fields[1] = 0
            BY DEF Zeros, Fields
          <6>4. fields = Zeros /\ now = first
            BY <2>3, <5>2, <6>1, <6>2, <6>3 DEF Stale
          <6> QED
            BY <2>1, <4>1, <5>2, <6>3, <6>4 DEF Fresh
        <5> QED
          BY <5>1, <5>2
      <4> QED
        BY <1>1, <2>1, <4>2 DEF RecentInv
    <3>2. CASE ticks' % divisor # 0
      <4>1. ticks' % divisor = (ticks % divisor) + 1 /\ ticks % divisor \in Nat
        <5>1. ticks \in Nat /\ divisor \in Nat \ {0}
          BY <1>1, ClockAssumption DEF TypeOK
        <5> QED
          <6>1. ticks' = ticks + 1
            BY <2>1
          <6>2. ticks' % divisor = (ticks % divisor) + 1
            BY <3>2, <5>1, <6>1, NextRemainder
          <6>3. ticks % divisor \in Nat
            BY <5>1, NextRemainder
          <6> QED
            BY <6>2, <6>3
      <4>2. Served' = Served + 1 /\ Served \in Int
        BY <1>1, <2>1 DEF Served, TypeOK
      <4>3. Served' <= ticks' % divisor
        BY <2>3, <4>1, <4>2
      <4>4. Stale' /\ ~uip'
        BY <2>1, <2>3, <3>2 DEF Stale
      <4> QED
        BY <1>1, <2>1, <4>3, <4>4 DEF RecentInv
    <3> QED
      BY <3>1, <3>2
  <2> QED
    BY <2>2, <2>3 DEF RecentInv
<1>7. CASE \/ \E milli \in Sleeps : Sleep(milli)
           \/ Wake \/ Return \/ Show \/ Get \/ ShowTime \/ UNCHANGED vars
  <2>1. UNCHANGED <<hw, ticks, fields>>
    BY <1>7 DEF Sleep, Wake, Return, Show, Get, ShowTime, vars
  <2> QED
    BY <1>1, <2>1 DEF RecentInv, Fresh, Stale, Served, hw
<1> QED
  BY <1>3, <1>4, <1>5, <1>6, <1>7 DEF Next

\* What the driver answers is the time of this second or of the one before.
THEOREM FieldsStayRecent == Spec => []FieldsRecent
<1>1. Init => RecentInv
  BY InitRecent
<1>2. RecentInv /\ [Next]_vars => RecentInv'
  BY NextRecent
<1>3. RecentInv => FieldsRecent
  <2> SUFFICES ASSUME RecentInv PROVE FieldsRecent
    OBVIOUS
  <2>1. now \in Nat /\ first \in Nat /\ 1 <= first /\ first <= now
    BY CalendarTimes DEF RecentInv, TypeOK
  <2>2. Fresh \/ Stale
    BY DEF RecentInv
  <2>3. now \in {now, now - 1} \cap 1 .. now
    BY <2>1
  <2>4. now > first => now - 1 \in {now, now - 1} \cap 1 .. now
    BY <2>1
  <2> QED
    BY <2>1, <2>2, <2>3, <2>4 DEF FieldsRecent, Fresh, Stale
<1> QED
  BY <1>1, <1>2, <1>3, PTL DEF Spec

-----------------------------------------------------------------------------
(***************************************************************************)
(* The inductive invariant behind SleepLongEnough.                         *)
(***************************************************************************)
\* The ticks a sleep still waits for, without the one that waits for the processor.
Awaited == end - ticks - (IF irq0 THEN 1 ELSE 0)

SleepInv ==
  /\ TypeOK
  /\ pc = "sleep" => left = 0 \/ left <= Awaited
  /\ pc = "awake" => left = 0

LEMMA NextSleep == SleepInv /\ [Next]_vars => SleepInv'
<1> SUFFICES ASSUME SleepInv, [Next]_vars PROVE SleepInv'
  OBVIOUS
<1>1. TypeOK /\ TypeOK'
  BY NextType DEF SleepInv
<1>2. CASE Period
  <2>1. /\ UNCHANGED <<pc, end, ticks>> /\ irq0' = TRUE
        /\ left' = IF left > 0 THEN left - 1 ELSE 0
    BY <1>2 DEF Period
  <2>2. Awaited' >= Awaited - 1 /\ Awaited' \in Int /\ Awaited \in Int
    BY <1>1, <2>1 DEF Awaited, TypeOK
  <2>3. left \in Nat
    BY <1>1 DEF TypeOK
  <2> QED
    BY <1>1, <2>1, <2>2, <2>3 DEF SleepInv
<1>3. CASE Announce \/ Second \/ UNCHANGED vars
  BY <1>1, <1>3 DEF SleepInv, Awaited, Announce, Second, vars, hw, thread
<1>4. CASE Tick
  <2>1. UNCHANGED thread /\ irq0 /\ ~irq0' /\ ticks' = ticks + 1
    BY <1>4, Zenon DEF Tick
  <2>2. Awaited' = Awaited
    BY <1>1, <2>1 DEF Awaited, thread, TypeOK
  <2> QED
    BY <1>1, <2>1, <2>2 DEF SleepInv, thread
<1>5. CASE \E milli \in Sleeps : Sleep(milli)
  <2>1. PICK milli \in Sleeps : Sleep(milli)
    BY <1>5
  <2>2. /\ pc' = "sleep" /\ end' = ticks + milli /\ UNCHANGED <<irq0, ticks>>
        /\ left' = IF irq0 /\ milli > 0 THEN milli - 1 ELSE milli
    BY <2>1 DEF Sleep, SleepEnd, hw
  <2>3. milli \in Nat
    BY ClockAssumption
  <2>4. Awaited' = milli - (IF irq0 THEN 1 ELSE 0)
    BY <1>1, <2>2, <2>3 DEF Awaited, TypeOK
  <2> QED
    BY <1>1, <2>2, <2>3, <2>4 DEF SleepInv
<1>6. CASE Wake
  <2>1. pc = "sleep" /\ pc' = "awake" /\ left' = left /\ ticks >= end
    BY <1>6 DEF Wake, Waited
  <2>2. Awaited <= 0 /\ left \in Nat /\ Awaited \in Int
    BY <1>1, <2>1 DEF Awaited, TypeOK
  <2> QED
    BY <1>1, <2>1, <2>2 DEF SleepInv
<1>7. CASE Return \/ Show \/ Get \/ ShowTime
  <2>1. pc' \notin {"sleep", "awake"}
    BY <1>7 DEF Return, Show, Get, ShowTime
  <2> QED
    BY <1>1, <2>1 DEF SleepInv
<1> QED
  BY <1>2, <1>3, <1>4, <1>5, <1>6, <1>7 DEF Next

\* No sleep returns early, whatever ticks are lost.
THEOREM SleepsLongEnough == Spec => []SleepLongEnough
<1>1. Init => SleepInv
  BY InitType DEF Init, SleepInv
<1>2. SleepInv /\ [Next]_vars => SleepInv'
  BY NextSleep
<1>3. SleepInv => SleepLongEnough
  BY DEF SleepInv, SleepLongEnough
<1> QED
  BY <1>1, <1>2, <1>3, PTL DEF Spec

-----------------------------------------------------------------------------
(***************************************************************************)
(* The inductive invariant behind ShownNotBefore.                          *)
(***************************************************************************)
\* The first n arguments, and the others from a time.
Completed(n, time) == [i \in Fields |-> IF i <= n THEN shown[i] ELSE time[i]]

ShownInv ==
  /\ RecentInv
  /\ pc # "show" => done = 0
  /\ pc = "show" => NotBefore(Completed(done, fields), before)

LEMMA NotBeforeTransitive ==
  ASSUME NEW a \in Time, NEW b \in Time, NEW c \in Time, NotBefore(a, b), NotBefore(b, c)
  PROVE  NotBefore(a, c)
<1>1. CASE a = b \/ b = c
  BY <1>1
<1>2. CASE a # b /\ b # c
  <2>1. PICK i \in Fields : a[i] > b[i] /\ \A k \in i + 1 .. 6 : a[k] = b[k]
    BY <1>2 DEF NotBefore
  <2>2. PICK j \in Fields : b[j] > c[j] /\ \A k \in j + 1 .. 6 : b[k] = c[k]
    BY <1>2 DEF NotBefore
  <2>3. \A k \in Fields : a[k] \in Int /\ b[k] \in Int /\ c[k] \in Int
    BY DEF Time
  <2>4. CASE i < j
    <3>1. a[j] = b[j] /\ \A k \in j + 1 .. 6 : k \in i + 1 .. 6
      BY <2>1, <2>4 DEF Fields
    <3> QED
      BY <2>1, <2>2, <2>3, <3>1 DEF NotBefore
  <2>5. CASE j < i
    <3>1. b[i] = c[i] /\ \A k \in i + 1 .. 6 : k \in j + 1 .. 6
      BY <2>2, <2>5 DEF Fields
    <3> QED
      BY <2>1, <2>2, <2>3, <3>1 DEF NotBefore
  <2>6. CASE i = j
    BY <2>1, <2>2, <2>3, <2>6 DEF NotBefore
  <2> QED
    BY <2>4, <2>5, <2>6 DEF Fields
<1> QED
  BY <1>1, <1>2

LEMMA NotBeforeZeros ==
  ASSUME NEW a \in Time
  PROVE  NotBefore(a, Zeros)
<1> DEFINE Last(i) == a[i] > 0 /\ \A j \in i + 1 .. 6 : a[j] = 0
<1>1. \A i \in Fields : a[i] \in Nat /\ Zeros[i] = 0
  BY DEF Time, Zeros
<1>2. CASE \A i \in Fields : a[i] = 0
  BY <1>2 DEF NotBefore, Time, Zeros
<1>3. CASE \E i \in Fields : a[i] # 0
  <2>1. \E i \in Fields : Last(i)
    <3>1. 6 \in Fields /\ 5 \in Fields /\ 4 \in Fields /\ 3 \in Fields /\ 2 \in Fields /\ 1 \in Fields
          /\ \A i \in Fields : i \in {1, 2, 3, 4, 5, 6}
      BY DEF Fields
    <3>2. CASE a[6] # 0
      BY <1>1, <3>1, <3>2
    <3>3. CASE a[6] = 0 /\ a[5] # 0
      BY <1>1, <3>1, <3>3
    <3>4. CASE a[6] = 0 /\ a[5] = 0 /\ a[4] # 0
      BY <1>1, <3>1, <3>4
    <3>5. CASE a[6] = 0 /\ a[5] = 0 /\ a[4] = 0 /\ a[3] # 0
      BY <1>1, <3>1, <3>5
    <3>6. CASE a[6] = 0 /\ a[5] = 0 /\ a[4] = 0 /\ a[3] = 0 /\ a[2] # 0
      BY <1>1, <3>1, <3>6
    <3>7. CASE a[6] = 0 /\ a[5] = 0 /\ a[4] = 0 /\ a[3] = 0 /\ a[2] = 0
      <4>1. a[1] # 0
        BY <1>3, <3>1, <3>7
      <4> QED
        BY <1>1, <3>1, <3>7, <4>1
    <3> QED
      BY <3>2, <3>3, <3>4, <3>5, <3>6, <3>7
  <2>2. PICK i \in Fields : Last(i)
    BY <2>1
  <2>3. \A j \in i + 1 .. 6 : j \in Fields
    BY DEF Fields
  <2> QED
    BY <1>1, <2>2, <2>3 DEF NotBefore
<1> QED
  BY <1>2, <1>3

\* The driver's time does not go back.
LEMMA FieldsAscend ==
  ASSUME RecentInv, Tick
  PROVE  NotBefore(fields', fields)
<1>1. TypeOK /\ (Fresh \/ Stale)
  BY DEF RecentInv
<1>2. fields' = fields \/ fields' = Calendar[now]
  BY <1>1, RegistersRead DEF Tick
<1>3. Calendar[now] \in Time
  BY <1>1, RegistersRead
<1>4. CASE fields' = fields
  BY <1>4 DEF NotBefore
<1>5. CASE fields' = Calendar[now] /\ fields = Zeros
  BY <1>3, <1>5, NotBeforeZeros
<1>6. CASE fields' = Calendar[now] /\ fields = Calendar[now]
  BY <1>6 DEF NotBefore
<1>7. CASE fields' = Calendar[now] /\ now > first /\ fields = Calendar[now - 1]
  <2>1. now - 1 \in 1 .. Len(Calendar) - 1 /\ (now - 1) + 1 = now
    BY <1>1, <1>7, CalendarTimes DEF TypeOK
  <2> QED
    BY <1>7, <2>1, ClockAssumption
<1> QED
  BY <1>1, <1>2, <1>4, <1>5, <1>6, <1>7 DEF Fresh, Stale

\* With a later time for the arguments that are left, the time shown is not earlier.
LEMMA CompletedLater ==
  ASSUME NEW n \in 0 .. 6, NEW a \in Time, NEW b \in Time, shown \in Time, NotBefore(a, b)
  PROVE  NotBefore(Completed(n, a), Completed(n, b))
<1>1. \A i \in Fields : /\ Completed(n, a)[i] = IF i <= n THEN shown[i] ELSE a[i]
                        /\ Completed(n, b)[i] = IF i <= n THEN shown[i] ELSE b[i]
  BY DEF Completed
<1>2. CASE a = b
  BY <1>2 DEF NotBefore
<1>3. CASE a # b
  <2>1. PICK i \in Fields : a[i] > b[i] /\ \A k \in i + 1 .. 6 : a[k] = b[k]
    BY <1>3 DEF NotBefore
  <2>2. \A k \in i + 1 .. 6 : k \in Fields
    BY DEF Fields
  <2>3. \A k \in i + 1 .. 6 : Completed(n, a)[k] = Completed(n, b)[k]
    BY <1>1, <2>1, <2>2
  <2>4. CASE i <= n
    <3>1. ASSUME NEW k \in Fields
          PROVE  Completed(n, a)[k] = Completed(n, b)[k]
      <4>1. k <= n \/ k \in i + 1 .. 6
        BY <2>4 DEF Fields
      <4> QED
        BY <1>1, <2>3, <4>1
    <3>2. Completed(n, a) = Completed(n, b)
      BY <1>1, <3>1 DEF Completed
    <3> QED
      BY <3>2 DEF NotBefore
  <2>5. CASE ~(i <= n)
    BY <1>1, <2>1, <2>3, <2>5 DEF NotBefore
  <2> QED
    BY <2>4, <2>5
<1> QED
  BY <1>2, <1>3

LEMMA NextShown == ShownInv /\ [Next]_vars => ShownInv'
<1> SUFFICES ASSUME ShownInv, [Next]_vars PROVE ShownInv'
  OBVIOUS
<1>1. RecentInv /\ RecentInv' /\ TypeOK /\ TypeOK'
  BY NextRecent DEF ShownInv, RecentInv
<1>2. CASE Tick
  <2>1. UNCHANGED <<pc, done, shown, before>>
    BY <1>2 DEF Tick, thread
  <2>2. SUFFICES ASSUME pc = "show"
                 PROVE  NotBefore(Completed(done, fields)', before)
    BY <1>1, <2>1 DEF ShownInv
  <2>3. PICK n \in 0 .. 6 : n = done
    BY <1>1 DEF TypeOK
  <2>4. fields \in Time /\ fields' \in Time /\ before \in Time /\ shown \in Time
    BY <1>1 DEF TypeOK
  <2>5. NotBefore(Completed(n, fields'), Completed(n, fields))
    BY <1>1, <1>2, <2>4, FieldsAscend, CompletedLater
  <2>6. NotBefore(Completed(n, fields), before)
    BY <2>2, <2>3 DEF ShownInv
  <2>7. Completed(n, fields) \in Time /\ Completed(n, fields') \in Time
    BY <2>4 DEF Completed, Time
  <2>8. NotBefore(Completed(n, fields'), before)
    BY <2>4, <2>5, <2>6, <2>7, NotBeforeTransitive
  <2>9. Completed(done, fields)' = Completed(n, fields')
    BY <2>1, <2>3 DEF Completed
  <2> QED
    BY <2>8, <2>9
<1>3. CASE Show
  <2>1. /\ pc = "idle" /\ pc' = "show" /\ before' = fields /\ done' = done
        /\ fields' = fields /\ shown' = shown
    BY <1>3 DEF Show
  <2>2. done' = 0
    BY <2>1 DEF ShownInv
  <2>3. Completed(done, fields)' = fields
    BY <1>1, <2>1, <2>2 DEF Completed, TypeOK, Time, Fields
  <2> QED
    BY <1>1, <2>1, <2>3 DEF ShownInv, NotBefore
<1>4. CASE Get
  <2>1. /\ pc = "show" /\ pc' = "show" /\ done < 6 /\ done' = done + 1
        /\ fields' = fields /\ before' = before
        /\ shown' = [shown EXCEPT ![done + 1] = fields[done + 1]]
    BY <1>4 DEF Get, Argument
  <2>2. done \in Nat /\ \A i \in Fields : i \in Nat
    BY <1>1 DEF TypeOK, Fields
  <2>3. Completed(done, fields)' = Completed(done, fields)
    <3>1. PICK n \in 0 .. 5 : n = done
      BY <1>1, <2>1 DEF TypeOK
    <3>2. shown \in Time
      BY <1>1 DEF TypeOK
    <3>3. ASSUME NEW i \in Fields
          PROVE  (IF i <= n + 1 THEN shown'[i] ELSE fields[i])
                 = (IF i <= n THEN shown[i] ELSE fields[i])
      <4>1. i \in Nat /\ n \in Nat /\ n + 1 \in Fields
        BY <2>2, <3>1 DEF Fields
      <4>2. shown'[i] = IF i = n + 1 THEN fields[n + 1] ELSE shown[i]
        BY <2>1, <3>1, <3>2, <4>1 DEF Time
      <4> QED
        BY <4>1, <4>2
    <3>4. /\ Completed(done, fields)' = [i \in Fields |-> IF i <= n + 1 THEN shown'[i] ELSE fields[i]]
          /\ Completed(done, fields) = [i \in Fields |-> IF i <= n THEN shown[i] ELSE fields[i]]
      BY <2>1, <3>1 DEF Completed
    <3> QED
      BY <3>3, <3>4
  <2> QED
    BY <1>1, <2>1, <2>3 DEF ShownInv
<1>5. CASE ShowTime
  BY <1>1, <1>5 DEF ShownInv, ShowTime
<1>6. CASE Wake \/ Return \/ \E milli \in Sleeps : Sleep(milli)
  <2>1. pc # "show" /\ pc' # "show" /\ done' = done
    BY <1>6 DEF Wake, Return, Sleep
  <2> QED
    BY <1>1, <2>1 DEF ShownInv
<1>7. CASE Period \/ Announce \/ Second \/ UNCHANGED vars
  <2>1. UNCHANGED <<fields, pc, done, shown, before>>
    BY <1>7 DEF Period, Announce, Second, vars, thread
  <2> QED
    BY <1>1, <2>1 DEF ShownInv, Completed
<1> QED
  BY <1>2, <1>3, <1>4, <1>5, <1>6, <1>7 DEF Next

\* The clock command does not show a time before the one it began with.
THEOREM ShownTimeNotBefore == Spec => []ShownNotBefore
<1>1. Init => ShownInv
  BY InitRecent DEF Init, ShownInv
<1>2. ShownInv /\ [Next]_vars => ShownInv'
  BY NextShown
<1>3. ShownInv => ShownNotBefore
  <2> SUFFICES ASSUME ShownInv, done = 6 PROVE NotBefore(shown, before)
    BY DEF ShownNotBefore
  <2>1. pc = "show"
    BY DEF ShownInv
  <2>2. Completed(done, fields) = shown
    BY DEF ShownInv, RecentInv, TypeOK, Time, Completed, Fields
  <2> QED
    BY <2>1, <2>2 DEF ShownInv
<1> QED
  BY <1>1, <1>2, <1>3, PTL DEF Spec
=============================================================================
