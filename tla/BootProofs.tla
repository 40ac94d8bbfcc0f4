----------------------------- MODULE BootProofs -----------------------------
(***************************************************************************)
(* Proofs about Boot: which lines are open at which stage of the boot and  *)
(* what is in place behind them; that the ports left enabled work; and,    *)
(* with answers in time, that their devices are named for what they are.   *)
(***************************************************************************)
EXTENDS Boot, TLAPS

(***************************************************************************)
(* The stages of the boot.                                                 *)
(***************************************************************************)
\* Up to init_pic, with what the boot loader has left in the PICs.
Early == {"gdt", "load_drivers", "idt", "pic"}

\* From init_pic's initialization words until both masks are written.
Clearing == {"restore", "mask"}

\* ps2_driver::install up to the handler.
Installing ==
  {"disable", "flush", "ask", "answer", "set", "self_test", "verdict", "dual",
   "disable_again", "test", "result", "enable", "reset", "reset_ack", "reset_test",
   "detect", "stop_ack", "identify", "identify_ack", "read", "last_flush"}

\* All lines are masked.
Shut == Early \cup {"sti"} \cup Installing \cup {"handler", "unmask"}

Timer == {"pit", "pit_device", "pit_enable"}
Later == {"rtc", "rtc_device", "rtc_tick", "scheduler", "monitor"}

Stages == Shut \cup Clearing \cup Timer \cup Later

(***************************************************************************)
(* The invariant.                                                          *)
(***************************************************************************)
BootType ==
  /\ pc[1] \in Stages
  /\ gates \in [Vectors -> Int]
  /\ irq_handlers \in [Irqs -> {NoHandler, "keyboard", "pit"}]
  /\ masked \in [1 .. 2 -> SUBSET Lines]
  /\ enabled \in [Drivers -> BOOLEAN]

\* Which lines can be open.  The last conjunct of the second PIC's part is what keeps the
\* second port's line quiet while the masks are clear: its interrupt is not on yet.
MasksKnown ==
  /\ pc[1] \in Shut => masked[1] = Lines /\ masked[2] = Lines
  /\ pc[1] \in Early \cup Clearing => saved[1] = Lines /\ saved[2] = Lines
  /\ pc = <<"mask", 2>> => masked[1] = Lines
  /\ pc[1] \in Timer => 0 \in masked[1] /\ masked[2] = Lines
  /\ pc[1] = "rtc" => masked[2] = Lines
  /\ pc[1] \notin Clearing => Lines \ {0, 1} \subseteq masked[1] /\ Lines \ {0} \subseteq masked[2]
  /\ pc[1] \in Early \cup Clearing => config.int \subseteq {Port1}
  /\ pending \subseteq {0, 1}

\* The gates of the two lines that are requested, and that of a page fault.
GatesSet ==
  pc[1] \notin Early \ {"pic"} =>
    gates[32] # NoGate /\ gates[33] # NoGate /\ gates[14] = 14

HandlersSet ==
  /\ pc[1] \notin Clearing =>
       \A irq \in {0, 1} : irq \notin masked[1] => irq_handlers[irq] # NoHandler
  /\ pc[1] = "unmask" => irq_handlers[1] # NoHandler
  /\ pc[1] \in {"pit_device", "pit_enable"} => irq_handlers[0] # NoHandler

FlagsKnown ==
  /\ pc[1] \in Shut \cup Clearing \cup {"pit"} => ~enabled["pit"]
  /\ pc[1] \in Shut \cup Clearing \cup Timer \cup {"rtc"} => ~enabled["rtc"]
  /\ pc[1] \in {"pit_device", "pit_enable"} => enabled["pit"]
  /\ pc[1] \in Timer \cup Later /\ ~crossed /\ 1 \notin masked[1] => enabled["ps2"]
  /\ pc[1] \in Later /\ ~crossed =>
       /\ enabled["pit"] <=> 0 \notin masked[1]
       /\ enabled["rtc"] <=> 0 \notin masked[2]

\* The only panic is the page fault of a device whose name was never set.
OnlyPageFault == panicked \in {None, 14}

BootInv ==
  BootType /\ MasksKnown /\ GatesSet /\ HandlersSet /\ FlagsKnown /\ OnlyPageFault

(***************************************************************************)
(* ps2_driver::install.                                                    *)
(***************************************************************************)
\* A step of install before the handler is there: no line, gate, handler or request
\* changes, and no flag but the driver's own.
InstallsQuietly ==
  /\ pc[1] \in Installing
  /\ pc'[1] \in Installing \cup {"handler", "pit"}
  /\ UNCHANGED <<gates, irq_handlers, masked, pending>>
  /\ enabled' \in [Drivers -> BOOLEAN]
  /\ enabled'["pit"] = enabled["pit"] /\ enabled'["rtc"] = enabled["rtc"]
  /\ panicked' \in {panicked, gates[14]}

LEMMA FlagsUnchanged ==
  ASSUME enabled \in [Drivers -> BOOLEAN], UNCHANGED enabled
  PROVE  /\ enabled' \in [Drivers -> BOOLEAN]
         /\ enabled'["pit"] = enabled["pit"] /\ enabled'["rtc"] = enabled["rtc"]
OBVIOUS

LEMMA OwnFlag ==
  ASSUME enabled \in [Drivers -> BOOLEAN], NEW flag \in BOOLEAN,
         enabled' = [enabled EXCEPT !["ps2"] = flag]
  PROVE  /\ enabled' \in [Drivers -> BOOLEAN]
         /\ enabled'["pit"] = enabled["pit"] /\ enabled'["rtc"] = enabled["rtc"]
BY DEF Drivers

LEMMA ControllerInstalls ==
  ASSUME BootType, InstallController
  PROVE  InstallsQuietly \/ InstallKeyboardHandler \/ UnmaskKeyboard
<1> USE DEF BootType, InstallsQuietly, Installing, At, Goto, installer, background, tree, interruptVars
<1>1. CASE FlushOutputBuffer
  BY <1>1, FlagsUnchanged DEF FlushOutputBuffer
<1>2. CASE SelfTest
  BY <1>2, FlagsUnchanged DEF SelfTest, Command
<1>3. CASE SelfTestVerdict
  <2>1. CASE UNCHANGED enabled
    BY <1>3, <2>1, FlagsUnchanged DEF SelfTestVerdict
  <2>2. CASE enabled' = [enabled EXCEPT !["ps2"] = FALSE]
    BY <1>3, <2>2, OwnFlag DEF SelfTestVerdict
  <2> QED BY <1>3, <2>1, <2>2 DEF SelfTestVerdict
<1>4. CASE EnableDualChannel
  BY <1>4, FlagsUnchanged DEF EnableDualChannel, Command
<1>5. CASE LastFlush
  BY <1>5, FlagsUnchanged DEF LastFlush
<1>6. ASSUME NEW n \in 1 .. 3, AskConfig(n) \/ GetConfig(n) \/ SetConfig(n) PROVE InstallsQuietly
  <2>1. CASE AskConfig(n)
    BY <2>1, FlagsUnchanged DEF AskConfig, Command
  <2>2. CASE GetConfig(n)
    <3>1. UNCHANGED enabled /\ UNCHANGED <<gates, irq_handlers, masked, pending, panicked>>
      BY <2>2 DEF GetConfig
    <3>2. pc[1] = "answer"
      BY <2>2 DEF GetConfig
    <3>3. \/ pc' = <<"set", n>> \/ pc' = <<"disable_again", Port2>> \/ pc' = <<"test", Port1>>
      <4>1. CASE n = 1 BY <2>2, <4>1 DEF GetConfig
      <4>2. CASE n = 2 BY <2>2, <4>2 DEF GetConfig
      <4>3. CASE n = 3 BY <2>2, <4>3 DEF GetConfig
      <4> QED BY <4>1, <4>2, <4>3
    <3> QED BY <3>1, <3>2, <3>3, FlagsUnchanged
  <2>3. CASE SetConfig(n)
    <3>1. UNCHANGED <<enabled, gates, irq_handlers, masked, pending, panicked>> /\ pc[1] = "set"
      BY <2>3 DEF SetConfig, Command
    <3>2. pc' = <<"self_test", 0>> \/ pc' = <<"test", Port1>> \/ pc' = <<"reset", Port1>>
      <4>1. CASE n = 1 BY <2>3, <4>1 DEF SetConfig
      <4>2. CASE n = 2 BY <2>3, <4>2 DEF SetConfig
      <4>3. CASE n = 3 BY <2>3, <4>3 DEF SetConfig
      <4> QED BY <4>1, <4>2, <4>3
    <3> QED BY <3>1, <3>2, FlagsUnchanged
  <2> QED BY <1>6, <2>1, <2>2, <2>3
<1> QED BY <1>1, <1>2, <1>3, <1>4, <1>5, <1>6 DEF InstallController

LEMMA PortsInstall ==
  ASSUME BootType, NEW p \in Ports, InstallPorts(p)
  PROVE  InstallsQuietly
<1> USE DEF BootType, InstallsQuietly, Installing, At, Goto, NextPort, background, tree, interruptVars
<1>1. CASE DisablePort(p)
  BY <1>1, FlagsUnchanged DEF DisablePort, Command, installer
<1>2. CASE TestPort(p)
  BY <1>2, FlagsUnchanged DEF TestPort, Command, installer
<1>3. CASE TestResult(p)
  <2>1. CASE UNCHANGED enabled
    BY <1>3, <2>1, FlagsUnchanged DEF TestResult
  <2>2. CASE enabled' = [enabled EXCEPT !["ps2"] = @ \/ port_enabled' # {}]
    <3>1. \E flag \in BOOLEAN : enabled' = [enabled EXCEPT !["ps2"] = flag]
      BY <2>2, Zenon
    <3>2. PICK flag \in BOOLEAN : enabled' = [enabled EXCEPT !["ps2"] = flag]
      BY <3>1
    <3>3. /\ enabled' \in [Drivers -> BOOLEAN]
          /\ enabled'["pit"] = enabled["pit"] /\ enabled'["rtc"] = enabled["rtc"]
      BY <3>2, OwnFlag
    <3> QED BY <1>3, <3>3 DEF TestResult
  <2> QED BY <1>3, <2>1, <2>2 DEF TestResult
<1>4. CASE EnablePort(p)
  BY <1>4, FlagsUnchanged DEF EnablePort, Command, installer
<1>5. CASE ResetPort(p)
  BY <1>5, FlagsUnchanged DEF ResetPort
<1>6. CASE ResetAck(p)
  BY <1>6, FlagsUnchanged DEF ResetAck
<1>7. CASE ResetSelfTest(p)
  BY <1>7, FlagsUnchanged DEF ResetSelfTest
<1>8. CASE DetectDevice(p)
  BY <1>8, FlagsUnchanged DEF DetectDevice, Request
<1>9. CASE RequestIdentify(p)
  BY <1>9, FlagsUnchanged DEF RequestIdentify, Request
<1>10. CASE IdentifyDevice(p)
  <2>1. UNCHANGED <<enabled, gates, irq_handlers, masked, pending>> /\ panicked' \in {panicked, gates[14]}
    BY <1>10 DEF IdentifyDevice, NameDevice, isr_stub
  <2>2. pc[1] = "read" /\ NextPort("detect", "last_flush", p)
    BY <1>10, Zenon DEF IdentifyDevice
  <2> QED BY <2>1, <2>2, FlagsUnchanged
<1>11. CASE DetectAck(p, "stop_ack", "identify")
  BY <1>11, FlagsUnchanged DEF DetectAck
<1>12. CASE DetectAck(p, "identify_ack", "read")
  BY <1>12, FlagsUnchanged DEF DetectAck
<1> QED BY <1>1, <1>2, <1>3, <1>4, <1>5, <1>6, <1>7, <1>8, <1>9, <1>10, <1>11, <1>12 DEF InstallPorts

(***************************************************************************)
(* The steps.                                                              *)
(***************************************************************************)
LEMMA InstallKeepsInv ==
  ASSUME BootInv, InstallPs2
  PROVE  BootInv'
<1> USE DEF BootInv, BootType, At, Goto, deviceVars, ps2Vars, bootVars
<1>1. CASE InstallsQuietly
  <2> USE <1>1 DEF InstallsQuietly
  <2>1. UNCHANGED <<saved, crossed>> /\ pc'[1] \notin Early \cup Clearing /\ pc'[1] # "unmask"
    BY DEF InstallPs2, Installing, Early, Clearing
  <2>2. BootType'
    BY DEF Stages, Shut, Installing, Timer
  <2>3. MasksKnown'
    BY <2>1 DEF MasksKnown, Shut, Installing, Timer, Early, Clearing, Lines
  <2>4. GatesSet' /\ OnlyPageFault'
    BY <2>1 DEF GatesSet, OnlyPageFault, Installing, Early
  <2>5. HandlersSet'
    BY <2>1 DEF HandlersSet, Installing, Clearing
  <2>6. FlagsKnown'
    BY <2>1 DEF FlagsKnown, MasksKnown, Installing, Shut, Timer, Later, Lines
  <2> QED BY <2>2, <2>3, <2>4, <2>5, <2>6
<1>2. CASE InstallKeyboardHandler
  <2>1. /\ pc = <<"handler", 0>> /\ pc' = <<"unmask", 0>>
        /\ irq_handlers' = [irq_handlers EXCEPT ![1] = "keyboard"]
        /\ UNCHANGED <<enabled, gates, masked, pending, panicked, saved, crossed>>
    BY <1>2 DEF InstallPs2, InstallKeyboardHandler, install_handler
  <2>2. BootType'
    <3>1. irq_handlers' \in [Irqs -> {NoHandler, "keyboard", "pit"}]
      BY <2>1 DEF BootInv, Irqs
    <3> QED BY <2>1, <3>1 DEF BootInv, Stages, Shut
  <2>3. MasksKnown'
    BY <2>1 DEF BootInv, MasksKnown, Shut, Timer, Early, Clearing
  <2>4. GatesSet' /\ OnlyPageFault'
    BY <2>1 DEF BootInv, GatesSet, OnlyPageFault, Early
  <2>5. HandlersSet'
    BY <2>1 DEF BootInv, HandlersSet, MasksKnown, Shut, Lines, Irqs, NoHandler
  <2>6. FlagsKnown'
    <3>1. pc[1] \in Shut /\ pc'[1] \notin Timer \cup Later
      BY <2>1 DEF Shut, Timer, Later
    <3>2. ~enabled["pit"] /\ ~enabled["rtc"]
      BY <3>1 DEF BootInv, FlagsKnown
    <3>3. ~enabled'["pit"] /\ ~enabled'["rtc"]
      BY <2>1, <3>2
    <3> QED BY <2>1, <3>1, <3>3 DEF FlagsKnown, Timer
  <2> QED BY <2>2, <2>3, <2>4, <2>5, <2>6
<1>3. CASE UnmaskKeyboard
  <2>1. /\ pc = <<"unmask", 0>> /\ pc' = <<"pit", 0>>
        /\ enabled' = [enabled EXCEPT !["ps2"] = TRUE]
        /\ masked' = [masked EXCEPT ![1] = masked[1] \ {1}]
        /\ UNCHANGED <<irq_handlers, gates, pending, panicked, saved, crossed>>
    BY <1>3 DEF InstallPs2, UnmaskKeyboard, enable, unmask_irq, write_mask, get_mask, Pic, Line
  <2>2. BootType'
    BY <2>1 DEF Stages, Timer, Drivers
  <2>3. MasksKnown'
    BY <2>1 DEF MasksKnown, Shut, Timer, Early, Clearing, Installing, Lines
  <2>4. GatesSet' /\ OnlyPageFault'
    BY <2>1 DEF GatesSet, OnlyPageFault, Early
  <2>5. HandlersSet'
    BY <2>1 DEF HandlersSet, MasksKnown, Shut, Lines, Clearing
  <2>6. FlagsKnown'
    BY <2>1 DEF FlagsKnown, Shut, Timer, Later, Clearing, Installing, Early, Drivers
  <2> QED BY <2>2, <2>3, <2>4, <2>5, <2>6
<1> QED BY <1>1, <1>2, <1>3, ControllerInstalls, PortsInstall DEF InstallPs2, install

LEMMA ResetKeepsInv ==
  ASSUME BootInv,
         \/ GdtInit \/ LoadDrivers \/ InitIdt \/ InitPic \/ EnableInterrupts
         \/ \E p \in 1 .. 2 : RestoreMask(p) \/ MaskAll(p)
  PROVE  BootInv'
<1> USE DEF BootInv, BootType, At, Goto, deviceVars, ps2Vars, bootVars, interruptVars, Drivers
<1>1. CASE GdtInit
  BY <1>1 DEF GdtInit, Stages, Shut, Timer, Later, Early, Clearing, Installing, MasksKnown, GatesSet, HandlersSet, FlagsKnown, OnlyPageFault
<1>2. CASE LoadDrivers
  BY <1>2 DEF LoadDrivers, load_drivers, Stages, Shut, Timer, Later, Early, Clearing, Installing, MasksKnown, GatesSet, HandlersSet, FlagsKnown, OnlyPageFault
<1>3. CASE InitIdt
  <2>1. /\ pc = <<"idt", 0>> /\ pc' = <<"pic", 0>>
        /\ UNCHANGED <<enabled, masked, irq_handlers, pending, panicked, saved, crossed, config>>
    BY <1>3 DEF InitIdt
  <2>2. /\ gates' \in [Vectors -> Int]
        /\ gates'[32] # NoGate /\ gates'[33] # NoGate /\ gates'[14] = 14
    BY <1>3 DEF InitIdt, SetGates, idt_set_gate, isr, irq0, irq1, irq2, irq8, Vectors, NoGate
  <2> QED BY <2>1, <2>2 DEF Stages, Shut, Timer, Later, Early, Clearing, Installing, MasksKnown, GatesSet, HandlersSet, FlagsKnown, OnlyPageFault
<1>4. CASE InitPic
  BY <1>4 DEF InitPic, Stages, Shut, Timer, Later, Early, Clearing, Installing, MasksKnown, GatesSet, HandlersSet, FlagsKnown, OnlyPageFault
<1>5. CASE EnableInterrupts
  BY <1>5 DEF EnableInterrupts, Stages, Shut, Timer, Later, Early, Clearing, Installing, MasksKnown, GatesSet, HandlersSet, FlagsKnown, OnlyPageFault, Lines
<1>6. ASSUME NEW p \in 1 .. 2, RestoreMask(p) PROVE BootInv'
  BY <1>6 DEF RestoreMask, Stages, Shut, Timer, Later, Early, Clearing, Installing, MasksKnown, GatesSet, HandlersSet, FlagsKnown, OnlyPageFault
<1>7. ASSUME NEW p \in 1 .. 2, MaskAll(p) PROVE BootInv'
  BY <1>7 DEF MaskAll, Stages, Shut, Timer, Later, Early, Clearing, Installing, MasksKnown, GatesSet, HandlersSet, FlagsKnown, OnlyPageFault, Lines
<1> QED BY <1>1, <1>2, <1>3, <1>4, <1>5, <1>6, <1>7

LEMMA TimerKeepsInv ==
  ASSUME BootInv, InstallTimerHandler \/ AddTimer \/ EnableTimer
  PROVE  BootInv'
<1> USE DEF BootInv, BootType, At, Goto, ps2Vars, bootVars, interruptVars, Stages, Timer, Later,
        Shut, Early, Clearing, Installing
<1>1. CASE InstallTimerHandler
  <2>1. /\ pc = <<"pit", 0>> /\ pc' = <<"pit_device", 0>>
        /\ enabled' = [enabled EXCEPT !["pit"] = TRUE]
        /\ irq_handlers' = [irq_handlers EXCEPT ![0] = "pit"]
        /\ UNCHANGED <<gates, masked, pending, panicked, saved, crossed, config>>
    BY <1>1 DEF InstallTimerHandler, install_handler
  <2>2. BootType'
    BY <2>1 DEF Drivers, Irqs
  <2>3. MasksKnown' /\ GatesSet' /\ OnlyPageFault'
    BY <2>1 DEF MasksKnown, GatesSet, OnlyPageFault
  <2>4. HandlersSet'
    BY <2>1 DEF HandlersSet, Irqs, NoHandler
  <2>5. FlagsKnown'
    BY <2>1 DEF FlagsKnown, Drivers
  <2> QED BY <2>2, <2>3, <2>4, <2>5
<1>2. CASE AddTimer
  BY <1>2 DEF AddTimer, MasksKnown, GatesSet, HandlersSet, FlagsKnown, OnlyPageFault
<1>3. CASE EnableTimer
  <2>1. /\ pc = <<"pit_enable", 0>> /\ pc' = <<"rtc", 0>>
        /\ enabled' = [enabled EXCEPT !["pit"] = TRUE]
        /\ masked' = [masked EXCEPT ![1] = masked[1] \ {0}]
        /\ UNCHANGED <<gates, irq_handlers, pending, panicked, saved, crossed, config>>
    BY <1>3 DEF EnableTimer, enable, unmask_irq, write_mask, get_mask, Pic, Line
  <2>2. BootType'
    BY <2>1 DEF Drivers
  <2>3. MasksKnown' /\ GatesSet' /\ OnlyPageFault'
    BY <2>1 DEF MasksKnown, GatesSet, OnlyPageFault
  <2>4. HandlersSet'
    BY <2>1 DEF HandlersSet
  <2>5. FlagsKnown'
    BY <2>1 DEF FlagsKnown, Drivers, MasksKnown, Lines
  <2> QED BY <2>2, <2>3, <2>4, <2>5
<1> QED BY <1>1, <1>2, <1>3

LEMMA ClockKeepsInv ==
  ASSUME BootInv, EnableRtc \/ AddRtc \/ HookUpdateTime \/ SchedulerInit
  PROVE  BootInv'
<1> USE DEF BootInv, BootType, At, Goto, ps2Vars, bootVars, interruptVars, Stages, Timer, Later,
        Shut, Early, Clearing, Installing
<1>1. CASE EnableRtc
  <2>1. CASE ~Loaded("rtc")
    BY <1>1, <2>1 DEF EnableRtc, MasksKnown, GatesSet, HandlersSet, FlagsKnown, OnlyPageFault
  <2>2. CASE Loaded("rtc")
    <3>1. /\ pc = <<"rtc", 0>> /\ pc' = <<"rtc_device", 0>>
          /\ enabled' = [enabled EXCEPT !["rtc"] = TRUE]
          /\ masked' = [masked EXCEPT ![2] = masked[2] \ {0}]
          /\ UNCHANGED <<gates, irq_handlers, pending, panicked, saved, crossed, config>>
      BY <1>1, <2>2 DEF EnableRtc, enable, unmask_irq, write_mask, get_mask, Pic, Line
    <3>2. BootType'
      BY <3>1 DEF Drivers
    <3>3. MasksKnown' /\ GatesSet' /\ OnlyPageFault'
      BY <3>1 DEF MasksKnown, GatesSet, OnlyPageFault
    <3>4. HandlersSet'
      BY <3>1 DEF HandlersSet
    <3>5. FlagsKnown'
      BY <3>1 DEF FlagsKnown, Drivers
    <3> QED BY <3>2, <3>3, <3>4, <3>5
  <2> QED BY <2>1, <2>2
<1>2. CASE AddRtc
  BY <1>2 DEF AddRtc, MasksKnown, GatesSet, HandlersSet, FlagsKnown, OnlyPageFault
<1>3. CASE HookUpdateTime
  BY <1>3 DEF HookUpdateTime, Hook, MasksKnown, GatesSet, HandlersSet, FlagsKnown, OnlyPageFault
<1>4. CASE SchedulerInit
  BY <1>4 DEF SchedulerInit, Hook, MasksKnown, GatesSet, HandlersSet, FlagsKnown, OnlyPageFault
<1> QED BY <1>1, <1>2, <1>3, <1>4

\* Drivers are switched in the monitor only: the stages before it have nothing to lose.
LEMMA SwitchKeepsInv ==
  ASSUME BootInv, NEW d \in DriverIrqs, Switch(d[1], d[2])
  PROVE  BootInv'
<1> USE DEF BootInv, BootType, Stages, Timer, Later, Shut, Early, Clearing, Installing
<1>1. /\ pc = <<"monitor", 0>>
      /\ UNCHANGED <<pc, gates, irq_handlers, pending, panicked, saved, config>>
      /\ irq_handlers[d[2]] # NoHandler \/ d[1] = "rtc"
  BY DEF Switch, At, ps2Vars
<1>2. \/ d[1] = "ps2" /\ d[2] = 1
      \/ d[1] = "pit" /\ d[2] = 0
      \/ d[1] = "rtc" /\ d[2] = 8
  BY DEF DriverIrqs
<1>3. /\ \A irq \in {0, 1} : irq \notin masked[1] => irq_handlers[irq] # NoHandler
      /\ Lines \ {0, 1} \subseteq masked[1] /\ Lines \ {0} \subseteq masked[2]
  BY <1>1 DEF MasksKnown, HandlersSet
<1>4. GatesSet' /\ OnlyPageFault'
  BY <1>1 DEF GatesSet, OnlyPageFault
<1> SUFFICES /\ enabled' \in [Drivers -> BOOLEAN] /\ masked' \in [1 .. 2 -> SUBSET Lines]
             /\ Lines \ {0, 1} \subseteq masked'[1] /\ Lines \ {0} \subseteq masked'[2]
             /\ \A irq \in {0, 1} : irq \notin masked'[1] => irq_handlers[irq] # NoHandler
             /\ ~crossed' =>
                  /\ 1 \notin masked'[1] => enabled'["ps2"]
                  /\ enabled'["pit"] <=> 0 \notin masked'[1]
                  /\ enabled'["rtc"] <=> 0 \notin masked'[2]
  BY <1>1, <1>4 DEF MasksKnown, HandlersSet, FlagsKnown
<1>5. ~crossed =>
        /\ 1 \notin masked[1] => enabled["ps2"]
        /\ enabled["pit"] <=> 0 \notin masked[1]
        /\ enabled["rtc"] <=> 0 \notin masked[2]
  BY <1>1 DEF FlagsKnown
<1> USE DEF Drivers, Lines
<1>6. CASE disable(d[1], d[2]) /\ crossed' = (crossed \/ Pic(d[2]) = 2)
  <2> USE DEF disable, mask_irq, write_mask, get_mask, Pic, Line
  <2>1. CASE d[1] = "ps2" /\ d[2] = 1
    <3>1. /\ enabled' = [enabled EXCEPT !["ps2"] = FALSE]
          /\ masked' = [masked EXCEPT ![1] = masked[1] \cup {1}]
      BY <1>6, <2>1
    <3>2. crossed => crossed'
      BY <1>6, Zenon
    <3> QED BY <1>3, <1>5, <3>1, <3>2
  <2>2. CASE d[1] = "pit" /\ d[2] = 0
    <3>1. /\ enabled' = [enabled EXCEPT !["pit"] = FALSE]
          /\ masked' = [masked EXCEPT ![1] = masked[1] \cup {0}]
      BY <1>6, <2>2
    <3>2. crossed => crossed'
      BY <1>6, Zenon
    <3> QED BY <1>3, <1>5, <3>1, <3>2
  <2>3. CASE d[1] = "rtc" /\ d[2] = 8
    <3>1. /\ enabled' = [enabled EXCEPT !["rtc"] = FALSE]
          /\ masked' = [masked EXCEPT ![1] = masked[2] \cup {0}]
      BY <1>6, <2>3
    <3>2. crossed'
      <4>1. Pic(d[2]) = 2
        BY <2>3
      <4> QED BY <1>6, <4>1, Zenon
    <3> QED BY <1>3, <3>1, <3>2
  <2> QED BY <1>2, <2>1, <2>2, <2>3
<1>7. CASE enable(d[1], d[2]) /\ UNCHANGED crossed
  <2> USE DEF enable, unmask_irq, write_mask, get_mask, Pic, Line
  <2>1. CASE d[1] = "ps2" /\ d[2] = 1
    <3>1. /\ enabled' = [enabled EXCEPT !["ps2"] = TRUE]
          /\ masked' = [masked EXCEPT ![1] = masked[1] \ {1}]
      BY <1>7, <2>1
    <3> QED BY <1>1, <1>3, <1>5, <1>7, <2>1, <3>1
  <2>2. CASE d[1] = "pit" /\ d[2] = 0
    <3>1. /\ enabled' = [enabled EXCEPT !["pit"] = TRUE]
          /\ masked' = [masked EXCEPT ![1] = masked[1] \ {0}]
      BY <1>7, <2>2
    <3> QED BY <1>1, <1>3, <1>5, <1>7, <2>2, <3>1
  <2>3. CASE d[1] = "rtc" /\ d[2] = 8
    <3>1. /\ enabled' = [enabled EXCEPT !["rtc"] = TRUE]
          /\ masked' = [masked EXCEPT ![2] = masked[2] \ {0}]
      BY <1>7, <2>3
    <3> QED BY <1>3, <1>5, <1>7, <2>3, <3>1
  <2> QED BY <1>2, <2>1, <2>2, <2>3
<1> QED BY <1>6, <1>7 DEF Switch

\* Whatever can be delivered has a gate, and is one of the two.
LEMMA DeliverableKnown ==
  ASSUME BootInv, NEW irq \in Irqs, Deliverable(irq)
  PROVE  /\ irq \in {0, 1}
         /\ gates[Vector(irq)] # NoGate
         /\ pc[1] \notin Clearing => irq_handlers[irq] # NoHandler
<1>1. irq \in {0, 1}
  BY DEF BootInv, MasksKnown, Deliverable
<1>2. irq \notin masked[1]
  BY <1>1 DEF Deliverable, Passes, Pic, Line
<1>3. pc[1] \notin Shut
  BY <1>1, <1>2 DEF BootInv, MasksKnown, Lines
<1>4. gates[Vector(irq)] # NoGate
  BY <1>1, <1>3 DEF BootInv, GatesSet, Shut, Vector
<1> QED BY <1>1, <1>2, <1>4 DEF BootInv, HandlersSet

LEMMA InterruptKeepsInv ==
  ASSUME BootInv, NEW irq \in Irqs, Interrupt(irq)
  PROVE  BootInv'
<1>1. gates[Vector(irq)] # NoGate
  BY DeliverableKnown DEF Interrupt
<1>2. /\ UNCHANGED <<pc, gates, irq_handlers, masked, enabled, saved, crossed, config, panicked>>
      /\ pending' \subseteq pending
  BY <1>1 DEF Interrupt, irq_stub, deviceVars, bootVars
<1> QED BY <1>2 DEF BootInv, BootType, MasksKnown, GatesSet, HandlersSet, FlagsKnown, OnlyPageFault

\* The second port's line is masked, or its interrupt is not on yet.
LEMMA RequestsKnown ==
  ASSUME BootInv, NEW p \in Ports, RaiseIrq(p)
  PROVE  pending' \subseteq {0, 1}
<1>1. CASE p = Port1
  BY <1>1 DEF BootInv, MasksKnown, RaiseIrq, IrqOf
<1>2. CASE p = Port2
  <2>1. Port2 \in config.int /\ 4 \notin masked[2]
    BY <1>2 DEF RaiseIrq, IrqOf, Line, Port1, Port2
  <2>2. pc[1] \notin Clearing
    BY <2>1 DEF BootInv, MasksKnown, Port1, Port2
  <2> QED BY <2>1, <2>2 DEF BootInv, MasksKnown, Lines
<1> QED BY <1>1, <1>2 DEF Ports, Port1, Port2

LEMMA HardwareKeepsInv ==
  ASSUME BootInv, TimerIrq \/ HardwareStep
  PROVE  BootInv'
<1>1. UNCHANGED <<pc, gates, irq_handlers, masked, enabled, saved, crossed, config, panicked>>
  <2>1. CASE TimerIrq
    BY <2>1 DEF TimerIrq, ps2Vars, deviceVars, bootVars
  <2>2. CASE HardwareStep
    BY <2>2 DEF HardwareStep, Hardware, DeviceSends, RaiseIrq, hardware, installer, tree,
                interruptVars, bootVars
  <2> QED BY <2>1, <2>2
<1>2. pending' \subseteq {0, 1}
  <2>1. CASE TimerIrq
    BY <2>1 DEF TimerIrq, BootInv, MasksKnown
  <2>2. ASSUME NEW p \in Ports, DeviceSends(p) PROVE pending' \subseteq {0, 1}
    BY <2>2 DEF DeviceSends, interruptVars, BootInv, MasksKnown
  <2> QED BY <2>1, <2>2, RequestsKnown DEF HardwareStep, Hardware
<1> QED BY <1>1, <1>2 DEF BootInv, BootType, MasksKnown, GatesSet, HandlersSet, FlagsKnown, OnlyPageFault

(***************************************************************************)
(* The theorems.                                                           *)
(***************************************************************************)
LEMMA InitBoot == Init => BootInv
<1> SUFFICES ASSUME Init PROVE BootInv
  OBVIOUS
<1>1. pc = <<"gdt", 0>> /\ config.int \subseteq {Port1}
  BY DEF Init, Ps2Init
<1>2. /\ gates \in [Vectors -> Int] /\ irq_handlers \in [Irqs -> {NoHandler}]
      /\ masked = [p \in 1 .. 2 |-> Lines] /\ saved = [p \in 1 .. 2 |-> Lines]
      /\ pending = {} /\ panicked = None
  BY DEF Init, InterruptsInit, NoGate
<1>3. enabled \in [Drivers -> BOOLEAN] /\ ~enabled["pit"] /\ ~enabled["rtc"]
  BY DEF Init, DevicesInit, Drivers
<1> QED
  BY <1>1, <1>2, <1>3 DEF BootInv, BootType, MasksKnown, GatesSet, HandlersSet, FlagsKnown,
     OnlyPageFault, Stages, Shut, Early, Clearing, Installing, Timer, Later, Lines

LEMMA NextKeepsBoot == BootInv /\ [Next]_vars => BootInv'
<1> SUFFICES ASSUME BootInv, [Next]_vars PROVE BootInv'
  OBVIOUS
<1>1. CASE Boots
  BY <1>1, InstallKeepsInv, ResetKeepsInv, TimerKeepsInv, ClockKeepsInv DEF Boots
<1>2. CASE UNCHANGED vars
  BY <1>2 DEF vars, ps2Vars, deviceVars, interruptVars, bootVars, BootInv, BootType, MasksKnown,
              GatesSet, HandlersSet, FlagsKnown, OnlyPageFault
<1> QED BY <1>1, <1>2, SwitchKeepsInv, InterruptKeepsInv, HardwareKeepsInv DEF Next

\* The inductive invariant holds in every state.
LEMMA BootInvariant == Spec => []BootInv
BY InitBoot, NextKeepsBoot, PTL DEF Spec

\* No interrupt is delivered before its gate is set and, but for the moment init_pic has
\* the masks cleared, before its handler is installed.
THEOREM InterruptsAreExpected == Spec => []NoStrayInterrupt
<1>1. BootInv => NoStrayInterrupt
  BY DeliverableKnown DEF NoStrayInterrupt, Clearing
<1> QED BY <1>1, BootInvariant, PTL

\* In the monitor, each driver's flag agrees with the mask of its line, however often the
\* drivers are disabled and enabled, until a line of PIC 2 is masked.
THEOREM FlagsAgreeWithMasks == Spec => []FlagsMatchMasks
<1>1. BootInv => FlagsMatchMasks
  <2> SUFFICES ASSUME BootInv, Running, ~crossed, NEW d \in DriverIrqs
               PROVE  LET open == Line(d[2]) \notin masked[Pic(d[2])]
                      IN  (open => enabled[d[1]]) /\ (enabled[d[1]] /\ d[1] # "ps2" => open)
    BY DEF FlagsMatchMasks
  <2>1. /\ 1 \notin masked[1] => enabled["ps2"]
        /\ enabled["pit"] <=> 0 \notin masked[1]
        /\ enabled["rtc"] <=> 0 \notin masked[2]
    BY DEF BootInv, FlagsKnown, Running, At, Later
  <2>2. \/ d[1] = "ps2" /\ Line(d[2]) = 1 /\ Pic(d[2]) = 1
        \/ d[1] = "pit" /\ Line(d[2]) = 0 /\ Pic(d[2]) = 1
        \/ d[1] = "rtc" /\ Line(d[2]) = 0 /\ Pic(d[2]) = 2
    BY DEF DriverIrqs, Line, Pic
  <2> QED BY <2>1, <2>2
<1> QED BY <1>1, BootInvariant, PTL

\* What the boot can panic for is the page fault of printing a device whose name was never
\* set (detect_device_port1 and detect_device_port2): never a missing gate.
THEOREM OnlyNamesPanic == Spec => [](panicked \in {None, 14})
BY BootInvariant, PTL DEF BootInv, OnlyPageFault

(***************************************************************************)
(* The ports.  A port stays enabled only if three acknowledgements are     *)
(* read after what was sent to it.  No byte says which port it is from, so *)
(* those of the first port could be taken for the second one's: but they   *)
(* are too few.  The first port's late ones are left only if it was        *)
(* disabled, and then nothing more is sent to it.                          *)
(***************************************************************************)
\* What can be in front of the output buffer up to the resets.
Codes == {"FA", "AA", "00", "01", "55", "FC", "config", "key"}
Items == (0 .. 2) \X Codes

AckFree(s) == s \in Seq(Items) /\ \A i \in 1 .. Len(s) : s[i][2] # "FA"

OneAck(s) ==
  /\ s \in Seq(Items)
  /\ \A i, j \in 1 .. Len(s) : s[i][2] = "FA" /\ s[j][2] = "FA" => i = j

\* The ports whose device gets what is sent to it.
Heard == {p \in Ports : Listens(p)}

\* No acknowledgement can be read, and not the same one again either.
Quiet == data # "FA" /\ AckFree(output)

\* One can.
AtMostOne == OneAck(output) /\ (data = "FA" => AckFree(output))

BeforeReset ==
  Early \cup Clearing \cup {"sti"} \cup
  {"disable", "flush", "ask", "answer", "set", "self_test", "verdict", "dual",
   "disable_again", "test", "result", "enable"}

\* From the acknowledgement of stop on.
Asking == {"stop_ack", "identify", "identify_ack", "read"}

Detecting == {"detect"} \cup Asking

Settled == {"last_flush", "handler", "unmask"} \cup Timer \cup Later

FirstHeard == Port1 \in port_enabled => Port1 \in Heard
FirstWorks == Port1 \in port_enabled => Port1 \in Heard \cap scanning

Resets ==
  /\ pc = <<"reset", Port1>> => Quiet
  /\ pc = <<"reset_ack", Port1>> =>
       data # "FA" /\ OneAck(output) /\ (Port1 \notin Heard => AckFree(output))
  /\ pc = <<"reset_test", Port1>> => Port1 \in Heard /\ AckFree(output)
  /\ pc = <<"reset", Port2>> =>
       FirstHeard /\ AtMostOne /\ (Port1 \in port_enabled => Quiet)
  /\ pc = <<"reset_ack", Port2>> =>
       FirstHeard /\ (Port2 \notin Heard => AtMostOne /\ (Port1 \in port_enabled => Quiet))
  /\ pc = <<"reset_test", Port2>> =>
       FirstHeard /\ (Port2 \notin Heard => Port1 \notin port_enabled /\ AckFree(output))

Detection ==
  /\ pc = <<"detect", Port1>> =>
       /\ FirstHeard
       /\ Port2 \in port_enabled \ Heard => Port1 \notin port_enabled /\ Quiet
  /\ \A stage \in Asking : pc = <<stage, Port1>> =>
       Port1 \in Heard /\ Port2 \notin port_enabled \ Heard
  /\ pc = <<"detect", Port2>> =>
       FirstWorks /\ (Port2 \in port_enabled \ Heard => Quiet)
  /\ pc = <<"stop_ack", Port2>> => FirstWorks /\ (Port2 \notin Heard => Quiet)
  /\ \A stage \in Asking \ {"stop_ack"} : pc = <<stage, Port2>> =>
       FirstWorks /\ Port2 \in Heard

PortsInv ==
  /\ config \in Configs /\ conf \in Configs
  /\ port_enabled \subseteq Ports
  /\ pc[1] \in Early \cup Clearing \cup {"sti"} => port_enabled = {}
  /\ pc = <<"set", 3>> => port_enabled \subseteq conf.int
  /\ KeepsConfig /\ pc[1] \notin BeforeReset => port_enabled \subseteq config.int
  /\ pc[1] \in BeforeReset => Quiet
  /\ KeepsConfig /\ ~skipped =>
       /\ Resets
       /\ Detection
       /\ pc[1] \in Settled => port_enabled \subseteq Heard \cap scanning

\* The controller is one of the given ones, and it has a prefix without its byte only after
\* a write to the second port has failed: up to the next byte, which is the first one sent
\* by the detection, or for good.
AfterPrefix == {<<"reset_ack", Port2>>, <<"reset_test", Port2>>} \cup {<<"detect", p>> : p \in Ports}

ControllerInv == board \in Boards /\ (prefix => pc \in AfterPrefix \/ pc[1] \in Settled)

LEMMA AckFreeIsOne ==
  ASSUME NEW s, AckFree(s)
  PROVE  OneAck(s)
BY DEF AckFree, OneAck

\* Reading the first k bytes.
LEMMA Suffix ==
  ASSUME NEW S, NEW s \in Seq(S), NEW k \in 0 .. Len(s)
  PROVE  LET t == SubSeq(s, k + 1, Len(s))
         IN  /\ t \in Seq(S) /\ Len(t) = Len(s) - k
             /\ \A i \in 1 .. Len(t) : t[i] = s[i + k] /\ i + k \in 1 .. Len(s)
<1> DEFINE t == SubSeq(s, k + 1, Len(s))
<1>1. Len(s) \in Nat /\ k \in Nat /\ k <= Len(s)
  OBVIOUS
<1>2. t \in Seq(S) /\ Len(t) = Len(s) - k
  BY <1>1
<1>3. \A i \in 1 .. Len(s) - k : t[i] = s[i + k] /\ i + k \in 1 .. Len(s)
  BY <1>1
<1> HIDE DEF t
<1> QED
  BY <1>2, <1>3 DEF t

LEMMA AckFreeSuffix ==
  ASSUME NEW s, AckFree(s), NEW k \in 0 .. Len(s)
  PROVE  AckFree(SubSeq(s, k + 1, Len(s)))
<1>1. s \in Seq(Items) /\ \A i \in 1 .. Len(s) : s[i][2] # "FA"
  BY DEF AckFree
<1>2. PICK t : t = SubSeq(s, k + 1, Len(s))
  OBVIOUS
<1>3. /\ t \in Seq(Items)
      /\ \A i \in 1 .. Len(t) : t[i] = s[i + k] /\ i + k \in 1 .. Len(s)
  BY <1>1, <1>2, Suffix
<1>4. AckFree(t)
  BY <1>1, <1>3 DEF AckFree
<1> QED
  BY <1>2, <1>4

LEMMA OneAckSuffix ==
  ASSUME NEW s, OneAck(s), NEW k \in 0 .. Len(s)
  PROVE  /\ OneAck(SubSeq(s, k + 1, Len(s)))
         /\ k > 0 /\ s[k][2] = "FA" => AckFree(SubSeq(s, k + 1, Len(s)))
<1>1. s \in Seq(Items) /\ Len(s) \in Nat
  BY DEF OneAck
<1>2. PICK t : t = SubSeq(s, k + 1, Len(s))
  OBVIOUS
<1>3. /\ t \in Seq(Items) /\ Len(t) = Len(s) - k
      /\ \A i \in 1 .. Len(t) : t[i] = s[i + k] /\ i + k \in 1 .. Len(s)
  BY <1>1, <1>2, Suffix
<1>4. \A i, j \in 1 .. Len(s) : s[i][2] = "FA" /\ s[j][2] = "FA" => i = j
  BY DEF OneAck
<1>5. OneAck(t)
  <2> SUFFICES ASSUME NEW i \in 1 .. Len(t), NEW j \in 1 .. Len(t),
                      t[i][2] = "FA", t[j][2] = "FA"
               PROVE  i = j
    BY <1>3 DEF OneAck
  <2>1. i + k = j + k
    BY <1>3, <1>4
  <2> QED
    BY <1>1, <2>1
<1>6. ASSUME k > 0, s[k][2] = "FA"
      PROVE  AckFree(t)
  <2> SUFFICES ASSUME NEW i \in 1 .. Len(t), t[i][2] = "FA"
               PROVE  FALSE
    BY <1>3 DEF AckFree
  <2>1. k \in 1 .. Len(s)
    BY <1>1, <1>6
  <2>2. i + k = k
    BY <1>3, <1>4, <1>6, <2>1
  <2> QED
    BY <1>1, <1>3, <2>2
<1> QED
  BY <1>2, <1>5, <1>6

\* A byte is added.
LEMMA ItemAdded ==
  ASSUME NEW s \in Seq(Items), NEW e \in Items, e[2] # "FA"
  PROVE  /\ AckFree(s) => AckFree(s \o <<e>>)
         /\ OneAck(s) => OneAck(s \o <<e>>)
<1>1. PICK t : t = s \o <<e>>
  OBVIOUS
<1>2. Len(s) \in Nat
  OBVIOUS
<1>3. /\ t \in Seq(Items) /\ Len(t) = Len(s) + 1
      /\ t[Len(s) + 1] = e /\ \A i \in 1 .. Len(s) : t[i] = s[i]
  BY <1>1
<1>4. \A i \in 1 .. Len(t) : i \in 1 .. Len(s) \/ i = Len(s) + 1
  BY <1>2, <1>3
<1>5. AckFree(s) => AckFree(t)
  BY <1>3, <1>4 DEF AckFree
<1>6. OneAck(s) => OneAck(t)
  <2> SUFFICES ASSUME OneAck(s), NEW i \in 1 .. Len(t), NEW j \in 1 .. Len(t),
                      t[i][2] = "FA", t[j][2] = "FA"
               PROVE  i = j
    BY <1>3 DEF OneAck
  <2>1. i \in 1 .. Len(s) /\ j \in 1 .. Len(s)
    BY <1>3, <1>4
  <2> QED
    BY <1>3, <2>1 DEF OneAck
<1> QED
  BY <1>1, <1>5, <1>6

LEMMA Joined ==
  ASSUME NEW S, NEW a \in Seq(S), NEW b \in Seq(S), NEW t, t = a \o b
  PROVE  /\ t \in Seq(S) /\ Len(t) = Len(a) + Len(b)
         /\ \A i \in 1 .. Len(t) : t[i] = IF i <= Len(a) THEN a[i] ELSE b[i - Len(a)]
<1>1. t \in Seq(S) /\ Len(t) = Len(a) + Len(b) /\ Len(a) \in Nat /\ Len(b) \in Nat
  OBVIOUS
<1>2. \A i \in 1 .. Len(a) + Len(b) : t[i] = IF i <= Len(a) THEN a[i] ELSE b[i - Len(a)]
  OBVIOUS
<1> QED
  BY <1>1, <1>2

\* What a device answers to a reset has one acknowledgement.
LEMMA ResetReply ==
  ASSUME NEW s, AckFree(s)
  PROVE  OneAck(s \o From(Port1, Reply(Port1, "reset")))
<1>1. PICK r : r = Reply(Port1, "reset")
  OBVIOUS
<1>2. r \in Seq(Codes) /\ Len(r) \in Nat /\ \A i \in 1 .. Len(r) : r[i] = "FA" => i = 1
  <2>1. <<"FA", "AA">> \o <<"00">> = Append(<<"FA", "AA">>, "00")
    OBVIOUS
  <2>2. <<"FA", "AA", "00">> = Append(<<"FA", "AA">>, "00")
    OBVIOUS
  <2>3. <<"FA", "AA">> \o << >> = <<"FA", "AA">>
    OBVIOUS
  <2>4. r = <<"FA", "AA">> \o (IF board.attached[Port1] = "mouse" THEN <<"00">> ELSE << >>)
    BY <1>1, Zenon DEF Reply
  <2>5. r = <<"FA", "AA", "00">> \/ r = <<"FA", "AA">>
    BY <2>1, <2>2, <2>3, <2>4, Zenon
  <2>6. CASE r = <<"FA", "AA", "00">>
    BY <2>6 DEF Codes
  <2>7. CASE r = <<"FA", "AA">>
    BY <2>7 DEF Codes
  <2> QED
    BY <2>5, <2>6, <2>7
<1>3. PICK f : f = From(Port1, r)
  OBVIOUS
<1>4. f \in Seq(Items) /\ \A i \in 1 .. Len(f) : f[i][2] = "FA" => i = 1
  <2>1. f = [i \in 1 .. Len(r) |-> <<1, r[i]>>]
    BY <1>2, <1>3 DEF From, Port1
  <2>2. \A i \in 1 .. Len(r) : <<1, r[i]>> \in Items
    BY <1>2 DEF Items
  <2>3. f \in Seq(Items) /\ Len(f) = Len(r)
    BY <1>2, <2>1, <2>2
  <2>4. \A i \in 1 .. Len(r) : f[i][2] = r[i]
    BY <2>1
  <2> QED
    BY <1>2, <2>3, <2>4
<1>5. s \in Seq(Items) /\ Len(s) \in Nat /\ Len(f) \in Nat
  BY <1>4 DEF AckFree
<1>6. PICK t : t = s \o f
  OBVIOUS
<1>7. /\ t \in Seq(Items) /\ Len(t) = Len(s) + Len(f)
      /\ \A i \in 1 .. Len(s) : t[i] = s[i]
      /\ \A i \in 1 .. Len(t) : i > Len(s) => t[i] = f[i - Len(s)]
  BY <1>4, <1>5, <1>6
<1>8. ASSUME NEW i \in 1 .. Len(t), t[i][2] = "FA"
      PROVE  i = Len(s) + 1
  <2>1. ~(i <= Len(s))
    <3> SUFFICES ASSUME i <= Len(s) PROVE FALSE
      OBVIOUS
    <3>1. i \in 1 .. Len(s)
      BY <1>5
    <3> QED
      BY <1>7, <1>8, <3>1 DEF AckFree
  <2>2. i > Len(s) /\ i - Len(s) \in 1 .. Len(f)
    BY <1>5, <1>7, <2>1
  <2>3. i - Len(s) = 1
    BY <1>4, <1>7, <1>8, <2>2
  <2> QED
    BY <1>5, <2>3
<1>9. OneAck(t)
  BY <1>7, <1>8 DEF OneAck
<1> QED
  BY <1>1, <1>3, <1>6, <1>9

(***************************************************************************)
(* Reading and waiting.                                                    *)
(***************************************************************************)
LEMMA BytesRead ==
  ASSUME NEW k \in 0 .. Len(output), data' = Last(k),
         output' = SubSeq(output, k + 1, Len(output))
  PROVE  /\ AckFree(output) => AckFree(output')
         /\ Quiet => Quiet'
         /\ AtMostOne => AtMostOne'
         /\ AtMostOne /\ data' = "FA" => AckFree(output')
         /\ AckFree(output) /\ data' # "FA" => Quiet'
<1>1. PICK s : s = output
  OBVIOUS
<1>2. PICK t : t = output'
  OBVIOUS
<1>3. k \in 0 .. Len(s) /\ t = SubSeq(s, k + 1, Len(s))
  BY <1>1, <1>2
<1>4. AckFree(s) => AckFree(t)
  BY <1>3, AckFreeSuffix
<1>5. OneAck(s) => OneAck(t)
  BY <1>3, OneAckSuffix
<1>6. OneAck(s) /\ k > 0 /\ s[k][2] = "FA" => AckFree(t)
  BY <1>3, OneAckSuffix
<1>7. k = 0 \/ k > 0
  OBVIOUS
<1>8. data' = IF k = 0 THEN data ELSE s[k][2]
  BY <1>1 DEF Last
<1>9. AckFree(s) /\ data # "FA" => data' # "FA"
  <2>1. k > 0 => k \in 1 .. Len(s)
    BY <1>3
  <2> QED
    BY <1>7, <1>8, <2>1 DEF AckFree
<1>10. OneAck(s) /\ (data = "FA" => AckFree(s)) /\ data' = "FA" => AckFree(t)
  BY <1>4, <1>6, <1>7, <1>8
<1> QED
  BY <1>1, <1>2, <1>4, <1>5, <1>9, <1>10 DEF Quiet, AtMostOne

LEMMA OneByteRead ==
  ASSUME ReadAnswer, Quiet
  PROVE  Quiet'
<1>1. PICK s : s = output
  OBVIOUS
<1>2. s \in Seq(Items) /\ s # << >>
  BY <1>1 DEF Quiet, AckFree, ReadAnswer
<1>3. 1 \in 0 .. Len(s) /\ Tail(s) = SubSeq(s, 1 + 1, Len(s))
  BY <1>2
<1>4. data' = Last(1) /\ output' = SubSeq(output, 1 + 1, Len(output)) /\ 1 \in 0 .. Len(output)
  BY <1>1, <1>3 DEF ReadAnswer, Last
<1> QED
  BY <1>4, BytesRead

LEMMA Answered ==
  ASSUME Quiet, NEW e \in Items, e[2] # "FA", Answer(<<e>>), UNCHANGED data
  PROVE  Quiet'
<1>1. PICK s : s = output
  OBVIOUS
<1>2. AckFree(s \o <<e>>)
  BY <1>1, ItemAdded DEF Quiet, AckFree
<1> QED
  BY <1>1, <1>2 DEF Quiet, Answer

LEMMA NothingRead ==
  ASSUME UNCHANGED <<output, data>>
  PROVE  /\ AckFree(output) => AckFree(output')
         /\ OneAck(output) => OneAck(output')
         /\ Quiet => Quiet'
         /\ AtMostOne => AtMostOne'
BY DEF Quiet, AtMostOne

LEMMA StillHeard ==
  ASSUME UNCHANGED <<config, board>>
  PROVE  Heard' = Heard
BY DEF Heard, Listens

LEMMA QuietIsOne ==
  ASSUME Quiet
  PROVE  AtMostOne
BY AckFreeIsOne DEF Quiet, AtMostOne

(***************************************************************************)
(* The controller, and the prefix it can be left with.                     *)
(***************************************************************************)
\* Where there is no prefix, or it may stay, it does no harm to leave it alone.
LEMMA PrefixLeft ==
  ASSUME ControllerInv, UNCHANGED <<board, prefix>>,
         pc \in AfterPrefix \/ pc[1] \in Settled => pc' \in AfterPrefix \/ pc'[1] \in Settled
  PROVE  ControllerInv'
BY DEF ControllerInv, AfterPrefix, Settled

LEMMA PrefixStages ==
  ASSUME pc[1] \notin {"reset_ack", "reset_test", "detect"} \cup Settled
  PROVE  pc \notin AfterPrefix /\ pc[1] \notin Settled
BY DEF AfterPrefix

LEMMA WriteKeepsPrefix ==
  ASSUME NEW p \in Ports, NEW waiting, NEW cmd, NEW success \in BOOLEAN,
         Write(p, waiting, cmd, success)
  PROVE  prefix' => p = Port2 /\ ~success
BY DEF Write, writeb_device2, Port1, Port2

LEMMA InstallControllerKeeps ==
  ASSUME ControllerInv, InstallController
  PROVE  ControllerInv'
<1> USE DEF At, Goto, Command, background
<1>1. UNCHANGED <<board, prefix>>
  BY DEF InstallController, FlushOutputBuffer, SelfTest, SelfTestVerdict, EnableDualChannel,
         LastFlush, InstallKeyboardHandler, UnmaskKeyboard, AskConfig, GetConfig, SetConfig, ps2Vars
<1>2. \/ /\ pc[1] \in {"flush", "self_test", "verdict", "dual", "ask", "answer", "set"}
      \/ /\ pc[1] \in {"last_flush", "handler", "unmask"}
         /\ pc'[1] \in {"handler", "unmask", "pit"}
  BY DEF InstallController, FlushOutputBuffer, SelfTest, SelfTestVerdict, EnableDualChannel,
         LastFlush, InstallKeyboardHandler, UnmaskKeyboard, AskConfig, GetConfig, SetConfig
<1>3. CASE pc[1] \in {"flush", "self_test", "verdict", "dual", "ask", "answer", "set"}
  <2>1. pc[1] \notin {"reset_ack", "reset_test", "detect"} \cup Settled
    BY <1>3 DEF Settled, Timer, Later
  <2> QED
    BY <1>1, <2>1, PrefixStages, PrefixLeft
<1>4. CASE pc'[1] \in {"handler", "unmask", "pit"}
  <2>1. pc'[1] \in Settled
    BY <1>4 DEF Settled, Timer
  <2> QED
    BY <1>1, <2>1, PrefixLeft
<1> QED
  BY <1>2, <1>3, <1>4

\* Every other write than those of the first reset and of the second port clears it.
LEMMA InstallPortsKeep ==
  ASSUME ControllerInv, NEW p \in Ports, InstallPorts(p)
  PROVE  ControllerInv'
<1> USE DEF At, Goto, NextPort, background, Ports, Port1, Port2
<1>1. ASSUME DisablePort(p) \/ TestPort(p) \/ TestResult(p) \/ EnablePort(p) PROVE ControllerInv'
  <2>1. /\ UNCHANGED <<board, prefix>>
        /\ pc[1] \in {"disable", "disable_again", "test", "result", "enable"}
    BY <1>1 DEF DisablePort, TestPort, TestResult, EnablePort, Command
  <2>2. pc[1] \notin {"reset_ack", "reset_test", "detect"} \cup Settled
    BY <2>1 DEF Settled, Timer, Later
  <2> QED
    BY <2>1, <2>2, PrefixStages, PrefixLeft
<1>2. ASSUME ResetPort(p) PROVE ControllerInv'
  <2>1. ~prefix /\ UNCHANGED board
    BY <1>2 DEF ResetPort, ControllerInv, AfterPrefix, Settled, Timer, Later
  <2>2. CASE UNCHANGED prefix
    BY <2>1, <2>2 DEF ControllerInv
  <2>3. CASE pc' = <<"reset_ack", p>> /\ \E success \in BOOLEAN : Write(p, output, "reset", success)
    <3>1. prefix' => p = Port2
      BY <2>3, WriteKeepsPrefix
    <3> QED
      BY <2>1, <2>3, <3>1 DEF ControllerInv, AfterPrefix
  <2> QED
    BY <1>2, <2>2, <2>3 DEF ResetPort
<1>3. ASSUME ResetAck(p) \/ ResetSelfTest(p) PROVE ControllerInv'
  <2>1. /\ UNCHANGED <<board, prefix>>
        /\ \/ pc = <<"reset_ack", p>> /\ pc' = <<"reset_test", p>>
           \/ /\ pc[1] \in {"reset_ack", "reset_test"} /\ pc[2] = p
              /\ IF p = Port1 THEN pc' = <<"reset", Port2>> ELSE pc' = <<"detect", Port1>>
    BY <1>3 DEF ResetAck, ResetSelfTest
  <2>2. CASE p = Port2
    BY <2>1, <2>2, PrefixLeft DEF AfterPrefix
  <2>3. CASE p = Port1
    <3>1. pc \notin AfterPrefix /\ pc[1] \notin Settled
      BY <2>1, <2>3 DEF AfterPrefix, Settled, Timer, Later
    <3> QED
      BY <2>1, <3>1, PrefixLeft
  <2> QED
    BY <2>2, <2>3
<1>4. ASSUME NEW cmd, NEW next, Request(p, cmd, next), UNCHANGED board PROVE ControllerInv'
  <2>1. PICK success \in BOOLEAN :
          /\ Write(p, output, cmd, success)
          /\ success \/ NextPort("detect", "last_flush", p)
    BY <1>4 DEF Request
  <2>2. prefix' => p = Port2 /\ ~success
    BY <2>1, WriteKeepsPrefix
  <2>3. prefix' => pc'[1] \in Settled
    BY <2>1, <2>2 DEF Settled
  <2> QED
    BY <1>4, <2>3 DEF ControllerInv
<1>5. ASSUME DetectDevice(p) PROVE ControllerInv'
  <2>1. UNCHANGED board
    BY <1>5 DEF DetectDevice
  <2>2. CASE NextPort("detect", "last_flush", p) /\ UNCHANGED prefix
    <3>1. pc' \in AfterPrefix \/ pc'[1] \in Settled
      BY <2>2 DEF AfterPrefix, Settled
    <3> QED
      BY <2>1, <2>2, <3>1, PrefixLeft
  <2> QED
    BY <1>4, <1>5, <2>1, <2>2 DEF DetectDevice
<1>6. ASSUME RequestIdentify(p) PROVE ControllerInv'
  BY <1>4, <1>6 DEF RequestIdentify
<1>7. ASSUME IdentifyDevice(p) PROVE ControllerInv'
  <2>1. PICK km \in Identity, success \in BOOLEAN :
          Write(p, SubSeq(output, km[2] + 1, Len(output)), "start", success)
    BY <1>7 DEF IdentifyDevice
  <2>2. UNCHANGED board /\ NextPort("detect", "last_flush", p)
    BY <1>7, Zenon DEF IdentifyDevice
  <2>3. prefix' => p = Port2
    BY <2>1, WriteKeepsPrefix
  <2>4. prefix' => pc'[1] \in Settled
    BY <2>2, <2>3 DEF Settled
  <2> QED
    BY <2>2, <2>4 DEF ControllerInv
<1>8. ASSUME DetectAck(p, "stop_ack", "identify") \/ DetectAck(p, "identify_ack", "read")
      PROVE  ControllerInv'
  <2>1. UNCHANGED <<board, prefix>> /\ pc[1] \in {"stop_ack", "identify_ack"}
    BY <1>8 DEF DetectAck
  <2>2. pc[1] \notin {"reset_ack", "reset_test", "detect"} \cup Settled
    BY <2>1 DEF Settled, Timer, Later
  <2> QED
    BY <2>1, <2>2, PrefixStages, PrefixLeft
<1> QED
  BY <1>1, <1>2, <1>3, <1>5, <1>6, <1>7, <1>8 DEF InstallPorts

LEMMA BootKeepsController ==
  ASSUME ControllerInv, Boots
  PROVE  ControllerInv'
<1> USE DEF At, Goto
<1>1. CASE InstallPs2
  BY <1>1, InstallControllerKeeps, InstallPortsKeep DEF InstallPs2, install
<1>2. CASE \/ InstallTimerHandler \/ AddTimer \/ EnableTimer
           \/ EnableRtc \/ AddRtc \/ HookUpdateTime \/ SchedulerInit
  <2>1. UNCHANGED <<board, prefix>> /\ pc'[1] \in Timer \cup Later
    BY <1>2 DEF InstallTimerHandler, AddTimer, EnableTimer, EnableRtc, AddRtc, HookUpdateTime,
                SchedulerInit, Hook, ps2Vars, Timer, Later
  <2> QED
    BY <2>1, PrefixLeft DEF Settled
<1>3. CASE \/ GdtInit \/ LoadDrivers \/ InitIdt \/ InitPic \/ EnableInterrupts
           \/ \E p \in 1 .. 2 : RestoreMask(p) \/ MaskAll(p)
  <2>1. /\ UNCHANGED <<board, prefix>>
        /\ pc[1] \in {"gdt", "load_drivers", "idt", "pic", "restore", "mask", "sti"}
    BY <1>3 DEF GdtInit, LoadDrivers, InitIdt, InitPic, EnableInterrupts, RestoreMask, MaskAll,
                ps2Vars
  <2>2. pc[1] \notin {"reset_ack", "reset_test", "detect"} \cup Settled
    BY <2>1 DEF Settled, Timer, Later
  <2> QED
    BY <2>1, <2>2, PrefixStages, PrefixLeft
<1> QED
  BY <1>1, <1>2, <1>3 DEF Boots

LEMMA NextKeepsController == ControllerInv /\ [Next]_vars => ControllerInv'
<1> SUFFICES ASSUME ControllerInv, [Next]_vars PROVE ControllerInv'
  OBVIOUS
<1>1. CASE UNCHANGED vars
  BY <1>1, PrefixLeft DEF vars, ps2Vars
<1>2. CASE \/ \E d \in DriverIrqs : Switch(d[1], d[2])
           \/ TimerIrq \/ (\E irq \in Irqs : Interrupt(irq)) \/ HardwareStep
  <2>1. UNCHANGED <<board, prefix, pc>>
    BY <1>2 DEF Switch, TimerIrq, Interrupt, HardwareStep, Hardware, DeviceSends, RaiseIrq,
                background, ps2Vars
  <2> QED
    BY <2>1, PrefixLeft
<1> QED
  BY <1>1, <1>2, BootKeepsController DEF Next

LEMMA ControllerInvariant == Spec => []ControllerInv
<1>1. Init => ControllerInv
  BY DEF Init, Ps2Init, ControllerInv
<1> QED
  BY <1>1, NextKeepsController, PTL DEF Spec

(***************************************************************************)
(* The steps of install before the resets.                                 *)
(***************************************************************************)
BeforePs2 == Early \cup Clearing \cup {"sti"}
Preparing == BeforeReset \ BeforePs2

PreparesQuietly ==
  /\ pc[1] \in Preparing
  /\ pc'[1] \in Preparing \/ pc' = <<"reset", Port1>>
  /\ Quiet'
  /\ config' \in Configs /\ conf' \in Configs
  /\ port_enabled' \subseteq Ports
  /\ pc' = <<"set", 3>> => port_enabled' \subseteq conf'.int
  /\ pc' = <<"reset", Port1>> => port_enabled' \subseteq config'.int

\* Nothing is asked of the other stages.
LEMMA OtherStage ==
  ASSUME pc'[1] \notin {"reset", "reset_ack", "reset_test"} \cup Detecting
  PROVE  Resets' /\ Detection'
<1>1. Resets'
  BY DEF Resets
<1>2. \A s \in Detecting : pc' # <<s, Port1>> /\ pc' # <<s, Port2>>
  OBVIOUS
<1>3. "detect" \in Detecting /\ Asking \subseteq Detecting /\ "stop_ack" \in Asking
  BY DEF Detecting, Asking
<1> QED
  BY <1>1, <1>2, <1>3 DEF Detection

LEMMA PreparedKeepsPorts ==
  ASSUME PreparesQuietly
  PROVE  PortsInv'
<1> USE DEF PreparesQuietly
<1>1. CASE pc'[1] \in Preparing
  <2>1. pc'[1] \in BeforeReset /\ pc'[1] \notin BeforePs2
    BY <1>1 DEF Preparing
  <2>2. pc'[1] \notin {"reset", "reset_ack", "reset_test"} \cup Detecting \cup Settled
    BY <2>1 DEF BeforeReset, Early, Clearing, Detecting, Asking, Settled, Timer, Later
  <2>3. Resets' /\ Detection'
    BY <2>2, OtherStage
  <2> QED
    BY <2>1, <2>2, <2>3 DEF PortsInv, BeforePs2
<1>2. CASE pc' = <<"reset", Port1>>
  <2>1. pc'[1] = "reset" /\ pc'[2] = Port1 /\ Port1 # Port2
    BY <1>2 DEF Port1, Port2
  <2>2. Resets' /\ Detection'
    BY <1>2, <2>1 DEF Resets, Detection, Asking
  <2> QED
    BY <1>2, <2>1, <2>2 DEF PortsInv, BeforeReset, Early, Clearing, Settled, Timer, Later
<1> QED
  BY <1>1, <1>2

LEMMA WrittenIsConfig ==
  ASSUME NEW c \in Configs
  PROVE  Written(c) \in Configs /\ Written(c).int = c.int
BY DEF Written, Configs, Ports, Port2

LEMMA Remembered ==
  ASSUME ControllerInv, config \in Configs, NEW step, config' = ConfigAfter(step)
  PROVE  config' \in Configs /\ (KeepsConfig /\ step # "self_test" => UNCHANGED config)
<1>1. board.default \in Configs
  BY Ps2Assumption DEF ControllerInv, Board
<1>2. config' = Written(board.default) \/ UNCHANGED config
  BY DEF ConfigAfter
<1>3. Written(board.default) \in Configs
  BY <1>1, WrittenIsConfig
<1>4. KeepsConfig /\ step # "self_test" => UNCHANGED config
  BY DEF KeepsConfig, ConfigAfter
<1> QED
  BY <1>2, <1>3, <1>4

LEMMA PortConfigs ==
  ASSUME NEW c \in Configs, NEW p \in Ports
  PROVE  /\ [c EXCEPT !.off = @ \cup {p}] \in Configs
         /\ [c EXCEPT !.off = @ \ {p}] \in Configs
BY DEF Configs, Ports

LEMMA Misreads == Misread \subseteq Configs
BY DEF Misread, Configs, Ports

\* A step that leaves install's copy of the configuration and the ports alone.
LEMMA PreparesConfig ==
  ASSUME PortsInv, pc[1] \in Preparing, pc'[1] \in Preparing, pc' # <<"set", 3>>, Quiet',
         config' \in Configs, UNCHANGED <<conf, port_enabled>>
  PROVE  PreparesQuietly
<1>1. pc' # <<"reset", Port1>>
  BY DEF Preparing, BeforeReset, Early, Clearing
<1> QED
  BY <1>1 DEF PreparesQuietly, PortsInv

LEMMA WritesPrepare ==
  ASSUME PortsInv,
         \/ \E p \in Ports : DisablePort(p) \/ EnablePort(p)
         \/ EnableDualChannel
  PROVE  PreparesQuietly
<1> USE DEF At, Goto, Command, installer
<1>1. /\ pc[1] \in {"disable", "disable_again", "enable", "dual"}
      /\ pc'[1] \in {"set", "disable", "flush", "enable", "ask"} /\ pc' # <<"set", 3>>
      /\ UNCHANGED <<output, data, conf, port_enabled>>
  <2>1. ASSUME NEW p \in Ports, DisablePort(p)
        PROVE  /\ pc[1] \in {"disable", "disable_again"}
               /\ pc' \in {<<"set", 2>>, <<"disable", 2>>, <<"flush", 0>>}
               /\ UNCHANGED <<output, data, conf, port_enabled>>
    BY <2>1 DEF DisablePort, Port2
  <2>2. ASSUME NEW p \in Ports, EnablePort(p)
        PROVE  /\ pc[1] = "enable"
               /\ pc' \in {<<"enable", 2>>, <<"ask", 3>>}
               /\ UNCHANGED <<output, data, conf, port_enabled>>
    BY <2>2 DEF EnablePort, Port2
  <2>3. ASSUME EnableDualChannel
        PROVE  /\ pc[1] = "dual"
               /\ pc' = <<"ask", 2>>
               /\ UNCHANGED <<output, data, conf, port_enabled>>
    BY <2>3 DEF EnableDualChannel
  <2> QED
    BY <2>1, <2>2, <2>3
<1>2. pc[1] \in Preparing /\ pc'[1] \in Preparing
  BY <1>1 DEF Preparing, BeforePs2, BeforeReset, Early, Clearing
<1>3. Quiet'
  BY <1>1, <1>2, NothingRead DEF PortsInv, Preparing
<1>4. config' \in Configs
  <2>1. ASSUME NEW p \in Ports, DisablePort(p) PROVE config' \in Configs
    <3>1. PICK c : c = [config EXCEPT !.off = @ \cup {p}]
      OBVIOUS
    <3>2. c \in Configs /\ config' = Written(c)
      BY <2>1, <3>1, PortConfigs DEF DisablePort, PortsInv
    <3> QED
      BY <3>2, WrittenIsConfig
  <2>2. ASSUME NEW p \in Ports, EnablePort(p) PROVE config' \in Configs
    <3>1. PICK c : c = [config EXCEPT !.off = @ \ {p}]
      OBVIOUS
    <3>2. c \in Configs /\ (config' = Written(c) \/ UNCHANGED config)
      BY <2>2, <3>1, PortConfigs DEF EnablePort, PortsInv
    <3> QED
      BY <3>2, WrittenIsConfig DEF PortsInv
  <2>3. ASSUME EnableDualChannel PROVE config' \in Configs
    <3>1. PICK c : c = [config EXCEPT !.off = @ \ {Port2}]
      OBVIOUS
    <3>2. Port2 \in Ports /\ config \in Configs /\ config' = Written(c)
      BY <2>3, <3>1 DEF EnableDualChannel, PortsInv, Ports, Port2
    <3>3. c \in Configs
      BY <3>1, <3>2, PortConfigs
    <3> QED
      BY <3>2, <3>3, WrittenIsConfig
  <2> QED
    BY <2>1, <2>2, <2>3
<1> QED
  BY <1>1, <1>2, <1>3, <1>4, PreparesConfig

LEMMA QuestionsPrepare ==
  ASSUME ControllerInv, PortsInv,
         \/ \E n \in 1 .. 3 : AskConfig(n)
         \/ \E p \in Ports : TestPort(p)
         \/ SelfTest
  PROVE  PreparesQuietly
<1> USE DEF At, Goto, Command, installer
<1>1. /\ pc[1] \in {"ask", "test", "self_test"}
      /\ pc'[1] \in {"answer", "result", "verdict"}
      /\ UNCHANGED <<data, conf, port_enabled>>
  <2>1. ASSUME NEW n \in 1 .. 3, AskConfig(n)
        PROVE  pc[1] = "ask" /\ pc' = <<"answer", n>> /\ UNCHANGED <<data, config, conf, port_enabled>>
    BY <2>1 DEF AskConfig
  <2>2. ASSUME NEW p \in Ports, TestPort(p)
        PROVE  pc[1] = "test" /\ pc' = <<"result", p>> /\ UNCHANGED <<data, config, conf, port_enabled>>
    BY <2>2 DEF TestPort
  <2>3. ASSUME SelfTest
        PROVE  pc[1] = "self_test" /\ pc' = <<"verdict", 0>> /\ UNCHANGED <<data, conf, port_enabled>>
    BY <2>3 DEF SelfTest
  <2> QED
    BY <2>1, <2>2, <2>3
<1>2. pc[1] \in Preparing /\ pc'[1] \in Preparing
  BY <1>1 DEF Preparing, BeforePs2, BeforeReset, Early, Clearing
<1>3. Quiet
  BY <1>2 DEF PortsInv, Preparing
<1>4. \E e \in Items : e[2] # "FA" /\ Answer(<<e>>)
  <2>1. \A code \in Codes : <<Controller, code>> \in Items
    BY DEF Items, Controller
  <2>2. {"config", "00", "01", "55", "FC"} \subseteq Codes
    BY DEF Codes
  <2> QED
    BY <2>1, <2>2 DEF AskConfig, TestPort, SelfTest
<1>5. Quiet'
  BY <1>1, <1>3, <1>4, Answered
<1>6. config' \in Configs
  <2>1. config \in Configs
    BY DEF PortsInv
  <2>2. ASSUME NEW n \in 1 .. 3, AskConfig(n) PROVE config' \in Configs
    BY <2>1, <2>2 DEF AskConfig
  <2>3. ASSUME NEW p \in Ports, TestPort(p) PROVE config' \in Configs
    BY <2>1, <2>3 DEF TestPort
  <2>4. ASSUME SelfTest PROVE config' \in Configs
    <3>1. config' = ConfigAfter("self_test")
      BY <2>4 DEF SelfTest
    <3> QED
      BY <2>1, <3>1, Remembered
  <2> QED
    BY <2>2, <2>3, <2>4
<1> QED
  BY <1>1, <1>2, <1>5, <1>6, PreparesConfig

LEMMA AnswersPrepare ==
  ASSUME PortsInv,
         \/ FlushOutputBuffer \/ SelfTestVerdict
         \/ \E p \in Ports : TestResult(p)
  PROVE  PreparesQuietly
<1> USE DEF At, Goto
<1>1. /\ pc[1] \in {"flush", "verdict", "result"}
      /\ pc'[1] \in {"ask", "dual", "test", "enable"}
      /\ UNCHANGED <<config, conf>>
  BY DEF FlushOutputBuffer, SelfTestVerdict, TestResult, installer
<1>2. pc[1] \in Preparing /\ pc'[1] \in Preparing
  BY <1>1 DEF Preparing, BeforePs2, BeforeReset, Early, Clearing
<1>3. Quiet'
  <2>1. ReadAnswer \/ UNCHANGED <<output, data>>
    BY DEF FlushOutputBuffer, SelfTestVerdict, TestResult, ReadPort, ReadAnswer
  <2> QED
    BY <1>2, <2>1, OneByteRead, NothingRead DEF PortsInv, Preparing
<1>4. port_enabled' \subseteq Ports
  <2>1. port_enabled \subseteq Ports
    BY DEF PortsInv
  <2>2. ASSUME FlushOutputBuffer \/ SelfTestVerdict PROVE port_enabled' \subseteq Ports
    BY <2>1, <2>2 DEF FlushOutputBuffer, SelfTestVerdict, installer
  <2>3. ASSUME NEW p \in Ports, TestResult(p) PROVE port_enabled' \subseteq Ports
    BY <2>1, <2>3 DEF TestResult
  <2> QED
    BY <2>2, <2>3
<1> QED
  BY <1>1, <1>2, <1>3, <1>4 DEF PreparesQuietly, PortsInv

LEMMA ConfigsPrepare ==
  ASSUME PortsInv, NEW n \in 1 .. 3, GetConfig(n) \/ SetConfig(n)
  PROVE  PreparesQuietly
<1> USE DEF At, Goto
<1>1. CASE GetConfig(n)
  <2>1. pc = <<"answer", n>> /\ UNCHANGED <<config, port_enabled>> /\ ReadAnswer
    BY <1>1 DEF GetConfig
  <2>2. pc[1] \in Preparing
    BY <2>1 DEF Preparing, BeforePs2, BeforeReset, Early, Clearing
  <2>3. Quiet'
    BY <2>1, <2>2, OneByteRead DEF PortsInv, Preparing
  <2>4. PICK got \in Configs :
          CASE n = 1 ->
                 /\ conf' = [int |-> got.int \ {Port1}, off |-> got.off \ {Port1}]
                 /\ Goto("set", 1)
                 /\ UNCHANGED port2exists
            [] n = 2 ->
                 /\ port2exists' = (Port2 \notin got.off)
                 /\ conf' = [int |-> got.int \ {Port2}, off |-> got.off \ {Port2}]
                 /\ IF port2exists' THEN Goto("disable_again", Port2) ELSE Goto("test", Port1)
            [] n = 3 ->
                 /\ conf' = [got EXCEPT !.int = @ \cup port_enabled]
                 /\ Goto("set", 3)
                 /\ UNCHANGED port2exists
    BY <1>1, Misreads DEF GetConfig, PortsInv
  <2>5. CASE n = 1
    <3>1. conf' = [int |-> got.int \ {Port1}, off |-> got.off \ {Port1}] /\ pc' = <<"set", 1>>
      BY <2>4, <2>5
    <3>2. conf' \in Configs
      BY <3>1 DEF Configs
    <3>3. pc'[1] \in Preparing /\ pc' # <<"set", 3>> /\ pc' # <<"reset", Port1>>
      BY <3>1 DEF Preparing, BeforePs2, BeforeReset, Early, Clearing
    <3> QED
      BY <2>1, <2>2, <2>3, <3>2, <3>3 DEF PreparesQuietly, PortsInv
  <2>6. CASE n = 2
    <3>1. /\ conf' = [int |-> got.int \ {Port2}, off |-> got.off \ {Port2}]
          /\ pc' = <<"disable_again", Port2>> \/ pc' = <<"test", Port1>>
      BY <2>4, <2>6
    <3>2. conf' \in Configs
      BY <3>1 DEF Configs
    <3>3. pc'[1] \in Preparing /\ pc' # <<"set", 3>> /\ pc' # <<"reset", Port1>>
      BY <3>1 DEF Preparing, BeforePs2, BeforeReset, Early, Clearing
    <3> QED
      BY <2>1, <2>2, <2>3, <3>2, <3>3 DEF PreparesQuietly, PortsInv
  <2>7. CASE n = 3
    <3>1. conf' = [got EXCEPT !.int = @ \cup port_enabled] /\ pc' = <<"set", 3>>
      BY <2>4, <2>7
    <3>2. conf' \in Configs /\ port_enabled \subseteq conf'.int
      BY <3>1 DEF Configs, PortsInv
    <3>3. pc'[1] \in Preparing /\ pc' # <<"reset", Port1>>
      BY <3>1 DEF Preparing, BeforePs2, BeforeReset, Early, Clearing
    <3> QED
      BY <2>1, <2>2, <2>3, <3>2, <3>3 DEF PreparesQuietly, PortsInv
  <2> QED
    BY <2>5, <2>6, <2>7
<1>2. CASE SetConfig(n)
  <2>1. /\ pc = <<"set", n>> /\ config' = Written(conf)
        /\ UNCHANGED <<output, data, conf, port_enabled>>
    BY <1>2 DEF SetConfig, installer
  <2>2. pc[1] \in Preparing
    BY <2>1 DEF Preparing, BeforePs2, BeforeReset, Early, Clearing
  <2>3. Quiet'
    BY <2>1, <2>2, NothingRead DEF PortsInv, Preparing
  <2>4. config' \in Configs /\ config'.int = conf.int
    BY <2>1, WrittenIsConfig DEF PortsInv
  <2>5. CASE n \in 1 .. 2
    <3>1. pc' = <<"self_test", 0>> \/ pc' = <<"test", Port1>>
      <4>1. CASE n = 1 BY <1>2, <4>1 DEF SetConfig
      <4>2. CASE n = 2 BY <1>2, <4>2 DEF SetConfig
      <4> QED BY <2>5, <4>1, <4>2
    <3>2. pc'[1] \in Preparing /\ pc' # <<"set", 3>>
      BY <3>1 DEF Preparing, BeforePs2, BeforeReset, Early, Clearing
    <3> QED
      BY <2>1, <2>2, <2>3, <2>4, <3>2, PreparesConfig
  <2>6. CASE n = 3
    <3>1. pc' = <<"reset", Port1>>
      BY <1>2, <2>6 DEF SetConfig
    <3>2. port_enabled \subseteq conf.int
      BY <2>1, <2>6 DEF PortsInv
    <3> QED
      BY <2>1, <2>2, <2>3, <2>4, <3>1, <3>2 DEF PreparesQuietly, PortsInv
  <2> QED
    BY <2>5, <2>6
<1> QED
  BY <1>1, <1>2

LEMMA PreparingKeepsPorts ==
  ASSUME ControllerInv, PortsInv,
         \/ FlushOutputBuffer \/ SelfTest \/ SelfTestVerdict \/ EnableDualChannel
         \/ \E n \in 1 .. 3 : AskConfig(n) \/ GetConfig(n) \/ SetConfig(n)
         \/ \E p \in Ports : DisablePort(p) \/ TestPort(p) \/ TestResult(p) \/ EnablePort(p)
  PROVE  PortsInv'
BY PreparedKeepsPorts, WritesPrepare, QuestionsPrepare, AnswersPrepare, ConfigsPrepare

(***************************************************************************)
(* The resets and the detection.                                           *)
(***************************************************************************)
\* From the resets on ports are disabled, never enabled, and the configuration
\* stays, if the controller keeps it.
LEMMA PortsDropped ==
  ASSUME PortsInv, pc[1] \notin BeforeReset, pc'[1] \notin BeforeReset,
         port_enabled' \subseteq port_enabled, UNCHANGED <<conf, board>>,
         config' \in Configs, KeepsConfig => UNCHANGED config,
         KeepsConfig /\ ~skipped' =>
           /\ Resets'
           /\ Detection'
           /\ pc'[1] \in Settled => port_enabled' \subseteq Heard' \cap scanning'
  PROVE  PortsInv'
<1>1. pc' # <<"set", 3>> /\ pc'[1] \notin Early \cup Clearing \cup {"sti"}
  BY DEF BeforeReset
<1>2. KeepsConfig' = KeepsConfig
  BY DEF KeepsConfig
<1> QED
  BY <1>1, <1>2 DEF PortsInv

\* What has to be shown where a step ends in the resets,
LEMMA ResetStage ==
  ASSUME NEW p \in Ports, NEW stage \in {"reset", "reset_ack", "reset_test"},
         pc' = <<stage, p>>,
         p = Port1 /\ stage = "reset" => Quiet',
         p = Port1 /\ stage = "reset_ack" =>
           data' # "FA" /\ OneAck(output') /\ (Port1 \notin Heard' => AckFree(output')),
         p = Port1 /\ stage = "reset_test" => Port1 \in Heard' /\ AckFree(output'),
         p = Port2 => FirstHeard',
         p = Port2 /\ stage = "reset" => AtMostOne' /\ (Port1 \in port_enabled' => Quiet'),
         p = Port2 /\ stage = "reset_ack" =>
           (Port2 \notin Heard' => AtMostOne' /\ (Port1 \in port_enabled' => Quiet')),
         p = Port2 /\ stage = "reset_test" =>
           (Port2 \notin Heard' => Port1 \notin port_enabled' /\ AckFree(output'))
  PROVE  Resets' /\ Detection' /\ pc'[1] \notin Settled /\ pc'[1] \notin BeforeReset
<1>1. pc'[1] = stage /\ pc'[2] = p
  OBVIOUS
<1>2. Resets'
  BY <1>1 DEF Resets
<1>3. pc'[1] \notin Detecting /\ pc'[1] \notin Settled /\ pc'[1] \notin BeforeReset
  BY <1>1 DEF Detecting, Asking, Settled, Timer, Later, BeforeReset, Early, Clearing
<1>4. Detection'
  <2>1. \A s \in Detecting : pc' # <<s, Port1>> /\ pc' # <<s, Port2>>
    BY <1>3
  <2>2. "detect" \in Detecting /\ Asking \subseteq Detecting /\ "stop_ack" \in Asking
    BY DEF Detecting, Asking
  <2> QED
    BY <2>1, <2>2 DEF Detection
<1> QED
  BY <1>2, <1>3, <1>4

\* in the detection,
LEMMA DetectionStage ==
  ASSUME NEW p \in Ports, NEW stage \in Detecting, pc' = <<stage, p>>,
         p = Port1 /\ stage = "detect" =>
           FirstHeard' /\ (Port2 \in port_enabled' \ Heard' => Port1 \notin port_enabled' /\ Quiet'),
         p = Port1 /\ stage # "detect" => Port1 \in Heard' /\ Port2 \notin port_enabled' \ Heard',
         p = Port2 => FirstWorks',
         p = Port2 /\ stage = "detect" => (Port2 \in port_enabled' \ Heard' => Quiet'),
         p = Port2 /\ stage = "stop_ack" => (Port2 \notin Heard' => Quiet'),
         p = Port2 /\ stage \notin {"detect", "stop_ack"} => Port2 \in Heard'
  PROVE  Resets' /\ Detection' /\ pc'[1] \notin Settled /\ pc'[1] \notin BeforeReset
<1>1. pc'[1] = stage /\ pc'[2] = p /\ Port1 # Port2
  BY DEF Port1, Port2
<1>2. Resets'
  <2>1. stage \notin {"reset", "reset_ack", "reset_test"}
    BY DEF Detecting, Asking
  <2> QED
    BY <1>1, <2>1 DEF Resets
<1>3. pc'[1] \notin Settled /\ pc'[1] \notin BeforeReset
  BY <1>1 DEF Detecting, Asking, Settled, Timer, Later, BeforeReset, Early, Clearing
<1>4. Detection'
  <2>1. "detect" \notin Asking
    BY DEF Asking
  <2>2. \A s \in Asking : pc' = <<s, Port1>> => Port1 \in Heard' /\ Port2 \notin port_enabled' \ Heard'
    BY <1>1, <2>1
  <2>3. \A s \in Asking \ {"stop_ack"} : pc' = <<s, Port2>> => FirstWorks' /\ Port2 \in Heard'
    BY <1>1, <2>1
  <2>4. /\ pc' = <<"detect", Port1>> =>
             FirstHeard' /\ (Port2 \in port_enabled' \ Heard' => Port1 \notin port_enabled' /\ Quiet')
        /\ pc' = <<"detect", Port2>> => FirstWorks' /\ (Port2 \in port_enabled' \ Heard' => Quiet')
        /\ pc' = <<"stop_ack", Port2>> => FirstWorks' /\ (Port2 \notin Heard' => Quiet')
    BY <1>1
  <2> QED
    BY <2>2, <2>3, <2>4 DEF Detection
<1> QED
  BY <1>2, <1>3, <1>4

\* and after it.
LEMMA SettledStage ==
  ASSUME pc'[1] \in Settled
  PROVE  Resets' /\ Detection' /\ pc'[1] \notin BeforeReset
<1>1. pc'[1] \notin {"reset", "reset_ack", "reset_test"} /\ pc'[1] \notin Detecting /\ pc'[1] \notin BeforeReset
  BY DEF Detecting, Asking, Settled, Timer, Later, BeforeReset, Early, Clearing
<1> QED
  BY <1>1, OtherStage

\* What a write sends, and to whom.
LEMMA Writes ==
  ASSUME NEW p \in Ports, NEW waiting, NEW cmd, NEW success \in BOOLEAN,
         Write(p, waiting, cmd, success)
  PROVE  /\ ~success => p = Port2 /\ output' = waiting /\ UNCHANGED scanning
         /\ success => \E q \in Ports : SendAfter(waiting, q, cmd)
         /\ success /\ (p = Port2 \/ ~prefix) => SendAfter(waiting, p, cmd)
<1>1. CASE p = Port2 /\ writeb_device2(waiting, cmd, success)
  <2>1. SendAfter(waiting, Port2, IF success THEN cmd ELSE "")
    BY <1>1 DEF writeb_device2
  <2>2. SendAfter(waiting, Port2, "") => output' = waiting /\ UNCHANGED scanning
    BY DEF SendAfter
  <2> QED
    BY <1>1, <2>1, <2>2
<1>2. CASE p = Port1 /\ success /\ SendAfter(waiting, Addressed, cmd)
  <2>1. Addressed \in Ports /\ (~prefix => Addressed = Port1) /\ Port1 # Port2
    BY DEF Addressed, Ports, Port1, Port2
  <2> QED
    BY <1>2, <2>1
<1> QED
  BY <1>1, <1>2 DEF Write

LEMMA FirstWrites ==
  ASSUME ~prefix, NEW cmd, NEW success \in BOOLEAN, Write(Port1, output, cmd, success)
  PROVE  Send(Port1, cmd)
BY DEF Write, Addressed, Send, Port1, Port2

\* No message reaches the other port, and none moves a clock.
LEMMA Sent ==
  ASSUME NEW p \in Ports, NEW cmd \in {"stop", "identify"}, Send(p, cmd)
  PROVE  /\ \A q \in Ports \ {p} : q \in scanning => q \in scanning'
         /\ p \notin Heard => UNCHANGED output
BY DEF Send, SendAfter, Heard

LEMMA FirstReset ==
  ASSUME ControllerInv, PortsInv, ResetPort(Port1)
  PROVE  PortsInv'
<1> USE DEF At, Goto, NextPort, Ports, Port1, Port2
<1>1. /\ pc = <<"reset", Port1>> /\ UNCHANGED <<data, conf, board, port_enabled>>
      /\ config' \in Configs /\ (KeepsConfig => UNCHANGED config)
  <2>1. config' = ConfigAfter("reset") \/ UNCHANGED config
    BY DEF ResetPort
  <2> QED
    BY <2>1, Remembered DEF ResetPort, PortsInv
<1>2. pc[1] \notin BeforeReset
  BY <1>1 DEF BeforeReset, Early, Clearing
<1>3. CASE ~(KeepsConfig /\ ~skipped')
  <2>1. pc' = <<"reset_ack", Port1>> \/ pc' = <<"reset", Port2>>
    BY DEF ResetPort
  <2>2. pc'[1] \notin BeforeReset
    BY <2>1 DEF BeforeReset, Early, Clearing
  <2> QED
    BY <1>1, <1>2, <1>3, <2>2, PortsDropped
<1>4. CASE KeepsConfig /\ ~skipped'
  <2>1. Send(Port1, "reset") /\ pc' = <<"reset_ack", Port1>> /\ ~skipped
    <3>1. ~prefix
      BY <1>1 DEF ControllerInv, AfterPrefix, Settled, Timer, Later
    <3>2. PICK success \in BOOLEAN : Write(Port1, output, "reset", success)
      BY <1>4 DEF ResetPort
    <3>3. Send(Port1, "reset")
      BY <3>1, <3>2, FirstWrites
    <3> QED
      BY <1>4, <3>3 DEF ResetPort
  <2>2. Quiet
    BY <1>1, <1>4, <2>1 DEF PortsInv, Resets
  <2>3. Heard' = Heard
    BY <1>1, <1>4, StillHeard
  <2>4. data' # "FA" /\ OneAck(output') /\ (Port1 \notin Heard' => AckFree(output'))
    <3>1. CASE Listens(Port1)
      <4>1. output' = output \o From(Port1, Reply(Port1, "reset"))
        BY <2>1, <3>1 DEF Send, SendAfter
      <4>2. Port1 \in Heard'
        BY <2>3, <3>1 DEF Heard
      <4>3. PICK s : s = output
        OBVIOUS
      <4>4. OneAck(s \o From(Port1, Reply(Port1, "reset")))
        BY <2>2, <4>3, ResetReply DEF Quiet
      <4> QED
        BY <1>1, <2>2, <4>1, <4>2, <4>3, <4>4 DEF Quiet
    <3>2. CASE ~Listens(Port1)
      <4>1. UNCHANGED output
        BY <2>1, <3>2 DEF Send, SendAfter
      <4> QED
        BY <1>1, <2>2, <4>1, AckFreeIsOne DEF Quiet
    <3> QED
      BY <3>1, <3>2
  <2>5. Resets' /\ Detection' /\ pc'[1] \notin Settled /\ pc'[1] \notin BeforeReset
    BY <2>1, <2>4, ResetStage
  <2> QED
    BY <1>1, <1>2, <2>5, PortsDropped
<1> QED
  BY <1>3, <1>4

LEMMA SecondReset ==
  ASSUME ControllerInv, PortsInv, ResetPort(Port2)
  PROVE  PortsInv'
<1> USE DEF At, Goto, NextPort, Ports, Port1, Port2
<1>1. /\ pc = <<"reset", Port2>> /\ UNCHANGED <<data, conf, board>>
      /\ port_enabled' \subseteq port_enabled
      /\ config' \in Configs /\ (KeepsConfig => UNCHANGED config)
  <2>1. config' = ConfigAfter("reset") \/ UNCHANGED config
    BY DEF ResetPort
  <2> QED
    BY <2>1, Remembered DEF ResetPort, Disabled, PortsInv
<1>2. pc[1] \notin BeforeReset
  BY <1>1 DEF BeforeReset, Early, Clearing
<1>3. CASE ~(KeepsConfig /\ ~skipped')
  <2>1. pc' = <<"reset_ack", Port2>> \/ pc' = <<"detect", Port1>>
    BY DEF ResetPort
  <2>2. pc'[1] \notin BeforeReset
    BY <2>1 DEF BeforeReset, Early, Clearing
  <2> QED
    BY <1>1, <1>2, <1>3, <2>2, PortsDropped
<1>4. CASE KeepsConfig /\ ~skipped'
  <2>1. /\ pc' = <<"reset_ack", Port2>> /\ ~skipped /\ UNCHANGED port_enabled
        /\ Send(Port2, "reset") \/ UNCHANGED output
    <3>1. PICK success \in BOOLEAN : Write(Port2, output, "reset", success)
      BY <1>4 DEF ResetPort
    <3>2. Send(Port2, "reset") \/ UNCHANGED output
      BY <3>1, Writes DEF Send
    <3> QED
      BY <1>4, <3>2 DEF ResetPort
  <2>2. FirstHeard /\ AtMostOne /\ (Port1 \in port_enabled => Quiet)
    BY <1>1, <1>4, <2>1 DEF PortsInv, Resets
  <2>3. Heard' = Heard
    BY <1>1, <1>4, StillHeard
  <2>4. FirstHeard'
    BY <2>1, <2>2, <2>3 DEF FirstHeard
  <2>5. ASSUME Port2 \notin Heard' PROVE AtMostOne' /\ (Port1 \in port_enabled' => Quiet')
    <3>1. UNCHANGED <<output, data>>
      BY <1>1, <2>1, <2>3, <2>5 DEF Send, SendAfter, Heard
    <3> QED
      BY <2>1, <2>2, <3>1, NothingRead
  <2>6. Resets' /\ Detection' /\ pc'[1] \notin Settled /\ pc'[1] \notin BeforeReset
    BY <2>1, <2>4, <2>5, ResetStage
  <2> QED
    BY <1>1, <1>2, <2>6, PortsDropped
<1> QED
  BY <1>3, <1>4

\* What poll reads.
LEMMA PollReads ==
  ASSUME NEW value, NEW k \in Polled(value), poll(value, k)
  PROVE  /\ AckFree(output) => AckFree(output')
         /\ Quiet => Quiet'
         /\ AtMostOne => AtMostOne'
         /\ AtMostOne /\ data' = "FA" => AckFree(output')
         /\ AckFree(output) /\ data' # "FA" => Quiet'
         /\ data' = Last(k)
<1>1. k \in 0 .. Len(output) /\ data' = Last(k) /\ output' = SubSeq(output, k + 1, Len(output))
  BY DEF Polled, poll
<1> QED
  BY <1>1, BytesRead

LEMMA ResetAcksKeepPorts ==
  ASSUME PortsInv, NEW p \in Ports, ResetAck(p)
  PROVE  PortsInv'
<1> USE DEF At, Goto, NextPort, Ports, Port1, Port2
<1>1. PICK k \in Polled("FA") :
        /\ poll("FA", k)
        /\ IF Last(k) = "FA" THEN Goto("reset_test", p) /\ UNCHANGED port_enabled
           ELSE Disabled(p) /\ NextPort("reset", "detect", p)
  BY DEF ResetAck
<1>2. /\ pc = <<"reset_ack", p>> /\ UNCHANGED <<config, conf, board, skipped>>
      /\ port_enabled' \subseteq port_enabled
  BY <1>1 DEF ResetAck, Disabled
<1>3. pc[1] \notin BeforeReset
  BY <1>2 DEF BeforeReset, Early, Clearing
<1>4. Heard' = Heard
  BY <1>2, StillHeard
<1>5. /\ AckFree(output) => AckFree(output')
      /\ Quiet => Quiet'
      /\ AtMostOne => AtMostOne'
      /\ AtMostOne /\ data' = "FA" => AckFree(output')
      /\ data' = Last(k)
  BY <1>1, PollReads
<1>6. \/ pc' = <<"reset_test", p>> /\ data' = "FA" /\ UNCHANGED port_enabled
      \/ pc' = <<"reset", Port2>> /\ p = Port1 /\ port_enabled' = port_enabled \ {p}
      \/ pc' = <<"detect", Port1>> /\ p = Port2 /\ port_enabled' = port_enabled \ {p}
  BY <1>1, <1>5 DEF Disabled
<1>7. pc'[1] \notin BeforeReset
  BY <1>6 DEF BeforeReset, Early, Clearing
<1>8. ASSUME KeepsConfig, ~skipped'
      PROVE  Resets' /\ Detection' /\ pc'[1] \notin Settled
  <2>1. Resets /\ ~skipped /\ KeepsConfig
    BY <1>2, <1>8 DEF PortsInv
  <2>2. CASE p = Port1
    <3>1. data # "FA" /\ OneAck(output) /\ (Port1 \notin Heard => AckFree(output))
      BY <1>2, <2>1, <2>2 DEF Resets
    <3>2. AtMostOne /\ (Port1 \notin Heard => Quiet)
      BY <3>1 DEF AtMostOne, Quiet
    <3>3. CASE pc' = <<"reset_test", Port1>> /\ data' = "FA"
      <4>1. Port1 \in Heard'
        BY <1>4, <1>5, <3>2, <3>3 DEF Quiet
      <4>2. AckFree(output')
        BY <1>5, <3>2, <3>3
      <4> QED
        BY <3>3, <4>1, <4>2, ResetStage
    <3>4. CASE pc' = <<"reset", Port2>> /\ port_enabled' = port_enabled \ {Port1}
      <4>1. FirstHeard' /\ AtMostOne' /\ Port1 \notin port_enabled'
        BY <1>5, <3>2, <3>4 DEF FirstHeard
      <4> QED
        BY <3>4, <4>1, ResetStage
    <3> QED
      BY <1>6, <2>2, <3>3, <3>4
  <2>3. CASE p = Port2
    <3>1. FirstHeard /\ (Port2 \notin Heard => AtMostOne /\ (Port1 \in port_enabled => Quiet))
      BY <1>2, <2>1, <2>3 DEF Resets
    <3>2. FirstHeard'
      BY <1>2, <1>4, <3>1 DEF FirstHeard
    <3>3. CASE pc' = <<"reset_test", Port2>> /\ data' = "FA"
      <4>1. ASSUME Port2 \notin Heard' PROVE Port1 \notin port_enabled' /\ AckFree(output')
        <5>1. Port1 \notin port_enabled
          BY <1>4, <1>5, <3>1, <3>3, <4>1 DEF Quiet
        <5> QED
          BY <1>2, <1>4, <1>5, <3>1, <3>3, <4>1, <5>1
      <4> QED
        BY <3>2, <3>3, <4>1, ResetStage
    <3>4. CASE pc' = <<"detect", Port1>> /\ port_enabled' = port_enabled \ {Port2}
      <4>1. Port2 \notin port_enabled' /\ "detect" \in Detecting
        BY <3>4 DEF Detecting
      <4> QED
        BY <3>2, <3>4, <4>1, DetectionStage
    <3> QED
      BY <1>6, <2>3, <3>3, <3>4
  <2> QED
    BY <2>2, <2>3
<1> QED
  BY <1>2, <1>3, <1>7, <1>8, PortsDropped DEF PortsInv

LEMMA ResetTestsKeepPorts ==
  ASSUME PortsInv, NEW p \in Ports, ResetSelfTest(p)
  PROVE  PortsInv'
<1> USE DEF At, Goto, NextPort, Ports, Port1, Port2
<1>1. PICK k \in Polled("AA") :
        /\ poll("AA", k)
        /\ IF Last(k) = "AA" THEN UNCHANGED port_enabled ELSE Disabled(p)
        /\ NextPort("reset", "detect", p)
  BY DEF ResetSelfTest
<1>2. /\ pc = <<"reset_test", p>> /\ UNCHANGED <<config, conf, board, skipped>>
      /\ port_enabled' \subseteq port_enabled
  BY <1>1 DEF ResetSelfTest, Disabled
<1>3. pc[1] \notin BeforeReset
  BY <1>2 DEF BeforeReset, Early, Clearing
<1>4. Heard' = Heard
  BY <1>2, StillHeard
<1>5. /\ AckFree(output) /\ data' # "FA" => Quiet'
      /\ AckFree(output) => AckFree(output')
      /\ data' = Last(k)
  BY <1>1, PollReads
<1>6. data' # "FA" \/ port_enabled' = port_enabled \ {p}
  BY <1>1, <1>5 DEF Disabled
<1>7. \/ pc' = <<"reset", Port2>> /\ p = Port1
      \/ pc' = <<"detect", Port1>> /\ p = Port2
  BY <1>1
<1>8. pc'[1] \notin BeforeReset
  BY <1>7 DEF BeforeReset, Early, Clearing
<1>9. ASSUME KeepsConfig, ~skipped'
      PROVE  Resets' /\ Detection' /\ pc'[1] \notin Settled
  <2>1. Resets /\ ~skipped /\ KeepsConfig
    BY <1>2, <1>9 DEF PortsInv
  <2>2. CASE pc' = <<"reset", Port2>> /\ p = Port1
    <3>1. Port1 \in Heard /\ AckFree(output)
      BY <1>2, <2>1, <2>2 DEF Resets
    <3>2. FirstHeard' /\ (Port1 \in port_enabled' => Quiet')
      BY <1>4, <1>5, <1>6, <2>2, <3>1 DEF FirstHeard
    <3>3. AtMostOne'
      BY <1>5, <3>1, AckFreeIsOne DEF AtMostOne
    <3> QED
      BY <2>2, <3>2, <3>3, ResetStage
  <2>3. CASE pc' = <<"detect", Port1>> /\ p = Port2
    <3>1. FirstHeard /\ (Port2 \notin Heard => Port1 \notin port_enabled /\ AckFree(output))
      BY <1>2, <2>1, <2>3 DEF Resets
    <3>2. FirstHeard'
      BY <1>2, <1>4, <3>1 DEF FirstHeard
    <3>3. ASSUME Port2 \in port_enabled' \ Heard' PROVE Port1 \notin port_enabled' /\ Quiet'
      BY <1>2, <1>4, <1>5, <1>6, <2>3, <3>1, <3>3
    <3>4. "detect" \in Detecting
      BY DEF Detecting
    <3> QED
      BY <2>3, <3>2, <3>3, <3>4, DetectionStage
  <2> QED
    BY <1>7, <2>2, <2>3
<1> QED
  BY <1>2, <1>3, <1>8, <1>9, PortsDropped DEF PortsInv

\* The second port is disabled, and the detection is over.
LEMMA SecondGivenUp ==
  ASSUME FirstWorks, port_enabled \subseteq Ports, port_enabled' = port_enabled \ {Port2},
         Heard' = Heard, Port1 \in scanning => Port1 \in scanning', pc' = <<"last_flush", Port1>>
  PROVE  /\ Resets' /\ Detection' /\ pc'[1] \notin BeforeReset
         /\ port_enabled' \subseteq Heard' \cap scanning'
<1>1. pc'[1] \in Settled
  BY DEF Settled
<1>2. port_enabled' \subseteq Heard' \cap scanning'
  BY DEF FirstWorks, Ports, Port1, Port2
<1> QED
  BY <1>1, <1>2, SettledStage

\* The first port is disabled, and the second one's turn comes.
LEMMA FirstGivenUp ==
  ASSUME port_enabled' = port_enabled \ {Port1}, pc' = <<"detect", Port2>>,
         Port2 \in port_enabled' \ Heard' => Quiet'
  PROVE  Resets' /\ Detection' /\ pc'[1] \notin Settled /\ pc'[1] \notin BeforeReset
<1>1. FirstWorks' /\ "detect" \in Detecting /\ Port2 \in Ports
  BY DEF FirstWorks, Detecting, Ports, Port2
<1> QED
  BY <1>1, DetectionStage DEF Port1, Port2

LEMMA DetectsKeepPorts ==
  ASSUME ControllerInv, PortsInv, NEW p \in Ports, DetectDevice(p)
  PROVE  PortsInv'
<1> USE DEF At, Goto, NextPort, Ports, Port1, Port2
<1>1. /\ pc = <<"detect", p>> /\ UNCHANGED <<data, conf, board, skipped>>
      /\ port_enabled' \subseteq port_enabled /\ port_enabled \subseteq Ports
      /\ config' \in Configs /\ (KeepsConfig => UNCHANGED config)
  <2>1. config' = ConfigAfter("detect") \/ UNCHANGED config
    BY DEF DetectDevice
  <2> QED
    BY <2>1, Remembered DEF DetectDevice, Request, Disabled, PortsInv
<1>2. pc[1] \notin BeforeReset
  BY <1>1 DEF BeforeReset, Early, Clearing
<1>3. KeepsConfig => Heard' = Heard
  BY <1>1, StillHeard
<1>4. \/ /\ p \in port_enabled /\ (p = Port2 => Send(p, "stop"))
         /\ pc' = <<"stop_ack", p>> /\ UNCHANGED port_enabled
      \/ /\ pc' = IF p = Port1 THEN <<"detect", Port2>> ELSE <<"last_flush", Port1>>
         /\ port_enabled' = port_enabled \ {p} /\ UNCHANGED <<output, scanning>>
  <2>1. CASE p \in port_enabled /\ Request(p, "stop", "stop_ack")
    <3>1. PICK success \in BOOLEAN :
            /\ Write(p, output, "stop", success)
            /\ IF success THEN Goto("stop_ack", p) /\ UNCHANGED port_enabled
               ELSE Disabled(p) /\ NextPort("detect", "last_flush", p)
      BY <2>1 DEF Request
    <3>2. /\ success /\ p = Port2 => Send(p, "stop")
          /\ ~success => UNCHANGED <<output, scanning>>
      BY <3>1, Writes DEF Send
    <3> QED
      BY <2>1, <3>1, <3>2 DEF Disabled
  <2>2. CASE Disabled(p) /\ NextPort("detect", "last_flush", p) /\ UNCHANGED <<output, scanning>>
    BY <2>2 DEF Disabled
  <2> QED
    BY <2>1, <2>2 DEF DetectDevice
<1>5. pc'[1] \notin BeforeReset
  BY <1>4 DEF BeforeReset, Early, Clearing
<1>6. ASSUME KeepsConfig, ~skipped'
      PROVE  /\ Resets' /\ Detection'
             /\ pc'[1] \in Settled => port_enabled' \subseteq Heard' \cap scanning'
  <2>1. Detection /\ ~skipped /\ Heard' = Heard
    BY <1>1, <1>3, <1>6 DEF PortsInv
  <2>2. CASE p = Port1
    <3>1. FirstHeard /\ (Port2 \in port_enabled \ Heard => Port1 \notin port_enabled /\ Quiet)
      BY <1>1, <2>1, <2>2 DEF Detection
    <3>2. CASE Port1 \in port_enabled /\ pc' = <<"stop_ack", Port1>> /\ UNCHANGED port_enabled
      <4>1. Port1 \in Heard' /\ Port2 \notin port_enabled' \ Heard'
        BY <2>1, <3>1, <3>2 DEF FirstHeard
      <4>2. "stop_ack" \in Detecting /\ "stop_ack" # "detect"
        BY DEF Detecting, Asking
      <4> QED
        BY <3>2, <4>1, <4>2, DetectionStage
    <3>3. CASE /\ pc' = <<"detect", Port2>> /\ port_enabled' = port_enabled \ {Port1}
               /\ UNCHANGED <<output, scanning>>
      <4>1. Port2 \in port_enabled' \ Heard' => Quiet'
        BY <1>1, <2>1, <3>1, <3>3, NothingRead
      <4> QED
        BY <3>3, <4>1, FirstGivenUp
    <3> QED
      BY <1>4, <2>2, <3>2, <3>3
  <2>3. CASE p = Port2
    <3>1. FirstWorks /\ (Port2 \in port_enabled \ Heard => Quiet)
      BY <1>1, <2>1, <2>3 DEF Detection
    <3>2. CASE /\ Port2 \in port_enabled /\ Send(Port2, "stop") /\ pc' = <<"stop_ack", Port2>>
               /\ UNCHANGED port_enabled
      <4>1. FirstWorks'
        <5>1. Port1 \in scanning => Port1 \in scanning'
          BY <3>2, Sent
        <5> QED
          BY <2>1, <3>1, <3>2, <5>1 DEF FirstWorks
      <4>2. Port2 \notin Heard' => Quiet'
        <5>1. Port2 \notin Heard => UNCHANGED output
          BY <3>2, Sent
        <5> QED
          BY <1>1, <2>1, <3>1, <3>2, <5>1, NothingRead
      <4>3. "stop_ack" \in Detecting /\ "stop_ack" # "detect"
        BY DEF Detecting, Asking
      <4> QED
        BY <3>2, <4>1, <4>2, <4>3, DetectionStage
    <3>3. CASE /\ pc' = <<"last_flush", Port1>> /\ port_enabled' = port_enabled \ {Port2}
               /\ UNCHANGED <<output, scanning>>
      BY <1>1, <2>1, <3>1, <3>3, SecondGivenUp
    <3> QED
      BY <1>4, <2>3, <3>2, <3>3
  <2> QED
    BY <2>2, <2>3
<1> QED
  BY <1>1, <1>2, <1>5, <1>6, PortsDropped

LEMMA DetectAcksKeepPorts ==
  ASSUME PortsInv, NEW p \in Ports,
         NEW from \in {"stop_ack", "identify_ack"}, NEW to \in {"identify", "read"},
         DetectAck(p, from, to)
  PROVE  PortsInv'
<1> USE DEF At, Goto, NextPort, Ports, Port1, Port2
<1>1. PICK k \in Polled("FA") :
        /\ poll("FA", k)
        /\ IF Last(k) = "FA" THEN Goto(to, p) /\ UNCHANGED port_enabled
           ELSE Disabled(p) /\ NextPort("detect", "last_flush", p)
  BY DEF DetectAck
<1>2. /\ pc = <<from, p>> /\ UNCHANGED <<config, conf, board, skipped, scanning>>
      /\ port_enabled' \subseteq port_enabled /\ port_enabled \subseteq Ports
  BY <1>1 DEF DetectAck, Disabled, PortsInv
<1>3. pc[1] \notin BeforeReset
  BY <1>2 DEF BeforeReset, Early, Clearing
<1>4. Heard' = Heard
  BY <1>2, StillHeard
<1>5. (Quiet => Quiet') /\ data' = Last(k)
  BY <1>1, PollReads
<1>6. \/ pc' = <<to, p>> /\ data' = "FA" /\ UNCHANGED port_enabled
      \/ /\ pc' = IF p = Port1 THEN <<"detect", Port2>> ELSE <<"last_flush", Port1>>
         /\ port_enabled' = port_enabled \ {p}
  BY <1>1, <1>5 DEF Disabled
<1>7. pc'[1] \notin BeforeReset
  BY <1>6 DEF BeforeReset, Early, Clearing
<1>8. from \in Asking /\ to \in Detecting /\ to # "detect" /\ to # "stop_ack"
  BY DEF Asking, Detecting
<1>9. ASSUME KeepsConfig, ~skipped'
      PROVE  /\ Resets' /\ Detection'
             /\ pc'[1] \in Settled => port_enabled' \subseteq Heard' \cap scanning'
  <2>1. Detection /\ ~skipped
    BY <1>2, <1>9 DEF PortsInv
  <2>2. CASE p = Port1
    <3>1. Port1 \in Heard /\ Port2 \notin port_enabled \ Heard
      BY <1>2, <1>8, <2>1, <2>2 DEF Detection
    <3>2. CASE pc' = <<to, Port1>> /\ UNCHANGED port_enabled
      BY <1>4, <1>8, <3>1, <3>2, DetectionStage
    <3>3. CASE pc' = <<"detect", Port2>> /\ port_enabled' = port_enabled \ {Port1}
      <4>1. Port2 \notin port_enabled' \ Heard'
        BY <1>4, <3>1, <3>3
      <4> QED
        BY <3>3, <4>1, FirstGivenUp
    <3> QED
      BY <1>6, <2>2, <3>2, <3>3
  <2>3. CASE p = Port2
    <3>1. FirstWorks /\ (Port2 \notin Heard => Quiet)
      BY <1>2, <1>8, <2>1, <2>3 DEF Detection
    <3>2. CASE pc' = <<to, Port2>> /\ data' = "FA" /\ UNCHANGED port_enabled
      <4>1. Port2 \in Heard'
        BY <1>4, <1>5, <3>1, <3>2 DEF Quiet
      <4>2. FirstWorks'
        BY <1>2, <1>4, <3>1, <3>2 DEF FirstWorks
      <4> QED
        BY <1>8, <3>2, <4>1, <4>2, DetectionStage
    <3>3. CASE pc' = <<"last_flush", Port1>> /\ port_enabled' = port_enabled \ {Port2}
      BY <1>2, <1>4, <3>1, <3>3, SecondGivenUp
    <3> QED
      BY <1>6, <2>3, <3>2, <3>3
  <2> QED
    BY <2>2, <2>3
<1> QED
  BY <1>2, <1>3, <1>7, <1>9, PortsDropped DEF PortsInv

LEMMA IdentifyRequestsKeepPorts ==
  ASSUME PortsInv, NEW p \in Ports, RequestIdentify(p)
  PROVE  PortsInv'
<1> USE DEF At, Goto, NextPort, Ports, Port1, Port2
<1>1. /\ pc = <<"identify", p>> /\ UNCHANGED <<data, config, conf, board, skipped>>
      /\ port_enabled' \subseteq port_enabled /\ port_enabled \subseteq Ports
  BY DEF RequestIdentify, Request, Disabled, PortsInv
<1>2. pc[1] \notin BeforeReset
  BY <1>1 DEF BeforeReset, Early, Clearing
<1>3. Heard' = Heard
  BY <1>1, StillHeard
<1>4. \/ /\ p = Port2 => Send(p, "identify")
         /\ pc' = <<"identify_ack", p>> /\ UNCHANGED port_enabled
      \/ /\ p = Port2 /\ pc' = <<"last_flush", Port1>>
         /\ port_enabled' = port_enabled \ {p} /\ UNCHANGED <<output, scanning>>
  <2>1. PICK success \in BOOLEAN :
          /\ Write(p, output, "identify", success)
          /\ IF success THEN Goto("identify_ack", p) /\ UNCHANGED port_enabled
             ELSE Disabled(p) /\ NextPort("detect", "last_flush", p)
    BY DEF RequestIdentify, Request
  <2>2. /\ success /\ p = Port2 => Send(p, "identify")
        /\ ~success => p = Port2 /\ UNCHANGED <<output, scanning>>
    BY <2>1, Writes DEF Send
  <2> QED
    BY <2>1, <2>2 DEF Disabled
<1>5. pc'[1] \notin BeforeReset
  BY <1>4 DEF BeforeReset, Early, Clearing
<1>6. /\ "identify" \in Asking \ {"stop_ack"} /\ "identify_ack" \in Detecting
      /\ "identify_ack" # "detect" /\ "identify_ack" # "stop_ack"
  BY DEF Asking, Detecting
<1>7. ASSUME KeepsConfig, ~skipped'
      PROVE  /\ Resets' /\ Detection'
             /\ pc'[1] \in Settled => port_enabled' \subseteq Heard' \cap scanning'
  <2>1. Detection /\ ~skipped
    BY <1>1, <1>7 DEF PortsInv
  <2>2. CASE p = Port1
    <3>1. Port1 \in Heard /\ Port2 \notin port_enabled \ Heard
      BY <1>1, <1>6, <2>1, <2>2 DEF Detection
    <3>2. pc' = <<"identify_ack", Port1>> /\ UNCHANGED port_enabled
      BY <1>4, <2>2
    <3> QED
      BY <1>3, <1>6, <3>1, <3>2, DetectionStage
  <2>3. CASE p = Port2
    <3>1. FirstWorks /\ Port2 \in Heard
      BY <1>1, <1>6, <2>1, <2>3 DEF Detection
    <3>2. CASE Send(Port2, "identify") /\ pc' = <<"identify_ack", Port2>> /\ UNCHANGED port_enabled
      <4>1. FirstWorks'
        <5>1. Port1 \in scanning => Port1 \in scanning'
          BY <3>2, Sent
        <5> QED
          BY <1>3, <3>1, <3>2, <5>1 DEF FirstWorks
      <4> QED
        BY <1>3, <1>6, <3>1, <3>2, <4>1, DetectionStage
    <3>3. CASE /\ pc' = <<"last_flush", Port1>> /\ port_enabled' = port_enabled \ {Port2}
               /\ UNCHANGED <<output, scanning>>
      BY <1>1, <1>3, <3>1, <3>3, SecondGivenUp
    <3> QED
      BY <1>4, <2>3, <3>2, <3>3
  <2> QED
    BY <2>2, <2>3
<1> QED
  BY <1>1, <1>2, <1>5, <1>7, PortsDropped DEF PortsInv

LEMMA IdentitiesKeepPorts ==
  ASSUME ControllerInv, PortsInv, NEW p \in Ports, IdentifyDevice(p)
  PROVE  PortsInv'
<1> USE DEF At, Goto, NextPort, Ports, Port1, Port2
<1>1. PICK km \in Identity, success \in BOOLEAN :
        /\ Write(p, SubSeq(output, km[2] + 1, Len(output)), "start", success)
        /\ (success /\ UNCHANGED port_enabled) \/ (~success /\ Disabled(p))
  BY DEF IdentifyDevice
<1>2. /\ pc = <<"read", p>> /\ UNCHANGED <<config, conf, board, skipped>>
      /\ pc' = IF p = Port1 THEN <<"detect", Port2>> ELSE <<"last_flush", Port1>>
      /\ port_enabled \subseteq Ports
  BY DEF IdentifyDevice, PortsInv
<1>3. \/ /\ UNCHANGED port_enabled
         /\ scanning' = IF Listens(p) THEN scanning \cup {p} ELSE scanning
      \/ p = Port2 /\ port_enabled' = port_enabled \ {p} /\ UNCHANGED scanning
  <2>1. CASE success
    <3>1. ~prefix
      BY <1>2 DEF ControllerInv, AfterPrefix, Settled, Timer, Later
    <3>2. SendAfter(SubSeq(output, km[2] + 1, Len(output)), p, "start")
      BY <1>1, <2>1, <3>1, Writes
    <3> QED
      BY <1>1, <2>1, <3>2 DEF SendAfter
  <2>2. CASE ~success
    BY <1>1, <2>2, Writes DEF Disabled
  <2> QED
    BY <2>1, <2>2
<1>4. pc[1] \notin BeforeReset /\ pc'[1] \notin BeforeReset
  BY <1>2 DEF BeforeReset, Early, Clearing
<1>5. Heard' = Heard
  BY <1>2, StillHeard
<1>6. "read" \in Asking \ {"stop_ack"} /\ "detect" \in Detecting
  BY DEF Asking, Detecting
<1>7. ASSUME KeepsConfig, ~skipped'
      PROVE  /\ Resets' /\ Detection'
             /\ pc'[1] \in Settled => port_enabled' \subseteq Heard' \cap scanning'
  <2>1. Detection /\ ~skipped
    BY <1>2, <1>7 DEF PortsInv
  <2>2. CASE p = Port1
    <3>1. Port1 \in Heard /\ Port2 \notin port_enabled \ Heard
      BY <1>2, <1>6, <2>1, <2>2 DEF Detection
    <3>2. FirstWorks' /\ Port2 \notin port_enabled' \ Heard'
      BY <1>3, <1>5, <2>2, <3>1 DEF FirstWorks, Heard
    <3> QED
      BY <1>2, <1>6, <2>2, <3>2, DetectionStage
  <2>3. CASE p = Port2
    <3>1. FirstWorks /\ Port2 \in Heard /\ pc' = <<"last_flush", Port1>>
      BY <1>2, <1>6, <2>1, <2>3 DEF Detection
    <3>2. CASE UNCHANGED port_enabled /\ scanning' = scanning \cup {Port2}
      <4>1. port_enabled' \subseteq Heard' \cap scanning'
        BY <1>2, <1>5, <3>1, <3>2 DEF FirstWorks
      <4>2. pc'[1] \in Settled
        BY <3>1 DEF Settled
      <4> QED
        BY <4>1, <4>2, SettledStage
    <3>3. CASE port_enabled' = port_enabled \ {Port2} /\ UNCHANGED scanning
      BY <1>2, <1>5, <3>1, <3>3, SecondGivenUp
    <3> QED
      BY <1>3, <2>3, <3>1, <3>2, <3>3 DEF Heard
  <2> QED
    BY <2>2, <2>3
<1>8. port_enabled' \subseteq port_enabled
  BY <1>3
<1> QED
  BY <1>2, <1>4, <1>7, <1>8, PortsDropped DEF PortsInv

\* Once the ports are settled nothing changes them, nor what their devices do.
LEMMA SettledKeepsPorts ==
  ASSUME PortsInv, pc[1] \in Settled, pc'[1] \in Settled,
         UNCHANGED <<config, conf, board, scanning, port_enabled, skipped>>
  PROVE  PortsInv'
<1>1. pc[1] \notin BeforeReset
  BY DEF BeforeReset, Settled, Early, Clearing, Timer, Later
<1>2. Heard' = Heard
  BY StillHeard
<1>3. Resets' /\ Detection' /\ pc'[1] \notin BeforeReset
  BY SettledStage
<1>4. KeepsConfig /\ ~skipped' => port_enabled' \subseteq Heard' \cap scanning'
  BY <1>2 DEF PortsInv
<1> QED
  BY <1>1, <1>3, <1>4, PortsDropped DEF PortsInv

LEMMA InstallKeepsPorts ==
  ASSUME ControllerInv, PortsInv, install
  PROVE  PortsInv'
<1>1. ASSUME LastFlush \/ InstallKeyboardHandler \/ UnmaskKeyboard PROVE PortsInv'
  <2>1. /\ pc[1] \in Settled /\ pc'[1] \in Settled
        /\ UNCHANGED <<config, conf, board, scanning, port_enabled, skipped>>
    BY <1>1 DEF LastFlush, InstallKeyboardHandler, UnmaskKeyboard, At, Goto, installer, background,
                ps2Vars, Settled, Timer
  <2> QED
    BY <2>1, SettledKeepsPorts
<1>2. ASSUME NEW p \in Ports, ResetPort(p) PROVE PortsInv'
  BY <1>2, FirstReset, SecondReset DEF Ports, Port1, Port2
<1>3. ASSUME NEW p \in Ports, InstallPorts(p) PROVE PortsInv'
  <2>1. DetectAck(p, "stop_ack", "identify") => PortsInv'
    BY DetectAcksKeepPorts
  <2>2. DetectAck(p, "identify_ack", "read") => PortsInv'
    BY DetectAcksKeepPorts
  <2> QED
    BY <1>2, <1>3, <2>1, <2>2, PreparingKeepsPorts, ResetAcksKeepPorts, ResetTestsKeepPorts,
       DetectsKeepPorts, IdentifyRequestsKeepPorts, IdentitiesKeepPorts DEF InstallPorts
<1> QED
  BY <1>1, <1>3, PreparingKeepsPorts DEF install, InstallController

(***************************************************************************)
(* The other steps.                                                        *)
(***************************************************************************)
LEMMA BootKeepsPorts ==
  ASSUME ControllerInv, PortsInv, Boots
  PROVE  PortsInv'
<1> USE DEF At, Goto
<1>1. CASE InstallPs2
  BY <1>1, InstallKeepsPorts DEF InstallPs2
<1>2. CASE \/ InstallTimerHandler \/ AddTimer \/ EnableTimer
           \/ EnableRtc \/ AddRtc \/ HookUpdateTime \/ SchedulerInit
  <2>1. UNCHANGED <<config, conf, board, scanning, port_enabled, skipped>>
    BY <1>2 DEF InstallTimerHandler, AddTimer, EnableTimer, EnableRtc, AddRtc, HookUpdateTime,
                SchedulerInit, Hook, ps2Vars
  <2>2. pc[1] \in Settled /\ pc'[1] \in Settled
    <3>1. pc[1] \in Timer \cup Later /\ pc'[1] \in Timer \cup Later
      BY <1>2 DEF InstallTimerHandler, AddTimer, EnableTimer, EnableRtc, AddRtc, HookUpdateTime,
                  SchedulerInit, Hook, Timer, Later
    <3> QED
      BY <3>1 DEF Settled
  <2> QED
    BY <2>1, <2>2, SettledKeepsPorts
<1>3. CASE \/ GdtInit \/ LoadDrivers \/ InitIdt \/ InitPic \/ EnableInterrupts
           \/ \E p \in 1 .. 2 : RestoreMask(p) \/ MaskAll(p)
  <2>1. UNCHANGED <<output, data, config, conf, board, scanning, port_enabled, skipped>>
    BY <1>3 DEF GdtInit, LoadDrivers, InitIdt, InitPic, EnableInterrupts, RestoreMask, MaskAll,
                ps2Vars
  <2>2. pc[1] \in BeforePs2 /\ pc'[1] \in BeforePs2 \cup {"disable", "pit"}
    <3>1. ASSUME NEW p \in 1 .. 2, RestoreMask(p) \/ MaskAll(p)
          PROVE  pc[1] \in {"restore", "mask"} /\ pc'[1] \in {"restore", "mask", "sti"}
      BY <3>1 DEF RestoreMask, MaskAll
    <3>2. ASSUME GdtInit \/ LoadDrivers \/ InitIdt \/ InitPic \/ EnableInterrupts
          PROVE  /\ pc[1] \in {"gdt", "load_drivers", "idt", "pic", "sti"}
                 /\ pc'[1] \in {"load_drivers", "idt", "pic", "restore", "disable", "pit"}
      BY <3>2 DEF GdtInit, LoadDrivers, InitIdt, InitPic, EnableInterrupts
    <3> QED
      BY <1>3, <3>1, <3>2 DEF BeforePs2, Early, Clearing
  <2>3. port_enabled' = {} /\ Quiet'
    BY <2>1, <2>2, NothingRead DEF PortsInv, BeforePs2, BeforeReset
  <2>4. pc'[1] \notin {"reset", "reset_ack", "reset_test"} \cup Detecting
    BY <2>2 DEF BeforePs2, Early, Clearing, Detecting, Asking
  <2>5. Resets' /\ Detection'
    BY <2>4, OtherStage
  <2> QED
    BY <2>1, <2>3, <2>5 DEF PortsInv
<1> QED
  BY <1>1, <1>2, <1>3 DEF Boots

\* Bytes arrive, or nothing happens to the ports.
LEMMA ArrivalsKeepPorts ==
  ASSUME PortsInv, UNCHANGED <<pc, data, config, conf, board, scanning, port_enabled, skipped>>,
         AckFree(output) => AckFree(output'), OneAck(output) => OneAck(output')
  PROVE  PortsInv'
<1>1. Heard' = Heard
  BY StillHeard
<1>2. /\ FirstHeard <=> FirstHeard'
      /\ FirstWorks <=> FirstWorks'
  BY <1>1 DEF FirstHeard, FirstWorks
<1>3. (Quiet => Quiet') /\ (AtMostOne => AtMostOne')
  BY DEF Quiet, AtMostOne
<1>4. Resets => Resets'
  BY <1>1, <1>2, <1>3 DEF Resets
<1>5. Detection => Detection'
  BY <1>1, <1>2, <1>3 DEF Detection
<1>6. KeepsConfig' = KeepsConfig
  BY DEF KeepsConfig
<1> QED
  BY <1>1, <1>3, <1>4, <1>5, <1>6 DEF PortsInv

LEMMA HardwareKeepsPorts ==
  ASSUME PortsInv, TimerIrq \/ HardwareStep
  PROVE  PortsInv'
<1>1. UNCHANGED <<pc, data, config, conf, board, scanning, port_enabled, skipped>>
  <2>1. CASE TimerIrq
    BY <2>1 DEF TimerIrq, ps2Vars
  <2>2. CASE HardwareStep
    BY <2>2 DEF HardwareStep, Hardware, DeviceSends, RaiseIrq, hardware, installer, background
  <2> QED
    BY <2>1, <2>2
<1>2. UNCHANGED output \/ \E p \in Ports : Answer(From(p, <<"key">>))
  BY DEF TimerIrq, ps2Vars, HardwareStep, Hardware, DeviceSends, RaiseIrq, hardware
<1>3. ASSUME NEW p \in Ports, Answer(From(p, <<"key">>))
      PROVE  (AckFree(output) => AckFree(output')) /\ (OneAck(output) => OneAck(output'))
  <2>1. PICK s : s = output
    OBVIOUS
  <2>2. From(p, <<"key">>) = << <<p, "key">> >>
    BY DEF From
  <2>3. <<p, "key">> \in Items
    BY DEF Items, Codes, Ports
  <2>4. output' = s \o << <<p, "key">> >>
    BY <1>3, <2>1, <2>2 DEF Answer
  <2>5. s \in Seq(Items) =>
          /\ AckFree(s) => AckFree(s \o << <<p, "key">> >>)
          /\ OneAck(s) => OneAck(s \o << <<p, "key">> >>)
    BY <2>3, ItemAdded
  <2>6. AckFree(s) \/ OneAck(s) => s \in Seq(Items)
    BY DEF AckFree, OneAck
  <2> QED
    BY <2>1, <2>4, <2>5, <2>6
<1> QED
  BY <1>1, <1>2, <1>3, NothingRead, ArrivalsKeepPorts

\* The keyboard's handler reads while the masks are clear, and once it is installed.
LEMMA InterruptStage ==
  ASSUME BootInv, NEW irq \in Irqs, Interrupt(irq)
  PROVE  pc[1] \in Clearing \cup Settled
<1>1. irq \in {0, 1} /\ irq \notin masked[1]
  BY DEF BootInv, MasksKnown, Interrupt, Deliverable, Passes, Pic, Line
<1>2. pc[1] \notin Shut /\ pc[1] \in Stages
  BY <1>1 DEF BootInv, BootType, MasksKnown, Lines
<1> QED
  BY <1>2 DEF Stages, Settled

LEMMA InterruptKeepsPorts ==
  ASSUME BootInv, PortsInv, NEW irq \in Irqs, Interrupt(irq)
  PROVE  PortsInv'
<1>1. UNCHANGED <<pc, config, conf, board, scanning, port_enabled, skipped>>
  BY DEF Interrupt
<1>2. ReadAnswer \/ UNCHANGED <<output, data>>
  BY DEF Interrupt, Handle, keyboard_irq_handler
<1>3. pc[1] \in Clearing \cup Settled
  BY InterruptStage
<1>4. CASE pc[1] \in Settled
  BY <1>1, <1>4, SettledKeepsPorts
<1>5. CASE pc[1] \in Clearing
  <2>1. pc'[1] \in BeforeReset /\ pc[1] \in BeforeReset
    BY <1>1, <1>5 DEF BeforeReset
  <2>2. Quiet'
    BY <1>2, <2>1, OneByteRead, NothingRead DEF PortsInv
  <2>3. Resets' /\ Detection' /\ pc'[1] \notin Settled
    <3>1. pc'[1] \notin {"reset", "reset_ack", "reset_test"} \cup Detecting \cup Settled
      BY <1>1, <1>5 DEF Clearing, Detecting, Asking, Settled, Timer, Later
    <3> QED
      BY <3>1, OtherStage
  <2> QED
    BY <1>1, <2>1, <2>2, <2>3 DEF PortsInv
<1> QED
  BY <1>3, <1>4, <1>5

LEMMA SwitchKeepsPorts ==
  ASSUME PortsInv, NEW d \in DriverIrqs, Switch(d[1], d[2])
  PROVE  PortsInv'
<1>1. /\ pc[1] \in Settled /\ pc'[1] \in Settled
      /\ UNCHANGED <<config, conf, board, scanning, port_enabled, skipped>>
  BY DEF Switch, At, ps2Vars, Settled, Later
<1> QED
  BY <1>1, SettledKeepsPorts

LEMMA InitPorts == Init => PortsInv
<1> SUFFICES ASSUME Init PROVE PortsInv
  OBVIOUS
<1>1. /\ pc = <<"gdt", 0>> /\ output = << >> /\ data = "none" /\ port_enabled = {}
      /\ conf = config
  BY DEF Init, Ps2Init
<1>2. config \in Configs
  <2>1. PICK int \in SUBSET {Port1} :
          config = [int |-> int, off |-> IF board.dual THEN {} ELSE {Port2}]
    BY DEF Init, Ps2Init
  <2> QED
    BY <2>1 DEF Configs, Ports, Port1, Port2
<1>3. Quiet
  <2>1. AckFree(<< >>)
    BY DEF AckFree
  <2> QED
    BY <1>1, <2>1 DEF Quiet
<1>4. pc[1] \notin {"reset", "reset_ack", "reset_test"} \cup Detecting \cup Settled /\ pc[1] \in BeforeReset
  BY <1>1 DEF Detecting, Asking, Settled, Timer, Later, BeforeReset, Early
<1>5. Resets
  BY <1>4 DEF Resets
<1>6. Detection
  <2>1. \A s \in Detecting : pc # <<s, Port1>> /\ pc # <<s, Port2>>
    BY <1>4
  <2>2. "detect" \in Detecting /\ Asking \subseteq Detecting /\ "stop_ack" \in Asking
    BY DEF Detecting, Asking
  <2> QED
    BY <2>1, <2>2 DEF Detection
<1> QED
  BY <1>1, <1>2, <1>3, <1>4, <1>5, <1>6 DEF PortsInv

LEMMA NextKeepsPorts == BootInv /\ ControllerInv /\ PortsInv /\ [Next]_vars => PortsInv'
<1> SUFFICES ASSUME BootInv, ControllerInv, PortsInv, [Next]_vars PROVE PortsInv'
  OBVIOUS
<1>1. CASE UNCHANGED vars
  BY <1>1, NothingRead, ArrivalsKeepPorts DEF vars, ps2Vars
<1> QED
  BY <1>1, BootKeepsPorts, SwitchKeepsPorts, InterruptKeepsPorts, HardwareKeepsPorts DEF Next

LEMMA PortsInvariant == Spec => []PortsInv
BY InitPorts, NextKeepsPorts, BootInvariant, ControllerInvariant, PTL DEF Spec

\* A port that install leaves enabled has its interrupt turned on and its clock running,
\* and a device behind it that sends, unless a reset was given up before it began, on every
\* board that keeps its configuration: however many bytes the devices send in between and whichever of them come late,
\* a port without a device finds too few acknowledgements to stay enabled
\* (ps2_driver::install).
THEOREM EnabledPortsWork == Spec => []PortsWork
<1>1. PortsInv => PortsWork
  <2> SUFFICES ASSUME PortsInv, Running, KeepsConfig, ~skipped, NEW p \in port_enabled
               PROVE  p \in scanning /\ p \notin config.off /\ p \in config.int
    BY DEF PortsWork
  <2>1. pc[1] \in Settled /\ pc[1] \notin BeforeReset
    BY DEF Running, At, Settled, Later, BeforeReset, Early, Clearing
  <2> QED
    BY <2>1 DEF PortsInv, Heard, Listens
<1> QED
  BY <1>1, PortsInvariant, PTL

(***************************************************************************)
(* The devices.  As long as every answer comes in time and nothing else is *)
(* sent, what waits at each read is known up to bytes nobody asked for:    *)
(* the zeros with which mice end a reset, and the acknowledgements of the  *)
(* first device's start.                                                   *)
(***************************************************************************)
AllCodes == Codes \cup {"AB", "83"}
AllItems == (0 .. 2) \X AllCodes

\* The bytes of answer, behind n others that are all code.
Behind(n, code, answer, s) ==
  /\ s \in Seq(AllItems)
  /\ Len(s) = n + Len(answer)
  /\ \A i \in 1 .. n : s[i][2] = code
  /\ \A i \in 1 .. Len(answer) : s[n + i][2] = answer[i]

Waiting(code, answer) == \E n \in 0 .. Len(output) : Behind(n, code, answer, output)

ResetBytes(p) == IF board.attached[p] = "mouse" THEN <<"FA", "AA", "00">> ELSE <<"FA", "AA">>
SelfTestBytes(p) == IF board.attached[p] = "mouse" THEN <<"AA", "00">> ELSE <<"AA">>

Zeros == Waiting("00", << >>)
Acks == Waiting("FA", << >>)
Unread == data # "FA"

Named(p) == p \in port_enabled => device[p] = board.attached[p]
Known(p) == p = Port2 => Named(Port1)

\* What waits, and what was read last, at the stages of the resets and of the detection.
\* An acknowledgement does not say that the device has heard: it can be one that was left
\* over, or the second device's to a byte for the first.
Rested == Unread /\ Zeros
ResetSent(p) == Unread /\ (Zeros \/ Waiting("00", ResetBytes(p)))
ResetAcked(p) == data = "FA" /\ Behind(0, "00", SelfTestBytes(p), output)
ToDetect(p) == Unread /\ Known(p) /\ (Zeros \/ Acks)
StopSent(p) == Unread /\ Known(p) /\ (Zeros \/ Acks \/ Waiting("00", <<"FA">>))
StopAcked(p) == data = "FA" /\ Known(p) /\ Acks
IdentifySent(p) ==
  /\ data = "FA" /\ Known(p)
  /\ \/ Acks
     \/ /\ board.attached[p] \in Kinds
        /\ \E n \in 1 .. Len(output) : Behind(n, "FA", Ident[board.attached[p]], output)
IdentifyAcked(p) ==
  /\ data = "FA" /\ Known(p)
  /\ Acks \/ (board.attached[p] \in Kinds /\ Waiting("FA", Ident[board.attached[p]]))

InTime ==
  \A p \in Ports :
    /\ pc = <<"reset", p>> => Rested
    /\ pc = <<"reset_ack", p>> => ResetSent(p)
    /\ pc = <<"reset_test", p>> => ResetAcked(p)
    /\ pc = <<"detect", p>> => ToDetect(p)
    /\ pc = <<"stop_ack", p>> => StopSent(p)
    /\ pc = <<"identify", p>> => StopAcked(p)
    /\ pc = <<"identify_ack", p>> => IdentifySent(p)
    /\ pc = <<"read", p>> => IdentifyAcked(p)

Questions == {"answer", "verdict", "result"}

DevicesInv ==
  /\ keys \in Nat
  /\ device \in [Ports -> Kinds \cup {Unset}]
  /\ board.attached \in [Ports -> Kinds \cup {"none"}]
  /\ keys = 0 /\ pc[1] \in BeforeReset => Len(output) = IF pc[1] \in Questions THEN 1 ELSE 0
  /\ keys = 0 /\ ~late => InTime /\ (pc[1] \in Settled => \A p \in Ports : Named(p))

(***************************************************************************)
(* Reading what waits.                                                     *)
(***************************************************************************)
LEMMA BehindRest ==
  ASSUME NEW n \in Nat, NEW code, NEW answer, Len(answer) \in Nat, NEW s,
         Behind(n, code, answer, s), NEW k \in 0 .. n
  PROVE  Behind(n - k, code, answer, SubSeq(s, k + 1, Len(s)))
<1>1. /\ s \in Seq(AllItems) /\ Len(s) = n + Len(answer) /\ k \in 0 .. Len(s)
      /\ \A i \in 1 .. n : s[i][2] = code
      /\ \A i \in 1 .. Len(answer) : s[n + i][2] = answer[i]
  BY DEF Behind
<1>2. PICK t : t = SubSeq(s, k + 1, Len(s))
  OBVIOUS
<1>3. /\ t \in Seq(AllItems) /\ Len(t) = Len(s) - k
      /\ \A i \in 1 .. Len(t) : t[i] = s[i + k]
  BY <1>1, <1>2, Suffix
<1>4. \A i \in 1 .. n - k : t[i][2] = code
  <2> TAKE i \in 1 .. n - k
  <2>1. i \in 1 .. Len(t) /\ i + k \in 1 .. n
    BY <1>1, <1>3
  <2> QED
    BY <1>1, <1>3, <2>1
<1>5. \A i \in 1 .. Len(answer) : t[(n - k) + i][2] = answer[i]
  <2> TAKE i \in 1 .. Len(answer)
  <2>1. (n - k) + i \in 1 .. Len(t) /\ ((n - k) + i) + k = n + i
    BY <1>1, <1>3
  <2>2. t[(n - k) + i] = s[n + i]
    BY <1>3, <2>1
  <2> QED
    BY <1>1, <2>2
<1>6. Len(t) = (n - k) + Len(answer)
  BY <1>1, <1>3
<1>7. Behind(n - k, code, answer, t)
  BY <1>3, <1>4, <1>5, <1>6 DEF Behind
<1> QED
  BY <1>2, <1>7

\* An answer without its first byte.
After(answer, rest) ==
  /\ Len(rest) \in Nat /\ Len(answer) = Len(rest) + 1
  /\ \A i \in 1 .. Len(rest) : rest[i] = answer[i + 1]

LEMMA BehindAfter ==
  ASSUME NEW n \in Nat, NEW code, NEW answer, NEW rest, After(answer, rest), NEW s,
         Behind(n, code, answer, s), NEW other
  PROVE  Behind(0, other, rest, SubSeq(s, (n + 1) + 1, Len(s)))
<1>1. /\ s \in Seq(AllItems) /\ Len(s) = (n + 1) + Len(rest) /\ Len(rest) \in Nat
      /\ \A i \in 1 .. Len(rest) + 1 : s[n + i][2] = answer[i]
  BY DEF Behind, After
<1>2. PICK t : t = SubSeq(s, (n + 1) + 1, Len(s))
  OBVIOUS
<1>3. n + 1 \in 0 .. Len(s)
  BY <1>1
<1>4. /\ t \in Seq(AllItems) /\ Len(t) = Len(s) - (n + 1)
      /\ \A i \in 1 .. Len(t) : t[i] = s[i + (n + 1)]
  BY <1>1, <1>2, <1>3, Suffix
<1>5. \A i \in 1 .. Len(rest) : t[0 + i][2] = rest[i]
  <2> TAKE i \in 1 .. Len(rest)
  <2>1. 0 + i \in 1 .. Len(t) /\ 0 + i = i /\ i + (n + 1) = n + (i + 1) /\ i + 1 \in 1 .. Len(rest) + 1
    BY <1>1, <1>4
  <2>2. t[i] = s[n + (i + 1)]
    BY <1>4, <2>1
  <2>3. s[n + (i + 1)][2] = answer[i + 1]
    BY <1>1, <2>1
  <2> QED
    BY <2>1, <2>2, <2>3 DEF After
<1>6. Len(t) = 0 + Len(rest)
  BY <1>1, <1>4
<1>7. Behind(0, other, rest, t)
  BY <1>4, <1>5, <1>6 DEF Behind
<1> QED
  BY <1>2, <1>7

\* What a device answers goes behind what waits.
LEMMA Asked ==
  ASSUME NEW n \in Nat, NEW code, NEW s, Behind(n, code, << >>, s),
         NEW p \in Ports, NEW answer \in Seq(AllCodes)
  PROVE  Behind(n, code, answer, s \o From(p, answer))
<1>1. /\ s \in Seq(AllItems) /\ Len(s) = n
      /\ \A i \in 1 .. n : s[i][2] = code
  BY DEF Behind
<1>2. PICK f : f = From(p, answer)
  OBVIOUS
<1>3. f = [i \in 1 .. Len(answer) |-> <<p, answer[i]>>]
  BY <1>2 DEF From
<1>4. \A i \in 1 .. Len(answer) : <<p, answer[i]>> \in AllItems
  BY DEF AllItems, Ports
<1>5. f \in Seq(AllItems) /\ Len(f) = Len(answer) /\ Len(answer) \in Nat
  BY <1>3, <1>4
<1>6. \A i \in 1 .. Len(answer) : f[i][2] = answer[i]
  BY <1>3
<1>7. PICK t : t = s \o f
  OBVIOUS
<1>8. /\ t \in Seq(AllItems) /\ Len(t) = n + Len(answer)
      /\ \A i \in 1 .. n : t[i] = s[i]
      /\ \A i \in 1 .. Len(answer) : t[n + i] = f[i]
  <2> s \in Seq(AllItems) /\ f \in Seq(AllItems)
    BY <1>1, <1>5
  <2>1. t \in Seq(AllItems) /\ Len(t) = Len(s) + Len(f)
    BY <1>7
  <2>2. \A i \in 1 .. n : t[i] = s[i]
    BY <1>1, <1>5, <1>7
  <2>3. \A i \in 1 .. Len(answer) : t[Len(s) + i] = f[i]
    BY <1>1, <1>5, <1>7
  <2> QED
    BY <1>1, <1>5, <2>1, <2>2, <2>3
<1>9. Behind(n, code, answer, t)
  BY <1>1, <1>6, <1>8 DEF Behind
<1> QED
  BY <1>2, <1>7, <1>9

\* poll in time, with its value behind what is no such byte,
LEMMA PollFinds ==
  ASSUME NEW n \in Nat, NEW code, NEW answer, NEW rest, After(answer, rest),
         Behind(n, code, answer, output), NEW value, answer[1] = value,
         n = 0 \/ code # value, data # value, NEW other,
         NEW k \in Polled(value), poll(value, k), ~late'
  PROVE  Last(k) = value /\ data' = value /\ Behind(0, other, rest, output')
<1>1. PICK s : s = output
  OBVIOUS
<1>2. /\ s \in Seq(AllItems) /\ Len(s) = n + (Len(rest) + 1) /\ Len(rest) \in Nat
      /\ \A i \in 1 .. n : s[i][2] = code
      /\ s[n + 1][2] = value
  BY <1>1 DEF Behind, After
<1>3. k \in 0 .. Len(s) /\ \A i \in 1 .. k - 1 : s[i][2] # value
  BY <1>1 DEF Polled
<1>4. k <= n + 1
  <2> SUFFICES ASSUME k > n + 1 PROVE FALSE
    BY <1>2, <1>3
  <2>1. n + 1 \in 1 .. k - 1
    BY <1>2, <1>3
  <2> QED
    BY <1>2, <1>3, <2>1
<1>5. /\ data' = Last(k) /\ ~(Last(k) # value /\ k < Len(output))
      /\ output' = SubSeq(output, k + 1, Len(output))
  BY DEF poll
<1>6. Last(k) = IF k = 0 THEN data ELSE s[k][2]
  BY <1>1 DEF Last
<1>7. k = n + 1
  <2> SUFFICES ASSUME k <= n PROVE FALSE
    BY <1>2, <1>3, <1>4
  <2>1. k < Len(s)
    BY <1>2, <1>3
  <2>2. Last(k) # value
    <3>1. k = 0 \/ (n # 0 /\ k \in 1 .. n)
      BY <1>3
    <3> QED
      BY <1>2, <1>6, <3>1
  <2> QED
    BY <1>1, <1>5, <2>1, <2>2
<1>8. Last(k) = value
  <2>1. k # 0
    BY <1>7
  <2> QED
    BY <1>2, <1>6, <1>7, <2>1
<1>9. Behind(0, other, rest, SubSeq(s, (n + 1) + 1, Len(s)))
  <2>1. Behind(n, code, answer, s)
    BY <1>1
  <2> QED
    BY <2>1, BehindAfter
<1> QED
  BY <1>1, <1>5, <1>7, <1>8, <1>9

\* and without it.
LEMMA PollMisses ==
  ASSUME NEW n \in Nat, NEW code, Behind(n, code, << >>, output), NEW value, code # value,
         data # value, NEW other, NEW k \in Polled(value), poll(value, k), ~late'
  PROVE  Last(k) # value /\ data' # value /\ Behind(0, other, << >>, output')
<1>1. PICK s : s = output
  OBVIOUS
<1>2. s \in Seq(AllItems) /\ Len(s) = n /\ \A i \in 1 .. n : s[i][2] = code
  BY <1>1 DEF Behind
<1>3. k \in 0 .. n
  BY <1>1, <1>2 DEF Polled
<1>4. /\ data' = Last(k) /\ ~(Last(k) # value /\ k < Len(output))
      /\ output' = SubSeq(output, k + 1, Len(output))
  BY DEF poll
<1>5. Last(k) # value
  <2>1. k = 0 \/ k \in 1 .. n
    BY <1>3
  <2>2. Last(k) = IF k = 0 THEN data ELSE s[k][2]
    BY <1>1 DEF Last
  <2> QED
    BY <1>2, <2>1, <2>2
<1>6. k = n
  BY <1>1, <1>2, <1>3, <1>4, <1>5
<1>7. Behind(n - n, code, << >>, SubSeq(s, n + 1, Len(s)))
  <2>1. Behind(n, code, << >>, s) /\ Len(<< >>) \in Nat /\ n \in 0 .. n
    BY <1>1
  <2> QED
    BY <2>1, BehindRest
<1>8. Behind(0, other, << >>, output')
  <2>1. output' = SubSeq(s, n + 1, Len(s)) /\ n - n = 0
    BY <1>1, <1>4, <1>6
  <2>2. Behind(0, code, << >>, output')
    BY <1>7, <2>1
  <2> QED
    BY <2>2 DEF Behind
<1> QED
  BY <1>4, <1>5, <1>8

\* With acknowledgements in front it reads one of them,
LEMMA PollsAck ==
  ASSUME NEW n \in Nat, n > 0, NEW answer, Len(answer) \in Nat,
         Behind(n, "FA", answer, output), NEW k \in Polled("FA"), poll("FA", k)
  PROVE  /\ k \in 0 .. 1
         /\ Behind(n - k, "FA", answer, output')
         /\ k = 1 => Last(k) = "FA"
         /\ data' = Last(k)
<1>1. PICK s : s = output
  OBVIOUS
<1>2. Len(s) = n + Len(answer) /\ \A i \in 1 .. n : s[i][2] = "FA"
  BY <1>1 DEF Behind
<1>3. k \in 0 .. Len(s) /\ \A i \in 1 .. k - 1 : s[i][2] # "FA"
  BY <1>1 DEF Polled
<1>4. s[1][2] = "FA" /\ 1 \in 1 .. n
  BY <1>2
<1>5. k \in 0 .. 1
  <2> SUFFICES ASSUME k > 1 PROVE FALSE
    BY <1>2, <1>3
  <2>1. 1 \in 1 .. k - 1
    BY <1>2, <1>3
  <2> QED
    BY <1>3, <1>4, <2>1
<1>6. k = 1 => Last(k) = "FA"
  BY <1>1, <1>4 DEF Last
<1>7. data' = Last(k) /\ output' = SubSeq(s, k + 1, Len(s))
  BY <1>1 DEF poll
<1>8. Behind(n - k, "FA", answer, SubSeq(s, k + 1, Len(s)))
  <2>1. Behind(n, "FA", answer, s) /\ k \in 0 .. n
    BY <1>1, <1>5
  <2> QED
    BY <2>1, BehindRest
<1> QED
  BY <1>5, <1>6, <1>7, <1>8

\* or the one it read last once more.
LEMMA PollsAgain ==
  ASSUME NEW n \in Nat, n > 0, NEW answer, Len(answer) \in Nat, data = "FA",
         Behind(n, "FA", answer, output), NEW k \in Polled("FA"), poll("FA", k)
  PROVE  Last(k) = "FA" /\ data' = "FA" /\ \E m \in Nat : Behind(m, "FA", answer, output')
<1>1. /\ k \in 0 .. 1 /\ Behind(n - k, "FA", answer, output')
      /\ (k = 1 => Last(k) = "FA") /\ data' = Last(k)
  BY PollsAck
<1>2. k = 0 => Last(k) = "FA"
  BY DEF Last
<1>3. n - k \in Nat
  BY <1>1
<1> QED
  BY <1>1, <1>2, <1>3

LEMMA PollsFirst ==
  ASSUME NEW n \in Nat, n > 0, data # "FA", Behind(n, "FA", << >>, output),
         NEW k \in Polled("FA"), poll("FA", k), ~late'
  PROVE  Last(k) = "FA" /\ data' = "FA" /\ \E m \in Nat : Behind(m, "FA", << >>, output')
<1>1. Len(<< >>) = 0
  OBVIOUS
<1>2. /\ k \in 0 .. 1 /\ Behind(n - k, "FA", << >>, output')
      /\ (k = 1 => Last(k) = "FA") /\ data' = Last(k)
  BY <1>1, PollsAck
<1>3. k # 0
  <2> SUFFICES ASSUME k = 0 PROVE FALSE
    OBVIOUS
  <2>1. Last(k) = data /\ ~(Last(k) # "FA" /\ k < Len(output))
    BY DEF Last, poll
  <2>2. Len(output) = n
    BY <1>1 DEF Behind
  <2> QED
    BY <2>1, <2>2
<1>4. n - k \in Nat
  BY <1>2
<1> QED
  BY <1>2, <1>3, <1>4

\* The bytes of the two identities are read past any acknowledgements.
LEMMA Identified ==
  ASSUME NEW n \in Nat, NEW kind \in Kinds, Behind(n, "FA", Ident[kind], output),
         data = "FA", NEW km \in Identity, Last(km[1]) # "FA",
         ~(km[1] = km[2] /\ km[1] < Len(output))
  PROVE  /\ Found(Last(km[1]), Last(km[2])) = kind
         /\ Last(km[2]) # "FA" /\ km[2] = Len(output)
<1>1. PICK s : s = output
  OBVIOUS
<1>2. PICK a, b : km = <<a, b>> /\ a \in 0 .. Len(s) /\ b \in 0 .. Len(s)
  BY <1>1 DEF Identity
<1>3. /\ a <= b
      /\ \A i \in 1 .. a - 1 : s[i][2] = "FA"
  BY <1>1, <1>2 DEF Identity
<1>4. /\ Len(s) = n + Len(Ident[kind])
      /\ \A i \in 1 .. n : s[i][2] = "FA"
      /\ \A i \in 1 .. Len(Ident[kind]) : s[n + i][2] = Ident[kind][i]
  BY <1>1 DEF Behind
<1>5. \/ kind = "keyboard" /\ Len(s) = n + 2 /\ s[n + 1][2] = "AB" /\ s[n + 2][2] = "83"
      \/ kind = "mouse" /\ Len(s) = n + 1 /\ s[n + 1][2] = "00"
  <2>1. CASE kind = "keyboard"
    <3>1. Ident[kind] = <<"AB", "83">>
      BY <2>1 DEF Ident
    <3> QED
      BY <1>4, <2>1, <3>1
  <2>2. CASE kind = "mouse"
    <3>1. Ident[kind] = <<"00">>
      BY <2>2 DEF Ident
    <3> QED
      BY <1>4, <2>2, <3>1
  <2> QED
    BY <2>1, <2>2 DEF Kinds
<1>6. a = n + 1
  <2>1. a > n
    <3> SUFFICES ASSUME a <= n PROVE FALSE
      BY <1>2
    <3>1. a = 0 \/ a \in 1 .. n
      BY <1>2
    <3>2. Last(a) = "FA"
      BY <1>1, <1>4, <3>1 DEF Last
    <3> QED
      BY <1>2, <3>2
  <2>2. a <= n + 1
    <3> SUFFICES ASSUME a > n + 1 PROVE FALSE
      BY <1>2
    <3>1. n + 1 \in 1 .. a - 1
      BY <1>2
    <3> QED
      BY <1>3, <1>5, <3>1
  <2> QED
    BY <1>2, <2>1, <2>2
<1>7. Last(a) = s[a][2] /\ Last(b) = s[b][2]
  <2>1. a # 0 /\ b # 0
    BY <1>2, <1>3, <1>6
  <2> QED
    BY <1>1, <2>1 DEF Last
<1>8. b = Len(s)
  <2>1. ~(a = b /\ a < Len(s))
    BY <1>1, <1>2
  <2> QED
    BY <1>2, <1>3, <1>5, <1>6, <2>1
<1> QED
  BY <1>1, <1>2, <1>5, <1>6, <1>7, <1>8 DEF Found

(***************************************************************************)
(* What the devices answer.                                                *)
(***************************************************************************)
LEMMA ResetReplies ==
  ASSUME NEW p \in Ports
  PROVE  /\ Reply(p, "reset") = ResetBytes(p) /\ ResetBytes(p) \in Seq(AllCodes)
         /\ ResetBytes(p)[1] = "FA" /\ After(ResetBytes(p), SelfTestBytes(p))
<1>1. <<"FA", "AA">> \o <<"00">> = Append(<<"FA", "AA">>, "00")
  OBVIOUS
<1>2. <<"FA", "AA", "00">> = Append(<<"FA", "AA">>, "00")
  OBVIOUS
<1>3. <<"FA", "AA">> \o << >> = <<"FA", "AA">>
  OBVIOUS
<1>4. Reply(p, "reset") = <<"FA", "AA">> \o (IF board.attached[p] = "mouse" THEN <<"00">> ELSE << >>)
  BY Zenon DEF Reply
<1>5. Reply(p, "reset") = ResetBytes(p)
  BY <1>1, <1>2, <1>3, <1>4, Zenon DEF ResetBytes
<1>6. CASE board.attached[p] = "mouse"
  <2>1. ResetBytes(p) = <<"FA", "AA", "00">> /\ SelfTestBytes(p) = <<"AA", "00">>
    BY <1>6 DEF ResetBytes, SelfTestBytes
  <2>2. <<"FA", "AA", "00">> \in Seq(AllCodes)
    BY DEF AllCodes, Codes
  <2> QED
    BY <1>5, <2>1, <2>2 DEF After
<1>7. CASE board.attached[p] # "mouse"
  <2>1. ResetBytes(p) = <<"FA", "AA">> /\ SelfTestBytes(p) = <<"AA">>
    BY <1>7 DEF ResetBytes, SelfTestBytes
  <2>2. <<"FA", "AA">> \in Seq(AllCodes)
    BY DEF AllCodes, Codes
  <2> QED
    BY <1>5, <2>1, <2>2 DEF After
<1> QED
  BY <1>6, <1>7

\* After the self test's verdict at most a zero is left.
LEMMA SelfTestRests ==
  ASSUME NEW p \in Ports
  PROVE  /\ SelfTestBytes(p)[1] = "AA"
         /\ \E rest \in {<<"00">>, << >>} : After(SelfTestBytes(p), rest)
<1>1. CASE board.attached[p] = "mouse"
  <2>1. SelfTestBytes(p) = <<"AA", "00">>
    BY <1>1 DEF SelfTestBytes
  <2>2. After(<<"AA", "00">>, <<"00">>)
    BY DEF After
  <2> QED
    BY <2>1, <2>2
<1>2. CASE board.attached[p] # "mouse"
  <2>1. SelfTestBytes(p) = <<"AA">>
    BY <1>2 DEF SelfTestBytes
  <2>2. After(<<"AA">>, << >>)
    BY DEF After
  <2> QED
    BY <2>1, <2>2
<1> QED
  BY <1>1, <1>2

LEMMA IdentifyReplies ==
  ASSUME NEW p \in Ports, board.attached[p] \in Kinds
  PROVE  LET ident == Ident[board.attached[p]]
         IN  /\ Reply(p, "identify") \in Seq(AllCodes) /\ Reply(p, "identify")[1] = "FA"
             /\ After(Reply(p, "identify"), ident)
<1>1. Reply(p, "identify") = <<"FA">> \o Ident[board.attached[p]]
  BY DEF Reply
<1>2. CASE board.attached[p] = "keyboard"
  <2>1. Ident[board.attached[p]] = <<"AB", "83">>
    BY <1>2 DEF Ident
  <2>2. <<"FA">> \o <<"AB", "83">> = Append(Append(<<"FA">>, "AB"), "83")
    OBVIOUS
  <2>3. <<"FA", "AB", "83">> = Append(Append(<<"FA">>, "AB"), "83")
    OBVIOUS
  <2>4. Reply(p, "identify") = <<"FA", "AB", "83">>
    BY <1>1, <2>1, <2>2, <2>3, Zenon
  <2>5. <<"FA", "AB", "83">> \in Seq(AllCodes) /\ <<"FA", "AB", "83">>[1] = "FA"
    BY DEF AllCodes, Codes
  <2>6. After(<<"FA", "AB", "83">>, <<"AB", "83">>)
    BY DEF After
  <2> QED
    BY <2>1, <2>4, <2>5, <2>6
<1>3. CASE board.attached[p] = "mouse"
  <2>1. Ident[board.attached[p]] = <<"00">>
    BY <1>3 DEF Ident
  <2>2. <<"FA">> \o <<"00">> = Append(<<"FA">>, "00")
    OBVIOUS
  <2>3. <<"FA", "00">> = Append(<<"FA">>, "00")
    OBVIOUS
  <2>4. Reply(p, "identify") = <<"FA", "00">>
    BY <1>1, <2>1, <2>2, <2>3, Zenon
  <2>5. <<"FA", "00">> \in Seq(AllCodes) /\ <<"FA", "00">>[1] = "FA"
    BY DEF AllCodes, Codes
  <2>6. After(<<"FA", "00">>, <<"00">>)
    BY DEF After
  <2> QED
    BY <2>1, <2>4, <2>5, <2>6
<1> QED
  BY <1>2, <1>3 DEF Kinds

\* A first byte that is like the others belongs to them.
LEMMA OneMore ==
  ASSUME NEW n \in Nat, NEW code, NEW answer, NEW rest, After(answer, rest), answer[1] = code,
         NEW s, Behind(n, code, answer, s)
  PROVE  Behind(n + 1, code, rest, s)
<1>1. /\ s \in Seq(AllItems) /\ Len(s) = n + (Len(rest) + 1) /\ Len(rest) \in Nat
      /\ \A i \in 1 .. n : s[i][2] = code
      /\ \A i \in 1 .. Len(rest) + 1 : s[n + i][2] = answer[i]
  BY DEF Behind, After
<1>2. \A i \in 1 .. n + 1 : s[i][2] = code
  <2>1. s[n + 1][2] = code
    BY <1>1
  <2> QED
    BY <1>1, <2>1
<1>3. \A i \in 1 .. Len(rest) : s[(n + 1) + i][2] = rest[i]
  <2> TAKE i \in 1 .. Len(rest)
  <2>1. i + 1 \in 1 .. Len(rest) + 1 /\ (n + 1) + i = n + (i + 1)
    BY <1>1
  <2>2. s[n + (i + 1)][2] = answer[i + 1]
    BY <1>1, <2>1
  <2> QED
    BY <2>1, <2>2 DEF After
<1>4. Len(s) = (n + 1) + Len(rest)
  BY <1>1
<1> QED
  BY <1>1, <1>2, <1>3, <1>4 DEF Behind

\* How many others there are is a number of bytes in front of the output buffer.
LEMMA BehindWaitsThen ==
  ASSUME NEW n \in Nat, NEW code, NEW answer, Len(answer) \in Nat, Behind(n, code, answer, output')
  PROVE  \E m \in 0 .. Len(output') : Behind(m, code, answer, output')
<1>1. Len(output') = n + Len(answer)
  BY DEF Behind
<1>2. n \in 0 .. Len(output')
  BY <1>1
<1> QED
  BY <1>2

(***************************************************************************)
(* The steps before the resets.                                            *)
(***************************************************************************)
LEMMA OtherStageInTime ==
  ASSUME pc'[1] \notin {"reset", "reset_ack", "reset_test"} \cup Detecting
  PROVE  InTime'
<1>1. \A stage, p : pc' = <<stage, p>> => stage \notin {"reset", "reset_ack", "reset_test"} \cup Detecting
  OBVIOUS
<1>2. {"detect", "stop_ack", "identify", "identify_ack", "read"} = Detecting
  BY DEF Detecting, Asking
<1> QED
  BY <1>1, <1>2 DEF InTime

\* An empty buffer.
LEMMA NothingWaits ==
  ASSUME Quiet', Len(output') = 0
  PROVE  Rested'
<1>1. PICK s : s = output'
  OBVIOUS
<1>2. s = << >>
  BY <1>1 DEF Quiet, AckFree
<1>3. Behind(0, "00", << >>, s)
  BY <1>2 DEF Behind
<1>4. \E n \in 0 .. Len(output') : Behind(n, "00", << >>, output')
  BY <1>1, <1>3
<1> QED
  BY <1>4 DEF Rested, Unread, Zeros, Waiting, Quiet

LEMMA PreparedInTime ==
  ASSUME DevicesInv, PreparesQuietly, UNCHANGED <<keys, board, device>>,
         keys = 0 => Len(output') = IF pc'[1] \in Questions THEN 1 ELSE 0
  PROVE  DevicesInv'
<1>1. CASE pc'[1] \in Preparing
  <2>1. pc'[1] \notin {"reset", "reset_ack", "reset_test"} \cup Detecting \cup Settled
    BY <1>1 DEF Preparing, BeforePs2, BeforeReset, Early, Clearing, Detecting, Asking, Settled,
                Timer, Later
  <2>2. InTime'
    BY <2>1, OtherStageInTime
  <2> QED
    BY <2>1, <2>2 DEF DevicesInv
<1>2. CASE pc' = <<"reset", Port1>>
  <2>1. pc'[1] = "reset" /\ pc'[1] \notin Questions \cup BeforeReset \cup Settled
    BY <1>2 DEF Questions, BeforeReset, Early, Clearing, Settled, Timer, Later
  <2>2. keys = 0 => Rested'
    <3> SUFFICES ASSUME keys = 0 PROVE Rested'
      OBVIOUS
    <3>1. Len(output') = 0
      BY <2>1
    <3> QED
      BY <3>1, NothingWaits DEF PreparesQuietly
  <2>3. keys = 0 => InTime'
    BY <1>2, <2>1, <2>2 DEF InTime
  <2> QED
    BY <2>1, <2>3 DEF DevicesInv
<1> QED
  BY <1>1, <1>2 DEF PreparesQuietly

LEMMA PreparingInTime ==
  ASSUME ControllerInv, PortsInv, DevicesInv,
         \/ FlushOutputBuffer \/ SelfTest \/ SelfTestVerdict \/ EnableDualChannel
         \/ \E n \in 1 .. 3 : AskConfig(n) \/ GetConfig(n) \/ SetConfig(n)
         \/ \E p \in Ports : DisablePort(p) \/ TestPort(p) \/ TestResult(p) \/ EnablePort(p)
  PROVE  DevicesInv'
<1> USE DEF At, Goto, Command, installer, background, Questions
<1>1. PreparesQuietly
  BY WritesPrepare, QuestionsPrepare, AnswersPrepare, ConfigsPrepare
<1>2. pc[1] \in BeforeReset
  BY <1>1 DEF PreparesQuietly, Preparing
<1>3. keys = 0 => Len(output) = IF pc[1] \in Questions THEN 1 ELSE 0
  BY <1>2 DEF DevicesInv
<1>4. output \in Seq(Items)
  BY <1>2 DEF PortsInv, Quiet, AckFree
<1>5. UNCHANGED <<keys, board, device>>
  BY DEF FlushOutputBuffer, SelfTest, SelfTestVerdict, EnableDualChannel, AskConfig, GetConfig,
         SetConfig, DisablePort, TestPort, TestResult, EnablePort
<1>6. ASSUME \/ EnableDualChannel
             \/ \E n \in 1 .. 3 : SetConfig(n)
             \/ \E p \in Ports : DisablePort(p) \/ EnablePort(p)
      PROVE  /\ pc[1] \notin Questions /\ pc'[1] \notin Questions
             /\ UNCHANGED output
  <2>1. ASSUME EnableDualChannel PROVE pc[1] = "dual" /\ pc'[1] = "ask" /\ UNCHANGED output
    BY <2>1 DEF EnableDualChannel
  <2>2. ASSUME NEW n \in 1 .. 3, SetConfig(n)
        PROVE  pc[1] = "set" /\ pc'[1] \in {"self_test", "test", "reset"} /\ UNCHANGED output
    <3>1. pc[1] = "set" /\ UNCHANGED output
      BY <2>2 DEF SetConfig
    <3>2. CASE n = 1 BY <2>2, <3>1, <3>2 DEF SetConfig
    <3>3. CASE n = 2 BY <2>2, <3>1, <3>3 DEF SetConfig
    <3>4. CASE n = 3 BY <2>2, <3>1, <3>4 DEF SetConfig
    <3> QED BY <3>2, <3>3, <3>4
  <2>3. ASSUME NEW p \in Ports, DisablePort(p)
        PROVE  /\ pc[1] \in {"disable", "disable_again"} /\ pc'[1] \in {"set", "disable", "flush"}
               /\ UNCHANGED output
    BY <2>3 DEF DisablePort
  <2>4. ASSUME NEW p \in Ports, EnablePort(p)
        PROVE  pc[1] = "enable" /\ pc'[1] \in {"enable", "ask"} /\ UNCHANGED output
    BY <2>4 DEF EnablePort
  <2> QED
    BY <1>6, <2>1, <2>2, <2>3, <2>4
<1>7. ASSUME SelfTest \/ (\E n \in 1 .. 3 : AskConfig(n)) \/ \E p \in Ports : TestPort(p)
      PROVE  /\ pc[1] \notin Questions /\ pc'[1] \in Questions
             /\ \E e : output' = output \o <<e>>
  <2>1. ASSUME SelfTest
        PROVE  pc[1] = "self_test" /\ pc'[1] = "verdict" /\ \E e : output' = output \o <<e>>
    BY <2>1 DEF SelfTest, Answer
  <2>2. ASSUME NEW n \in 1 .. 3, AskConfig(n)
        PROVE  pc[1] = "ask" /\ pc'[1] = "answer" /\ \E e : output' = output \o <<e>>
    BY <2>2 DEF AskConfig, Answer
  <2>3. ASSUME NEW p \in Ports, TestPort(p)
        PROVE  pc[1] = "test" /\ pc'[1] = "result" /\ \E e : output' = output \o <<e>>
    BY <2>3 DEF TestPort, Answer
  <2> QED
    BY <1>7, <2>1, <2>2, <2>3
<1>8. ASSUME SelfTestVerdict \/ (\E n \in 1 .. 3 : GetConfig(n)) \/ \E p \in Ports : TestResult(p)
      PROVE  /\ pc[1] \in Questions /\ pc'[1] \notin Questions
             /\ output # << >> /\ output' = Tail(output)
  <2>1. ASSUME SelfTestVerdict
        PROVE  pc[1] = "verdict" /\ pc'[1] = "dual" /\ output # << >> /\ output' = Tail(output)
    BY <2>1 DEF SelfTestVerdict, ReadAnswer
  <2>2. ASSUME NEW n \in 1 .. 3, GetConfig(n)
        PROVE  /\ pc[1] = "answer" /\ pc'[1] \in {"set", "disable_again", "test"}
               /\ output # << >> /\ output' = Tail(output)
    <3>1. pc[1] = "answer" /\ output # << >> /\ output' = Tail(output)
      BY <2>2 DEF GetConfig, ReadAnswer
    <3>2. CASE n = 1 BY <2>2, <3>1, <3>2 DEF GetConfig
    <3>3. CASE n = 2 BY <2>2, <3>1, <3>3 DEF GetConfig
    <3>4. CASE n = 3 BY <2>2, <3>1, <3>4 DEF GetConfig
    <3> QED BY <3>2, <3>3, <3>4
  <2>3. ASSUME NEW p \in Ports, TestResult(p)
        PROVE  /\ pc[1] = "result" /\ pc'[1] \in {"test", "enable"}
               /\ output # << >> /\ output' = Tail(output)
    BY <2>3 DEF TestResult, ReadAnswer
  <2> QED
    BY <1>8, <2>1, <2>2, <2>3
<1>9. ASSUME FlushOutputBuffer
      PROVE  /\ pc[1] \notin Questions /\ pc'[1] \notin Questions
             /\ UNCHANGED output \/ output # << >>
  BY <1>9 DEF FlushOutputBuffer, ReadPort
<1>10. ASSUME keys = 0
       PROVE  Len(output') = IF pc'[1] \in Questions THEN 1 ELSE 0
  <2>1. PICK s, t : s = output /\ t = output'
    OBVIOUS
  <2>2. s \in Seq(Items) /\ Len(s) = IF pc[1] \in Questions THEN 1 ELSE 0
    BY <1>3, <1>4, <1>10, <2>1
  <2>3. \/ pc[1] \notin Questions /\ pc'[1] \notin Questions /\ (t = s \/ s # << >>)
        \/ pc[1] \notin Questions /\ pc'[1] \in Questions /\ \E e : t = s \o <<e>>
        \/ pc[1] \in Questions /\ pc'[1] \notin Questions /\ s # << >> /\ t = Tail(s)
    BY <1>6, <1>7, <1>8, <1>9, <2>1
  <2>4. CASE pc[1] \in Questions
    BY <2>1, <2>2, <2>3, <2>4
  <2>5. CASE pc[1] \notin Questions
    <3>1. s = << >>
      BY <2>2, <2>5
    <3> QED
      BY <2>1, <2>3, <2>5, <3>1
  <2> QED
    BY <2>4, <2>5
<1> QED
  BY <1>1, <1>5, <1>10, PreparedInTime

(***************************************************************************)
(* The resets and the detection.                                           *)
(***************************************************************************)
LEMMA InTimeSuffices ==
  ASSUME DevicesInv, UNCHANGED <<keys, board>>, device' \in [Ports -> Kinds \cup {Unset}],
         pc'[1] \notin BeforeReset, late => late',
         keys = 0 /\ ~late' => InTime' /\ (pc'[1] \in Settled => \A p \in Ports : Named(p)')
  PROVE  DevicesInv'
BY DEF DevicesInv

TimedStages ==
  {"reset", "reset_ack", "reset_test", "detect", "stop_ack", "identify", "identify_ack", "read"}

LEMMA StageInTime ==
  ASSUME NEW p \in Ports, NEW stage \in TimedStages, pc' = <<stage, p>>,
         stage = "reset" => Rested',
         stage = "reset_ack" => ResetSent(p)',
         stage = "reset_test" => ResetAcked(p)',
         stage = "detect" => ToDetect(p)',
         stage = "stop_ack" => StopSent(p)',
         stage = "identify" => StopAcked(p)',
         stage = "identify_ack" => IdentifySent(p)',
         stage = "read" => IdentifyAcked(p)'
  PROVE  InTime' /\ pc'[1] \notin Settled
<1>1. pc'[1] = stage /\ pc'[1] \notin Settled
  BY DEF TimedStages, Settled, Timer, Later
<1>2. \A q \in Ports, s \in TimedStages : pc' = <<s, q>> => q = p /\ s = stage
  OBVIOUS
<1>3. InTime'
  BY <1>2 DEF InTime, TimedStages
<1> QED
  BY <1>1, <1>3

LEMMA SettledInTime ==
  ASSUME pc' = <<"last_flush", Port1>>
  PROVE  InTime'
<1>1. pc'[1] = "last_flush"
  OBVIOUS
<1>2. pc'[1] \notin {"reset", "reset_ack", "reset_test"} \cup Detecting
  BY <1>1 DEF Detecting, Asking
<1> QED
  BY <1>2, OtherStageInTime

\* A command and its answer.
LEMMA SentInTime ==
  ASSUME NEW p \in Ports, NEW cmd \in {"reset", "stop", "identify"}, Send(p, cmd),
         Reply(p, cmd) \in Seq(AllCodes), NEW code,
         Waiting(code, << >>)
  PROVE  /\ ~Listens(p) => UNCHANGED output
         /\ Listens(p) => \E n \in Nat : Behind(n, code, Reply(p, cmd), output')
<1>1. PICK s : s = output
  OBVIOUS
<1>2. PICK n \in Nat : Behind(n, code, << >>, s)
  BY <1>1 DEF Waiting
<1>3. Behind(n, code, Reply(p, cmd), s \o From(p, Reply(p, cmd)))
  BY <1>2, Asked
<1>4. Listens(p) => output' = s \o From(p, Reply(p, cmd))
  BY <1>1 DEF Send, SendAfter
<1>5. ~Listens(p) => UNCHANGED output
  BY DEF Send, SendAfter
<1> QED
  BY <1>3, <1>4, <1>5

LEMMA SimpleReplies ==
  ASSUME NEW p \in Ports
  PROVE  /\ Reply(p, "stop") = <<"FA">> /\ Reply(p, "start") = <<"FA">>
         /\ <<"FA">> \in Seq(AllCodes) /\ Len(<<"FA">>) = 1
BY DEF Reply, AllCodes, Codes

\* The same bytes wait as before.
LEMMA StillWaiting ==
  ASSUME UNCHANGED output
  PROVE  Zeros' = Zeros /\ Acks' = Acks
BY DEF Zeros, Acks, Waiting

LEMMA NoneWait ==
  ASSUME Behind(0, "00", << >>, output')
  PROVE  Zeros' /\ Acks'
<1>1. Behind(0, "FA", << >>, output') /\ 0 \in 0 .. Len(output')
  BY DEF Behind
<1> QED
  BY <1>1 DEF Zeros, Acks, Waiting

LEMMA ResetsInTime ==
  ASSUME ControllerInv, DevicesInv, NEW p \in Ports, ResetPort(p)
  PROVE  DevicesInv'
<1> USE DEF At, Goto, NextPort
<1>1. /\ pc = <<"reset", p>> /\ UNCHANGED <<data, device, board, keys, late>>
      /\ device' \in [Ports -> Kinds \cup {Unset}]
  BY DEF ResetPort, DevicesInv
<1>2. \/ (Send(p, "reset") \/ UNCHANGED output) /\ pc' = <<"reset_ack", p>>
      \/ /\ UNCHANGED output
         /\ pc' = IF p = Port1 THEN <<"reset", Port2>> ELSE <<"detect", Port1>>
  <2>1. ~prefix
    BY <1>1 DEF ControllerInv, AfterPrefix, Settled, Timer, Later
  <2>2. ASSUME NEW success \in BOOLEAN, Write(p, output, "reset", success)
        PROVE  Send(p, "reset") \/ UNCHANGED output
    BY <2>1, <2>2, Writes DEF Send
  <2> QED
    BY <2>2 DEF ResetPort
<1>3. pc'[1] \notin BeforeReset
  BY <1>2 DEF BeforeReset, Early, Clearing
<1>4. ASSUME keys = 0, ~late'
      PROVE  InTime' /\ pc'[1] \notin Settled
  <2>1. Rested
    BY <1>1, <1>4 DEF DevicesInv, InTime
  <2>2. UNCHANGED output => Rested'
    BY <1>1, <2>1, StillWaiting DEF Rested, Unread
  <2>3. CASE (Send(p, "reset") \/ UNCHANGED output) /\ pc' = <<"reset_ack", p>>
    <3>1. CASE UNCHANGED output
      <4>1. ResetSent(p)'
        BY <2>2, <3>1 DEF ResetSent, Rested
      <4> QED
        BY <2>3, <4>1, StageInTime DEF TimedStages
    <3>2. CASE Send(p, "reset") /\ Listens(p)
      <4>1. Reply(p, "reset") = ResetBytes(p) /\ ResetBytes(p) \in Seq(AllCodes)
        BY ResetReplies
      <4>2. \E n \in Nat : Behind(n, "00", ResetBytes(p), output')
        BY <2>1, <3>2, <4>1, SentInTime DEF Rested, Zeros
      <4>3. ResetBytes(p)' = ResetBytes(p) /\ Len(ResetBytes(p)) \in Nat
        BY <1>1, <4>1 DEF ResetBytes
      <4>4. Waiting("00", ResetBytes(p))'
        BY <4>2, <4>3, BehindWaitsThen DEF Waiting
      <4>5. ResetSent(p)'
        BY <1>1, <2>1, <4>4 DEF ResetSent, Rested, Unread
      <4> QED
        BY <2>3, <4>5, StageInTime DEF TimedStages
    <3>3. CASE Send(p, "reset") /\ ~Listens(p)
      <4>1. UNCHANGED output
        BY <3>3 DEF Send, SendAfter
      <4> QED
        BY <3>1, <4>1
    <3> QED
      BY <2>3, <3>1, <3>2, <3>3
  <2>4. CASE p = Port1 /\ UNCHANGED output /\ pc' = <<"reset", Port2>>
    BY <2>2, <2>4, StageInTime DEF TimedStages, Ports, Port2
  <2>5. CASE UNCHANGED output /\ pc' = <<"detect", Port1>>
    <3>1. ToDetect(Port1)'
      BY <2>2, <2>5 DEF ToDetect, Rested, Known, Port1, Port2
    <3> QED
      BY <2>5, <3>1, StageInTime DEF TimedStages, Ports, Port1
  <2> QED
    BY <1>2, <2>3, <2>4, <2>5
<1> QED
  BY <1>1, <1>3, <1>4, InTimeSuffices

LEMMA ResetAcksInTime ==
  ASSUME DevicesInv, NEW p \in Ports, ResetAck(p)
  PROVE  DevicesInv'
<1> USE DEF At, Goto, NextPort, Ports, Port1, Port2
<1>1. PICK k \in Polled("FA") :
        /\ poll("FA", k)
        /\ IF Last(k) = "FA" THEN Goto("reset_test", p) /\ UNCHANGED port_enabled
           ELSE Disabled(p) /\ NextPort("reset", "detect", p)
  BY DEF ResetAck
<1>2. /\ pc = <<"reset_ack", p>> /\ UNCHANGED <<device, board, keys>>
      /\ device' \in [Ports -> Kinds \cup {Unset}] /\ (late => late')
  BY <1>1 DEF ResetAck, DevicesInv, poll
<1>3. \/ pc' = <<"reset_test", p>> /\ Last(k) = "FA"
      \/ p = Port1 /\ pc' = <<"reset", Port2>> /\ Last(k) # "FA"
      \/ /\ p = Port2 /\ pc' = <<"detect", Port1>> /\ Last(k) # "FA"
         /\ port_enabled' = port_enabled \ {p}
  BY <1>1 DEF Disabled
<1>4. pc'[1] \notin BeforeReset
  BY <1>3 DEF BeforeReset, Early, Clearing
<1>5. ASSUME keys = 0, ~late'
      PROVE  InTime' /\ pc'[1] \notin Settled
  <2>1. ResetSent(p)
    BY <1>2, <1>5 DEF DevicesInv, InTime
  <2>2. CASE Zeros
    <3>1. PICK n \in Nat : Behind(n, "00", << >>, output)
      BY <2>2 DEF Zeros, Waiting
    <3>2. Last(k) # "FA" /\ data' # "FA" /\ Behind(0, "00", << >>, output')
      BY <1>1, <1>5, <2>1, <3>1, PollMisses DEF ResetSent, Unread
    <3>3. Rested'
      BY <3>2, NoneWait DEF Rested, Unread
    <3>4. CASE pc' = <<"reset", Port2>>
      BY <3>3, <3>4, StageInTime DEF TimedStages
    <3>5. CASE p = Port2 /\ pc' = <<"detect", Port1>> /\ port_enabled' = port_enabled \ {p}
      <4>1. ToDetect(Port1)'
        BY <3>3, <3>5 DEF ToDetect, Rested, Known
      <4> QED
        BY <3>5, <4>1, StageInTime DEF TimedStages
    <3> QED
      BY <1>3, <3>2, <3>4, <3>5
  <2>3. CASE Waiting("00", ResetBytes(p))
    <3>1. PICK n \in Nat : Behind(n, "00", ResetBytes(p), output)
      BY <2>3 DEF Waiting
    <3>2. ResetBytes(p)[1] = "FA" /\ After(ResetBytes(p), SelfTestBytes(p))
      BY ResetReplies
    <3>3. data # "FA"
      BY <2>1 DEF ResetSent, Unread
    <3>4. Last(k) = "FA" /\ data' = "FA" /\ Behind(0, "00", SelfTestBytes(p), output')
      BY <1>1, <1>5, <3>1, <3>2, <3>3, PollFinds
    <3>5. SelfTestBytes(p)' = SelfTestBytes(p)
      BY <1>2 DEF SelfTestBytes
    <3>6. ResetAcked(p)'
      BY <3>4, <3>5 DEF ResetAcked
    <3> QED
      BY <1>3, <3>4, <3>6, StageInTime DEF TimedStages
  <2> QED
    BY <2>1, <2>2, <2>3 DEF ResetSent
<1> QED
  BY <1>2, <1>4, <1>5, InTimeSuffices

LEMMA ResetTestsInTime ==
  ASSUME DevicesInv, NEW p \in Ports, ResetSelfTest(p)
  PROVE  DevicesInv'
<1> USE DEF At, Goto, NextPort, Ports, Port1, Port2
<1>1. PICK k \in Polled("AA") :
        /\ poll("AA", k)
        /\ IF Last(k) = "AA" THEN UNCHANGED port_enabled ELSE Disabled(p)
        /\ NextPort("reset", "detect", p)
  BY DEF ResetSelfTest
<1>2. /\ pc = <<"reset_test", p>> /\ UNCHANGED <<device, board, keys>>
      /\ device' \in [Ports -> Kinds \cup {Unset}] /\ (late => late')
  BY <1>1 DEF ResetSelfTest, DevicesInv, poll
<1>3. \/ p = Port1 /\ pc' = <<"reset", Port2>>
      \/ p = Port2 /\ pc' = <<"detect", Port1>>
  BY <1>1
<1>4. pc'[1] \notin BeforeReset
  BY <1>3 DEF BeforeReset, Early, Clearing
<1>5. ASSUME keys = 0, ~late'
      PROVE  InTime' /\ pc'[1] \notin Settled
  <2>1. data = "FA" /\ Behind(0, "00", SelfTestBytes(p), output)
    BY <1>2, <1>5 DEF DevicesInv, InTime, ResetAcked
  <2>2. PICK rest \in {<<"00">>, << >>} : After(SelfTestBytes(p), rest)
    BY SelfTestRests
  <2>3. SelfTestBytes(p)[1] = "AA" /\ data # "AA"
    BY <2>1, SelfTestRests
  <2>4. Last(k) = "AA" /\ data' = "AA" /\ Behind(0, "00", rest, output')
    BY <1>1, <1>5, <2>1, <2>2, <2>3, PollFinds
  <2>5. Zeros'
    <3>1. CASE rest = << >>
      BY <2>4, <3>1, NoneWait
    <3>2. CASE rest = <<"00">>
      <4>1. PICK t : t = output'
        OBVIOUS
      <4>2. After(<<"00">>, << >>) /\ <<"00">>[1] = "00"
        BY DEF After
      <4>3. Behind(0 + 1, "00", << >>, t)
        BY <2>4, <3>2, <4>1, <4>2, OneMore
      <4>4. Len(<< >>) \in Nat /\ 0 + 1 \in Nat
        OBVIOUS
      <4>5. \E m \in 0 .. Len(output') : Behind(m, "00", << >>, output')
        BY <4>1, <4>3, <4>4, BehindWaitsThen
      <4> QED
        BY <4>5 DEF Zeros, Waiting
    <3> QED
      BY <3>1, <3>2
  <2>6. Rested'
    BY <2>4, <2>5 DEF Rested, Unread
  <2>7. CASE pc' = <<"reset", Port2>>
    BY <2>6, <2>7, StageInTime DEF TimedStages
  <2>8. CASE p = Port2 /\ pc' = <<"detect", Port1>>
    <3>1. ToDetect(Port1)'
      BY <2>6, <2>8 DEF ToDetect, Rested, Known
    <3> QED
      BY <2>8, <3>1, StageInTime DEF TimedStages
  <2> QED
    BY <1>3, <2>7, <2>8
<1> QED
  BY <1>2, <1>4, <1>5, InTimeSuffices

\* A port's device has been named, or the port given up.
LEMMA DetectedInTime ==
  ASSUME NEW p \in Ports, Named(p)', p = Port2 => Named(Port1)',
         p = Port1 => Unread' /\ (Zeros' \/ Acks'),
         pc' = IF p = Port1 THEN <<"detect", Port2>> ELSE <<"last_flush", Port1>>
  PROVE  InTime' /\ (pc'[1] \in Settled => \A q \in Ports : Named(q)')
<1>1. CASE p = Port1
  <2>1. ToDetect(Port2)'
    BY <1>1 DEF ToDetect, Known, Port1, Port2
  <2>2. pc' = <<"detect", Port2>>
    BY <1>1
  <2> QED
    BY <2>1, <2>2, StageInTime DEF TimedStages, Ports, Port2
<1>2. CASE p = Port2
  <2>1. pc' = <<"last_flush", Port1>>
    BY <1>2 DEF Port1, Port2
  <2>2. \A q \in Ports : Named(q)'
    BY <1>2 DEF Ports, Port1, Port2
  <2> QED
    BY <2>1, <2>2, SettledInTime
<1> QED
  BY <1>1, <1>2 DEF Ports, Port1, Port2

LEMMA StillNamed ==
  ASSUME UNCHANGED <<device, board>>, port_enabled' \subseteq port_enabled, NEW p \in Ports
  PROVE  Named(p) => Named(p)'
BY DEF Named

LEMMA StillKnown ==
  ASSUME UNCHANGED <<device, board>>, port_enabled' \subseteq port_enabled,
         NEW p \in Ports, Known(p)
  PROVE  Known(p)'
BY StillNamed DEF Known, Ports, Port1

LEMMA GivenUpInTime ==
  ASSUME NEW p \in Ports, Known(p), UNCHANGED <<device, board>>,
         port_enabled' = port_enabled \ {p},
         p = Port1 => Unread' /\ (Zeros' \/ Acks'),
         pc' = IF p = Port1 THEN <<"detect", Port2>> ELSE <<"last_flush", Port1>>
  PROVE  InTime' /\ (pc'[1] \in Settled => \A q \in Ports : Named(q)')
<1>1. Named(p)'
  BY DEF Named
<1>2. p = Port2 => Named(Port1)'
  BY StillNamed DEF Known, Ports, Port1
<1> QED
  BY <1>1, <1>2, DetectedInTime

\* An acknowledgement is asked for with bytes of one kind before it.
LEMMA AskedInTime ==
  ASSUME NEW p \in Ports, Listens(p), Send(p, "stop"), NEW code, Waiting(code, << >>)
  PROVE  Waiting(code, <<"FA">>)'
<1>1. Reply(p, "stop") = <<"FA">> /\ <<"FA">> \in Seq(AllCodes) /\ Len(<<"FA">>) = 1
  BY SimpleReplies
<1>2. \E n \in Nat : Behind(n, code, <<"FA">>, output')
  BY <1>1, SentInTime
<1> QED
  BY <1>1, <1>2, BehindWaitsThen DEF Waiting

\* One acknowledgement behind others.
LEMMA AcksThen ==
  ASSUME Waiting("FA", <<"FA">>)'
  PROVE  Acks'
<1>1. PICK s : s = output'
  OBVIOUS
<1>2. PICK n \in Nat : Behind(n, "FA", <<"FA">>, s)
  BY <1>1 DEF Waiting
<1>3. After(<<"FA">>, << >>) /\ <<"FA">>[1] = "FA" /\ Len(<< >>) \in Nat
  BY DEF After
<1>4. n + 1 \in Nat /\ Behind(n + 1, "FA", << >>, s)
  BY <1>2, <1>3, OneMore
<1> QED
  BY <1>1, <1>3, <1>4, BehindWaitsThen DEF Acks, Waiting

LEMMA DetectsInTime ==
  ASSUME DevicesInv, PortsInv, NEW p \in Ports, DetectDevice(p)
  PROVE  DevicesInv'
<1> USE DEF At, Goto, NextPort
<1>1. /\ pc = <<"detect", p>> /\ UNCHANGED <<data, device, board, keys, late>>
      /\ device' \in [Ports -> Kinds \cup {Unset}] /\ port_enabled \subseteq Ports
  BY DEF DetectDevice, DevicesInv, PortsInv
<1>2. \/ /\ \E q \in Ports : Send(q, "stop")
         /\ pc' = <<"stop_ack", p>> /\ UNCHANGED port_enabled
      \/ /\ UNCHANGED output /\ port_enabled' = port_enabled \ {p}
         /\ pc' = IF p = Port1 THEN <<"detect", Port2>> ELSE <<"last_flush", Port1>>
  <2>1. CASE Request(p, "stop", "stop_ack")
    <3>1. PICK success \in BOOLEAN :
            /\ Write(p, output, "stop", success)
            /\ IF success THEN Goto("stop_ack", p) /\ UNCHANGED port_enabled
               ELSE Disabled(p) /\ NextPort("detect", "last_flush", p)
      BY <2>1 DEF Request
    <3>2. /\ success => \E q \in Ports : Send(q, "stop")
          /\ ~success => UNCHANGED output
      BY <3>1, Writes DEF Send
    <3> QED
      BY <3>1, <3>2 DEF Disabled
  <2> QED
    BY <2>1 DEF DetectDevice, Disabled
<1>3. pc'[1] \notin BeforeReset
  BY <1>2 DEF BeforeReset, Early, Clearing
<1>4. port_enabled' \subseteq port_enabled
  BY <1>1, <1>2
<1>5. ASSUME keys = 0, ~late'
      PROVE  InTime' /\ (pc'[1] \in Settled => \A q \in Ports : Named(q)')
  <2>1. Unread /\ Known(p) /\ (Zeros \/ Acks)
    BY <1>1, <1>5 DEF DevicesInv, InTime, ToDetect
  <2>2. Unread'
    BY <1>1, <2>1 DEF Unread
  <2>3. UNCHANGED output => Zeros' \/ Acks'
    BY <2>1, StillWaiting
  <2>4. CASE /\ UNCHANGED output /\ port_enabled' = port_enabled \ {p}
             /\ pc' = IF p = Port1 THEN <<"detect", Port2>> ELSE <<"last_flush", Port1>>
    BY <1>1, <2>1, <2>2, <2>3, <2>4, GivenUpInTime
  <2>5. ASSUME NEW q \in Ports, Send(q, "stop"),
               pc' = <<"stop_ack", p>> /\ UNCHANGED port_enabled
        PROVE  InTime' /\ (pc'[1] \in Settled => \A r \in Ports : Named(r)')
    <3>1. Known(p)'
      BY <1>1, <1>4, <2>1, StillKnown
    <3>2. Zeros' \/ Acks' \/ Waiting("00", <<"FA">>)'
      <4>1. CASE Listens(q)
        <5>1. Waiting("00", <<"FA">>)' \/ Waiting("FA", <<"FA">>)'
          BY <2>1, <2>5, <4>1, AskedInTime DEF Zeros, Acks
        <5> QED
          BY <5>1, AcksThen
      <4>2. CASE ~Listens(q)
        <5>1. UNCHANGED output
          BY <2>5, <4>2 DEF Send, SendAfter
        <5> QED
          BY <2>3, <5>1
      <4> QED
        BY <4>1, <4>2
    <3>3. StopSent(p)'
      BY <2>2, <3>1, <3>2 DEF StopSent
    <3> QED
      BY <2>5, <3>3, StageInTime DEF TimedStages, Settled, Timer, Later
  <2> QED
    BY <1>2, <2>4, <2>5
<1> QED
  BY <1>1, <1>3, <1>5, InTimeSuffices

LEMMA StopAcksInTime ==
  ASSUME DevicesInv, NEW p \in Ports, DetectAck(p, "stop_ack", "identify")
  PROVE  DevicesInv'
<1> USE DEF At, Goto, NextPort
<1>1. PICK k \in Polled("FA") :
        /\ poll("FA", k)
        /\ IF Last(k) = "FA" THEN Goto("identify", p) /\ UNCHANGED port_enabled
           ELSE Disabled(p) /\ NextPort("detect", "last_flush", p)
  BY DEF DetectAck
<1>2. /\ pc = <<"stop_ack", p>> /\ UNCHANGED <<device, board, keys>>
      /\ device' \in [Ports -> Kinds \cup {Unset}] /\ (late => late')
  BY <1>1 DEF DetectAck, DevicesInv, poll
<1>3. \/ Last(k) = "FA" /\ pc' = <<"identify", p>> /\ UNCHANGED port_enabled
      \/ /\ Last(k) # "FA" /\ port_enabled' = port_enabled \ {p}
         /\ pc' = IF p = Port1 THEN <<"detect", Port2>> ELSE <<"last_flush", Port1>>
  BY <1>1 DEF Disabled
<1>4. pc'[1] \notin BeforeReset
  BY <1>3 DEF BeforeReset, Early, Clearing
<1>5. port_enabled' \subseteq port_enabled
  BY <1>3
<1>6. ASSUME keys = 0, ~late'
      PROVE  InTime' /\ (pc'[1] \in Settled => \A q \in Ports : Named(q)')
  <2>1. data # "FA" /\ Known(p) /\ (Zeros \/ Acks \/ Waiting("00", <<"FA">>))
    BY <1>2, <1>6 DEF DevicesInv, InTime, StopSent, Unread
  <2>2. After(<<"FA">>, << >>) /\ <<"FA">>[1] = "FA" /\ Len(<<"FA">>) = 1
    BY DEF After
  <2>3. CASE Zeros
    <3>1. PICK n \in Nat : Behind(n, "00", << >>, output)
      BY <2>3 DEF Zeros, Waiting
    <3>2. Last(k) # "FA" /\ data' # "FA" /\ Behind(0, "00", << >>, output')
      BY <1>1, <1>6, <2>1, <3>1, PollMisses
    <3>3. Unread' /\ Zeros'
      BY <3>2, NoneWait DEF Unread
    <3> QED
      BY <1>2, <1>3, <1>5, <2>1, <3>2, <3>3, GivenUpInTime
  <2>4. ASSUME Last(k) = "FA", data' = "FA", Acks'
        PROVE  InTime' /\ pc'[1] \notin Settled
    <3>1. Known(p)'
      BY <1>2, <1>5, <2>1, StillKnown
    <3>2. StopAcked(p)'
      BY <2>4, <3>1 DEF StopAcked
    <3> QED
      BY <1>3, <2>4, <3>2, StageInTime DEF TimedStages
  <2>5. CASE Waiting("00", <<"FA">>)
    <3>1. PICK n \in Nat : Behind(n, "00", <<"FA">>, output)
      BY <2>5 DEF Waiting
    <3>2. Last(k) = "FA" /\ data' = "FA" /\ Behind(0, "00", << >>, output')
      BY <1>1, <1>6, <2>1, <2>2, <3>1, PollFinds
    <3> QED
      BY <2>4, <2>5, <3>2, NoneWait
  <2>6. CASE Acks
    <3>1. PICK n \in Nat : Behind(n, "FA", << >>, output)
      BY <2>6 DEF Acks, Waiting
    <3>2. CASE n = 0
      <4>1. Behind(n, "00", << >>, output) /\ n \in 0 .. Len(output)
        BY <3>1, <3>2 DEF Behind
      <4>2. Zeros
        BY <3>2, <4>1 DEF Zeros, Waiting
      <4> QED
        BY <2>3, <4>2
    <3>3. CASE n > 0
      <4>1. Last(k) = "FA" /\ data' = "FA" /\ \E m \in Nat : Behind(m, "FA", << >>, output')
        BY <1>1, <1>6, <2>1, <3>1, <3>3, PollsFirst
      <4>2. Len(<< >>) \in Nat
        OBVIOUS
      <4>3. Acks'
        BY <4>1, <4>2, BehindWaitsThen DEF Acks, Waiting
      <4> QED
        BY <2>4, <4>1, <4>3
    <3> QED
      BY <3>2, <3>3
  <2> QED
    BY <2>1, <2>3, <2>5, <2>6
<1> QED
  BY <1>2, <1>4, <1>6, InTimeSuffices

LEMMA IdentifyRequestsInTime ==
  ASSUME ControllerInv, DevicesInv, NEW p \in Ports, RequestIdentify(p)
  PROVE  DevicesInv'
<1> USE DEF At, Goto
<1>1. /\ pc = <<"identify", p>> /\ UNCHANGED <<data, device, board, keys, late>>
      /\ device' \in [Ports -> Kinds \cup {Unset}]
  BY DEF RequestIdentify, DevicesInv
<1>2. \/ /\ Send(p, "identify")
         /\ pc' = <<"identify_ack", p>> /\ UNCHANGED port_enabled
      \/ /\ p = Port2 /\ port_enabled' = port_enabled \ {p}
         /\ pc' = <<"last_flush", Port1>>
  <2>1. PICK success \in BOOLEAN :
          /\ Write(p, output, "identify", success)
          /\ IF success THEN Goto("identify_ack", p) /\ UNCHANGED port_enabled
             ELSE Disabled(p) /\ NextPort("detect", "last_flush", p)
    BY DEF RequestIdentify, Request
  <2>2. ~prefix
    BY <1>1 DEF ControllerInv, AfterPrefix, Settled, Timer, Later
  <2>3. /\ success => Send(p, "identify")
        /\ ~success => p = Port2
    BY <2>1, <2>2, Writes DEF Send
  <2> QED
    BY <2>1, <2>3 DEF Disabled, NextPort, Port1, Port2
<1>3. pc'[1] \notin BeforeReset
  BY <1>2 DEF BeforeReset, Early, Clearing
<1>4. port_enabled' \subseteq port_enabled
  BY <1>2
<1>5. ASSUME keys = 0, ~late'
      PROVE  InTime' /\ (pc'[1] \in Settled => \A q \in Ports : Named(q)')
  <2>1. data = "FA" /\ Known(p) /\ Acks
    BY <1>1, <1>5 DEF DevicesInv, InTime, StopAcked
  <2>2. CASE p = Port2 /\ port_enabled' = port_enabled \ {p} /\ pc' = <<"last_flush", Port1>>
    BY <1>1, <2>1, <2>2, GivenUpInTime DEF Port1, Port2
  <2>3. Known(p)'
    BY <1>1, <1>4, <2>1, StillKnown
  <2>4. CASE /\ Send(p, "identify") /\ Listens(p)
             /\ pc' = <<"identify_ack", p>>
    <3>1. board.attached[p] \in Kinds
      BY <2>4 DEF DevicesInv, Listens
    <3>2. PICK ident : ident = Ident[board.attached[p]]
      OBVIOUS
    <3>3. PICK reply : reply = Reply(p, "identify")
      OBVIOUS
    <3>4. reply \in Seq(AllCodes) /\ reply[1] = "FA" /\ After(reply, ident)
      BY <3>1, <3>2, <3>3, IdentifyReplies
    <3>5. PICK n \in Nat : Behind(n, "FA", reply, output')
      BY <2>1, <2>4, <3>3, <3>4, SentInTime DEF Acks
    <3>6. PICK t : t = output'
      OBVIOUS
    <3>7. Behind(n + 1, "FA", ident, t)
      BY <3>4, <3>5, <3>6, OneMore
    <3>8. n + 1 \in 1 .. Len(t)
      <4>1. Len(t) = (n + 1) + Len(ident) /\ Len(ident) \in Nat
        BY <3>4, <3>7 DEF Behind, After
      <4> QED
        BY <4>1
    <3>9. \E m \in 1 .. Len(output') : Behind(m, "FA", Ident[board.attached[p]], output')
      BY <3>2, <3>6, <3>7, <3>8
    <3>10. IdentifySent(p)'
      BY <1>1, <2>1, <2>3, <3>1, <3>9 DEF IdentifySent
    <3> QED
      BY <2>4, <3>10, StageInTime DEF TimedStages
  <2>5. CASE /\ Send(p, "identify") /\ ~Listens(p)
             /\ pc' = <<"identify_ack", p>>
    <3>1. UNCHANGED output
      BY <2>5 DEF Send, SendAfter
    <3>2. IdentifySent(p)'
      BY <1>1, <2>1, <2>3, <3>1, StillWaiting DEF IdentifySent
    <3> QED
      BY <2>5, <3>2, StageInTime DEF TimedStages
  <2> QED
    BY <1>2, <2>2, <2>4, <2>5
<1> QED
  BY <1>1, <1>3, <1>5, InTimeSuffices

\* After one acknowledgement another is read, even if none has come.
LEMMA PollsOn ==
  ASSUME data = "FA", Acks, NEW k \in Polled("FA"), poll("FA", k)
  PROVE  Last(k) = "FA" /\ data' = "FA" /\ Acks'
<1>1. PICK n \in Nat : Behind(n, "FA", << >>, output)
  BY DEF Acks, Waiting
<1>2. Len(<< >>) \in Nat
  OBVIOUS
<1>3. CASE n > 0
  <2>1. Last(k) = "FA" /\ data' = "FA" /\ \E m \in Nat : Behind(m, "FA", << >>, output')
    BY <1>1, <1>2, <1>3, PollsAgain
  <2> QED
    BY <1>2, <2>1, BehindWaitsThen DEF Acks, Waiting
<1>4. CASE n = 0
  <2>1. PICK s : s = output
    OBVIOUS
  <2>2. s = << >>
    BY <1>1, <1>4, <2>1 DEF Behind
  <2>3. k = 0
    BY <2>1, <2>2 DEF Polled
  <2>4. Last(k) = "FA" /\ data' = "FA" /\ output' = SubSeq(s, 1, 0)
    BY <2>1, <2>2, <2>3 DEF poll, Last
  <2>5. Behind(0, "00", << >>, output')
    BY <2>2, <2>4 DEF Behind
  <2> QED
    BY <2>4, <2>5, NoneWait
<1> QED
  BY <1>3, <1>4

LEMMA IdentifyAcksInTime ==
  ASSUME DevicesInv, NEW p \in Ports, DetectAck(p, "identify_ack", "read")
  PROVE  DevicesInv'
<1> USE DEF At, Goto, NextPort
<1>1. PICK k \in Polled("FA") :
        /\ poll("FA", k)
        /\ IF Last(k) = "FA" THEN Goto("read", p) /\ UNCHANGED port_enabled
           ELSE Disabled(p) /\ NextPort("detect", "last_flush", p)
  BY DEF DetectAck
<1>2. /\ pc = <<"identify_ack", p>> /\ UNCHANGED <<device, board, keys>>
      /\ device' \in [Ports -> Kinds \cup {Unset}] /\ (late => late')
  BY <1>1 DEF DetectAck, DevicesInv, poll
<1>3. pc'[1] \notin BeforeReset
  BY <1>1 DEF BeforeReset, Early, Clearing
<1>4. ASSUME keys = 0, ~late'
      PROVE  InTime' /\ pc'[1] \notin Settled
  <2>1. data = "FA" /\ Known(p)
    BY <1>2, <1>4 DEF DevicesInv, InTime, IdentifySent
  <2>2. ASSUME Last(k) = "FA", data' = "FA",
               \/ Acks'
               \/ board.attached[p] \in Kinds /\ Waiting("FA", Ident[board.attached[p]])'
        PROVE  InTime' /\ pc'[1] \notin Settled
    <3>1. pc' = <<"read", p>> /\ UNCHANGED port_enabled
      BY <1>1, <2>2
    <3>2. Known(p)'
      BY <1>2, <2>1, <3>1, StillKnown
    <3>3. IdentifyAcked(p)'
      BY <1>2, <2>2, <3>2 DEF IdentifyAcked
    <3> QED
      BY <3>1, <3>3, StageInTime DEF TimedStages
  <2>3. CASE Acks
    BY <1>1, <2>1, <2>2, <2>3, PollsOn
  <2>4. CASE /\ board.attached[p] \in Kinds
             /\ \E n \in 1 .. Len(output) : Behind(n, "FA", Ident[board.attached[p]], output)
    <3>1. PICK n \in 1 .. Len(output) : Behind(n, "FA", Ident[board.attached[p]], output)
      BY <2>4
    <3>2. PICK ident, s : ident = Ident[board.attached[p]] /\ s = output
      OBVIOUS
    <3>3. n \in Nat /\ n > 0 /\ Len(ident) \in Nat /\ Behind(n, "FA", ident, s)
      <4>1. Len(ident) \in Nat
        BY <2>4, <3>2, IdentifyReplies DEF After
      <4>2. Len(s) \in Nat
        BY <3>1, <3>2 DEF Behind
      <4> QED
        BY <3>1, <3>2, <4>1, <4>2
    <3>4. Last(k) = "FA" /\ data' = "FA" /\ \E m \in Nat : Behind(m, "FA", ident, output')
      BY <1>1, <2>1, <3>2, <3>3, PollsAgain
    <3>5. \E m \in 0 .. Len(output') : Behind(m, "FA", ident, output')
      BY <3>3, <3>4, BehindWaitsThen
    <3>6. Waiting("FA", Ident[board.attached[p]])'
      BY <1>2, <3>2, <3>5 DEF Waiting
    <3> QED
      BY <2>2, <2>4, <3>4, <3>6
  <2> QED
    BY <1>2, <1>4, <2>3, <2>4 DEF DevicesInv, InTime, IdentifySent
<1> QED
  BY <1>2, <1>3, <1>4, InTimeSuffices

\* What is read while nothing but acknowledgements waits.
LEMMA AcksRead ==
  ASSUME data = "FA", Acks, NEW k \in 0 .. Len(output)
  PROVE  Last(k) = "FA"
<1>1. PICK n \in Nat : Behind(n, "FA", << >>, output)
  BY DEF Acks, Waiting
<1>2. n = Len(output) /\ \A i \in 1 .. n : output[i][2] = "FA"
  BY <1>1 DEF Behind
<1> QED
  BY <1>2 DEF Last

LEMMA DevicesNamedInTime ==
  ASSUME DevicesInv, PortsInv, NEW p \in Ports, IdentifyDevice(p)
  PROVE  DevicesInv'
<1> USE DEF At, Goto, NextPort
<1>1. PICK km \in Identity, success \in BOOLEAN :
        /\ data' = Last(km[2])
        /\ late' = (late \/ Last(km[1]) = "FA" \/ (km[1] = km[2] /\ km[1] < Len(output)))
        /\ Write(p, SubSeq(output, km[2] + 1, Len(output)), "start", success)
        /\ \/ /\ success
              /\ device' = [device EXCEPT ![p] = Found(Last(km[1]), Last(km[2]))]
              /\ UNCHANGED port_enabled
           \/ /\ ~success
              /\ Disabled(p)
              /\ UNCHANGED device
  BY DEF IdentifyDevice, NameDevice
<1>2. /\ pc = <<"read", p>> /\ UNCHANGED <<board, keys>>
      /\ pc' = IF p = Port1 THEN <<"detect", Port2>> ELSE <<"last_flush", Port1>>
      /\ late => late'
  BY <1>1 DEF IdentifyDevice
<1>3. device' \in [Ports -> Kinds \cup {Unset}]
  <2>1. Found(Last(km[1]), Last(km[2])) \in Kinds \cup {Unset}
    BY DEF Found, Kinds
  <2> QED
    BY <1>1, <2>1 DEF DevicesInv
<1>4. pc'[1] \notin BeforeReset
  BY <1>2 DEF BeforeReset, Early, Clearing
<1>5. port_enabled' \subseteq port_enabled
  BY <1>1 DEF Disabled
<1>6. ASSUME keys = 0, ~late'
      PROVE  InTime' /\ (pc'[1] \in Settled => \A q \in Ports : Named(q)')
  <2>1. /\ data = "FA" /\ Known(p) /\ board.attached[p] \in Kinds
        /\ Waiting("FA", Ident[board.attached[p]])
    <3>1. ~Acks
      BY <1>1, <1>2, <1>6, AcksRead DEF DevicesInv, InTime, IdentifyAcked, Identity
    <3> QED
      BY <1>2, <1>6, <3>1 DEF DevicesInv, InTime, IdentifyAcked
  <2>2. PICK n \in Nat : Behind(n, "FA", Ident[board.attached[p]], output)
    BY <2>1 DEF Waiting
  <2>3. PICK kind \in Kinds : kind = board.attached[p]
    BY <2>1
  <2>4. /\ Found(Last(km[1]), Last(km[2])) = kind
        /\ Last(km[2]) # "FA" /\ km[2] = Len(output)
    BY <1>1, <1>6, <2>1, <2>2, <2>3, Identified
  <2>5. Unread'
    BY <1>1, <2>4 DEF Unread
  <2>6. PICK s, t : s = output /\ t = SubSeq(s, Len(s) + 1, Len(s))
    OBVIOUS
  <2>7. Behind(0, "FA", << >>, t)
    <3>1. s \in Seq(AllItems)
      BY <2>2, <2>6 DEF Behind
    <3>2. t = << >>
      BY <2>6, <3>1
    <3> QED
      BY <3>2 DEF Behind
  <2>8. success => Acks'
    <3> SUFFICES ASSUME success PROVE Acks'
      OBVIOUS
    <3>0. PICK q \in Ports : SendAfter(t, q, "start")
      BY <1>1, <2>4, <2>6, Writes
    <3>1. CASE ~Listens(q)
      <4>1. output' = t
        BY <3>0, <3>1 DEF SendAfter
      <4>2. Behind(0, "00", << >>, output')
        BY <2>7, <4>1 DEF Behind
      <4> QED
        BY <4>2, NoneWait
    <3> SUFFICES ASSUME Listens(q) PROVE Acks'
      BY <3>1
    <3>2. PICK reply : reply = Reply(q, "start")
      OBVIOUS
    <3>3. reply = <<"FA">> /\ reply \in Seq(AllCodes) /\ Len(reply) = 1
      BY <3>2, SimpleReplies
    <3>4. output' = t \o From(q, reply)
      BY <3>0, <3>2 DEF SendAfter
    <3>5. Behind(0, "FA", reply, t \o From(q, reply))
      BY <2>7, <3>3, Asked
    <3>6. PICK u : u = output'
      OBVIOUS
    <3>7. Behind(0 + 1, "FA", << >>, u)
      <4>1. After(reply, << >>) /\ reply[1] = "FA"
        BY <3>3 DEF After
      <4> QED
        BY <3>4, <3>5, <3>6, <4>1, OneMore
    <3>8. \E m \in 0 .. Len(output') : Behind(m, "FA", << >>, output')
      <4>1. Len(<< >>) \in Nat /\ 0 + 1 \in Nat
        OBVIOUS
      <4> QED
        BY <3>6, <3>7, <4>1, BehindWaitsThen
    <3> QED
      BY <3>8 DEF Acks, Waiting
  <2>9. Named(p)'
    <3>1. CASE success
      <4>1. device' = [device EXCEPT ![p] = kind] /\ board'.attached[p] = kind
        BY <1>1, <1>2, <2>3, <2>4, <3>1
      <4>2. device'[p] = kind
        BY <4>1 DEF DevicesInv
      <4> QED
        BY <4>1, <4>2 DEF Named
    <3>2. CASE ~success
      BY <1>1, <3>2 DEF Named, Disabled
    <3> QED
      BY <3>1, <3>2
  <2>10. p = Port2 => Named(Port1)'
    <3> SUFFICES ASSUME p = Port2 PROVE Named(Port1)'
      OBVIOUS
    <3>1. Named(Port1)
      BY <2>1 DEF Known
    <3>2. device'[Port1] = device[Port1]
      <4>1. device' = [device EXCEPT ![p] = kind] \/ UNCHANGED device
        BY <1>1, <2>4
      <4> QED
        BY <4>1 DEF DevicesInv, Ports, Port1, Port2
    <3> QED
      BY <1>2, <1>5, <3>1, <3>2 DEF Named
  <2>11. p = Port1 => Unread' /\ Acks'
    <3>1. p = Port1 => success
      BY <1>1, Writes DEF Port1, Port2
    <3> QED
      BY <2>5, <2>8, <3>1
  <2> QED
    BY <1>2, <1>5, <2>1, <2>9, <2>10, <2>11, DetectedInTime
<1> QED
  BY <1>2, <1>3, <1>4, <1>6, InTimeSuffices

(***************************************************************************)
(* The other steps.                                                        *)
(***************************************************************************)
\* Once the devices are named they stay so,
LEMMA SettledKeepsDevices ==
  ASSUME DevicesInv, pc[1] \in Settled, pc'[1] \in Settled,
         UNCHANGED <<board, port_enabled, device, keys, late>>
  PROVE  DevicesInv'
<1>1. pc'[1] \notin {"reset", "reset_ack", "reset_test"} \cup Detecting \cup BeforeReset
  BY DEF BeforeReset, Settled, Early, Clearing, Timer, Later, Detecting, Asking
<1>2. InTime'
  BY <1>1, OtherStageInTime
<1>3. \A p \in Ports : Named(p) => Named(p)'
  BY DEF Named
<1>4. keys = 0 /\ ~late => \A p \in Ports : Named(p)'
  BY <1>3 DEF DevicesInv
<1> QED
  BY <1>1, <1>2, <1>4 DEF DevicesInv

\* and before the controller is set up none is.
LEMMA EarlyKeepsDevices ==
  ASSUME DevicesInv, pc[1] \in BeforePs2, pc'[1] \in BeforePs2 \cup {"disable", "pit"},
         port_enabled' = {}, UNCHANGED <<board, device, keys>>,
         keys = 0 => UNCHANGED output
  PROVE  DevicesInv'
<1>1. /\ pc'[1] \notin {"reset", "reset_ack", "reset_test"} \cup Detecting
      /\ pc[1] \in BeforeReset \ Questions /\ pc'[1] \notin Questions
  BY DEF BeforePs2, Early, Clearing, Detecting, Asking, BeforeReset, Questions
<1>2. InTime' /\ \A p \in Ports : Named(p)'
  BY <1>1, OtherStageInTime DEF Named
<1>3. keys = 0 => Len(output') = 0
  BY <1>1 DEF DevicesInv
<1> QED
  BY <1>1, <1>2, <1>3 DEF DevicesInv

LEMMA InstallKeepsDevices ==
  ASSUME ControllerInv, PortsInv, DevicesInv, install
  PROVE  DevicesInv'
<1>1. ASSUME LastFlush \/ InstallKeyboardHandler \/ UnmaskKeyboard PROVE DevicesInv'
  <2>1. /\ pc[1] \in Settled /\ pc'[1] \in Settled
        /\ UNCHANGED <<board, port_enabled, device, keys, late>>
    BY <1>1 DEF LastFlush, InstallKeyboardHandler, UnmaskKeyboard, At, Goto, installer, background,
                ps2Vars, Settled, Timer
  <2> QED
    BY <2>1, SettledKeepsDevices
<1>2. ASSUME NEW p \in Ports, InstallPorts(p) PROVE DevicesInv'
  <2>1. DetectAck(p, "stop_ack", "identify") => DevicesInv'
    BY StopAcksInTime
  <2>2. DetectAck(p, "identify_ack", "read") => DevicesInv'
    BY IdentifyAcksInTime
  <2> QED
    BY <1>2, <2>1, <2>2, PreparingInTime, ResetsInTime, ResetAcksInTime, ResetTestsInTime,
       DetectsInTime, IdentifyRequestsInTime, DevicesNamedInTime DEF InstallPorts
<1> QED
  BY <1>1, <1>2, PreparingInTime DEF install, InstallController

LEMMA BootKeepsDevices ==
  ASSUME ControllerInv, PortsInv, DevicesInv, Boots
  PROVE  DevicesInv'
<1> USE DEF At, Goto
<1>1. CASE InstallPs2
  BY <1>1, InstallKeepsDevices DEF InstallPs2
<1>2. CASE \/ InstallTimerHandler \/ AddTimer \/ EnableTimer
           \/ EnableRtc \/ AddRtc \/ HookUpdateTime \/ SchedulerInit
  <2>1. UNCHANGED <<board, port_enabled, device, keys, late>>
    BY <1>2 DEF InstallTimerHandler, AddTimer, EnableTimer, EnableRtc, AddRtc, HookUpdateTime,
                SchedulerInit, Hook, ps2Vars
  <2>2. pc[1] \in Settled /\ pc'[1] \in Settled
    <3>1. pc[1] \in Timer \cup Later /\ pc'[1] \in Timer \cup Later
      BY <1>2 DEF InstallTimerHandler, AddTimer, EnableTimer, EnableRtc, AddRtc, HookUpdateTime,
                SchedulerInit, Hook, Timer, Later
    <3> QED
      BY <3>1 DEF Settled
  <2> QED
    BY <2>1, <2>2, SettledKeepsDevices
<1>3. CASE \/ GdtInit \/ LoadDrivers \/ InitIdt \/ InitPic \/ EnableInterrupts
           \/ \E p \in 1 .. 2 : RestoreMask(p) \/ MaskAll(p)
  <2>1. UNCHANGED <<output, board, port_enabled, device, keys>>
    BY <1>3 DEF GdtInit, LoadDrivers, InitIdt, InitPic, EnableInterrupts, RestoreMask, MaskAll,
                ps2Vars
  <2>2. pc[1] \in BeforePs2 /\ pc'[1] \in BeforePs2 \cup {"disable", "pit"}
    <3>1. ASSUME NEW p \in 1 .. 2, RestoreMask(p) \/ MaskAll(p)
          PROVE  pc[1] \in {"restore", "mask"} /\ pc'[1] \in {"restore", "mask", "sti"}
      BY <3>1 DEF RestoreMask, MaskAll
    <3>2. ASSUME GdtInit \/ LoadDrivers \/ InitIdt \/ InitPic \/ EnableInterrupts
          PROVE  /\ pc[1] \in {"gdt", "load_drivers", "idt", "pic", "sti"}
                 /\ pc'[1] \in {"load_drivers", "idt", "pic", "restore", "disable", "pit"}
      BY <3>2 DEF GdtInit, LoadDrivers, InitIdt, InitPic, EnableInterrupts
    <3> QED
      BY <1>3, <3>1, <3>2 DEF BeforePs2, Early, Clearing
  <2>3. port_enabled' = {}
    BY <2>1, <2>2 DEF PortsInv, BeforePs2
  <2> QED
    BY <2>1, <2>2, <2>3, EarlyKeepsDevices
<1> QED
  BY <1>1, <1>2, <1>3 DEF Boots

LEMMA UnchangedKeepsDevices ==
  ASSUME DevicesInv, UNCHANGED <<pc, output, data, board, port_enabled, device, keys, late>>
  PROVE  DevicesInv'
<1>1. \A code, answer : Waiting(code, answer)' <=> Waiting(code, answer)
  BY DEF Waiting
<1>2. \A p \in Ports : /\ ResetBytes(p)' = ResetBytes(p) /\ SelfTestBytes(p)' = SelfTestBytes(p)
                       /\ Known(p)' <=> Known(p)
                       /\ Named(p)' <=> Named(p)
  BY DEF ResetBytes, SelfTestBytes, Known, Named, Ports, Port1
<1>3. InTime => InTime'
  BY <1>1, <1>2
  DEF InTime, Rested, ResetSent, ResetAcked, ToDetect, StopSent, StopAcked, IdentifySent,
      IdentifyAcked, Zeros, Acks, Unread, Waiting
<1> QED
  BY <1>2, <1>3 DEF DevicesInv

LEMMA HardwareKeepsDevices ==
  ASSUME DevicesInv, TimerIrq \/ HardwareStep
  PROVE  DevicesInv'
<1>1. ASSUME TimerIrq \/ \E p \in Ports : RaiseIrq(p) PROVE DevicesInv'
  <2>1. UNCHANGED <<pc, output, data, board, port_enabled, device, keys, late>>
    BY <1>1 DEF TimerIrq, RaiseIrq, ps2Vars, hardware, installer, background
  <2> QED
    BY <2>1, UnchangedKeepsDevices
<1>2. ASSUME NEW p \in Ports, DeviceSends(p) PROVE DevicesInv'
  <2>1. keys' = keys + 1 /\ UNCHANGED <<pc, board, device>>
    BY <1>2 DEF DeviceSends, hardware, installer, background
  <2>2. keys' \in Nat /\ keys' # 0
    BY <2>1 DEF DevicesInv
  <2> QED
    BY <2>1, <2>2 DEF DevicesInv
<1> QED
  BY <1>1, <1>2 DEF HardwareStep, Hardware

\* While the masks are clear nothing has been sent that an interrupt could read.
LEMMA InterruptKeepsDevices ==
  ASSUME BootInv, PortsInv, DevicesInv, NEW irq \in Irqs, Interrupt(irq)
  PROVE  DevicesInv'
<1>1. UNCHANGED <<pc, board, port_enabled, device, keys, late>>
  BY DEF Interrupt
<1>2. ReadAnswer \/ UNCHANGED <<output, data>>
  BY DEF Interrupt, Handle, keyboard_irq_handler
<1>3. pc[1] \in Clearing \cup Settled
  BY InterruptStage
<1>4. CASE pc[1] \in Settled
  BY <1>1, <1>4, SettledKeepsDevices
<1>5. CASE pc[1] \in Clearing
  <2>1. pc[1] \in BeforePs2 /\ pc[1] \in BeforeReset \ Questions
    BY <1>5 DEF BeforePs2, BeforeReset, Clearing, Questions
  <2>2. keys = 0 => UNCHANGED output
    <3> SUFFICES ASSUME keys = 0, ReadAnswer PROVE FALSE
      BY <1>2
    <3>1. Len(output) = 0 /\ output # << >>
      BY <2>1 DEF DevicesInv, ReadAnswer
    <3>2. output \in Seq(Items)
      BY <2>1 DEF PortsInv, Quiet, AckFree
    <3> QED
      BY <3>1, <3>2
  <2>3. port_enabled' = {}
    BY <1>1, <2>1 DEF PortsInv, BeforePs2
  <2> QED
    BY <1>1, <2>1, <2>2, <2>3, EarlyKeepsDevices
<1> QED
  BY <1>3, <1>4, <1>5

LEMMA InitDevices == Init => DevicesInv
<1> SUFFICES ASSUME Init PROVE DevicesInv
  OBVIOUS
<1>1. /\ pc = <<"gdt", 0>> /\ output = << >> /\ keys = 0
      /\ device = [p \in Ports |-> Unset]
  BY DEF Init, Ps2Init
<1>2. board.attached \in [Ports -> Kinds \cup {"none"}]
  BY Ps2Assumption DEF Init, Ps2Init, Board
<1>3. pc[1] \notin {"reset", "reset_ack", "reset_test"} \cup Detecting \cup Settled \cup Questions
  BY <1>1 DEF Detecting, Asking, Settled, Timer, Later, Questions
<1>4. InTime
  <2>1. {"detect", "stop_ack", "identify", "identify_ack", "read"} = Detecting
    BY DEF Detecting, Asking
  <2> QED
    BY <1>3, <2>1 DEF InTime
<1>5. keys \in Nat /\ device \in [Ports -> Kinds \cup {Unset}] /\ Len(output) = 0
  BY <1>1
<1> QED
  BY <1>1, <1>2, <1>3, <1>4, <1>5 DEF DevicesInv

LEMMA NextKeepsDevices ==
  BootInv /\ ControllerInv /\ PortsInv /\ DevicesInv /\ [Next]_vars => DevicesInv'
<1> SUFFICES ASSUME BootInv, ControllerInv, PortsInv, DevicesInv, [Next]_vars PROVE DevicesInv'
  OBVIOUS
<1>1. CASE UNCHANGED vars
  BY <1>1, UnchangedKeepsDevices DEF vars, ps2Vars
<1>2. ASSUME NEW d \in DriverIrqs, Switch(d[1], d[2]) PROVE DevicesInv'
  <2>1. /\ pc[1] \in Settled /\ pc'[1] \in Settled
        /\ UNCHANGED <<board, port_enabled, device, keys, late>>
    BY <1>2 DEF Switch, At, ps2Vars, Settled, Later
  <2> QED
    BY <2>1, SettledKeepsDevices
<1> QED
  BY <1>1, <1>2, BootKeepsDevices, InterruptKeepsDevices, HardwareKeepsDevices DEF Next

\* On every board, whatever reset or port is given up, install names the device behind each
\* port it leaves enabled for what it is - the acknowledgements and zeros that nobody asked
\* for are all that could be taken for an identity, and each read gets past them - as long
\* as the answers come in time and the devices send nothing on their own
\* (detect_device_port1 and detect_device_port2).
THEOREM DevicesAreFound == Spec => []DevicesFound
<1>1. PortsInv /\ DevicesInv => DevicesFound
  <2> SUFFICES ASSUME PortsInv, DevicesInv, Running, ~late, keys = 0, NEW p \in port_enabled
               PROVE  device[p] = board.attached[p]
    BY DEF DevicesFound
  <2>1. pc[1] \in Settled
    BY DEF Running, At, Settled, Later
  <2>2. p \in Ports
    BY DEF PortsInv
  <2> QED
    BY <2>1, <2>2 DEF DevicesInv, Named
<1>2. Spec => []DevicesInv
  BY InitDevices, NextKeepsDevices, BootInvariant, ControllerInvariant, PortsInvariant, PTL DEF Spec
<1> QED
  BY <1>1, <1>2, PortsInvariant, PTL
=============================================================================
