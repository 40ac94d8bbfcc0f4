-------------------------------- MODULE Boot --------------------------------
(***************************************************************************)
(* The kernel's boot sequence (kernel.cpp) with the interrupts that come   *)
(* in between: GDT::init turns them on, load_drivers makes the driver      *)
(* objects, Interrupts::init sets the gates and the PICs, the drivers      *)
(* install themselves, the scheduler hooks into the tick, and the monitor  *)
(* runs.  From then on drivers can be disabled and enabled (driver.hpp).   *)
(* Memory, the VFS and the initrd, which no interrupt touches, have        *)
(* modules of their own.                                                   *)
(***************************************************************************)
EXTENDS Ps2

CONSTANT MaxSwitches     \* how often a driver is disabled or enabled

ASSUME BootAssumption == MaxSwitches \in Nat

VARIABLES
  saved,      \* init_pic's copies of the masks
  switches,   \* how often a driver was switched
  crossed     \* has a line of PIC 2 been masked?

bootVars == <<saved, switches, crossed>>
vars == <<pc, ps2Vars, deviceVars, interruptVars, bootVars>>

Init ==
  /\ InterruptsInit /\ DevicesInit /\ Ps2Init
  /\ saved = [p \in 1 .. 2 |-> Lines]
  /\ switches = 0 /\ crossed = FALSE

(***************************************************************************)
(* Up to the drivers.                                                      *)
(***************************************************************************)
\* GDT::init ends with interrupts on: there is no IDT yet, but all lines are masked.
GdtInit ==
  /\ At("gdt", 0)
  /\ interrupts_on' = TRUE
  /\ Goto("load_drivers", 0)
  /\ UNCHANGED <<ps2Vars, deviceVars, gates, irq_handlers, masked, pending, in_service,
                 panicked, bootVars>>

LoadDrivers ==
  /\ At("load_drivers", 0)
  /\ load_drivers
  /\ Goto("idt", 0)
  /\ UNCHANGED <<ps2Vars, interruptVars, bootVars>>

\* init: the gates are set and the table is loaded.
InitIdt ==
  /\ At("idt", 0)
  /\ SetGates
  /\ Goto("pic", 0)
  /\ UNCHANGED <<ps2Vars, deviceVars, irq_handlers, masked, pending, in_service,
                 interrupts_on, panicked, bootVars>>

\* init_pic: the initialization words clear the masks and all requests.
InitPic ==
  /\ At("pic", 0)
  /\ saved' = masked
  /\ masked' = [p \in 1 .. 2 |-> {}]
  /\ pending' = {}
  /\ in_service' = [p \in 1 .. 2 |-> {}]
  /\ Goto("restore", 1)
  /\ UNCHANGED <<ps2Vars, deviceVars, gates, irq_handlers, interrupts_on, panicked,
                 switches, crossed>>

\* Both saved masks are written to PIC 1.
RestoreMask(p) ==
  /\ At("restore", p)
  /\ masked' = [masked EXCEPT ![1] = saved[p]]
  /\ IF p = 1 THEN Goto("restore", 2) ELSE Goto("mask", 1)
  /\ UNCHANGED <<ps2Vars, deviceVars, gates, irq_handlers, pending, in_service,
                 interrupts_on, panicked, bootVars>>

MaskAll(p) ==
  /\ At("mask", p)
  /\ masked' = [masked EXCEPT ![p] = Lines]
  /\ IF p = 1 THEN Goto("mask", 2) ELSE Goto("sti", 0)
  /\ UNCHANGED <<ps2Vars, deviceVars, gates, irq_handlers, pending, in_service,
                 interrupts_on, panicked, bootVars>>

\* The end of Interrupts::init, then Drivers::init, whose first driver is ps2.
EnableInterrupts ==
  /\ At("sti", 0)
  /\ interrupts_on' = TRUE
  /\ IF Loaded("ps2") THEN Goto("disable", Port1) ELSE Goto("pit", 0)
  /\ UNCHANGED <<ps2Vars, deviceVars, gates, irq_handlers, masked, pending, in_service,
                 panicked, bootVars>>

InstallPs2 == install /\ UNCHANGED bootVars

(***************************************************************************)
(* pit_driver::install, rtc_driver::install and Scheduler::init.           *)
(***************************************************************************)
InstallTimerHandler ==
  /\ At("pit", 0) /\ Loaded("pit")
  /\ enabled' = [enabled EXCEPT !["pit"] = TRUE]
  /\ install_handler(0, "pit")
  /\ Goto("pit_device", 0)
  /\ UNCHANGED <<ps2Vars, tree, gates, masked, pending, in_service, interrupts_on,
                 panicked, bootVars>>

PitPath == <<"pit", "programmable_interrupt_timer", 1>>

AddTimer ==
  /\ At("pit_device", 0)
  /\ add_device("pit", PitPath[2])
  /\ Goto("pit_enable", 0)
  /\ UNCHANGED <<ps2Vars, drivers, enabled, callbacks, interruptVars, bootVars>>

EnableTimer ==
  /\ At("pit_enable", 0)
  /\ enable("pit", 0)
  /\ Goto("rtc", 0)
  /\ UNCHANGED <<ps2Vars, tree, gates, irq_handlers, pending, in_service, panicked, bootVars>>

\* No handler is installed for the RTC and its interrupt is not turned on: the line is
\* unmasked, and the time is read on the timer's tick.
EnableRtc ==
  /\ At("rtc", 0)
  /\ IF Loaded("rtc") THEN enable("rtc", 8) /\ Goto("rtc_device", 0)
     ELSE Goto("scheduler", 0) /\ UNCHANGED <<enabled, masked, interrupts_on>>
  /\ UNCHANGED <<ps2Vars, tree, gates, irq_handlers, pending, in_service, panicked, bootVars>>

AddRtc ==
  /\ At("rtc_device", 0)
  /\ add_device("rtc", "real_time_clock")
  /\ Goto("rtc_tick", 0)
  /\ UNCHANGED <<ps2Vars, drivers, enabled, callbacks, interruptVars, bootVars>>

\* on_tick, if the timer is found by its path.
Hook(stage, callback, next) ==
  /\ At(stage, 0)
  /\ IF get_device_by_path(PitPath) THEN on_tick(callback) ELSE UNCHANGED callbacks
  /\ Goto(next, 0)
  /\ UNCHANGED <<ps2Vars, drivers, enabled, attached_devices, device_tree, interruptVars,
                 bootVars>>

HookUpdateTime == Hook("rtc_tick", "update_time_cb", "scheduler")

SchedulerInit == Hook("scheduler", "sched_on_tick", "monitor")

(***************************************************************************)
(* driver_t::disable and enable, once the kernel is up.                    *)
(***************************************************************************)
DriverIrqs == {<<"ps2", 1>>, <<"pit", 0>>, <<"rtc", 8>>}

Switch(driver, irq) ==
  /\ At("monitor", 0)
  /\ switches < MaxSwitches
  /\ switches' = switches + 1
  /\ irq_handlers[irq] # NoHandler \/ driver = "rtc"
  /\ \/ enabled[driver] /\ disable(driver, irq) /\ crossed' = (crossed \/ Pic(irq) = 2)
     \/ ~enabled[driver] /\ enable(driver, irq) /\ UNCHANGED crossed
  /\ UNCHANGED <<pc, ps2Vars, tree, gates, irq_handlers, pending, in_service, panicked, saved>>

(***************************************************************************)
(* Interrupts.                                                             *)
(***************************************************************************)
\* The timer has been running since before the kernel was started.  A request on a
\* masked line waits for the mask; it is made here when the line is open.
TimerIrq ==
  /\ panicked = None /\ 0 \notin pending /\ 0 \notin masked[1]
  /\ pending' = pending \cup {0}
  /\ UNCHANGED <<pc, ps2Vars, deviceVars, gates, irq_handlers, masked, in_service,
                 interrupts_on, panicked, bootVars>>

\* irq_handler calls the handler that is installed; the timer's has no effect here.
Handle(handler) ==
  IF handler = "keyboard" /\ Loaded("ps2") THEN keyboard_irq_handler
  ELSE UNCHANGED <<output, data>>

Interrupt(irq) ==
  /\ Deliverable(irq)
  /\ pending' = pending \ {irq}
  /\ IF gates[Vector(irq)] # NoGate
     THEN irq_stub(irq) /\ Handle(irq_handlers[gates[Vector(irq)] - 32])
     ELSE isr_stub(11) /\ UNCHANGED <<output, data>>
  /\ UNCHANGED <<pc, config, conf, port2exists, board, scanning, prefix, port_enabled,
                 device, keys, late, skipped, deviceVars, gates, irq_handlers, masked,
                 bootVars>>

HardwareStep == panicked = None /\ Hardware /\ UNCHANGED bootVars

Boots ==
  \/ GdtInit \/ LoadDrivers \/ InitIdt \/ InitPic \/ EnableInterrupts
  \/ \E p \in 1 .. 2 : RestoreMask(p) \/ MaskAll(p)
  \/ InstallPs2
  \/ InstallTimerHandler \/ AddTimer \/ EnableTimer
  \/ EnableRtc \/ AddRtc \/ HookUpdateTime \/ SchedulerInit

Next ==
  \/ Boots
  \/ \E d \in DriverIrqs : Switch(d[1], d[2])
  \/ TimerIrq
  \/ \E irq \in Irqs : Interrupt(irq)
  \/ HardwareStep

Spec == Init /\ [][Next]_vars

\* The thread runs, and an interrupt the PIC can deliver is delivered.
Fairness ==
  /\ WF_vars(Boots)
  /\ WF_vars(RaiseIrq(Port1) /\ UNCHANGED bootVars)
  /\ \A irq \in {0, 1} : WF_vars(Interrupt(irq))

FairSpec == Spec /\ Fairness

(***************************************************************************)
(* Properties.                                                             *)
(***************************************************************************)
Running == At("monitor", 0)

\* An interrupt that is not masked has a gate and, but for the moment init_pic has the
\* masks cleared, a handler: install_handler comes before enable.
NoStrayInterrupt ==
  \A irq \in Irqs : Deliverable(irq) =>
    /\ gates[Vector(irq)] # NoGate
    /\ irq_handlers[irq] # NoHandler \/ pc[1] \in {"restore", "mask"}

\* The driver's flag and the mask of its line agree while drivers are disabled and
\* enabled - until a line of PIC 2 is masked.  The flag of ps2 is also set when only
\* its second port works, which no line is unmasked for.
FlagsMatchMasks ==
  Running /\ ~crossed =>
    \A d \in DriverIrqs :
      LET open == Line(d[2]) \notin masked[Pic(d[2])]
      IN  (open => enabled[d[1]]) /\ (enabled[d[1]] /\ d[1] # "ps2" => open)

\* Whether resets and detection leave the configuration alone, which a comment of
\* install doubts ("seems to reset the config register?").
KeepsConfig == board.forgets \subseteq {"self_test"}

\* A port that is still enabled has a device, which sends, and its clock and interrupt
\* are on, if the controller keeps its configuration - unless a reset was given up:
\* reset_port1 leaves the port enabled then, and what the second device answers too late
\* acknowledges for the first.
PortsWork ==
  Running /\ KeepsConfig /\ ~skipped => \A p \in port_enabled :
    p \in scanning /\ p \notin config.off /\ p \in config.int

\* The devices are told apart, if they answer in time and send nothing on their own.
DevicesFound ==
  Running /\ ~late /\ keys = 0 => \A p \in port_enabled : device[p] = board.attached[p]

\* The boot comes to its end, in the monitor or in kpanic.
BootEnds == <>(Running \/ panicked # None)

\* The timer's interrupts go on being served.
TimerServed ==
  (Running /\ 0 \in pending /\ enabled["pit"])
    ~> (0 \notin pending \/ ~enabled["pit"] \/ crossed)

KeyWaits == output # <<>> /\ output[1][1] = Port1

\* What the keyboard sends is read.  (A byte of the second port at the output buffer is
\* not, since its line is never unmasked, and what comes after it waits.)
KeyServed ==
  (Running /\ KeyWaits /\ Port1 \in config.int /\ Port1 \in port_enabled)
    ~> (~KeyWaits \/ ~enabled["ps2"] \/ crossed)
=============================================================================
