-------------------------------- MODULE Ps2 --------------------------------
(***************************************************************************)
(* ps2_driver::install (drivers/ps2.cpp): the set-up of the PS/2           *)
(* controller, of its two ports and of the devices behind them.            *)
(*                                                                         *)
(* What the controller and the devices answer queues in front of the       *)
(* output buffer, and the data port gives the oldest byte or, when none    *)
(* has come, the byte read last once more.  Most waits for the controller  *)
(* have no bound: it is taken to accept and answer every command.  Where   *)
(* the driver gives up after a while - before a reset, before it detects a *)
(* device, after the prefix for the second port, in poll - it may do so at *)
(* any time, and what has not arrived by then is read by whoever reads     *)
(* next.                                                                   *)
(***************************************************************************)
EXTENDS Devices

CONSTANTS
  MaxKeys,     \* how many bytes the devices send on their own account
  Boards       \* the controllers and devices to be installed

VARIABLES
  pc,             \* where the kernel's thread is
  output,         \* what will be read: bytes, and the port they come from
  data,           \* the byte read last
  config,         \* the controller's configuration
  conf,           \* install's copy of it
  port2exists,    \* install's local variable
  board,          \* what is there: the controller's kind and health, the devices
  scanning,       \* the devices that send what happens to them
  prefix,         \* the next byte for the first port goes to the second one
  port_enabled,   \* port1_enabled and port2_enabled
  device,         \* port1_device and port2_device
  keys,           \* how many bytes were sent by themselves
  late,           \* has a byte come too late for the loop that waited for it?
  skipped         \* has a reset been given up before it began?

ps2Vars == <<output, data, config, conf, port2exists, board, scanning, prefix,
             port_enabled, device, keys, late, skipped>>

Ports == 1 .. 2
Port1 == 1
Port2 == 2
Controller == 0
Kinds == {"keyboard", "mouse"}
Unset == "unset"      \* the fields of an object from the heap

\* int: the interrupts that are on; off: the ports whose clock is off.
Configs == [int : SUBSET Ports, off : SUBSET Ports]

\* dual: there is a second channel; healthy: the self test passes; good: the ports that
\* pass their test; forgets: what puts the configuration back to default.  (That the resets
\* and the detection do is the suspicion of a comment in install.)
Board == {b \in [attached : [Ports -> Kinds \cup {"none"}], dual : BOOLEAN,
                 healthy : BOOLEAN, good : SUBSET Ports,
                 forgets : SUBSET {"self_test", "reset", "detect"}, default : Configs] :
            ~b.dual => b.attached[Port2] = "none" /\ b.good \subseteq {Port1}}

ASSUME Ps2Assumption == MaxKeys \in Nat /\ Boards \subseteq Board

\* The firmware has used the first port, with or without its interrupt.
Ps2Init ==
  /\ pc = <<"gdt", 0>>
  /\ output = <<>> /\ data = "none"
  /\ board \in Boards
  /\ \E int \in SUBSET {Port1} :
       config = [int |-> int, off |-> IF board.dual THEN {} ELSE {Port2}]
  /\ conf = config
  /\ port2exists = FALSE
  /\ scanning = {p \in Ports : board.attached[p] = "keyboard"}
  /\ port_enabled = {}
  /\ device = [p \in Ports |-> Unset]
  /\ prefix = FALSE /\ keys = 0 /\ late = FALSE /\ skipped = FALSE

At(stage, n) == pc = <<stage, n>> /\ panicked = None
Goto(stage, n) == pc' = <<stage, n>>

hardware == <<output, data, config, scanning>>
installer == <<conf, port2exists, port_enabled, device, enabled>>
background == <<board, prefix, keys, late, skipped>>
tree == <<drivers, attached_devices, device_tree, callbacks>>

(***************************************************************************)
(* The controller and the devices.                                         *)
(***************************************************************************)
\* A command, after a wait for the controller that has no bound.
Command == UNCHANGED <<background, tree, interruptVars>>

\* A controller with one channel keeps the second clock off.
Written(c) == IF board.dual THEN c ELSE [c EXCEPT !.off = @ \cup {Port2}]

\* The configuration after a step in which the controller may forget it.
ConfigAfter(step) == IF step \in board.forgets THEN Written(board.default) ELSE config

Answer(bytes) == output' = output \o bytes

From(p, bytes) == [i \in DOMAIN bytes |-> <<p, bytes[i]>>]

Ident == [keyboard |-> <<"AB", "83">>, mouse |-> <<"00">>]

\* What a device answers: to a reset (a keyboard then sends keys, a mouse does not
\* move), to stop, to identify and to start sending.
Reply(p, cmd) ==
  LET kind == board.attached[p]
  IN  CASE cmd = "reset" -> <<"FA", "AA">> \o (IF kind = "mouse" THEN <<"00">> ELSE <<>>)
        [] cmd = "identify" -> <<"FA">> \o Ident[kind]
        [] OTHER -> <<"FA">>

Listens(p) == board.attached[p] # "none" /\ p \notin config.off

\* The command reaches the device behind the bytes that are waiting to be read.
SendAfter(waiting, p, cmd) ==
  IF ~Listens(p) \/ cmd = "" THEN output' = waiting /\ UNCHANGED scanning
  ELSE /\ output' = waiting \o From(p, Reply(p, cmd))
       /\ scanning' = CASE cmd = "start" -> scanning \cup {p}
                        [] cmd = "stop" -> scanning \ {p}
                        [] cmd = "reset" -> IF board.attached[p] = "keyboard"
                                            THEN scanning \cup {p} ELSE scanning \ {p}
                        [] OTHER -> scanning

Send(p, cmd) == SendAfter(output, p, cmd)

\* A byte written to the data port goes to the first port - or to the second, if the
\* controller still has the prefix of a byte that was not sent.
Addressed == IF prefix THEN Port2 ELSE Port1

\* Mutant of writeb_device2: the byte goes to the first port.
writeb_device1(waiting, cmd, success) ==
  SendAfter(waiting, Port1, IF success THEN cmd ELSE "") /\ prefix' = ~success

\* A byte for the second port goes behind the command 0xD4, the prefix, and a wait with a
\* bound: when writeb_device2 fails the controller has been sent the prefix alone.
writeb_device2(waiting, cmd, success) ==
  SendAfter(waiting, Port2, IF success THEN cmd ELSE "") /\ prefix' = ~success

\* A byte for port p, behind those that wait; only the second port's can fail.
Write(p, waiting, cmd, success) ==
  \/ p = Port2 /\ writeb_device2(waiting, cmd, success)
  \/ p = Port1 /\ success /\ SendAfter(waiting, Addressed, cmd) /\ prefix' = FALSE

\* A key is pressed, the mouse is moved.
DeviceSends(p) ==
  /\ keys < MaxKeys
  /\ p \in scanning \ config.off
  /\ keys' = keys + 1
  /\ Answer(From(p, <<"key">>))
  /\ UNCHANGED <<pc, data, config, scanning, installer, board, prefix, late, skipped,
                 tree, interruptVars>>

IrqOf(p) == IF p = Port1 THEN 1 ELSE 12

\* The byte at the output buffer requests its port's interrupt.
RaiseIrq(p) ==
  /\ output # <<>> /\ output[1][1] = p
  /\ p \in config.int
  /\ IrqOf(p) \notin pending
  /\ p = Port2 => Line(IrqOf(p)) \notin masked[2]
  /\ pending' = pending \cup {IrqOf(p)}
  /\ UNCHANGED <<pc, hardware, installer, background, tree, gates, irq_handlers,
                 masked, in_service, interrupts_on, panicked>>

(***************************************************************************)
(* Reading the data port.                                                  *)
(***************************************************************************)
\* Once, whether or not a byte has arrived.
ReadPort ==
  \/ /\ output # <<>>
     /\ data' = output[1][2]
     /\ output' = Tail(output)
  \/ UNCHANGED <<data, output>>

\* After output_ready: the oldest byte, whoever it is from.
ReadAnswer ==
  /\ output # <<>>
  /\ data' = output[1][2]
  /\ output' = Tail(output)

\* The byte read when k new ones arrive.
Last(k) == IF k = 0 THEN data ELSE output[k][2]

\* Mutant of Polled: poll has no timeout.
PolledForever(value) ==
  {k \in 0 .. Len(output) : Last(k) = value /\ \A i \in 1 .. k - 1 : output[i][2] # value}

\* poll reads until it finds value or has read timeout times: up to value, or as many
\* bytes as arrive in time.
Polled(value) == {k \in 0 .. Len(output) : \A i \in 1 .. k - 1 : output[i][2] # value}

poll(value, k) ==
  /\ data' = Last(k)
  /\ output' = SubSeq(output, k + 1, Len(output))
  /\ late' = (late \/ (Last(k) # value /\ k < Len(output)))

(***************************************************************************)
(* install, from the start to set_config(conf) before the resets.          *)
(***************************************************************************)
DisablePort(p) ==
  /\ At("disable", p) \/ At("disable_again", p)
  /\ Command
  /\ config' = Written([config EXCEPT !.off = @ \cup {p}])
  /\ IF At("disable_again", p) THEN Goto("set", 2)
     ELSE IF p = Port1 THEN Goto("disable", Port2) ELSE Goto("flush", 0)
  /\ UNCHANGED <<output, data, scanning, installer>>

FlushOutputBuffer ==
  /\ At("flush", 0)
  /\ ReadPort
  /\ Goto("ask", 1)
  /\ UNCHANGED <<config, scanning, installer, background, tree, interruptVars>>

\* get_config, the first, second and third time.
AskConfig(n) ==
  /\ At("ask", n)
  /\ Command
  /\ Answer(<<<<Controller, "config">>>>)
  /\ Goto("answer", n)
  /\ UNCHANGED <<data, config, scanning, installer>>

\* Any other byte is taken for a configuration as well; four stand for them all.
Misread == [int : {{}, Ports}, off : {{}, Ports}]

GetConfig(n) ==
  /\ At("answer", n)
  /\ ReadAnswer
  /\ \E got \in IF data' = "config" THEN {config} ELSE Misread :
       CASE n = 1 ->
              /\ conf' = [int |-> got.int \ {Port1}, off |-> got.off \ {Port1}]
              /\ Goto("set", 1)
              /\ UNCHANGED port2exists
         [] n = 2 ->
              /\ port2exists' = (Port2 \notin got.off)
              /\ conf' = [int |-> got.int \ {Port2}, off |-> got.off \ {Port2}]
              /\ IF port2exists' THEN Goto("disable_again", Port2) ELSE Goto("test", Port1)
         [] n = 3 ->
              /\ conf' = [got EXCEPT !.int = @ \cup port_enabled]
              /\ Goto("set", 3)
              /\ UNCHANGED port2exists
  /\ UNCHANGED <<config, scanning, port_enabled, device, enabled, background,
                 tree, interruptVars>>

SetConfig(n) ==
  /\ At("set", n)
  /\ Command
  /\ config' = Written(conf)
  /\ CASE n = 1 -> Goto("self_test", 0)
       [] n = 2 -> Goto("test", Port1)
       [] n = 3 -> Goto("reset", Port1)
  /\ UNCHANGED <<output, data, scanning, installer>>

\* Some controllers forget their configuration here.
SelfTest ==
  /\ At("self_test", 0)
  /\ Command
  /\ Answer(<<<<Controller, IF board.healthy THEN "55" ELSE "FC">>>>)
  /\ config' = ConfigAfter("self_test")
  /\ Goto("verdict", 0)
  /\ UNCHANGED <<data, scanning, installer>>

\* install goes on whatever the verdict.
SelfTestVerdict ==
  /\ At("verdict", 0)
  /\ ReadAnswer
  /\ IF data' = "55" THEN UNCHANGED <<enabled, port_enabled>>
     ELSE enabled' = [enabled EXCEPT !["ps2"] = FALSE] /\ port_enabled' = {}
  /\ Goto("dual", 0)
  /\ UNCHANGED <<config, scanning, conf, port2exists, device, background, tree,
                 interruptVars>>

\* enable_dual_channel_if_avail: 0xA8, and get_config the second time.
EnableDualChannel ==
  /\ At("dual", 0)
  /\ Command
  /\ config' = Written([config EXCEPT !.off = @ \ {Port2}])
  /\ Goto("ask", 2)
  /\ UNCHANGED <<output, data, scanning, installer>>

TestPort(p) ==
  /\ At("test", p)
  /\ Command
  /\ Answer(<<<<Controller, IF p \in board.good THEN "00" ELSE "01">>>>)
  /\ Goto("result", p)
  /\ UNCHANGED <<data, config, scanning, installer>>

\* Any other answer leaves the flag as it is.
TestResult(p) ==
  /\ At("result", p)
  /\ ReadAnswer
  /\ port_enabled' = CASE data' = "00" -> port_enabled \cup {p}
                       [] data' = "01" -> port_enabled \ {p}
                       [] OTHER -> port_enabled
  /\ IF p = Port1 /\ port2exists
     THEN Goto("test", Port2) /\ UNCHANGED enabled
     ELSE /\ Goto("enable", Port1)
          /\ enabled' = [enabled EXCEPT !["ps2"] = @ \/ port_enabled' # {}]
  /\ UNCHANGED <<config, scanning, conf, port2exists, device, background, tree,
                 interruptVars>>

EnablePort(p) ==
  /\ At("enable", p)
  /\ IF p = Port1 THEN Goto("enable", Port2) ELSE Goto("ask", 3)
  /\ \/ /\ p \in port_enabled
        /\ Command
        /\ config' = Written([config EXCEPT !.off = @ \ {p}])
     \/ /\ p \notin port_enabled
        /\ UNCHANGED <<config, background, tree, interruptVars>>
  /\ UNCHANGED <<output, data, scanning, installer>>

(***************************************************************************)
(* The resets and the detection of the devices.                            *)
(***************************************************************************)
NextPort(stage, after, p) == IF p = Port1 THEN Goto(stage, Port2) ELSE Goto(after, Port1)

\* Mutant of Disabled: the routine for the second port clears the flag of the first.
DisabledFirst(p) == port_enabled' = port_enabled \ {Port1}

Disabled(p) == port_enabled' = port_enabled \ {p}

\* reset_port1 and reset_port2 are called for every port.  When the controller does not
\* take its input in time reset_port1 leaves the port enabled; the result of
\* writeb_device2 is not looked at.
ResetPort(p) ==
  /\ At("reset", p)
  /\ \/ /\ \E success \in BOOLEAN : Write(p, output, "reset", success)
        /\ config' = ConfigAfter("reset")
        /\ Goto("reset_ack", p)
        /\ UNCHANGED <<port_enabled, skipped>>
     \/ /\ IF p = Port2 THEN Disabled(p) ELSE UNCHANGED port_enabled
        /\ skipped' = TRUE
        /\ NextPort("reset", "detect", p)
        /\ UNCHANGED <<output, config, scanning, prefix>>
  /\ UNCHANGED <<data, conf, port2exists, device, enabled, board, keys, late, tree,
                 interruptVars>>

ResetAck(p) ==
  /\ At("reset_ack", p)
  /\ \E k \in Polled("FA") :
       /\ poll("FA", k)
       /\ IF Last(k) = "FA" THEN Goto("reset_test", p) /\ UNCHANGED port_enabled
          ELSE Disabled(p) /\ NextPort("reset", "detect", p)
  /\ UNCHANGED <<config, scanning, conf, port2exists, device, enabled, board,
                 prefix, keys, skipped, tree, interruptVars>>

ResetSelfTest(p) ==
  /\ At("reset_test", p)
  /\ \E k \in Polled("AA") :
       /\ poll("AA", k)
       /\ IF Last(k) = "AA" THEN UNCHANGED port_enabled ELSE Disabled(p)
       /\ NextPort("reset", "detect", p)
  /\ UNCHANGED <<config, scanning, conf, port2exists, device, enabled, board,
                 prefix, keys, skipped, tree, interruptVars>>

\* A command of the detection, and what to do if it cannot be sent.
Request(p, cmd, next) ==
  \E success \in BOOLEAN :
    /\ Write(p, output, cmd, success)
    /\ IF success THEN Goto(next, p) /\ UNCHANGED port_enabled
       ELSE Disabled(p) /\ NextPort("detect", "last_flush", p)

\* The start of detect_device_port1 and detect_device_port2: disable scanning.
DetectDevice(p) ==
  /\ At("detect", p)
  /\ \/ /\ p \in port_enabled
        /\ Request(p, "stop", "stop_ack")
        /\ config' = ConfigAfter("detect")
     \/ /\ Disabled(p)
        /\ NextPort("detect", "last_flush", p)
        /\ UNCHANGED <<output, config, scanning, prefix>>
  /\ UNCHANGED <<data, conf, port2exists, device, enabled, board, keys, late, skipped,
                 tree, interruptVars>>

\* The acknowledgement of stop, or of identify.
DetectAck(p, from, to) ==
  /\ At(from, p)
  /\ \E k \in Polled("FA") :
       /\ poll("FA", k)
       /\ IF Last(k) = "FA" THEN Goto(to, p) /\ UNCHANGED port_enabled
          ELSE Disabled(p) /\ NextPort("detect", "last_flush", p)
  /\ UNCHANGED <<config, scanning, conf, port2exists, device, enabled, board,
                 prefix, keys, skipped, tree, interruptVars>>

RequestIdentify(p) ==
  /\ At("identify", p)
  /\ Request(p, "identify", "identify_ack")
  /\ UNCHANGED <<data, config, conf, port2exists, device, enabled, board, keys, late,
                 skipped, tree, interruptVars>>

\* How many bytes have been read when byte1 and byte2 are.  The first loop reads past
\* acknowledgements; the second ends when it reads byte1, as it does when no second
\* byte has arrived, and else when its time is up.
Identity ==
  {km \in (0 .. Len(output)) \X (0 .. Len(output)) :
     /\ km[1] <= km[2]
     /\ \A i \in 1 .. km[1] - 1 : output[i][2] = "FA"
     /\ \A i \in km[1] + 1 .. km[2] - 1 : output[i][2] # Last(km[1])}

\* The entry of device_types, if there is one.
Found(byte1, byte2) ==
  CASE byte1 = "AB" /\ byte2 = "83" -> "keyboard"
    [] byte1 = "00" /\ byte2 = "00" -> "mouse"
    [] OTHER -> Unset

\* An entry that was not found leaves the fields of the object as the heap gave them:
\* printing the name faults or prints something.
NameDevice(p, kind) ==
  /\ device' = [device EXCEPT ![p] = kind]
  /\ \/ /\ add_device("ps2", IF kind = Unset THEN "garbage" ELSE kind)
        /\ UNCHANGED <<drivers, callbacks, interruptVars>>
     \/ /\ kind = Unset
        /\ isr_stub(14)
        /\ UNCHANGED <<tree, gates, irq_handlers, masked, pending>>

\* The two bytes are read, scanning is enabled again, the device is looked up.
IdentifyDevice(p) ==
  /\ At("read", p)
  /\ \E km \in Identity, success \in BOOLEAN :
       /\ data' = Last(km[2])
       /\ late' = (late \/ Last(km[1]) = "FA" \/ (km[1] = km[2] /\ km[1] < Len(output)))
       /\ Write(p, SubSeq(output, km[2] + 1, Len(output)), "start", success)
       /\ \/ /\ success
             /\ NameDevice(p, Found(Last(km[1]), Last(km[2])))
             /\ UNCHANGED port_enabled
          \/ /\ ~success
             /\ Disabled(p)
             /\ UNCHANGED <<device, tree, interruptVars>>
  /\ NextPort("detect", "last_flush", p)
  /\ UNCHANGED <<config, conf, port2exists, enabled, board, keys, skipped>>

LastFlush ==
  /\ At("last_flush", Port1)
  /\ ReadPort
  /\ Goto(IF Port1 \in port_enabled THEN "handler" ELSE "pit", 0)
  /\ UNCHANGED <<config, scanning, installer, background, tree, interruptVars>>

InstallKeyboardHandler ==
  /\ At("handler", 0)
  /\ install_handler(1, "keyboard")
  /\ Goto("unmask", 0)
  /\ UNCHANGED <<ps2Vars, deviceVars, gates, masked, pending, in_service, interrupts_on,
                 panicked>>

UnmaskKeyboard ==
  /\ At("unmask", 0)
  /\ enable("ps2", 1)
  /\ Goto("pit", 0)
  /\ UNCHANGED <<ps2Vars, tree, gates, irq_handlers, pending, in_service, panicked>>

\* Mutant of keyboard_irq_handler: the byte is left in the output buffer.
keyboard_unread == UNCHANGED <<output, data>>

\* The first line of keyboard_irq_handler; what it does with a key is in Stdin.
keyboard_irq_handler == IF output # <<>> THEN ReadAnswer ELSE UNCHANGED <<output, data>>

(***************************************************************************)
(* The installation's steps, and those of the hardware.                    *)
(***************************************************************************)
InstallPorts(p) ==
  \/ DisablePort(p) \/ TestPort(p) \/ TestResult(p) \/ EnablePort(p)
  \/ ResetPort(p) \/ ResetAck(p) \/ ResetSelfTest(p)
  \/ DetectDevice(p) \/ RequestIdentify(p) \/ IdentifyDevice(p)
  \/ DetectAck(p, "stop_ack", "identify") \/ DetectAck(p, "identify_ack", "read")

InstallController ==
  \/ FlushOutputBuffer \/ SelfTest \/ SelfTestVerdict \/ EnableDualChannel
  \/ LastFlush \/ InstallKeyboardHandler \/ UnmaskKeyboard
  \/ \E n \in 1 .. 3 : AskConfig(n) \/ GetConfig(n) \/ SetConfig(n)

install == InstallController \/ \E p \in Ports : InstallPorts(p)

Hardware == \E p \in Ports : DeviceSends(p) \/ RaiseIrq(p)
=============================================================================
