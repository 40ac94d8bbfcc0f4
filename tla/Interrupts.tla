----------------------------- MODULE Interrupts -----------------------------
(***************************************************************************)
(* The two interrupt controllers (PIC), the gates of the IDT and the table *)
(* of handlers (irq.cpp, idt.cpp, interrupts.S).  The operators here are   *)
(* the routines the drivers and the boot sequence call; Boot puts them     *)
(* together.  The gates are interrupt gates (0x8E): a handler runs with    *)
(* interrupts off, so an interrupt is one step, between two steps of the   *)
(* kernel's only thread.                                                   *)
(***************************************************************************)
EXTENDS Integers

VARIABLES
  gates,          \* the IDT: the number the stub of a vector pushes
  irq_handlers,   \* the table of handlers
  masked,         \* the masked lines of PIC 1 and PIC 2
  pending,        \* the interrupts that have been requested, not yet delivered
  in_service,     \* the lines of either PIC that wait for their end of interrupt
  interrupts_on,  \* the interrupt flag
  panicked        \* the vector kpanic was called for, or None

interruptVars ==
  <<gates, irq_handlers, masked, pending, in_service, interrupts_on, panicked>>

None == -1
NoGate == -1
NoHandler == "none"

Lines == 0 .. 7
Irqs == 0 .. 15
Vectors == 0 .. 47     \* none above is ever set or raised

Pic(irq) == IF irq >= 8 THEN 2 ELSE 1
Line(irq) == irq % 8
Cascade == 2           \* the line of PIC 1 that PIC 2 is connected to
Vector(irq) == irq + 32

\* The boot loader starts the kernel with both PICs masked.
InterruptsInit ==
  /\ gates = [v \in Vectors |-> NoGate]
  /\ irq_handlers = [i \in Irqs |-> NoHandler]
  /\ masked = [p \in 1 .. 2 |-> Lines]
  /\ pending = {}
  /\ in_service = [p \in 1 .. 2 |-> {}]
  /\ interrupts_on = FALSE
  /\ panicked = None

(***************************************************************************)
(* The gates.                                                              *)
(***************************************************************************)
\* What the stubs push: isr7 pushes the number of isr6.
isr(n) == IF n = 7 THEN 6 ELSE n
irq0 == 32
irq1 == 33
irq2 == 34
irq8 == 40

idt_set_gate(idt, v, stub) == [idt EXCEPT ![v] = stub]

\* Mutant of SetGates: the keyboard's gate is forgotten.
SetGatesNoKeyboard ==
  gates' = idt_set_gate([v \in Vectors |-> IF v < 32 THEN isr(v) ELSE gates[v]], 32, irq0)

\* init: the gate of irq8 goes to the vector irq2 has just been given.
SetGates ==
  LET exceptions == [v \in Vectors |-> IF v < 32 THEN isr(v) ELSE gates[v]]
      timer == idt_set_gate(exceptions, 32, irq0)
      keyboard == idt_set_gate(timer, 33, irq1)
      cascade == idt_set_gate(keyboard, 34, irq2)
  IN  gates' = idt_set_gate(cascade, 34, irq8)

install_handler(irq, handler) == irq_handlers' = [irq_handlers EXCEPT ![irq] = handler]

(***************************************************************************)
(* The masks.                                                              *)
(***************************************************************************)
get_mask(irq) == masked[Pic(irq)]

\* cli, the port of the line's PIC, sti.
write_mask(irq, mask) ==
  /\ masked' = [masked EXCEPT ![Pic(irq)] = mask]
  /\ interrupts_on' = TRUE

\* The line is reduced to 0 .. 7 before write_mask chooses the port by it.
mask_irq(irq) == write_mask(Line(irq), get_mask(irq) \cup {Line(irq)})

\* Mutant of unmask_irq: the mask of the other lines is not kept.
unmask_irq_alone(irq) == write_mask(irq, Lines \ {Line(irq)})

unmask_irq(irq) == write_mask(irq, get_mask(irq) \ {Line(irq)})

(***************************************************************************)
(* Delivery.  PIC 2 reaches the processor through a line of PIC 1, and a   *)
(* line in service holds back those of its own and of lower priority.      *)
(***************************************************************************)
Passes(pic, line) ==
  line \notin masked[pic] /\ \A l \in in_service[pic] : line < l

Deliverable(irq) ==
  /\ interrupts_on
  /\ irq \in pending
  /\ Passes(Pic(irq), Line(irq))
  /\ Pic(irq) = 2 => Passes(1, Cascade)

Acknowledge(irq) ==
  [in_service EXCEPT ![Pic(irq)] = @ \cup {Line(irq)},
                     ![1] = IF irq >= 8 THEN @ \cup {Cascade} ELSE @ \cup {Line(irq)}]

\* A nonspecific end of interrupt ends the line of highest priority.
Eoi(lines) == {l \in lines : \E h \in lines : h < l}

\* Mutant of EndOfInterrupt: only a PIC 2 interrupt is ended.
EndOfPic2Only(serving, int_no) ==
  [serving EXCEPT ![2] = IF int_no - 32 >= 8 THEN Eoi(@) ELSE @]

\* The end of irq_handler.
EndOfInterrupt(serving, int_no) ==
  [serving EXCEPT ![1] = Eoi(@), ![2] = IF int_no - 32 >= 8 THEN Eoi(@) ELSE @]

\* The stub of an interrupt keeps all registers, iretq restores the flag: of an
\* interrupt nothing remains but what the handler did and the PICs' state.
irq_stub(irq) ==
  /\ in_service' = EndOfInterrupt(Acknowledge(irq), gates[Vector(irq)])
  /\ UNCHANGED <<interrupts_on, panicked>>

\* Without a gate the processor raises a segment-not-present exception (11).
\* Every exception ends in fault_handler, in kpanic and with the processor halted.
isr_stub(vector) ==
  /\ panicked' = gates[vector]
  /\ interrupts_on' = FALSE
  /\ UNCHANGED in_service
=============================================================================
