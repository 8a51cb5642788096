----------------------------- MODULE Interrupts -----------------------------
(***************************************************************************)
(* From an interrupt line or a fault to the C handler and back: the stubs  *)
(* and the idt (src/src/kern/amd64/idt_stubs.S, idt.c), the two 8259       *)
(* (pic.c), irq_dispatch() (irq.c) and trap_handler() (trap.c).            *)
(*                                                                         *)
(* Each thread has its kernel stack, a sequence of the words pushed on it. *)
(* The tick switches threads inside its handler: a thread that lost the    *)
(* CPU there goes on at "ret" when it gets it back.                        *)
(***************************************************************************)
EXTENDS Integers, Sequences, FiniteSets

CONSTANTS
  Thread, Users,    \* the threads; those that run in ring 3
  Drivers,          \* the lines with a device and a driver for it
  Irq,              \* BOUND: the lines of the two 8259 that are modelled
  Causes            \* the faults that may happen: a vector and what the cause was

ASSUME IrqAssumption ==
  /\ {0, 2, 7, 15} \subseteq Irq /\ Irq \subseteq 0 .. 15
  /\ 0 \in Drivers /\ Drivers \subseteq Irq \ {2}

\* What a cause can be: a page fault has three sides and may have more, a
\* selector is in one of the tables, and other faults say nothing more.
ASSUME CauseAssumption ==
  \A c \in Causes :
    /\ c = [vector |-> c.vector, why |-> c.why] /\ c.vector \in 0 .. 31
    /\ \/ /\ c.vector = 14
          /\ c.why \subseteq {"absent", "protection", "read", "write", "kernel", "user",
                           "reserved", "fetch"}
          /\ "absent" \in c.why <=> "protection" \notin c.why
          /\ "read" \in c.why <=> "write" \notin c.why
          /\ "kernel" \in c.why <=> "user" \notin c.why
       \/ /\ c.vector \in {10, 11, 12, 13}
          /\ \E t \in {"gdt", "ldt", "idt"} : c.why \in {{t}, {t, "external"}}
       \/ c.vector # 14 /\ c.why = {}

VARIABLES
  booting,            \* kmain() has not called sti() yet
  imr, irr, isr,      \* the 8259: lines masked, requested, in service
  irq_table,          \* the lines with a handler
  cur,                \* the thread on the CPU
  at,                 \* where each thread is
  vec,                \* the vector of its last interrupt
  real,               \* whether the 8259 had a request for it
  fault,              \* the CPU's last fault, or NoFault
  report,             \* what trap_handler() printed of it
  panicking,
  kstk                \* the kernel stacks

vars == <<booting, imr, irr, isr, irq_table, cur, at, vec, real, fault, report,
          panicking, kstk>>
picvars == <<imr, irr, isr>>
trapvars == <<fault, report, panicking>>

Master == {i \in Irq : i < 8}
Slave == Irq \ Master
IRQ_BASE == 32
NoErr == [bits |-> {}, index |-> 0]
NoFault == [vector |-> 256, why |-> {}]

Init ==
  /\ booting = TRUE
  /\ imr \in {Irq, {}} /\ irr = {} /\ isr = {}
  /\ irq_table = {}
  /\ cur \in Thread \ Users
  /\ at = [t \in Thread |-> IF t = cur THEN "boot" ELSE "out"]
  /\ vec = [t \in Thread |-> 0] /\ real = [t \in Thread |-> TRUE]
  /\ fault = NoFault /\ report = NoFault /\ panicking = FALSE
  /\ kstk = [t \in Thread |-> <<>>]

-----------------------------------------------------------------------------
(***************************************************************************)
(* The 8259.  A request is served if no line of its chip with the same or  *)
(* a higher priority is in service; the slave hangs on line 2.             *)
(***************************************************************************)
Lowest(S) == CHOOSE i \in S : \A j \in S : i <= j

SlaveAsks == {i \in (irr \intersect Slave) \ imr : \A j \in isr \intersect Slave : i < j}
MasterAsks ==
  {i \in ((irr \intersect Master) \union (IF SlaveAsks = {} THEN {} ELSE {2})) \ imr :
     \A j \in isr \intersect Master : i < j}

\* A device raises its line; noise on a line goes away by itself.
Raise(i) == irr' = irr \union {i} /\ UNCHANGED <<imr, isr>>
Drop(i) == i \in irr /\ irr' = irr \ {i} /\ UNCHANGED <<imr, isr>>

\* The answer of a chip to the acknowledge cycle: the request may be gone, and
\* then it gives its lowest priority, which it does not put in service.
Answer(asks, lowest) == IF asks = {} THEN lowest ELSE Lowest(asks)

\* The non-specific end of interrupt: the highest priority in service.
Eoi(chip, served) ==
  IF served \intersect chip = {} THEN served
  ELSE served \ {Lowest(served \intersect chip)}

\* pic_init(): the lines are edge triggered, so old requests are forgotten.
PicInit ==
  /\ booting /\ at[cur] = "boot"
  /\ imr' = Irq /\ irr' = {} /\ isr' = {}
  /\ at' = [at EXCEPT ![cur] = "drivers"]
  /\ UNCHANGED <<booting, irq_table, cur, vec, real, trapvars, kstk>>

\* pic_unmask()
Unmasked(i) == imr \ (IF i >= 8 THEN {i, 2} ELSE {i})

\* A driver: irq_install(), and pic_unmask() when it is ready.
DriverInit(i) ==
  /\ booting /\ at[cur] = "drivers"
  /\ \/ /\ i \notin irq_table
        /\ irq_table' = irq_table \union {i}
        /\ UNCHANGED imr
     \/ /\ i \in irq_table /\ i \in imr
        /\ imr' = Unmasked(i)
        /\ UNCHANGED irq_table
  /\ UNCHANGED <<booting, irr, isr, cur, at, vec, real, trapvars, kstk>>

\* kmain() ends: pit_init() has installed hardclock().
Sti ==
  /\ booting /\ at[cur] = "drivers" /\ 0 \in irq_table /\ 0 \notin imr
  /\ booting' = FALSE
  /\ at' = [at EXCEPT ![cur] = "run"]
  /\ UNCHANGED <<picvars, irq_table, cur, vec, real, trapvars, kstk>>

-----------------------------------------------------------------------------
(***************************************************************************)
(* The way in and out.                                                     *)
(***************************************************************************)

\* The vectors for which the CPU pushes an error code.
CpuPushesErr == {8, 10, 11, 12, 13, 14, 17, 21}

\* Mutant: an alignment check is taken for one without error code.
ISR_ERR_NoAc == {8, 10, 11, 12, 13, 14, 21}

\* The stubs that rely on that; the others push a zero of their own.
ISR_ERR == {8, 10, 11, 12, 13, 14, 17, 21}

\* What CPU and stub push; the stack grows to the right.
Pushed(t, v, err) ==
  (IF t \in Users /\ kstk[t] = <<>> THEN <<<<"ss", 0>>, <<"esp", 0>>>> ELSE <<>>)
  \o <<<<"eflags", 0>>, <<"cs", 0>>, <<"eip", 0>>>>
  \o (IF v \in CpuPushesErr THEN <<<<"err", err>>>> ELSE <<>>)
  \o (IF v \in ISR_ERR THEN <<>> ELSE <<<<"err", NoErr>>>>)
  \o <<<<"vector", v>>, <<"regs", 0>>, <<"tf", 0>>>>

\* The struct trapframe that isr_dispatch() is given.
Trapframe(t) ==
  LET n == Len(kstk[t])
  IN [vector |-> kstk[t][n - 2], err |-> kstk[t][n - 3], eip |-> kstk[t][n - 4],
      cs |-> kstk[t][n - 5], eflags |-> kstk[t][n - 6]]

\* isr_common_stub after the call: argument, registers, vector and error code
\* are dropped, and iret pops what the CPU pushed.
Unwound(t) ==
  LET s == SubSeq(kstk[t], 1, Len(kstk[t]) - 4)
  IN SubSeq(s, 1, Len(s) - (IF t \in Users /\ Len(s) = 5 THEN 5 ELSE 3))

\* With IF on the CPU takes a request ...
Accept ==
  /\ at[cur] = "run" /\ MasterAsks # {}
  /\ at' = [at EXCEPT ![cur] = "inta"]
  /\ UNCHANGED <<booting, picvars, irq_table, cur, vec, real, trapvars, kstk>>

\* ... and goes through the gate of the vector it is given, which clears IF.
EnterGate(i, served) ==
  /\ isr' = isr \union served /\ irr' = irr \ served
  /\ vec' = [vec EXCEPT ![cur] = IRQ_BASE + i]
  /\ real' = [real EXCEPT ![cur] = i \in served]
  /\ kstk' = [kstk EXCEPT ![cur] = @ \o Pushed(cur, IRQ_BASE + i, NoErr)]
  /\ at' = [at EXCEPT ![cur] = "dispatch"]
  /\ UNCHANGED <<booting, imr, irq_table, cur, trapvars>>

\* The master answers, or leaves it to the slave.
AcknowledgeMaster ==
  LET m == Answer(MasterAsks, 7)
  IN /\ at[cur] = "inta"
     /\ \/ m # 2 /\ EnterGate(m, MasterAsks \intersect {m})
        \/ /\ m = 2
           /\ isr' = isr \union {2}
           /\ at' = [at EXCEPT ![cur] = "inta2"]
           /\ UNCHANGED <<booting, imr, irr, irq_table, cur, vec, real, trapvars, kstk>>

AcknowledgeSlave ==
  LET s == Answer(SlaveAsks, 15)
  IN at[cur] = "inta2" /\ EnterGate(s, SlaveAsks \intersect {s})

\* Mutant: an irq15 is not told from a real one.
Spurious_Only7(i) == i = 7 /\ 7 \notin isr

\* pic_is_spurious()
Spurious(i) == i \in {7, 15} /\ i \notin isr

\* Mutant: an irq15 leaves the cascade in service.
SpuriousEoi_None(i) == isr

\* The slave raised the cascade all the same.
SpuriousEoi(i) == IF i = 15 THEN Eoi(Master, isr) ELSE isr

\* irq_dispatch() up to the handler, the end of interrupt included.
IrqDispatch ==
  LET i == vec[cur] - IRQ_BASE
  IN /\ at[cur] = "dispatch"
     /\ IF Spurious(i)
        THEN isr' = SpuriousEoi(i) /\ at' = [at EXCEPT ![cur] = "ret"]
        ELSE /\ isr' = Eoi(Master, IF i >= 8 THEN Eoi(Slave, isr) ELSE isr)
             /\ at' = [at EXCEPT ![cur] = IF i \in irq_table THEN "handler" ELSE "ret"]
     /\ UNCHANGED <<booting, imr, irr, irq_table, cur, vec, real, trapvars, kstk>>

\* The handler; hardclock() may come back in another thread.
Handler ==
  /\ at[cur] = "handler"
  /\ at' = [at EXCEPT ![cur] = "ret"]
  /\ IF vec[cur] = IRQ_BASE THEN cur' \in Thread ELSE UNCHANGED cur
  /\ UNCHANGED <<booting, picvars, irq_table, vec, real, trapvars, kstk>>

Iret ==
  /\ at[cur] = "ret"
  /\ kstk' = [kstk EXCEPT ![cur] = Unwound(cur)]
  /\ at' = [at EXCEPT ![cur] = "run"]
  /\ UNCHANGED <<booting, picvars, irq_table, cur, vec, real, trapvars>>

\* yield(), and the popf of a thread that left the CPU in one.
Yield ==
  /\ at[cur] = "run" /\ cur \notin Users
  /\ MasterAsks = {}            \* a request is taken before the next instruction
  /\ at' = [at EXCEPT ![cur] = "out"]
  /\ cur' \in Thread
  /\ UNCHANGED <<booting, picvars, irq_table, vec, real, trapvars, kstk>>
Resume ==
  /\ at[cur] = "out"
  /\ at' = [at EXCEPT ![cur] = "run"]
  /\ UNCHANGED <<booting, picvars, irq_table, cur, vec, real, trapvars, kstk>>

-----------------------------------------------------------------------------
(***************************************************************************)
(* Exceptions.                                                             *)
(***************************************************************************)
T_UD == 6
T_PF == 14
Selectors == {10, 11, 12, 13}

\* The error code the CPU gives for cause c.
CpuErr(c) ==
  IF c.why = {} THEN NoErr
  ELSE [bits |->
          {n \in 0 .. 4 :
             <<"protection", "write", "user", "reserved", "fetch">>[n + 1] \in c.why}
          \union (IF "external" \in c.why THEN {0} ELSE {})
          \union (IF "idt" \in c.why THEN {1} ELSE {})
          \union (IF "ldt" \in c.why THEN {2} ELSE {}),
        index |-> IF c.vector \in Selectors THEN 1 ELSE 0]

\* A fault in any code that runs, the handlers and trap_handler() included.
Exception(c) ==
  /\ ~booting
  /\ \/ at[cur] \in {"run", "handler"}
     \* log_invalid_opcode() reads six bytes at eip, maybe past a page.
     \/ at[cur] = "trap" /\ fault.vector = T_UD /\ c.vector = T_PF
  /\ kstk' = [kstk EXCEPT ![cur] = @ \o Pushed(cur, c.vector, CpuErr(c))]
  /\ vec' = [vec EXCEPT ![cur] = c.vector]
  /\ fault' = c
  /\ at' = [at EXCEPT ![cur] = "trap"]
  /\ UNCHANGED <<booting, picvars, irq_table, cur, real, report, panicking>>

Said(b, yes, no) == IF b THEN yes ELSE no

\* Mutant: the ldt bit is read first, which is only valid without the idt bit.
SelectorError_BitOrder(err) ==
  IF err = NoErr THEN {}
  ELSE Said(0 \in err.bits, {"external"}, {}) \union
       Said(2 \in err.bits, {"idt"}, Said(1 \in err.bits, {"ldt"}, {"gdt"}))

\* log_selector_err()
SelectorError(err) ==
  IF err = NoErr THEN {}
  ELSE Said(0 \in err.bits, {"external"}, {}) \union
       Said(1 \in err.bits, {"idt"}, Said(2 \in err.bits, {"ldt"}, {"gdt"}))

\* pagefault_handler()
PageFault(err) ==
  {Said(0 \in err.bits, "protection", "absent"), Said(1 \in err.bits, "write", "read"),
   Said(2 \in err.bits, "user", "kernel")}
  \union Said(3 \in err.bits, {"reserved"}, {})
  \union Said(4 \in err.bits, {"fetch"}, {})

\* trap_handler(): prints what the frame says, then panic(), which halts with
\* IF off.
TrapHandler ==
  LET v == Trapframe(cur).vector[2]
      err == Trapframe(cur).err[2]
  IN /\ at[cur] = "trap"
     /\ report' = [vector |-> v,
                   why |-> IF v = T_PF THEN PageFault(err)
                           ELSE IF v \in Selectors THEN SelectorError(err) ELSE {}]
     /\ panicking' = TRUE
     /\ at' = [at EXCEPT ![cur] = "halt"]
     /\ UNCHANGED <<booting, picvars, irq_table, cur, vec, real, fault, kstk>>

-----------------------------------------------------------------------------
Devices ==
  /\ \E i \in Drivers : Raise(i) \/ Drop(i)
  /\ UNCHANGED <<booting, irq_table, cur, at, vec, real, trapvars, kstk>>

Progress == \/ Accept \/ AcknowledgeMaster \/ AcknowledgeSlave
            \/ IrqDispatch \/ Handler \/ Iret \/ Resume \/ TrapHandler

Next ==
  \/ PicInit \/ Sti \/ \E i \in Drivers : DriverInit(i)
  \/ Progress \/ Yield \/ Devices
  \/ \E c \in Causes : Exception(c)

Spec == Init /\ [][Next]_vars /\ WF_vars(Progress)

-----------------------------------------------------------------------------

\* A handler runs for a request the 8259 confirms (`nao faz sentido rodar o
\* handler registrado pra um evento que na pratica nao aconteceu').
HandlersForReal == at[cur] = "handler" => real[cur]

\* isr_dispatch() finds vector, error code and return address where struct
\* trapframe has them, for every vector and also in an exception inside a
\* handler; a thread back from an interrupt has its stack as it was.
FramesRight ==
  /\ at[cur] \in {"dispatch", "trap"} =>
       /\ Trapframe(cur).vector = <<"vector", vec[cur]>>
       /\ Trapframe(cur).err =
            <<"err", IF at[cur] = "trap" THEN CpuErr(fault) ELSE NoErr>>
       /\ Trapframe(cur).eip[1] = "eip" /\ Trapframe(cur).cs[1] = "cs"
       /\ Trapframe(cur).eflags[1] = "eflags"
  /\ \A t \in Thread : at[t] \in {"run", "out"} => kstk[t] = <<>>

\* What the panic message says of the fault is what the fault was.
ReportTrue == panicking => report = fault

\* The order in which the two chips serve their lines.
Rank(i) == IF i < 2 THEN i ELSE IF i >= 8 THEN i - 6 ELSE i + 7

\* Every request that stays up is taken, the slave's as well, unless requests
\* of higher priority keep coming or the kernel panics.
EveryLineServed ==
  \A i \in Drivers :
    \/ [](~booting /\ i \in irr \ imr => <>(i \notin irr \/ panicking))
    \/ []<>(\E j \in irr \ imr : Rank(j) < Rank(i))
=============================================================================
