----------------------------- MODULE Interrupts -----------------------------
(***************************************************************************)
(* Interrupts: arch/x86/irq.c, the interrupt side of idt.c and segment.s,  *)
(* the timer (arch/x86/timer.c) and delay (kernel/timer.c), with the pair  *)
(* of 8259 controllers and the CPU's interrupt flag, which are external.   *)
(*                                                                         *)
(* An interrupt may come between any two steps of the kernel's main flow.  *)
(* The timer's rate is left out: a tick may come at any time, so what      *)
(* timer_init writes to the timer chip does not appear.  A byte is the set *)
(* of the positions of its one bits, port numbers included.                *)
(***************************************************************************)
EXTENDS Integers, FiniteSetsExt

CONSTANTS
    Lines,      \* the lines that have devices (of 0 .. 15), the timer's 0 too
    DisableLines,  \* the lines somebody calls irq_disable for
    JMOD,       \* jiffies wraps here (2^32)
    Delays,     \* the arguments of delay, in milliseconds
    Burst,      \* most ticks between two looks of delay at jiffies
    Faults      \* whether the CPU may raise exceptions

ASSUME InterruptsAssumption ==
    /\ Lines \subseteq 0 .. 15 /\ 0 \in Lines
    /\ DisableLines \subseteq 0 .. 15
    /\ JMOD \in Nat /\ JMOD > 1 /\ JMOD % 2 = 0
    /\ Delays \subseteq 0 .. (JMOD \div 2) - 1
    /\ Burst \in Nat /\ Burst + 1 <= JMOD \div 2
    /\ Faults \in BOOLEAN

VARIABLES
    main,       \* what the kernel's main flow is doing
    intr,       \* the interrupt being handled: its line and irq_handler's place
    handlers,   \* irq_handlers[32 + n]
    mask,       \* interrupt mask registers of the master and the slave
    irr,        \* the lines with a request latched in a controller
    isr,        \* in-service registers of the master and the slave
    jiffies,
    target,     \* delay's local variable
    halted,     \* the CPU spins in isr_handler, interrupts disabled
    burst       \* history: ticks since delay last looked at jiffies

vars == <<main, intr, handlers, mask, irr, isr, jiffies, target, halted, burst>>

Byte == SUBSET (0 .. 7)
CMD0 == {5}           \* port 0x20, and the EOI command
MASK0 == {0, 5}       \* port 0x21
CMD1 == {5, 7}        \* port 0xa0
MASK1 == {0, 5, 7}    \* port 0xa1
EOI  == {5}

Idle    == [at |-> "idle"]
NoFrame == [at |-> "none"]
Frame(n, place) == [at |-> place, n |-> n]

Init ==
    /\ main = [at |-> "reset"]
    /\ intr = NoFrame
    /\ handlers = [n \in 0 .. 15 |-> "none"]
    /\ mask = [master |-> {}, slave |-> {}]
    /\ irr = {}
    /\ isr = [master |-> {}, slave |-> {}]
    /\ jiffies = 0
    /\ target = 0
    /\ halted = FALSE
    /\ burst = 0

-----------------------------------------------------------------------------
(* An EOI ends the service of the highest priority line, if there is one. *)
AfterEOI(s) == IF s = {} THEN s ELSE s \ {Min(s)}

(***************************************************************************)
(* outb(v, port): what the ports the code writes to do with a byte.        *)
(* Every byte the code sends to a command port is an EOI; other ports      *)
(* (whatever irq_enable and irq_disable hit) do not matter here.           *)
(***************************************************************************)
outb(v, port) ==
    /\ isr' = CASE port = CMD0 /\ 5 \in v -> [isr EXCEPT !.master = AfterEOI(@)]
                [] port = CMD1 /\ 5 \in v -> [isr EXCEPT !.slave = AfterEOI(@)]
                [] OTHER -> isr
    /\ mask' = CASE port = MASK0 -> [mask EXCEPT !.master = v]
                 [] port = MASK1 -> [mask EXCEPT !.slave = v]
                 [] OTHER -> mask

-----------------------------------------------------------------------------
(* idt_init: the handlers are forgotten, irq_remap opens every line. *)
idt_init ==
    /\ main.at = "reset"
    /\ main' = [at |-> "boot"]
    /\ handlers' = [n \in 0 .. 15 |-> "none"]
    /\ mask' = [master |-> {}, slave |-> {}]
    /\ irr' = {}
    /\ isr' = [master |-> {}, slave |-> {}]
    /\ UNCHANGED <<intr, jiffies, target, burst, halted>>

(* The "sti" of arch_main. *)
sti ==
    /\ main.at = "boot"
    /\ main' = Idle
    /\ UNCHANGED <<intr, handlers, mask, irr, isr, jiffies, target, burst, halted>>

(* The main flow runs only while no interrupt is being handled. *)
Running == intr = NoFrame /\ ~ halted
IF_flag == Running /\ main.at \notin {"reset", "boot"}

(***************************************************************************)
(* request_irq(n, handler): the handler is installed first; irq_enable     *)
(* follows.  (timer_init installs timer_handler on line 0, the only        *)
(* handler of the repository.)                                             *)
(***************************************************************************)
request_irq(n) ==
    /\ Running /\ main = Idle
    /\ handlers' = [handlers EXCEPT ![n] = IF n = 0 THEN "timer" ELSE "device"]
    /\ main' = [at |-> "inb", irq |-> n, enable |-> TRUE]
    /\ UNCHANGED <<intr, mask, irr, isr, jiffies, target, burst, halted>>

irq_disable(n) ==
    /\ Running /\ main = Idle
    /\ main' = [at |-> "inb", irq |-> n, enable |-> FALSE]
    /\ UNCHANGED <<intr, handlers, mask, irr, isr, jiffies, target, burst, halted>>

(***************************************************************************)
(* The first half of irq_enable and irq_disable: read the mask of the      *)
(* line's controller and compute the new one.                              *)
(***************************************************************************)
ReadMask ==
    /\ Running /\ main.at = "inb"
    /\ LET n   == main.irq
           old == IF n < 8 THEN mask.master ELSE mask.slave
           bit == {n % 8}
       IN  main' = [at |-> "outb", irq |-> n, enable |-> main.enable,
                    value |-> IF main.enable THEN old \ bit ELSE old \cup bit]
    /\ UNCHANGED <<intr, handlers, mask, irr, isr, jiffies, target, burst, halted>>

MaskPort(n) == IF n < 8 THEN MASK0 ELSE MASK1

(***************************************************************************)
(* The second half, "outb(port, value)": outb takes the byte first, so the *)
(* port's number is written, as a byte, to the port the mask names.        *)
(***************************************************************************)
WriteMask ==
    /\ Running /\ main.at = "outb"
    /\ outb(MaskPort(main.irq), main.value)
    /\ main' = Idle
    /\ UNCHANGED <<intr, handlers, irr, jiffies, target, burst, halted>>

-----------------------------------------------------------------------------
(* A difference of two uint32_t seen as a long. *)
AsLong(d) == LET m == d % JMOD IN IF m >= JMOD \div 2 THEN m - JMOD ELSE m

HZ == 1000
msecs_to_jiffies(x) == (x + (1000 \div HZ) - 1) \div (1000 \div HZ)

(* mutated: the counts are compared as they are, without the difference *)
time_before_plain(a, b) == a < b
time_before(a, b) == AsLong(b - a) > 0

(* mutated: the sum is not a uint32_t *)
delay_unwrapped(msec) ==
    /\ Running /\ main = Idle
    /\ target' = jiffies + msecs_to_jiffies(msec)
    /\ main' = [at |-> "waiting"]
    /\ burst' = 0
    /\ UNCHANGED <<intr, handlers, mask, irr, isr, jiffies, halted>>
(* delay(msec) until its loop: the time at which to stop waiting. *)
delay(msec) ==
    /\ Running /\ main = Idle
    /\ target' = (jiffies + msecs_to_jiffies(msec)) % JMOD
    /\ main' = [at |-> "waiting"]
    /\ burst' = 0
    /\ UNCHANGED <<intr, handlers, mask, irr, isr, jiffies, halted>>

(* The condition of delay's loop, evaluated once. *)
delay_loop ==
    /\ Running /\ main.at = "waiting"
    /\ main' = IF time_before(jiffies, target) THEN main ELSE Idle
    /\ burst' = 0
    /\ UNCHANGED <<intr, handlers, mask, irr, isr, jiffies, target, halted>>

-----------------------------------------------------------------------------
(***************************************************************************)
(* A device raises its line (external).  A line that is raised again       *)
(* before it is served is still one request.  While main waits in delay    *)
(* the CPU looks at jiffies at least every Burst ticks.                    *)
(***************************************************************************)
Raise(n) ==
    /\ main.at # "reset"
    /\ irr' = irr \cup {n}
    /\ IF n = 0 /\ main.at = "waiting"
       THEN burst < Burst /\ burst' = burst + 1
       ELSE UNCHANGED burst
    /\ UNCHANGED <<main, intr, handlers, mask, isr, jiffies, target, halted>>

(* The controllers' fixed priorities: the slave hangs on line 2. *)
Rank(n) == IF n < 8 THEN 16 * n ELSE 32 + n
Masked(n) ==
    IF n < 8 THEN n \in mask.master
    ELSE (n - 8) \in mask.slave \/ 2 \in mask.master
(* A line waits while one of its own or a higher priority is in service. *)
Blocked(n) ==
    \/ \E s \in isr.master : s <= IF n < 8 THEN n ELSE 2
    \/ n >= 8 /\ \E s \in isr.slave : s <= n - 8

Deliverable == {n \in irr : ~ Masked(n) /\ ~ Blocked(n)}

(***************************************************************************)
(* The CPU takes the most urgent request: its controllers mark it as in    *)
(* service; the gate and the stub's "cli" keep other interrupts out.       *)
(***************************************************************************)
Accept(n) ==
    /\ IF_flag
    /\ n \in Deliverable /\ \A m \in Deliverable : Rank(n) <= Rank(m)
    /\ irr' = irr \ {n}
    /\ isr' = IF n < 8
              THEN [isr EXCEPT !.master = @ \cup {n}]
              ELSE [master |-> isr.master \cup {2}, slave |-> isr.slave \cup {n - 8}]
    /\ intr' = Frame(n, "handler")
    /\ UNCHANGED <<main, handlers, mask, jiffies, target, burst, halted>>

(***************************************************************************)
(* A request that has gone when the CPU asks for it is answered with the   *)
(* controller's line 7, which is not put in service.                       *)
(***************************************************************************)
Spurious(n) ==
    /\ IF_flag
    /\ n \in {7, 15}
    /\ isr' = IF n = 7 THEN isr ELSE [isr EXCEPT !.master = @ \cup {2}]
    /\ intr' = Frame(n, "handler")
    /\ UNCHANGED <<main, handlers, mask, irr, jiffies, target, burst, halted>>

(* mutated: a handler that is there has sent its own EOI *)
call_handler_only ==
    /\ intr.at = "handler"
    /\ jiffies' = IF handlers[intr.n] = "timer" THEN (jiffies + 1) % JMOD ELSE jiffies
    /\ intr' = IF handlers[intr.n] # "none" THEN NoFrame
               ELSE Frame(intr.n, IF intr.n >= 8 THEN "slave" ELSE "master")
    /\ UNCHANGED <<main, handlers, mask, irr, isr, target, burst, halted>>
(* mutated: jiffies is counted for every line that has a handler *)
call_handler_any ==
    /\ intr.at = "handler"
    /\ jiffies' = IF handlers[intr.n] # "none" THEN (jiffies + 1) % JMOD ELSE jiffies
    /\ intr' = Frame(intr.n, IF intr.n >= 8 THEN "slave" ELSE "master")
    /\ UNCHANGED <<main, handlers, mask, irr, isr, target, burst, halted>>
(***************************************************************************)
(* irq_handler calls the line's handler, if it has one (timer_handler      *)
(* counts a jiffy), and then sends the EOIs, the slave's first.            *)
(***************************************************************************)
call_handler ==
    /\ intr.at = "handler"
    /\ jiffies' = IF handlers[intr.n] = "timer" THEN (jiffies + 1) % JMOD ELSE jiffies
    /\ intr' = Frame(intr.n, IF intr.n >= 8 THEN "slave" ELSE "master")
    /\ UNCHANGED <<main, handlers, mask, irr, isr, target, burst, halted>>

(* mutated: the slave's EOI goes to the master's command port *)
eoi_slave_wrong ==
    /\ intr.at = "slave"
    /\ outb(EOI, CMD0)
    /\ intr' = Frame(intr.n, "master")
    /\ UNCHANGED <<main, handlers, irr, jiffies, target, burst, halted>>
eoi_slave ==
    /\ intr.at = "slave"
    /\ outb(EOI, CMD1)
    /\ intr' = Frame(intr.n, "master")
    /\ UNCHANGED <<main, handlers, irr, jiffies, target, burst, halted>>

(* The master's EOI, and the iret of the stub. *)
eoi_master ==
    /\ intr.at = "master"
    /\ outb(EOI, CMD0)
    /\ intr' = NoFrame
    /\ UNCHANGED <<main, handlers, irr, jiffies, target, burst, halted>>

(* An exception: isr_handler ends in an endless loop, interrupts disabled. *)
isr_handler ==
    /\ Faults
    /\ main.at # "reset" /\ ~ halted
    /\ halted' = TRUE
    /\ UNCHANGED <<main, intr, handlers, mask, irr, isr, jiffies, target, burst>>

irq_handler == ~ halted /\ (call_handler \/ eoi_slave \/ eoi_master)

Kernel ==
    \/ idt_init \/ sti
    \/ \E n \in Lines : request_irq(n)
    \/ \E n \in DisableLines : irq_disable(n)
    \/ ReadMask \/ WriteMask
    \/ \E msec \in Delays : delay(msec)
    \/ delay_loop
    \/ irq_handler
    \/ isr_handler

Machine ==
    \/ \E n \in Lines : Raise(n) \/ Accept(n)
    \/ \E n \in {7, 15} : Spurious(n)

Next == Kernel \/ Machine

Spec == Init /\ [][Next]_vars

(***************************************************************************)
(* The timer keeps ticking; the CPU takes a request that keeps being       *)
(* deliverable, and its main flow gets to run however often it is          *)
(* interrupted, interrupts being rare against instructions.                *)
(***************************************************************************)
FairSpec ==
    /\ Spec
    /\ WF_vars(Raise(0))
    /\ SF_vars(\E n \in Lines : Accept(n))
    /\ WF_vars(irq_handler)
    /\ SF_vars(delay_loop)

-----------------------------------------------------------------------------
MainStates ==
    [at : {"reset", "boot", "idle", "waiting"}]
    \cup [at : {"inb"}, irq : 0 .. 15, enable : BOOLEAN]
    \cup [at : {"outb"}, irq : 0 .. 15, enable : BOOLEAN, value : Byte]

TypeOK ==
    /\ main \in MainStates
    /\ intr \in {NoFrame} \cup [at : {"handler", "slave", "master"}, n : 0 .. 15]
    /\ handlers \in [0 .. 15 -> {"none", "timer", "device"}]
    /\ mask \in [master : Byte, slave : Byte]
    /\ irr \subseteq 0 .. 15
    /\ isr \in [master : Byte, slave : Byte]
    /\ jiffies \in 0 .. JMOD - 1
    /\ target \in 0 .. JMOD - 1
    /\ halted \in BOOLEAN
    /\ burst \in 0 .. Burst

(***************************************************************************)
(* Whenever the kernel runs with interrupts enabled, no line is left in    *)
(* service in either controller: every interrupt, spurious ones and ones   *)
(* without a handler included, is acknowledged exactly where it has to be. *)
(* A line left in service would never interrupt again.                     *)
(***************************************************************************)
InServiceClean == IF_flag => isr.master = {} /\ isr.slave = {}

(***************************************************************************)
(* While a slave's interrupt is in service the master holds the cascade    *)
(* line, so that no slave line, and no lower master line, can come in      *)
(* between the two EOIs.                                                   *)
(***************************************************************************)
CascadeHeld == isr.slave # {} => 2 \in isr.master

(***************************************************************************)
(* jiffies and delay implement a clock: each latched tick is counted once, *)
(* whatever else interrupts, and a delay sees the ticks it asked for,      *)
(* neither more nor fewer, even when jiffies or the target wraps.          *)
(***************************************************************************)
Implements == INSTANCE Clock WITH
    Spans   <- {msecs_to_jiffies(x) : x \in Delays},
    now     <- jiffies,
    due     <- IF handlers[0] # "timer" THEN 0
               ELSE (IF 0 \in irr THEN 1 ELSE 0)
                    + (IF intr = Frame(0, "handler") THEN 1 ELSE 0),
    waiting <- main.at = "waiting",
    left    <- IF main.at = "waiting" /\ time_before(jiffies, target)
               THEN AsLong(target - jiffies) ELSE 0

IsClock == Implements!Spec

(***************************************************************************)
(* A delay that waits once the timer has its handler ends, however often   *)
(* other devices interrupt, unless an exception ends the kernel.           *)
(***************************************************************************)
DelayReturns ==
    (main.at = "waiting" /\ handlers[0] = "timer") ~> (main = Idle \/ halted)

-----------------------------------------------------------------------------
(***************************************************************************)
(* outb is declared with the byte first (io.h:7): the write that ends      *)
(* irq_enable and irq_disable puts the new mask in the mask register, and  *)
(* the line is masked exactly if it was disabled.                          *)
(***************************************************************************)
MaskFollows ==
    [][\A n \in Lines \cup DisableLines :
        main.at = "outb" /\ main.irq = n /\ main' = Idle =>
            (Masked(n)' <=> ~ main.enable)]_vars
=============================================================================
