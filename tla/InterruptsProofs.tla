-------------------------- MODULE InterruptsProofs --------------------------
(***************************************************************************)
(* Proofs about Interrupts, for every set of devices, every width of       *)
(* jiffies and every delay: no line is left in service while interrupts    *)
(* are enabled.                                                            *)
(***************************************************************************)
EXTENDS Interrupts, TLAPS

(* No line has ever been masked, and irq_enable and irq_disable write to   *)
(* port 0 or to a port whose number is a power of two.                     *)
AllOpen ==
    /\ mask = [master |-> {}, slave |-> {}]
    /\ main.at = "outb" => \E b \in 0 .. 7 : main.value \subseteq {b}

(* What the controllers hold while the interrupt of line n is handled. *)
Serving(n) ==
    /\ n < 8 => isr.master \subseteq {n} /\ isr.slave = {}
    /\ n >= 8 => isr.master = {2} /\ isr.slave \subseteq {n - 8}

InService ==
    /\ intr = NoFrame => isr.master = {} /\ isr.slave = {}
    /\ intr # NoFrame => Serving(intr.n)
    /\ intr.at = "slave" => intr.n >= 8
    /\ intr.at = "master" => isr.slave = {}

(* Nothing is being handled before idt_init. *)
Quiet == main.at \in {"reset", "boot"} => intr = NoFrame

IInv == TypeOK /\ AllOpen /\ InService /\ Quiet

-----------------------------------------------------------------------------
LEMMA MinOfOne == \A x : Min({x}) = x
BY DEF Min

(* An EOI clears the only line in service. *)
LEMMA EOIClears ==
    ASSUME NEW x, NEW S, S \subseteq {x} PROVE AfterEOI(S) = {}
<1>1. S = {} \/ S = {x}
  OBVIOUS
<1> QED BY <1>1, MinOfOne DEF AfterEOI

LEMMA Ports ==
    /\ CMD0 # CMD1 /\ CMD0 # MASK0 /\ CMD0 # MASK1 /\ CMD1 # MASK0 /\ CMD1 # MASK1
    /\ MASK0 # MASK1 /\ 5 \in EOI /\ 5 \in MASK0 /\ 5 \in MASK1
    /\ \A b, v : v \subseteq {b} => v # MASK0 /\ v # MASK1 /\ v # CMD1
    /\ CMD0 \in Byte /\ CMD1 \in Byte /\ MASK0 \in Byte /\ MASK1 \in Byte
BY DEF CMD0, CMD1, MASK0, MASK1, EOI, Byte

(***************************************************************************)
(* The write that ends irq_enable and irq_disable misses the mask          *)
(* registers; at worst it is an EOI for a line nobody serves.              *)
(***************************************************************************)
LEMMA MaskWriteMisses ==
    ASSUME isr \in [master : Byte, slave : Byte], isr.master = {},
           NEW v, NEW b, v \subseteq {b}, NEW n, outb(MaskPort(n), v)
    PROVE  isr' = isr /\ mask' = mask
<1>1. mask' = mask
  BY Ports DEF outb
<1>2. CASE v = CMD0
  <2>1. isr' = [isr EXCEPT !.master = AfterEOI(isr.master)]
    BY <1>2, Ports DEF outb, MaskPort
  <2> QED BY <1>1, <2>1 DEF AfterEOI
<1>3. CASE v # CMD0
  BY <1>1, <1>3, Ports DEF outb
<1> QED BY <1>2, <1>3

LEMMA InitService == Init => IInv
<1> SUFFICES ASSUME Init PROVE IInv
  OBVIOUS
<1>1. main \in MainStates /\ main.at = "reset"
  BY DEF Init, MainStates
<1>2. 0 \in 0 .. JMOD - 1 /\ 0 \in 0 .. Burst
  BY InterruptsAssumption
<1>3. TypeOK
  BY <1>1, <1>2 DEF Init, TypeOK, Byte
<1>4. AllOpen /\ InService /\ Quiet
  BY <1>1 DEF Init, AllOpen, InService, Quiet, NoFrame
<1> QED BY <1>3, <1>4 DEF IInv

-----------------------------------------------------------------------------
LEMMA MainFlowKeeps ==
    ASSUME IInv,
           idt_init \/ sti \/ (\E n \in Lines : request_irq(n))
           \/ (\E n \in DisableLines : irq_disable(n)) \/ ReadMask \/ WriteMask
    PROVE  IInv'
<1> USE DEF IInv, InService, Quiet
<1>1. CASE idt_init
  BY <1>1 DEF idt_init, TypeOK, AllOpen, MainStates, Byte
<1>2. CASE sti
  BY <1>2 DEF sti, TypeOK, AllOpen, MainStates, Idle, Serving
<1>3. ASSUME NEW n \in Lines, request_irq(n) PROVE IInv'
  <2>1. n \in 0 .. 15
    BY InterruptsAssumption
  <2> QED BY <1>3, <2>1 DEF request_irq, TypeOK, AllOpen, MainStates, Serving
<1>4. ASSUME NEW n \in DisableLines, irq_disable(n) PROVE IInv'
  <2>1. n \in 0 .. 15
    BY InterruptsAssumption
  <2> QED BY <1>4, <2>1 DEF irq_disable, TypeOK, AllOpen, MainStates, Serving
<1>5. CASE ReadMask
  <2>1. main.at = "inb" /\ main.irq \in 0 .. 15 /\ main.enable \in BOOLEAN
    BY <1>5 DEF ReadMask, TypeOK, MainStates
  <2>2. main.irq % 8 \in 0 .. 7
    BY <2>1
  <2>3. PICK v : /\ main' = [at |-> "outb", irq |-> main.irq, enable |-> main.enable,
                             value |-> v]
                 /\ v \subseteq {main.irq % 8}
    BY <1>5 DEF ReadMask, AllOpen
  <2>4. v \in Byte
    BY <2>2, <2>3 DEF Byte
  <2>5. main' \in MainStates
    BY <2>1, <2>3, <2>4 DEF MainStates
  <2>6. UNCHANGED <<intr, handlers, mask, irr, isr, jiffies, target, burst, halted>>
    BY <1>5 DEF ReadMask
  <2> QED BY <2>2, <2>3, <2>5, <2>6 DEF TypeOK, AllOpen, Serving
<1>6. CASE WriteMask
  <2>1. /\ intr = NoFrame /\ main.at = "outb" /\ main' = Idle
        /\ outb(MaskPort(main.irq), main.value)
        /\ UNCHANGED <<intr, handlers, irr, jiffies, target, burst, halted>>
    BY <1>6 DEF WriteMask, Running
  <2>2. isr' = isr /\ mask' = mask
    BY <2>1, MaskWriteMisses DEF TypeOK, AllOpen
  <2> QED BY <2>1, <2>2 DEF TypeOK, AllOpen, MainStates, Idle, Serving
<1> QED BY <1>1, <1>2, <1>3, <1>4, <1>5, <1>6

LEMMA DelayFlowKeeps ==
    ASSUME IInv, (\E msec \in Delays : delay(msec)) \/ delay_loop \/ isr_handler
    PROVE  IInv'
<1> USE DEF IInv, InService, Quiet
<1>1. ASSUME NEW msec \in Delays, delay(msec) PROVE IInv'
  <2>1. jiffies + msecs_to_jiffies(msec) \in Int /\ JMOD \in Nat \ {0}
    BY InterruptsAssumption DEF msecs_to_jiffies, HZ, TypeOK
  <2>2. target' \in 0 .. JMOD - 1
    BY <1>1, <2>1 DEF delay
  <2>3. 0 \in 0 .. Burst
    BY InterruptsAssumption
  <2> QED BY <1>1, <2>2, <2>3 DEF delay, TypeOK, AllOpen, MainStates, Serving
<1>2. CASE delay_loop
  <2>1. 0 \in 0 .. Burst
    BY InterruptsAssumption
  <2> QED BY <1>2, <2>1 DEF delay_loop, TypeOK, AllOpen, MainStates, Idle, Serving
<1>3. CASE isr_handler
  BY <1>3 DEF isr_handler, TypeOK, AllOpen, Serving
<1> QED BY <1>1, <1>2, <1>3

(***************************************************************************)
(* Taking an interrupt: nothing is in service, so exactly its own lines    *)
(* are in service afterwards; none of them if it is spurious.              *)
(***************************************************************************)
LEMMA MachineKeeps == ASSUME IInv, Machine PROVE IInv'
<1> USE DEF IInv
<1>1. ASSUME NEW n \in Lines, Raise(n) PROVE IInv'
  <2>1. n \in 0 .. 15 /\ Burst \in Nat
    BY InterruptsAssumption
  <2>2. burst' \in 0 .. Burst
    BY <1>1, <2>1 DEF Raise, TypeOK
  <2> QED BY <1>1, <2>1, <2>2 DEF Raise, TypeOK, AllOpen, InService, Quiet, Serving
<1>2. ASSUME NEW n \in 0 .. 15, intr' = Frame(n, "handler"),
             irr' \subseteq irr, IF_flag,
             \/ n < 8 /\ isr' = [isr EXCEPT !.master = @ \cup {n}]
             \/ n < 8 /\ isr' = isr
             \/ n >= 8 /\ isr' = [master |-> isr.master \cup {2},
                                  slave |-> isr.slave \cup {n - 8}]
             \/ n >= 8 /\ isr' = [isr EXCEPT !.master = @ \cup {2}],
             UNCHANGED <<main, handlers, mask, jiffies, target, burst, halted>>
      PROVE  IInv'
  <2>1. isr.master = {} /\ isr.slave = {} /\ isr \in [master : Byte, slave : Byte]
    BY <1>2 DEF IF_flag, Running, InService, TypeOK
  <2>2. isr' \in [master : Byte, slave : Byte]
    <3>1. /\ {2} \in Byte
          /\ n < 8 => {n} \in Byte
          /\ n >= 8 => {n - 8} \in Byte
      BY DEF Byte
    <3> QED BY <1>2, <2>1, <3>1
  <2>3. TypeOK'
    BY <1>2, <2>2 DEF TypeOK, Frame
  <2>4. intr' # NoFrame /\ intr'.n = n /\ intr'.at = "handler"
    BY <1>2 DEF Frame, NoFrame
  <2>5. Serving(n)'
    BY <1>2, <2>1 DEF Serving
  <2>6. InService'
    BY <2>4, <2>5 DEF InService, Serving
  <2> QED BY <1>2, <2>3, <2>6 DEF AllOpen, Quiet, IF_flag
<1>3. ASSUME NEW n \in Lines, Accept(n) PROVE IInv'
  <2>1. n \in 0 .. 15
    BY InterruptsAssumption
  <2>2. \/ n < 8 /\ isr' = [isr EXCEPT !.master = @ \cup {n}]
        \/ n >= 8 /\ isr' = [master |-> isr.master \cup {2},
                             slave |-> isr.slave \cup {n - 8}]
    BY <1>3, <2>1 DEF Accept
  <2>3. /\ intr' = Frame(n, "handler") /\ irr' \subseteq irr /\ IF_flag
        /\ UNCHANGED <<main, handlers, mask, jiffies, target, burst, halted>>
    BY <1>3 DEF Accept
  <2> QED BY <1>2, <2>1, <2>2, <2>3
<1>4. ASSUME NEW n \in {7, 15}, Spurious(n) PROVE IInv'
  <2>1. \/ n < 8 /\ isr' = isr
        \/ n >= 8 /\ isr' = [isr EXCEPT !.master = @ \cup {2}]
    BY <1>4 DEF Spurious
  <2>2. n \in 0 .. 15
    OBVIOUS
  <2> QED BY <1>2, <1>4, <2>1, <2>2 DEF Spurious
<1> QED BY <1>1, <1>3, <1>4 DEF Machine

(***************************************************************************)
(* irq_handler: after the slave's EOI only the cascade line is in service, *)
(* after the master's nothing is.                                          *)
(***************************************************************************)
LEMMA HandlerKeeps == ASSUME IInv, irq_handler PROVE IInv'
<1> USE DEF IInv
<1>1. /\ intr \in [at : {"handler", "slave", "master"}, n : 0 .. 15]
      /\ intr # NoFrame /\ Serving(intr.n)
  BY DEF irq_handler, call_handler, eoi_slave, eoi_master, TypeOK, InService, NoFrame
<1>2. isr \in [master : Byte, slave : Byte] /\ mask \in [master : Byte, slave : Byte]
  BY DEF TypeOK
<1>3. CASE call_handler
  <2>1. jiffies' \in 0 .. JMOD - 1
    BY <1>3, InterruptsAssumption DEF call_handler, TypeOK
  <2>2. intr' # NoFrame /\ intr'.n = intr.n /\ intr'.at = (IF intr.n >= 8 THEN "slave" ELSE "master")
    BY <1>3 DEF call_handler, Frame, NoFrame
  <2>3. intr' \in [at : {"handler", "slave", "master"}, n : 0 .. 15]
    BY <1>1, <1>3 DEF call_handler, Frame
  <2>4. TypeOK'
    BY <1>3, <2>1, <2>3 DEF call_handler, TypeOK
  <2>5. InService'
    BY <1>1, <1>3, <2>2 DEF call_handler, InService, Serving
  <2> QED BY <1>1, <1>3, <2>4, <2>5 DEF call_handler, AllOpen, Quiet
<1>4. CASE eoi_slave
  <2>1. intr.n >= 8 /\ isr.master = {2} /\ isr.slave \subseteq {intr.n - 8}
    BY <1>1, <1>4 DEF eoi_slave, InService, Serving
  <2>2. mask' = mask /\ isr' = [isr EXCEPT !.slave = AfterEOI(isr.slave)]
    BY <1>4, Ports DEF eoi_slave, outb
  <2>3. AfterEOI(isr.slave) = {}
    BY <2>1, EOIClears
  <2>4. isr' = [master |-> {2}, slave |-> {}]
    BY <1>2, <2>1, <2>2, <2>3
  <2>5. intr' # NoFrame /\ intr'.n = intr.n /\ intr'.at = "master"
    BY <1>4 DEF eoi_slave, Frame, NoFrame
  <2>6. intr' \in [at : {"handler", "slave", "master"}, n : 0 .. 15]
    BY <1>1, <1>4 DEF eoi_slave, Frame
  <2>7. isr' \in [master : Byte, slave : Byte]
    BY <2>4 DEF Byte
  <2>8. TypeOK'
    BY <1>4, <2>2, <2>6, <2>7 DEF eoi_slave, TypeOK
  <2>9. InService'
    BY <2>1, <2>4, <2>5 DEF InService, Serving
  <2> QED BY <1>1, <1>4, <2>2, <2>8, <2>9 DEF eoi_slave, AllOpen, Quiet
<1>5. CASE eoi_master
  <2>1. isr.slave = {} /\ \E x : isr.master \subseteq {x}
    BY <1>1, <1>5 DEF eoi_master, InService, Serving
  <2>2. mask' = mask /\ isr' = [isr EXCEPT !.master = AfterEOI(isr.master)]
    BY <1>5, Ports DEF eoi_master, outb
  <2>3. AfterEOI(isr.master) = {}
    BY <2>1, EOIClears
  <2>4. isr' = [master |-> {}, slave |-> {}]
    BY <1>2, <2>1, <2>2, <2>3
  <2>5. intr' = NoFrame /\ NoFrame.at = "none"
    BY <1>5 DEF eoi_master, NoFrame
  <2>6. isr' \in [master : Byte, slave : Byte]
    BY <2>4 DEF Byte
  <2>7. TypeOK'
    BY <1>5, <2>2, <2>5, <2>6 DEF eoi_master, TypeOK
  <2>8. InService'
    BY <2>4, <2>5 DEF InService
  <2> QED BY <1>5, <2>2, <2>5, <2>7, <2>8 DEF eoi_master, AllOpen, Quiet
<1> QED BY <1>3, <1>4, <1>5 DEF irq_handler

LEMMA ServiceStep == IInv /\ [Next]_vars => IInv'
<1> SUFFICES ASSUME IInv, [Next]_vars PROVE IInv'
  OBVIOUS
<1>1. CASE UNCHANGED vars
  BY <1>1 DEF vars, IInv, TypeOK, AllOpen, InService, Quiet, Serving
<1> QED
  BY <1>1, MainFlowKeeps, DelayFlowKeeps, MachineKeeps, HandlerKeeps DEF Next, Kernel

THEOREM InterruptsInvariant == Spec => []IInv
BY InitService, ServiceStep, PTL DEF Spec

(***************************************************************************)
(* The state of the interrupt code is always well typed.                   *)
(***************************************************************************)
THEOREM InterruptsTypes == Spec => []TypeOK
<1>1. IInv => TypeOK
  BY DEF IInv
<1> QED BY <1>1, InterruptsInvariant, PTL

(***************************************************************************)
(* irq_handler's acknowledgements are right for every line, with and       *)
(* without a handler, spurious or not, and whatever irq_enable and         *)
(* irq_disable write to the wrong port in between.                         *)
(***************************************************************************)
THEOREM NoLineStaysInService == Spec => []InServiceClean
<1>1. IInv => InServiceClean
  BY DEF IInv, InService, InServiceClean, IF_flag, Running
<1> QED BY <1>1, InterruptsInvariant, PTL

(***************************************************************************)
(* The order of the two EOIs, the slave's first, keeps the cascade line in *)
(* service for as long as a slave's line is.                               *)
(***************************************************************************)
THEOREM CascadeAlwaysHeld == Spec => []CascadeHeld
<1>1. IInv => CascadeHeld
  BY DEF IInv, InService, CascadeHeld, Serving, TypeOK
<1> QED BY <1>1, InterruptsInvariant, PTL

-----------------------------------------------------------------------------
(***************************************************************************)
(* jiffies and delay refine Clock.  The ticks that have been latched and   *)
(* not counted, and how far away the target is, as delay sees it.          *)
(***************************************************************************)
Pending == (IF 0 \in irr THEN 1 ELSE 0) + (IF intr = Frame(0, "handler") THEN 1 ELSE 0)
Due == IF handlers[0] # "timer" THEN 0 ELSE Pending
Distance == AsLong(target - jiffies)
Left == IF main.at = "waiting" /\ time_before(jiffies, target)
        THEN AsLong(target - jiffies) ELSE 0

(* Only line 0 counts jiffies, and not before idt_init. *)
TimerLine ==
    /\ \A n \in 0 .. 15 : handlers[n] = "timer" => n = 0
    /\ main.at = "reset" => handlers[0] # "timer"

(***************************************************************************)
(* While delay waits, the target is passed by at most the ticks delay did  *)
(* not look at, so the difference never wraps back to a positive one.      *)
(***************************************************************************)
NotOverrun == main.at = "waiting" => Distance >= Due - burst - 1

ClockInv == IInv /\ TimerLine /\ NotOverrun

-----------------------------------------------------------------------------
LEMMA HalfMod ==
    /\ JMOD \div 2 \in Nat \ {0} /\ JMOD = 2 * (JMOD \div 2)
    /\ JMOD \in Nat \ {0}
BY InterruptsAssumption

LEMMA ModOfSum ==
    ASSUME NEW a \in 0 .. JMOD - 1, NEW n \in 0 .. JMOD - 1
    PROVE  (a + n) % JMOD = IF a + n < JMOD THEN a + n ELSE a + n - JMOD
<1>1. CASE a + n < JMOD
  <2>1. a + n \in 0 .. JMOD - 1 /\ a + n = JMOD * 0 + (a + n)
    BY <1>1, HalfMod
  <2> QED BY <2>1, <1>1, HalfMod
<1>2. CASE a + n >= JMOD
  <2>1. a + n - JMOD \in 0 .. JMOD - 1 /\ a + n = JMOD * 1 + (a + n - JMOD)
    BY <1>2, HalfMod
  <2> QED BY <2>1, <1>2, HalfMod
<1> QED BY <1>1, <1>2, HalfMod

LEMMA ModOfDifference ==
    ASSUME NEW a \in 0 .. JMOD - 1, NEW b \in 0 .. JMOD - 1
    PROVE  (a - b) % JMOD = IF a >= b THEN a - b ELSE a - b + JMOD
<1>1. CASE a >= b
  <2>1. a - b \in 0 .. JMOD - 1 /\ a - b = JMOD * 0 + (a - b)
    BY <1>1, HalfMod
  <2> QED BY <2>1, <1>1, HalfMod
<1>2. CASE a < b
  <2>1. a - b + JMOD \in 0 .. JMOD - 1 /\ a - b = JMOD * (-1) + (a - b + JMOD)
    BY <1>2, HalfMod
  <2> QED BY <2>1, <1>2, HalfMod
<1> QED BY <1>1, <1>2, HalfMod

(***************************************************************************)
(* The difference of two counts as delay sees it: the one of the numbers   *)
(* congruent to it that fits in a long.                                    *)
(***************************************************************************)
LEMMA SignedDifference ==
    ASSUME NEW a \in 0 .. JMOD - 1, NEW b \in 0 .. JMOD - 1
    PROVE  /\ AsLong(a - b) \in -(JMOD \div 2) .. (JMOD \div 2) - 1
           /\ AsLong(a - b) \in {a - b, a - b + JMOD, a - b - JMOD}
BY HalfMod, ModOfDifference DEF AsLong

(* A target set n ticks ahead is seen n ticks ahead, wrapped or not. *)
LEMMA TargetAhead ==
    ASSUME NEW j \in 0 .. JMOD - 1, NEW n \in 0 .. (JMOD \div 2) - 1
    PROVE  AsLong(((j + n) % JMOD) - j) = n
<1> DEFINE a == (j + n) % JMOD
           d == AsLong(a - j)
<1>1. n \in 0 .. JMOD - 1
  BY HalfMod
<1>2. a \in 0 .. JMOD - 1 /\ (a = j + n \/ a = j + n - JMOD)
  <2>1. a = IF j + n < JMOD THEN j + n ELSE j + n - JMOD
    BY <1>1, ModOfSum
  <2> HIDE DEF a
  <2> QED BY <2>1, <1>1, HalfMod
<1>3. /\ d \in -(JMOD \div 2) .. (JMOD \div 2) - 1
      /\ d \in {a - j, a - j + JMOD, a - j - JMOD}
  BY <1>2, SignedDifference
<1> HIDE DEF a, d
<1>4. d = n
  BY <1>2, <1>3, HalfMod
<1> QED BY <1>4 DEF a, d

(* A tick brings the target one nearer, or takes it one further behind. *)
LEMMA TickApproaches ==
    ASSUME NEW g \in 0 .. JMOD - 1, NEW j \in 0 .. JMOD - 1,
           AsLong(g - j) > -(JMOD \div 2)
    PROVE  AsLong(g - ((j + 1) % JMOD)) = AsLong(g - j) - 1
<1> DEFINE k == (j + 1) % JMOD
           d == AsLong(g - j)
           e == AsLong(g - k)
<1>1. 1 \in 0 .. JMOD - 1
  BY HalfMod
<1>2. k \in 0 .. JMOD - 1 /\ (k = j + 1 \/ k = j + 1 - JMOD)
  <2>1. k = IF j + 1 < JMOD THEN j + 1 ELSE j + 1 - JMOD
    BY <1>1, ModOfSum
  <2> HIDE DEF k
  <2> QED BY <2>1, <1>1, HalfMod
<1>3. /\ d \in -(JMOD \div 2) .. (JMOD \div 2) - 1
      /\ d \in {g - j, g - j + JMOD, g - j - JMOD}
      /\ d > -(JMOD \div 2)
  BY SignedDifference
<1>4. /\ e \in -(JMOD \div 2) .. (JMOD \div 2) - 1
      /\ e \in {g - k, g - k + JMOD, g - k - JMOD}
  BY <1>2, SignedDifference
<1> HIDE DEF k, d, e
<1>5. e = d - 1
  BY <1>2, <1>3, <1>4, HalfMod
<1> QED BY <1>5 DEF k, d, e

-----------------------------------------------------------------------------
(***************************************************************************)
(* The steps the clock does not see.                                       *)
(***************************************************************************)
Unseen ==
    /\ UNCHANGED <<jiffies, target, burst>>
    /\ main'.at = "waiting" <=> main.at = "waiting"
    /\ Due' = Due

LEMMA UnseenStep ==
    ASSUME NotOverrun, Unseen PROVE NotOverrun' /\ UNCHANGED Implements!vars
BY DEF NotOverrun, Unseen, Distance, Due, Pending, AsLong, Implements!vars,
       time_before

(* Due ticks: never more than one in the controller and one on its way. *)
LEMMA DueRange == Due \in 0 .. 2 /\ (intr = NoFrame => Due \in 0 .. 1)
BY DEF Due, Pending, Frame, NoFrame

LEMMA InitClock == Init => ClockInv /\ Implements!Init
<1> SUFFICES ASSUME Init PROVE ClockInv /\ Implements!Init
  OBVIOUS
<1>1. IInv
  BY InitService
<1>2. handlers = [n \in 0 .. 15 |-> "none"] /\ main.at = "reset" /\ jiffies = 0
  BY DEF Init
<1> QED BY <1>1, <1>2 DEF ClockInv, TimerLine, NotOverrun, Implements!Init

-----------------------------------------------------------------------------
(***************************************************************************)
(* Everything but the timer's line and delay is a step the clock does not  *)
(* see.                                                                    *)
(***************************************************************************)
LEMMA MainFlowUnseen ==
    ASSUME ClockInv,
           idt_init \/ sti \/ (\E n \in DisableLines : irq_disable(n))
           \/ ReadMask \/ WriteMask \/ isr_handler
    PROVE  TimerLine' /\ Unseen
<1> USE DEF ClockInv, TimerLine, Unseen, Due, Pending
<1>1. CASE idt_init
  BY <1>1 DEF idt_init
<1>2. CASE sti
  BY <1>2 DEF sti, Idle
<1>3. ASSUME NEW n \in DisableLines, irq_disable(n) PROVE TimerLine' /\ Unseen
  BY <1>3 DEF irq_disable, Idle
<1>4. CASE ReadMask
  BY <1>4 DEF ReadMask
<1>5. CASE WriteMask
  BY <1>5 DEF WriteMask, Idle
<1>6. CASE isr_handler
  BY <1>6 DEF isr_handler
<1> QED BY <1>1, <1>2, <1>3, <1>4, <1>5, <1>6

LEMMA EOIsUnseen ==
    ASSUME ClockInv, eoi_slave \/ eoi_master PROVE TimerLine' /\ Unseen
BY DEF eoi_slave, eoi_master, ClockInv, TimerLine, Unseen, Due, Pending, Frame, NoFrame

(* Taking an interrupt moves a tick on its way, and forgets none. *)
LEMMA TakingUnseen ==
    ASSUME ClockInv,
           (\E n \in Lines : Accept(n)) \/ (\E n \in {7, 15} : Spurious(n))
    PROVE  TimerLine' /\ Unseen
<1> USE DEF ClockInv, TimerLine, Unseen, Due, Pending, Frame, NoFrame
<1>1. ASSUME NEW n \in Lines, Accept(n) PROVE TimerLine' /\ Unseen
  BY <1>1 DEF Accept, IF_flag, Running, Deliverable
<1>2. ASSUME NEW n \in {7, 15}, Spurious(n) PROVE TimerLine' /\ Unseen
  BY <1>2 DEF Spurious, IF_flag, Running
<1> QED BY <1>1, <1>2

-----------------------------------------------------------------------------
(* Clock's step, and what it keeps. *)
Refines == TimerLine' /\ NotOverrun' /\ [Implements!Next]_Implements!vars

(* A handler for the timer's line, or a request on it, latches a tick. *)
LEMMA LatchRefines ==
    ASSUME ClockInv,
           (\E n \in Lines : request_irq(n)) \/ (\E n \in Lines : Raise(n))
    PROVE  Refines
<1>1. ASSUME Due < 2, Due' = Due + 1, UNCHANGED <<jiffies, target>>,
             main'.at = "waiting" <=> main.at = "waiting"
      PROVE  Implements!Next
  BY <1>1 DEF Implements!Next, Implements!Latch, Due, Pending, time_before, AsLong
<1>2. ASSUME NEW n \in Lines, request_irq(n) PROVE Refines
  <2>1. /\ intr = NoFrame /\ main = Idle /\ main'.at = "inb"
        /\ handlers' = [handlers EXCEPT ![n] = IF n = 0 THEN "timer" ELSE "device"]
        /\ UNCHANGED <<intr, irr, jiffies, target, burst>>
    BY <1>2 DEF request_irq, Running
  <2>2. handlers \in [0 .. 15 -> {"none", "timer", "device"}] /\ n \in 0 .. 15
    BY InterruptsAssumption DEF ClockInv, IInv, TypeOK
  <2>3. TimerLine' /\ NotOverrun'
    BY <2>1, <2>2 DEF ClockInv, TimerLine, NotOverrun
  <2>4. main'.at # "waiting" /\ main.at # "waiting"
    BY <2>1 DEF Idle
  <2>5. CASE n = 0 /\ handlers[0] # "timer" /\ 0 \in irr
    <3>1. Due = 0 /\ Due' = 1
      BY <2>1, <2>2, <2>5 DEF Due, Pending, Frame, NoFrame
    <3> QED BY <1>1, <2>1, <2>3, <2>4, <3>1 DEF Refines
  <2>6. CASE ~ (n = 0 /\ handlers[0] # "timer" /\ 0 \in irr)
    <3>1. Due' = Due
      BY <2>1, <2>2, <2>6 DEF Due, Pending, Frame, NoFrame
    <3>2. Unseen
      BY <2>1, <2>4, <3>1 DEF Unseen
    <3> QED BY <2>3, <3>2, UnseenStep DEF ClockInv, Refines
  <2> QED BY <2>5, <2>6
<1>3. ASSUME NEW n \in Lines, Raise(n) PROVE Refines
  <2>1. /\ irr' = irr \cup {n}
        /\ UNCHANGED <<main, intr, handlers, jiffies, target>>
    BY <1>3 DEF Raise
  <2>2. TimerLine'
    BY <2>1 DEF ClockInv, TimerLine
  <2>3. Due' = Due \/ (n = 0 /\ Due < 2 /\ Due' = Due + 1)
    BY <2>1 DEF Due, Pending
  <2>4. NotOverrun'
    <3>1. SUFFICES ASSUME main.at = "waiting" PROVE Distance' >= Due' - burst' - 1
      BY <2>1 DEF NotOverrun
    <3>2. Distance' = Distance
      BY <2>1 DEF Distance, AsLong
    <3>3. Distance >= Due - burst - 1
      BY <3>1 DEF ClockInv, NotOverrun
    <3>4. Distance \in Int /\ burst \in Int /\ Due \in Int
      BY SignedDifference, DueRange DEF ClockInv, IInv, TypeOK, Distance
    <3>5. burst' = burst \/ burst' = burst + 1
      BY <1>3 DEF Raise
    <3>6. n = 0 => burst' = burst + 1
      BY <1>3, <3>1 DEF Raise
    <3> QED BY <2>3, <3>2, <3>3, <3>4, <3>5, <3>6
  <2>5. CASE Due' = Due
    BY <2>1, <2>2, <2>4, <2>5 DEF Refines, Implements!vars, Due, Pending, time_before, AsLong
  <2>6. CASE Due < 2 /\ Due' = Due + 1
    BY <1>1, <2>1, <2>2, <2>4, <2>6 DEF Refines
  <2> QED BY <2>3, <2>5, <2>6
<1> QED BY <1>2, <1>3

(* timer_handler counts a tick; the handlers of other lines count none. *)
LEMMA CountRefines == ASSUME ClockInv, call_handler PROVE Refines
<1>1. /\ intr.at = "handler"
      /\ jiffies' = IF handlers[intr.n] = "timer" THEN (jiffies + 1) % JMOD ELSE jiffies
      /\ intr'.at # "handler"
      /\ UNCHANGED <<main, handlers, irr, target, burst>>
  BY DEF call_handler, Frame
<1>2. intr \in [at : {"handler", "slave", "master"}, n : 0 .. 15]
  BY <1>1 DEF ClockInv, IInv, TypeOK, NoFrame
<1>3. TimerLine'
  BY <1>1 DEF ClockInv, TimerLine
<1>4. intr' # Frame(0, "handler")
  BY <1>1 DEF Frame
<1>5. CASE handlers[intr.n] # "timer"
  <2>1. intr = Frame(0, "handler") => handlers[0] # "timer"
    BY <1>5 DEF Frame
  <2>2. Due' = Due
    BY <1>1, <1>4, <2>1 DEF Due, Pending
  <2> QED BY <1>1, <1>3, <1>5, <2>2, UnseenStep DEF Unseen, Refines, ClockInv
<1>6. CASE handlers[intr.n] = "timer"
  <2>1. intr.n = 0 /\ handlers[0] = "timer"
    BY <1>2, <1>6 DEF ClockInv, TimerLine
  <2>2. intr = Frame(0, "handler")
    BY <1>1, <1>2, <2>1 DEF Frame
  <2>3. Due > 0 /\ Due' = Due - 1
    BY <1>1, <1>4, <2>1, <2>2 DEF Due, Pending
  <2>4. jiffies' = (jiffies + 1) % JMOD
    BY <1>1, <1>6
  <2>5. jiffies \in 0 .. JMOD - 1 /\ target \in 0 .. JMOD - 1 /\ burst \in 0 .. Burst
    BY DEF ClockInv, IInv, TypeOK
  <2>6. Distance \in Int /\ Due \in Int
    BY <2>5, SignedDifference, DueRange DEF Distance
  <2>7. main.at = "waiting" => Distance' = Distance - 1
    <3>1. SUFFICES ASSUME main.at = "waiting" PROVE Distance' = Distance - 1
      OBVIOUS
    <3>2. Distance >= Due - burst - 1
      BY <3>1 DEF ClockInv, NotOverrun
    <3>3. Distance > -(JMOD \div 2)
      BY <2>3, <2>5, <2>6, <3>2, HalfMod, InterruptsAssumption
    <3>4. AsLong(target - ((jiffies + 1) % JMOD)) = AsLong(target - jiffies) - 1
      BY <2>5, <3>3, TickApproaches DEF Distance
    <3>5. Distance' = AsLong(target - ((jiffies + 1) % JMOD))
      BY <1>1, <2>4 DEF Distance, AsLong
    <3> QED BY <3>4, <3>5 DEF Distance
  <2>8. NotOverrun'
    BY <1>1, <2>3, <2>5, <2>6, <2>7 DEF ClockInv, NotOverrun
  <2>9. Left = IF main.at = "waiting" /\ Distance > 0 THEN Distance ELSE 0
    BY DEF Left, time_before, Distance
  <2>10. Left' = IF main.at = "waiting" /\ Distance' > 0 THEN Distance' ELSE 0
    BY <1>1 DEF Left, time_before, Distance
  <2>11. Left' = IF Left > 0 THEN Left - 1 ELSE 0
    BY <2>6, <2>7, <2>9, <2>10
  <2>12. main'.at = main.at
    BY <1>1
  <2>13. Implements!Count
    BY <2>3, <2>4, <2>11, <2>12 DEF Implements!Count, Due, Pending, Left
  <2> QED BY <1>3, <2>8, <2>13 DEF Refines, Implements!Next
<1> QED BY <1>5, <1>6

(* delay starts a wait of as many ticks as it was asked for, and returns   *)
(* when none of them is left.                                              *)
LEMMA DelayRefines ==
    ASSUME ClockInv, (\E msec \in Delays : delay(msec)) \/ delay_loop PROVE Refines
<1>1. jiffies \in 0 .. JMOD - 1 /\ target \in 0 .. JMOD - 1
  BY DEF ClockInv, IInv, TypeOK
<1>2. ASSUME NEW msec \in Delays, delay(msec) PROVE Refines
  <2> DEFINE n == msecs_to_jiffies(msec)
  <2>1. /\ intr = NoFrame /\ main = Idle /\ main' = [at |-> "waiting"]
        /\ target' = (jiffies + n) % JMOD /\ burst' = 0
        /\ UNCHANGED <<intr, handlers, irr, jiffies>>
    BY <1>2 DEF delay, Running
  <2>2. n \in 0 .. (JMOD \div 2) - 1 /\ n \in {msecs_to_jiffies(x) : x \in Delays}
    BY InterruptsAssumption DEF msecs_to_jiffies, HZ
  <2> HIDE DEF n
  <2>3. AsLong(((jiffies + n) % JMOD) - jiffies) = n
    BY <1>1, <2>2, TargetAhead
  <2>4. Distance' = n
    BY <2>1, <2>3 DEF Distance, AsLong
  <2>5. Due' = Due /\ Due \in 0 .. 1
    BY <2>1, DueRange DEF Due, Pending
  <2>6. TimerLine' /\ NotOverrun'
    BY <2>1, <2>2, <2>4, <2>5 DEF ClockInv, TimerLine, NotOverrun
  <2>7. (IF main'.at = "waiting" /\ time_before(jiffies, target)'
         THEN AsLong(target - jiffies)' ELSE 0) = n
    BY <2>1, <2>2, <2>4, HalfMod DEF time_before, Distance
  <2>8. Implements!Start(n)
    BY <2>1, <2>5, <2>7 DEF Implements!Start, Idle, Due, Pending
  <2> QED BY <2>2, <2>6, <2>8 DEF Refines, Implements!Next
<1>3. CASE delay_loop
  <2>1. /\ intr = NoFrame /\ main.at = "waiting"
        /\ main' = IF time_before(jiffies, target) THEN main ELSE Idle
        /\ burst' = 0
        /\ UNCHANGED <<intr, handlers, irr, jiffies, target>>
    BY <1>3 DEF delay_loop, Running
  <2>2. Due' = Due /\ Due \in 0 .. 1
    BY <2>1, DueRange DEF Due, Pending
  <2>3. Distance' = Distance /\ Distance \in Int
    BY <1>1, <2>1, SignedDifference DEF Distance, AsLong
  <2>4. CASE time_before(jiffies, target)
    <3>1. Distance > 0
      BY <2>4 DEF time_before, Distance
    <3>2. TimerLine' /\ NotOverrun'
      BY <2>1, <2>2, <2>3, <2>4, <3>1 DEF ClockInv, TimerLine, NotOverrun
    <3>3. UNCHANGED Implements!vars
      BY <2>1, <2>2, <2>4 DEF Implements!vars, Due, Pending, time_before, AsLong
    <3> QED BY <3>2, <3>3 DEF Refines
  <2>5. CASE ~ time_before(jiffies, target)
    <3>1. main'.at = "idle"
      BY <2>1, <2>5 DEF Idle
    <3>2. TimerLine' /\ NotOverrun'
      BY <2>1, <3>1 DEF ClockInv, TimerLine, NotOverrun
    <3>3. Implements!Return
      BY <2>1, <2>2, <2>5, <3>1 DEF Implements!Return, Due, Pending
    <3> QED BY <3>2, <3>3 DEF Refines, Implements!Next
  <2> QED BY <2>4, <2>5
<1> QED BY <1>2, <1>3

LEMMA ClockStep == ClockInv /\ [Next]_vars => IInv' /\ Refines
<1> SUFFICES ASSUME ClockInv, [Next]_vars PROVE IInv' /\ Refines
  OBVIOUS
<1>1. IInv'
  BY ServiceStep DEF ClockInv
<1>2. ASSUME TimerLine', Unseen PROVE Refines
  BY <1>2, UnseenStep DEF ClockInv, Refines
<1>3. CASE UNCHANGED vars
  <2>1. TimerLine' /\ Unseen
    BY <1>3 DEF vars, ClockInv, TimerLine, Unseen, Due, Pending
  <2> QED BY <1>1, <1>2, <2>1
<1> QED
  BY <1>1, <1>2, <1>3, MainFlowUnseen, EOIsUnseen, TakingUnseen, LatchRefines,
     CountRefines, DelayRefines DEF Next, Kernel, Machine, irq_handler

(***************************************************************************)
(* Every behaviour of the interrupt code is one of Clock: each latched     *)
(* tick is counted once whatever else interrupts, and a delay sees exactly *)
(* the ticks it asked for, for every width of jiffies and every place of   *)
(* the wrap.                                                               *)
(***************************************************************************)
THEOREM DelaysAreExact == Spec => IsClock
<1>1. ClockInv /\ [Next]_vars => ClockInv'
  BY ClockStep DEF Refines, ClockInv
<1>2. ClockInv /\ [Next]_vars => [Implements!Next]_Implements!vars
  BY ClockStep DEF Refines
<1> QED BY InitClock, <1>1, <1>2, PTL DEF Spec, IsClock, Implements!Spec
=============================================================================
