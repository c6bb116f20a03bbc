--------------------------------- MODULE Clock ---------------------------------
(***************************************************************************)
(* The console together with the clock: sys_sleep (kernel/sysproc.c) and   *)
(* the timer interrupt on CPU 0 (kernel/trap.c).  The two share processes, *)
(* sleep, wakeup, kill, and the rule that interrupts are off where a       *)
(* spinlock is held.                                                       *)
(***************************************************************************)
EXTENDS Console

CONSTANTS cpu0, MaxTicks    \* timer interrupts

\* clock.ticks is ticks of trap.c, a uint; clock.ticks0 what each sys_sleep has
\* remembered of it.  clock.ticked counts the timer interrupts, and clock.since
\* is that count when each sys_sleep began.

\* sys_sleep: under tickslock, note the time
SysSleep(p) ==
  /\ At(p, "sleep")
  /\ Acquire(p, "ticks", "sleeping")
  /\ clock' = [clock EXCEPT !.ticks0[p] = clock.ticks, !.since[p] = clock.ticked]
  /\ UNCHANGED <<cons, tx, chr, host, uart, user, panicked>>

\* woken
TickAcquire(p) ==
  /\ At(p, "tick")
  /\ Acquire(p, "ticks", "sleeping")
  /\ UNCHANGED <<clock, cons, tx, chr, host, uart, user, panicked>>

\* ticks - ticks0 < n: n, an int, is converted to uint
Early(p) == (clock.ticks - clock.ticks0[p]) % U < Call(p).n % U

\* the loop of sys_sleep
SleepLoop(p) ==
  /\ At(p, "sleeping")
  /\ IF Early(p) /\ ~killed[p] THEN Goto(p, "ticksleep") /\ UNCHANGED <<lock, prog, done>>
     ELSE Goto(p, "user") /\ Release("ticks") /\ Return(p)
  /\ UNCHANGED <<clock, cons, tx, sync, chr, host, uart, killed, written, stopped>>

TickSleep(p) ==
  /\ At(p, "ticksleep")
  /\ Sleep(p, "ticks", "ticks")
  /\ UNCHANGED <<clock, cons, tx, chr, host, uart, user, panicked>>

WakesOne ==
  IF \E p \in Proc : pc[p] = "ticks"
  THEN [pc EXCEPT ![CHOOSE p \in Proc : pc[p] = "ticks"] = "tick"] ELSE pc
WakesAll == Woken("ticks", "tick")

\* clockintr, where CPU 0 has its interrupts on; acquire panics if what it
\* interrupts holds tickslock
Clockintr ==
  /\ clock.ticked < MaxTicks
  /\ InterruptsOn(cpu0) /\ host # cpu0 /\ lock["ticks"] \in {None, cpu0}
  /\ IF lock["ticks"] = cpu0 THEN Panic(cpu0, "acquire") /\ UNCHANGED clock
     ELSE /\ clock' = [clock EXCEPT !.ticks = (@ + 1) % U, !.ticked = @ + 1]
          /\ pc' = WakesAll
          /\ UNCHANGED <<sync, panic>>
  /\ UNCHANGED <<lock, cons, tx, chr, host, uart, user, panicked>>

SleepStep(p) == SysSleep(p) \/ TickAcquire(p) \/ SleepLoop(p) \/ TickSleep(p)

ClockInit(k) ==
  /\ Init
  /\ \E t \in Starts :
       clock = [ticks |-> t, ticked |-> k,
                ticks0 |-> [p \in Proc |-> 0], since |-> [p \in Proc |-> 0]]

ClockNext == Next \/ (\E p \in Proc : SleepStep(p)) \/ Clockintr

\* Fairness: every CPU goes on executing, the UART goes on sending, and a
\* pending interrupt is taken where the scheduler has interrupts on.
Fairness ==
  /\ \A p \in Proc : WF_vars(Step(p) \/ SleepStep(p))
  /\ WF_vars(Interrupt)
  /\ WF_vars(Transmit)
  /\ WF_vars(\E p \in Proc : Claim(p))

-----------------------------------------------------------------------------

\* Type invariant; the UART's receive FIFO holds no more than it can.
TypeOK ==
  /\ lock \in [Lock -> Proc \cup {None}]
  /\ cons.r \in 0..(U - 1) /\ cons.w \in 0..(U - 1) /\ cons.e \in 0..(U - 1)
  /\ tx.w \in 0..(UART_TX_BUF_SIZE - 1) /\ tx.r \in 0..(UART_TX_BUF_SIZE - 1)
  /\ host \in Proc \cup {None} /\ irq \in BOOLEAN /\ Len(rx) <= RXFIFO
  /\ clock.ticks \in 0..(U - 1)

\* THR is never written when the UART has no room for the byte, though
\* uartputc_sync and uartstart look at LSR under different locks and write it
\* later: the FIFO makes up for as many writers as can get between.
NoOverrun == Len(fifo) <= TXFIFO

\* cons.r, cons.w and cons.e, uints that wrap around, stay in this order: what
\* can be read and the line being edited fit into cons.buf together.
InputFits == ((cons.w - cons.r) % U) + Edit <= INPUT_BUF

\* Neither the input ring of console.c nor the UART's FIFOs are overrun.
BuffersBounded == TypeOK /\ InputFits /\ NoOverrun

\* Nobody sleeps past what it waits for: with the lock of its channel free, a
\* sleeper in consoleread has no input to read, and one in sys_sleep has time
\* left to sleep (a kill just before it slept is not noticed until then).
SleepersHaveReason ==
  \A p \in Proc :
    /\ pc[p] = "cons_r" /\ lock["cons"] = None => cons.r = cons.w
    /\ pc[p] = "ticks" /\ lock["ticks"] = None => clock.ticked - clock.since[p] < Call(p).n % U

\* The kernel panics only in a write of the console, in sched, and only after
\* as many bytes were written as the transmit buffer holds; in particular no
\* CPU takes a spinlock that it holds, whatever interrupts it.
PanicNeedsBacklog == panic # None => panic = "sched locks" /\ written >= UART_TX_BUF_SIZE - 1

\* a sequence of n bytes of a ring buffer
Ring(buf, size, from, n) == [i \in 1..n |-> buf[(from + i - 1) % size]]

Buffered ==
  Ring(tx.buf, UART_TX_BUF_SIZE, tx.r, (tx.w - tx.r) % UART_TX_BUF_SIZE)

Abstract == INSTANCE Tty WITH
  Char <- {Stored(c) : c \in Keys}, Cap <- INPUT_BUF,
  edit <- Ring(cons.buf, INPUT_BUF, cons.w, Edit),
  ready <- Ring(cons.buf, INPUT_BUF, cons.r, (cons.w - cons.r) % U),
  queue <- SelectSeq(fifo \o tx.hand \o Buffered, LAMBDA b : b # 0)

\* The console implements the line discipline Tty: no reader sees a line being
\* edited, input is read in order and once, no stored byte is overwritten, and
\* written bytes reach the wire in the order of the writes, none lost.
ImplementsTty == Abstract!Spec

\* Written bytes do not stay in the transmit buffer, unless the kernel panics.
OutputDrains == (tx.w # tx.r) ~> (tx.w = tx.r \/ panic # None)

\* A process that reads while there is input gets on: it returns or the input
\* is used up.
ReadReturns ==
  \A p \in Proc :
    (pc[p] \in {"consoleread", "read", "readsleep", "cons_r"} /\ cons.r # cons.w)
      ~> (cons.r = cons.w \/ pc[p] = "user" \/ panic # None)
===============================================================================
