-------------------------------- MODULE Console --------------------------------
(***************************************************************************)
(* The console: read and write of the console device and its line editing  *)
(* (kernel/console.c), the UART driver (kernel/uart.c), printf and panic   *)
(* (kernel/printf.c), the spinlocks they take (kernel/spinlock.c), and the *)
(* dispatch of the UART's interrupts (kernel/trap.c, plic.c).              *)
(*                                                                         *)
(* Process p runs on CPU p.  The interrupt handler Intr runs on the CPU    *)
(* `host`, on top of what that CPU was doing, and only where interrupts    *)
(* are on: where no spinlock is held.  A spinlock is owned by a CPU.       *)
(* Between the steps of one actor the others and the UART move; reading    *)
(* LSR and writing THR are steps of their own.  A message, and the three   *)
(* bytes that erase a character, stand as one byte each.                   *)
(***************************************************************************)
EXTENDS Integers, Sequences, FiniteSets, FiniteSetsExt

CONSTANTS
  Proc, None, Intr,
  Keys,                \* characters that arrive at the UART
  INPUT_BUF,           \* console.c
  U,                   \* 2^width of uint; INPUT_BUF divides it
  UART_TX_BUF_SIZE,    \* uart.c
  TXFIFO, RXFIFO,      \* depth of the UART's FIFOs (16 in a 16550)
  Starts               \* how many characters, modulo U, were typed and read before

ASSUME ConsoleAssumption ==
  /\ INPUT_BUF \in Nat \ {0} /\ U \in Nat /\ U % INPUT_BUF = 0 /\ U > INPUT_BUF
  /\ Starts \subseteq 0..(U - 1)
  /\ UART_TX_BUF_SIZE \in Nat \ {0, 1} /\ TXFIFO \in Nat /\ RXFIFO \in Nat
  /\ None \notin Proc /\ Intr \notin Proc

Lock == {"cons", "tx", "pr", "ticks"}
Actor == Proc \cup {Intr}

VARIABLES
  lock,        \* the CPU that holds each spinlock
  pc,          \* where each actor is; a sleeper's pc is the channel it sleeps on
  cons,        \* console.c: buf, r, w, e
  tx,          \* uart.c: uart_tx_buf, uart_tx_w, uart_tx_r, and the byte taken out
  todo,        \* bytes each actor has still to put with uartputc_sync
  then,        \* where it goes on after that
  chr,         \* the character consoleintr works on
  host, irq,   \* the CPU Intr runs on; the UART's interrupt is pending at the PLIC
  fifo, rx,    \* the UART's FIFOs: 0 for a byte of printf or echo, or a written byte's number
  keys,        \* bound: what may still be typed, a set for each character
  prog, done,  \* the calls each process has still to make; bytes its call has moved
  killed, written, panic, panicked,
  clock        \* the state of module Clock

uart == <<fifo, rx, irq, keys>>
user == <<prog, done, killed, written>>
sync == <<todo, then>>
stopped == <<panic, panicked>>
vars == <<clock, lock, pc, cons, tx, sync, chr, host, uart, user, stopped>>

Cpu(a) == IF a = Intr THEN host ELSE a
Held(c) == {l \in Lock : lock[l] = c}
Call(p) == Head(prog[p])

\* An actor takes its next step at label l: a process whose CPU is not taken
\* by the handler.
At(a, l) == pc[a] = l /\ host # a

Goto(a, l) == pc' = [pc EXCEPT ![a] = l]

\* panic: no more locking in printf; print, then freeze
Panic(a, why) ==
  /\ panic' = why
  /\ pc' = [pc EXCEPT ![a] = "sync"]
  /\ todo' = [todo EXCEPT ![a] = <<0>>]
  /\ then' = [then EXCEPT ![a] = "freeze"]

\* acquire, then go on at next: panics when this CPU already holds the lock
Acquire(a, l, next) ==
  /\ lock[l] \in {None, Cpu(a)}
  /\ IF lock[l] = None
     THEN lock' = [lock EXCEPT ![l] = Cpu(a)] /\ Goto(a, next) /\ UNCHANGED <<sync, panic>>
     ELSE Panic(a, "acquire") /\ UNCHANGED lock

Release(l) == lock' = [lock EXCEPT ![l] = None]

\* wakeup(chan): a woken process acquires again the lock it slept with
Woken(chan, l) == [a \in Actor |-> IF pc[a] = chan THEN l ELSE pc[a]]

\* sleep(chan, lk): sched panics if another spinlock is held
Sleep(p, chan, lk) ==
  /\ Release(lk)
  /\ IF Held(p) \ {lk} # {} THEN Panic(p, "sched locks")
     ELSE Goto(p, chan) /\ UNCHANGED <<sync, panic>>

\* The call of process p is over.
Return(p) ==
  /\ prog' = [prog EXCEPT ![p] = Tail(@)]
  /\ done' = [done EXCEPT ![p] = 0]

\* the indices of cons.buf are uints that are never reduced
IncNoWrap(i) == i + 1
Inc(i) == (i + 1) % U

-----------------------------------------------------------------------------
(* The UART, and the PLIC in front of it (external).                       *)

Idle == fifo = <<>>        \* LSR_TX_IDLE

\* A byte leaves; an empty FIFO asks for an interrupt.
Transmit ==
  /\ fifo # <<>>
  /\ fifo' = Tail(fifo)
  /\ irq' = (irq \/ Tail(fifo) = <<>>)
  /\ UNCHANGED <<clock, lock, pc, cons, tx, sync, chr, host, rx, keys, user, stopped>>

Type(c) ==
  /\ keys # <<>> /\ c \in Head(keys)
  /\ keys' = Tail(keys)
  /\ rx' = IF Len(rx) < RXFIFO THEN Append(rx, c) ELSE rx
  /\ irq' = TRUE
  /\ UNCHANGED <<clock, lock, pc, cons, tx, sync, chr, host, fifo, user, stopped>>

WriteReg(b) == fifo' = Append(fifo, b)

-----------------------------------------------------------------------------
(* uartputc_sync, for every byte of todo.                                  *)

\* spin for LSR_TX_IDLE
SyncUnchecked == TRUE
SyncReady == Idle

\* panicked freezes every CPU that gets here
UartputcSync(a) ==
  /\ At(a, "sync")
  /\ IF todo[a] = <<>> THEN Goto(a, then[a])
     ELSE ~panicked /\ SyncReady /\ Goto(a, "syncwrite")
  /\ UNCHANGED <<clock, lock, cons, tx, sync, chr, host, uart, user, stopped>>

SyncWrite(a) ==
  /\ At(a, "syncwrite")
  /\ WriteReg(Head(todo[a]))
  /\ todo' = [todo EXCEPT ![a] = Tail(@)]
  /\ Goto(a, "sync")
  /\ UNCHANGED <<clock, lock, cons, tx, then, chr, host, rx, irq, keys, user, stopped>>

\* the end of panic
Freeze(a) ==
  /\ At(a, "freeze")
  /\ panicked' = TRUE
  /\ Goto(a, "frozen")
  /\ UNCHANGED <<clock, lock, cons, tx, sync, chr, host, uart, user, panic>>

\* printf, by a process (a message about an unexpected trap) or in procdump
Printf(a) ==
  /\ At(a, "printf")
  /\ IF panic = None THEN Acquire(a, "pr", "print")
     ELSE Goto(a, "print") /\ UNCHANGED <<lock, sync, panic>>
  /\ UNCHANGED <<clock, cons, tx, chr, host, uart, user, panicked>>

PrintBytes(a) ==
  /\ At(a, "print")
  /\ Goto(a, "sync")
  /\ todo' = [todo EXCEPT ![a] = <<0>>]
  /\ then' = [then EXCEPT ![a] = "printed"]
  /\ UNCHANGED <<clock, lock, cons, tx, chr, host, uart, user, stopped>>

Printed(a) ==
  /\ At(a, "printed")
  /\ lock' = IF lock["pr"] = Cpu(a) THEN [lock EXCEPT !["pr"] = None] ELSE lock
  /\ IF a = Intr THEN Goto(a, "consdone") /\ UNCHANGED <<prog, done>>
     ELSE Goto(a, "user") /\ Return(a)
  /\ UNCHANGED <<clock, cons, tx, sync, chr, host, uart, killed, written, stopped>>

-----------------------------------------------------------------------------
(* uartstart, under uart_tx_lock, and what follows it.                     *)

Full == (tx.w + 1) % UART_TX_BUF_SIZE = tx.r

\* Nothing to send or no room for it: the lock is released, and the handler
\* completes the interrupt.
UartstartReturns(a) ==
  /\ At(a, "start")
  /\ Idle => tx.w = tx.r
  /\ Release("tx")
  /\ IF a = Intr THEN Goto(a, "off") /\ host' = None /\ UNCHANGED done
     ELSE Goto(a, "write") /\ done' = [done EXCEPT ![a] = @ + 1] /\ UNCHANGED host
  /\ UNCHANGED <<clock, cons, tx, sync, chr, uart, prog, killed, written, stopped>>

\* the byte that is taken out is written to THR in the next step
UartstartTakes(a) ==
  /\ At(a, "start")
  /\ tx.w # tx.r /\ Idle
  /\ tx' = [tx EXCEPT !.r = (@ + 1) % UART_TX_BUF_SIZE, !.hand = <<tx.buf[tx.r]>>]
  /\ pc' = [Woken("uart_tx_r", "putc") EXCEPT ![a] = "thr"]
  /\ UNCHANGED <<clock, lock, cons, sync, chr, host, uart, user, stopped>>

Thr(a) ==
  /\ At(a, "thr")
  /\ WriteReg(Head(tx.hand))
  /\ tx' = [tx EXCEPT !.hand = <<>>]
  /\ Goto(a, "start")
  /\ UNCHANGED <<clock, lock, cons, sync, chr, host, rx, irq, keys, user, stopped>>

-----------------------------------------------------------------------------
(* consolewrite and uartputc.                                              *)

ConsolewriteAcquire(p) ==
  /\ At(p, "consolewrite")
  /\ Acquire(p, "cons", "write")
  /\ UNCHANGED <<clock, cons, tx, chr, host, uart, user, panicked>>

\* the loop of consolewrite: all bytes written, or either_copyin fails
Consolewrite(p) ==
  /\ At(p, "write")
  /\ IF done[p] = Call(p).n \/ done[p] = Call(p).bad
     THEN Goto(p, "user") /\ Release("cons") /\ Return(p)
     ELSE Goto(p, "putc") /\ UNCHANGED <<lock, prog, done>>
  /\ UNCHANGED <<clock, cons, tx, sync, chr, host, uart, killed, written, stopped>>

UartputcAcquire(p) ==
  /\ At(p, "putc")
  /\ Acquire(p, "tx", IF panicked THEN "frozen" ELSE "put")
  /\ UNCHANGED <<clock, cons, tx, chr, host, uart, user, panicked>>

Uartputc(p) ==
  /\ At(p, "put")
  /\ IF Full
     THEN Sleep(p, "uart_tx_r", "tx") /\ UNCHANGED <<tx, written>>
     ELSE /\ tx' = [tx EXCEPT !.buf[tx.w] = written + 1, !.w = (@ + 1) % UART_TX_BUF_SIZE]
          /\ written' = written + 1
          /\ Goto(p, "start")
          /\ UNCHANGED <<lock, sync, panic>>
  /\ UNCHANGED <<clock, cons, chr, host, uart, prog, done, killed, panicked>>

-----------------------------------------------------------------------------
(* consoleread.                                                            *)

ConsolereadAcquire(p) ==
  /\ At(p, "consoleread")
  /\ Acquire(p, "cons", "read")
  /\ UNCHANGED <<clock, cons, tx, chr, host, uart, user, panicked>>

ReadDone(p) == Goto(p, "user") /\ Release("cons") /\ Return(p) /\ UNCHANGED <<sync, panic>>

\* the byte at cons.r is read, unless it is a ^D that ends a read of some bytes
Consumed(p, c) == [cons EXCEPT !.r = IF c = "D" /\ done[p] > 0 THEN @ ELSE Inc(@)]

\* one round of the loop of consoleread; bad is the byte either_copyout cannot store
Consoleread(p) ==
  /\ At(p, "read")
  /\ LET c == cons.buf[cons.r % INPUT_BUF]
     IN IF done[p] = Call(p).n THEN ReadDone(p) /\ UNCHANGED cons
        ELSE IF cons.r = cons.w
        THEN /\ UNCHANGED cons
             /\ IF killed[p] THEN ReadDone(p)
                ELSE Goto(p, "readsleep") /\ UNCHANGED <<lock, sync, prog, done, panic>>
        ELSE /\ cons' = Consumed(p, c)
             /\ IF c \in {"D", "nl"} \/ done[p] = Call(p).bad THEN ReadDone(p)
                ELSE done' = [done EXCEPT ![p] = @ + 1] /\ UNCHANGED <<lock, pc, sync, prog, panic>>
  /\ UNCHANGED <<clock, tx, chr, host, uart, killed, written, panicked>>

ReadSleep(p) ==
  /\ At(p, "readsleep")
  /\ Sleep(p, "cons_r", "cons")
  /\ UNCHANGED <<clock, cons, tx, chr, host, uart, user, panicked>>

-----------------------------------------------------------------------------
(* The interrupt: devintr, uartintr, consoleintr.                          *)

\* interrupts are on where no spinlock is held, and no byte is about to be
\* written by uartputc_sync (push_off, pop_off)
InterruptsAlwaysOn(c) == TRUE
InterruptsOn(c) == Held(c) = {} /\ pc[c] # "syncwrite"

\* devintr: plic_claim on CPU c.  The PLIC holds back the next interrupt of the
\* device until this one is complete.
Claim(c) ==
  /\ irq /\ host = None /\ InterruptsOn(c)
  /\ irq' = FALSE
  /\ host' = c
  /\ Goto(Intr, "getc")
  /\ UNCHANGED <<clock, lock, cons, tx, sync, chr, fifo, rx, keys, user, stopped>>

\* uartgetc in the loop of uartintr
Uartgetc ==
  /\ At(Intr, "getc")
  /\ IF rx = <<>> THEN Goto(Intr, "uartintr") /\ UNCHANGED <<chr, rx>>
     ELSE Goto(Intr, "consoleintr") /\ chr' = Head(rx) /\ rx' = Tail(rx)
  /\ UNCHANGED <<clock, lock, cons, tx, sync, host, fifo, irq, keys, user, stopped>>

ConsoleintrAcquire ==
  /\ At(Intr, "consoleintr")
  /\ Acquire(Intr, "cons", "switch")
  /\ UNCHANGED <<clock, cons, tx, chr, host, uart, user, panicked>>

Edit == (cons.e - cons.w) % U      \* characters of the line being edited

\* wakeup(&cons.r)
ReadersWoken == Woken("cons_r", "consoleread")

\* how many characters ^H and ^U take back: one, or those after the last newline
Erased ==
  IF chr = "H" THEN Min({1, Edit})
  ELSE Max({k \in 0..Edit : \A i \in 1..k : cons.buf[(cons.e - i) % INPUT_BUF] # "nl"})

HasRoomSigned == cons.e - cons.r < INPUT_BUF
HasRoom == (cons.e - cons.r) % U < INPUT_BUF

\* the switch of consoleintr: take back, or echo, or list the processes
Consoleintr ==
  /\ At(Intr, "switch")
  /\ CASE chr = "P" -> Goto(Intr, "printf") /\ UNCHANGED <<cons, sync>>
       [] chr \in {"U", "H"} ->
            /\ cons' = [cons EXCEPT !.e = (@ - Erased) % U]
            /\ Goto(Intr, "sync")
            /\ todo' = [todo EXCEPT ![Intr] = [i \in 1..Erased |-> 0]]
            /\ then' = [then EXCEPT ![Intr] = "consdone"]
       [] OTHER ->
            /\ UNCHANGED cons
            /\ IF chr # "nul" /\ HasRoom
               THEN /\ Goto(Intr, "sync")
                    /\ todo' = [todo EXCEPT ![Intr] = <<0>>]
                    /\ then' = [then EXCEPT ![Intr] = "store"]
               ELSE Goto(Intr, "consdone") /\ UNCHANGED <<sync>>
  /\ UNCHANGED <<clock, lock, tx, chr, host, uart, user, stopped>>

Stored(c) == IF c = "cr" THEN "nl" ELSE c

\* a line is complete: the readers are woken
Complete(c) == c \in {"nl", "D"} \/ (cons.e + 1) % U = (cons.r + INPUT_BUF) % U

Store ==
  /\ At(Intr, "store")
  /\ LET c == Stored(chr)
         e == Inc(cons.e)
     IN /\ cons' = [cons EXCEPT !.buf[cons.e % INPUT_BUF] = c, !.e = e,
                                !.w = IF Complete(c) THEN e ELSE @]
        /\ pc' = [(IF Complete(c) THEN ReadersWoken ELSE pc) EXCEPT ![Intr] = "consdone"]
  /\ UNCHANGED <<clock, lock, tx, sync, chr, host, uart, user, stopped>>

\* mutant: cons.lock is not released
ConsoleintrKeepsLock ==
  /\ At(Intr, "consdone")
  /\ Goto(Intr, "getc")
  /\ UNCHANGED <<clock, lock, cons, tx, sync, chr, host, uart, user, stopped>>

ConsoleintrReturns ==
  /\ At(Intr, "consdone")
  /\ Release("cons")
  /\ Goto(Intr, "getc")
  /\ UNCHANGED <<clock, cons, tx, sync, chr, host, uart, user, stopped>>

\* the end of uartintr: send buffered characters
UartintrInputOnly ==
  /\ At(Intr, "uartintr")
  /\ Goto(Intr, "off")
  /\ host' = None
  /\ UNCHANGED <<clock, lock, cons, tx, sync, chr, uart, user, stopped>>
Uartintr ==
  /\ At(Intr, "uartintr")
  /\ Acquire(Intr, "tx", "start")
  /\ UNCHANGED <<clock, cons, tx, chr, host, uart, user, panicked>>

-----------------------------------------------------------------------------
(* Calls.                                                                  *)

\* p makes the next call of its program
Enter(p) ==
  /\ At(p, "user")
  /\ prog[p] # <<>>
  /\ Goto(p, Call(p).op)
  /\ UNCHANGED <<clock, lock, cons, tx, sync, chr, host, uart, user, stopped>>

\* kill, by a process that does nothing else here: a sleeper is made runnable
Killed(p) ==
  CASE pc[p] = "cons_r" -> "consoleread"
    [] pc[p] = "uart_tx_r" -> "putc"
    [] pc[p] = "ticks" -> "tick"
    [] OTHER -> pc[p]

Kill(p) ==
  /\ \A q \in Proc : ~killed[q]
  /\ prog[p] # <<>>
  /\ killed' = [killed EXCEPT ![p] = TRUE]
  /\ pc' = [pc EXCEPT ![p] = Killed(p)]
  /\ UNCHANGED <<clock, lock, cons, tx, sync, chr, host, uart, prog, done, written, stopped>>

Init ==
  /\ lock = [l \in Lock |-> None]
  /\ pc = [a \in Actor |-> IF a = Intr THEN "off" ELSE "user"]
  /\ \E k \in Starts :
       cons = [buf |-> [i \in 0..(INPUT_BUF - 1) |-> "nul"], r |-> k, w |-> k, e |-> k]
  /\ tx = [buf |-> [i \in 0..(UART_TX_BUF_SIZE - 1) |-> 0], w |-> 0, r |-> 0, hand |-> <<>>]
  /\ todo = [a \in Actor |-> <<>>] /\ then = [a \in Actor |-> "user"] /\ chr = "nul"
  /\ host = None /\ irq = FALSE /\ fifo = <<>> /\ rx = <<>>
  /\ done = [p \in Proc |-> 0] /\ killed = [p \in Proc |-> FALSE]
  /\ written = 0 /\ panic = None /\ panicked = FALSE

\* what both a process and the handler execute
Shared(a) ==
  UartputcSync(a) \/ SyncWrite(a) \/ Freeze(a) \/ Printf(a) \/ PrintBytes(a) \/ Printed(a)
    \/ UartstartReturns(a) \/ UartstartTakes(a) \/ Thr(a)

Step(p) ==
  Enter(p) \/ Shared(p) \/ ConsolewriteAcquire(p) \/ Consolewrite(p) \/ UartputcAcquire(p)
    \/ Uartputc(p) \/ ConsolereadAcquire(p) \/ Consoleread(p) \/ ReadSleep(p)

Interrupt ==
  Shared(Intr) \/ Uartgetc \/ ConsoleintrAcquire \/ Consoleintr \/ Store \/ ConsoleintrReturns
    \/ Uartintr

Next ==
  \/ \E p \in Proc : Step(p) \/ Claim(p) \/ Kill(p)
  \/ Interrupt \/ Transmit
  \/ \E c \in Keys : Type(c)
===============================================================================
