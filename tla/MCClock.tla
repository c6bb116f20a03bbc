-------------------------------- MODULE MCClock --------------------------------
(***************************************************************************)
(* Model-checking instance of Clock: what the two processes do.            *)
(***************************************************************************)
EXTENDS Clock

CONSTANTS p1, p2

Read(n, bad) == [op |-> "consoleread", n |-> n, bad |-> bad]
Write(n, bad) == [op |-> "consolewrite", n |-> n, bad |-> bad]
Message == [op |-> "printf", n |-> 0, bad |-> 0]
SleepFor(n) == [op |-> "sleep", n |-> n, bad |-> 0]

Any(n) == [i \in 1..n |-> Keys]

\* what p1 and p2 do, which characters are typed, and how many timer interrupts
\* come
Scenarios ==
  { <<<<>>, <<>>, Any(3), 0>>,
    <<<<Read(2, 2), Read(2, 1)>>, <<>>, Any(2), 0>>,
    <<<<Read(2, 2), Read(2, 2)>>, <<>>, <<{"a"}, {"D"}, Keys>>, 0>>,
    <<<<Read(1, 1)>>, <<Read(1, 1)>>, Any(1), 0>>,
    <<<<Write(3, 3)>>, <<Message>>, <<>>, 0>>,
    <<<<Write(2, 1)>>, <<Write(2, 2)>>, <<>>, 0>>,
    <<<<Write(1, 1)>>, <<Read(1, 1)>>, Any(1), 0>>,
    <<<<SleepFor(2)>>, <<SleepFor(-1), SleepFor(0)>>, <<>>, MaxTicks>>,
    <<<<SleepFor(1)>>, <<>>, Any(1), 1>> }

MCSpec ==
  /\ \E s \in Scenarios :
       /\ prog = [p \in Proc |-> IF p = p1 THEN s[1] ELSE s[2]]
       /\ keys = s[3]
       /\ ClockInit(MaxTicks - s[4])
  /\ [][ClockNext]_vars
  /\ Fairness
===============================================================================
