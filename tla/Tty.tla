---------------------------------- MODULE Tty ----------------------------------
(***************************************************************************)
(* What the console promises: a line being edited, which readers cannot    *)
(* see; the bytes of finished lines, read in order; and written bytes,     *)
(* numbered, which leave in the order in which they were written.          *)
(***************************************************************************)
EXTENDS Naturals, Sequences

CONSTANTS Char, Cap    \* characters that can be stored, and how many at once

VARIABLES edit, ready, queue, written

vars == <<edit, ready, queue, written>>

Init == edit = <<>> /\ ready = <<>> /\ queue = <<>> /\ written = 0

\* Input: a character is added, and may complete the line; the last one or the
\* whole line is taken back; a reader takes the next.
Accept(c) ==
  /\ Len(edit) + Len(ready) < Cap
  /\ IF c \in {"nl", "D"} \/ Len(edit) + Len(ready) + 1 = Cap
     THEN ready' = ready \o edit \o <<c>> /\ edit' = <<>>
     ELSE edit' = Append(edit, c) /\ UNCHANGED ready

Erase ==
  /\ edit # <<>>
  /\ edit' = SubSeq(edit, 1, Len(edit) - 1) /\ UNCHANGED ready

Kill == edit' = <<>> /\ UNCHANGED ready

Read == ready # <<>> /\ ready' = Tail(ready) /\ UNCHANGED edit

Input == (\E c \in Char : Accept(c)) \/ Erase \/ Kill \/ Read

\* Output: a byte is written; the oldest is sent.
Write == written' = written + 1 /\ queue' = Append(queue, written + 1)

Send == UNCHANGED written /\ queue # <<>> /\ queue' = Tail(queue)

Output == Write \/ Send

Next ==
  \/ UNCHANGED <<written, queue>> /\ Input
  \/ UNCHANGED <<edit, ready>> /\ Output

Spec == Init /\ [][Next]_vars
===============================================================================
