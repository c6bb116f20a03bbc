------------------------------ MODULE MCSysFile ------------------------------
(***************************************************************************)
(* Model-checking instance of SysFile: what the programs of a run start    *)
(* with.                                                                   *)
(***************************************************************************)
EXTENDS Programs

CONSTANTS p1, p2

Entry(n, i) == [name |-> n, inum |-> i]
File0(bytes) == [type |-> "file", nlink |-> 1, data |-> bytes]
Dir0(up, i, es, n) == [type |-> "dir", nlink |-> n, data |-> <<Entry(".", i), Entry("..", up)>> \o es]

\* A disk made by mkfs with two files, and the disks that grind may find.
Root0 == <<Entry("README", 2), Entry("echo", 3)>>
Disk0 ==
  [i \in Inum |-> CASE i = 1 -> Dir0(1, 1, Root0, 1) [] i = 2 -> File0(<<"r">>)
                    [] i = 3 -> File0(<<"ELF">>) [] OTHER -> FreeInode]
Disk1 ==
  [Disk0 EXCEPT ![1] = Dir0(1, 1, Root0 \o <<Entry("grindir", 4)>>, 2), ![4] = Dir0(1, 4, <<>>, 1)]
Disk2 ==
  [Disk1 EXCEPT ![1] = Dir0(1, 1, Root0 \o <<Entry("grindir", 4), Entry("a", 5)>>, 3),
                ![5] = Dir0(1, 5, <<>>, 1)]

Alone(t) == [p \in Proc |-> IF p = p1 THEN t ELSE <<>>]
Two(a, b) == [p \in Proc |-> CASE p = p1 -> a [] p = p2 -> b [] OTHER -> <<>>]

\* The tests, one process to start with.
Tests ==
  {truncate1, truncate2, truncate3, iputtest, exitiputtest, openiputtest, opentest, writetest,
   createtest, dirtest, exectest, pipe1, exitwait, reparent, twochildren, sharedfd, fourfiles,
   createdelete, unlinkread, linktest, concreate, bigdir,
   subdir1 \o subdir2 \o subdir3 \o subdir4, bigwrite, bigfile, fourteen, rmdot, dirfile, iref}
  \cup {linkunlink(a, b, c) : a, b, c \in LinkUnlinks}
  \cup {manyfiles, manypipes, removedParent, removedFile, removedDir}

\* Command lines for the shell that init starts.
Lines == {<<"e", "|", "w">>, <<"e", ">", "f", ";", "w", " ", "<", "f">>, <<"e", ">", ">", "f", "&">>,
          <<"(", "e", ">", "f", ")", ";", "w", "<", "f">>, <<"e", "&", "w">>, <<"e", "|", "(">>}

\* A turn of each of grind's two processes: any two of the short ones, and the
\* longer ones beside one that removes or makes the names they use.  The name a
\* may be a directory already when grind10 or a turn beside grind9 starts.
Turns == <<grind1, grind2, grind3, grind4, grind5 \o grind7, grind6 \o grind8, grind11, grind12>>
Pairs ==
  UNION {{<<Turns[i], Turns[j]>> : j \in 1..i} : i \in DOMAIN Turns}
  \cup {<<grind20, grind3>>, <<grind21, grind9>>}
Removing ==
  {<<grind9, Turns[i]>> : i \in DOMAIN Turns} \cup {<<grind9, grind9>>, <<grind10, grind12>>}

Init ==
  \/ \E t \in Tests : InitWith(Disk0, Alone(t))
  \/ \E l \in Lines : InitWith(Disk0, Alone(initMain(l)))
  \/ \E t \in {grind14, grind17, grind19} : InitWith(Disk1, Alone(t))
  \/ \E ab \in Pairs : InitWith(Disk1, Two(ab[1], ab[2]))
  \/ \E ab \in Removing : InitWith(Disk2, Two(ab[1], ab[2]))

Spec == Init /\ [][Next]_vars

\* Two processes that each make and remove a file, for LastPutFrees.
DeleteSpec == InitWith(Disk0, Alone(createdelete)) /\ [][Next]_vars
==============================================================================
