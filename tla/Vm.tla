---------------------------------- MODULE Vm ----------------------------------
(***************************************************************************)
(* Physical and virtual memory: the page allocator (kernel/kalloc.c), user *)
(* page tables (kernel/vm.c), and the calls that build, copy, change and   *)
(* free them: fork, exit, wait and sbrk (kernel/proc.c, sysproc.c), exec   *)
(* (kernel/exec.c, sysfile.c).                                             *)
(*                                                                         *)
(* Processes run at the same time and any kalloc may fail.  A step ends    *)
(* after each page a loop allocates; freeing, which cannot fail, is part   *)
(* of the step that decides on it.  Which free page kalloc returns is of   *)
(* no consequence: the free list is a set.                                 *)
(***************************************************************************)
EXTENDS Integers, Sequences, FiniteSets, FiniteSetsExt, TLC

CONSTANTS
  Proc, None,
  initproc,    \* the first process: it never exits
  NFRAME,      \* pages of physical memory
  PGSIZE,      \* bytes of a page
  LEVELS, FAN, \* levels of a page table and entries of a node
  MAXARG,      \* param.h: arguments of exec
  Programs,    \* what exec finds: the ends of the segments, in bytes
  Deltas,      \* arguments of sbrk
  U,           \* 2^width of uint
  MaxCalls     \* system calls made, in all

ASSUME VmAssumption ==
  /\ initproc \in Proc /\ None \notin Proc
  /\ NFRAME \in Nat /\ PGSIZE \in Nat \ {0} /\ U \in Nat \ {0}
  /\ LEVELS \in Nat \ {0, 1} /\ FAN \in Nat \ {0, 1} /\ MAXARG \in Nat /\ MaxCalls \in Nat
  /\ NFRAME < FAN ^ LEVELS - 2     \* memlayout.h: memory is far smaller than MAXVA

Frame == 1..NFRAME
Va == 0..(FAN ^ LEVELS - 1)              \* virtual pages
TRAMPOLINE == FAN ^ LEVELS - 1
TRAPFRAME == TRAMPOLINE - 1
Node == {n \in (1..(LEVELS - 1)) \X Va : n[2] < FAN ^ (LEVELS - n[1])}
TrampolineFrame == NFRAME + 1            \* a page of the kernel's text

VARIABLES
  free,      \* kmem.freelist
  content,   \* what is in each page: junk, zero, text, args, guard, or its writer
  proc,      \* struct proc: state, parent, trapframe, pagetable, sz
  loc,       \* the call each process is in
  calls, panic

vars == <<free, content, proc, loc, calls, panic>>

\* A page table: the page of its root, those of the lower nodes, the mappings.
NoTable ==
  [root |-> 0, node |-> [n \in Node |-> 0], pte |-> [v \in Va |-> [pa |-> 0, user |-> FALSE]]]

NoProc == [state |-> "unused", parent |-> None, trapframe |-> 0, pagetable |-> NoTable, sz |-> 0]

NoCall ==
  [pc |-> "user", child |-> None, pt |-> NoTable, tf |-> 0, sz |-> 0, a |-> 0, old |-> 0, new |-> 0,
   segs |-> <<>>, argv |-> <<>>, want |-> 0, k |-> ""]

PgRoundUp(n) == (n + PGSIZE - 1) \div PGSIZE     \* PGROUNDUP(n) / PGSIZE

-----------------------------------------------------------------------------
(* kalloc and the operations of vm.c, on a table and the free pages.  The  *)
(* result says in err whether the code panics or fails.                    *)

Result(pt, fr, err) == [pt |-> pt, fr |-> fr, err |-> err]

\* kfree of the pages F
Kfree(r, F) ==
  IF F \cap r.fr # {} \/ ~(F \subseteq Frame) THEN [r EXCEPT !.err = "kfree"]
  ELSE [r EXCEPT !.fr = @ \cup F]

\* walk with alloc: the missing nodes, from the top
Walk(pt, fr, va) ==
  LET W[l \in 1..LEVELS] ==
        IF l = LEVELS THEN Result(pt, fr, "")
        ELSE LET w == W[l + 1]
                 n == <<l, va \div (FAN ^ l)>>
             IN IF w.err # "" \/ w.pt.node[n] # 0 THEN w
                ELSE IF w.fr = {} THEN [w EXCEPT !.err = "fails"]
                ELSE Result([w.pt EXCEPT !.node[n] = Min(w.fr)], w.fr \ {Min(w.fr)}, "")
  IN W[1]

Mappages(pt, fr, va, pa, user) ==
  LET w == Walk(pt, fr, va) IN
  IF w.err # "" THEN w
  ELSE IF w.pt.pte[va].pa # 0 THEN [w EXCEPT !.err = "remap"]
  ELSE [w EXCEPT !.pt.pte[va] = [pa |-> pa, user |-> user]]

Uvmunmap(pt, fr, from, n, doFree) ==
  LET V == from..(from + n - 1)
      r == Result([pt EXCEPT !.pte = [v \in Va |-> IF v \in V THEN NoTable.pte[v] ELSE @[v]]], fr, "")
  IN IF \E v \in V : pt.pte[v].pa = 0 THEN Result(pt, fr, "uvmunmap: not mapped")
     ELSE IF doFree THEN Kfree(r, {pt.pte[v].pa : v \in V}) ELSE r

Freewalk(pt, fr) ==
  IF \E v \in Va : pt.pte[v].pa # 0 THEN Result(pt, fr, "freewalk: leaf")
  ELSE Kfree(Result(NoTable, fr, ""), {pt.root} \cup ({pt.node[n] : n \in Node} \ {0}))

Uvmfree(pt, fr, sz) ==
  LET r == Uvmunmap(pt, fr, 0, PgRoundUp(sz), TRUE) IN
  IF r.err # "" THEN r ELSE Freewalk(r.pt, r.fr)

ProcFreepagetable(pt, fr, sz) ==
  LET t == Uvmunmap(pt, fr, TRAMPOLINE, 1, FALSE)
      f == Uvmunmap(t.pt, t.fr, TRAPFRAME, 1, FALSE)
  IN IF t.err # "" THEN t ELSE IF f.err # "" THEN f ELSE Uvmfree(f.pt, f.fr, sz)

Uvmdealloc(pt, fr, old, new) ==
  IF PgRoundUp(new) < PgRoundUp(old)
  THEN Uvmunmap(pt, fr, PgRoundUp(new), PgRoundUp(old) - PgRoundUp(new), TRUE)
  ELSE Result(pt, fr, "")

-----------------------------------------------------------------------------
(* Steps *)

At(p, pc) == panic = None /\ proc[p].state = "running" /\ loc[p].pc = pc

\* kfree fills a page with junk; W says what is written to other pages
Filled(fr, W) ==
  content' = [f \in Frame |-> IF f \in fr \ free THEN "junk" ELSE IF f \in DOMAIN W THEN W[f] ELSE content[f]]

Nothing == <<>>

\* the step ends with pages fr free, and the locals l
Do(p, fr, W, pr, l) ==
  /\ free' = fr /\ Filled(fr, W) /\ proc' = pr /\ loc' = [loc EXCEPT ![p] = l]
  /\ UNCHANGED <<calls, panic>>

\* r panicked, or the step goes on as Do
Or(r, p, W, pr, l) ==
  IF r.err # "" THEN panic' = r.err /\ UNCHANGED <<free, content, proc, loc, calls>>
  ELSE Do(p, r.fr, W, pr, l)

Called(p) ==
  /\ At(p, "user") /\ calls < MaxCalls
  /\ calls' = calls + 1

\* a system call that goes on at l
Enter(p, l) == Called(p) /\ loc' = [loc EXCEPT ![p] = l] /\ UNCHANGED <<free, content, proc, panic>>

\* The process writes to a page of its own.
Store(p) ==
  /\ At(p, "user")
  /\ \E v \in Va :
       /\ proc[p].pagetable.pte[v].user
       /\ content' = [content EXCEPT ![proc[p].pagetable.pte[v].pa] = p]
  /\ UNCHANGED <<free, proc, loc, calls, panic>>

-----------------------------------------------------------------------------
(* uvmalloc, for sbrk and for exec *)

\* The size of the table the loop of uvmalloc has come to.
UvmallocDone(l) == l.a * PGSIZE >= l.new

\* mutant: the pages mapped so far are not given back
UvmallocKeeps(pt, fr, a, old) == Result(pt, fr, "")

\* uvmdealloc(pagetable, a, oldsz) when a page cannot be had
UvmallocUndo(pt, fr, a, old) == Uvmdealloc(pt, fr, a * PGSIZE, old * PGSIZE)

\* mutant: memset forgotten
NotCleared(f) == content[f]

Cleared(f) == "zero"

\* One turn of the loop: pages a .. of table pt are new.  Where it ends, sbrk
\* sets the size and exec goes on, with the new size or at "bad".
Uvmalloc(p) ==
  LET l == loc[p]
      sbrk == l.pc = "sbrk"
      pt == IF sbrk THEN proc[p].pagetable ELSE l.pt
      f == Min(free)
      m == Mappages(pt, free \ {f}, l.a, f, TRUE)
      full == free = {} \/ m.err = "fails"
      undo == IF free = {} THEN UvmallocUndo(pt, free, l.a, l.old)
              ELSE UvmallocUndo(m.pt, m.fr \cup {f}, l.a, l.old)
      With(t, sz) == IF sbrk THEN [proc EXCEPT ![p].pagetable = t, ![p].sz = sz] ELSE proc
  IN /\ At(p, "sbrk") \/ At(p, "uvmalloc")
     /\ IF UvmallocDone(l)
        THEN Do(p, free, Nothing, With(pt, l.new),
                IF sbrk THEN NoCall ELSE [l EXCEPT !.sz = l.new, !.pc = IF l.new = 0 THEN "bad" ELSE l.k])
        ELSE IF full
        THEN Or(undo, p, Nothing, With(undo.pt, proc[p].sz),
                IF sbrk THEN NoCall ELSE [l EXCEPT !.pt = undo.pt, !.pc = "bad"])
        ELSE Or(m, p, f :> Cleared(f), With(m.pt, proc[p].sz),
                [l EXCEPT !.a = @ + 1, !.pt = IF sbrk THEN NoTable ELSE m.pt])

\* mutant: the new size, even if it is the larger one
DeallocatedNew(old, new) == new

\* the size uvmdealloc returns
Deallocated(old, new) == IF new >= old THEN old ELSE new

\* growproc, on 32-bit unsigned sizes: what would be less than nothing, or more
\* than uint holds, changes nothing and is no error
Sbrk(p) == \E n \in Deltas :
  LET sz == proc[p].sz
      new == (sz + n) % U
      r == Uvmdealloc(proc[p].pagetable, free, sz, new)
      to == IF n < 0 THEN Deallocated(sz, new) ELSE sz
  IN /\ Called(p)
     /\ IF r.err # "" THEN panic' = r.err /\ UNCHANGED <<free, content, proc, loc>>
        ELSE IF n < 0 \/ new < sz
        THEN /\ free' = IF n < 0 THEN r.fr ELSE free
             /\ Filled(free', Nothing)
             /\ proc' = [proc EXCEPT ![p].pagetable = IF n < 0 THEN r.pt ELSE @, ![p].sz = to]
             /\ UNCHANGED <<loc, panic>>
        ELSE /\ loc' = [loc EXCEPT ![p] = [NoCall EXCEPT !.pc = "sbrk", !.a = PgRoundUp(sz),
                                                        !.old = PgRoundUp(sz), !.new = new]]
             /\ UNCHANGED <<free, content, proc, panic>>

-----------------------------------------------------------------------------
(* proc_pagetable, freeproc, fork *)

\* uvmunmap(TRAMPOLINE), uvmfree(pagetable, 0) when the trapframe cannot be mapped
UnmapTrampoline(m) ==
  LET t == Uvmunmap(m.pt, m.fr, TRAMPOLINE, 1, FALSE) IN
  IF t.err # "" THEN t ELSE [Uvmfree(t.pt, t.fr, 0) EXCEPT !.err = IF @ = "" THEN "fails" ELSE @]

\* err is "fails" and the pages are free again, or pt is the new table
ProcPagetable(fr, tf) ==
  LET root == Min(fr)
      t == Mappages([NoTable EXCEPT !.root = root], fr \ {root}, TRAMPOLINE, TrampolineFrame, FALSE)
      m == Mappages(t.pt, t.fr, TRAPFRAME, tf, FALSE)
      undo == Uvmfree(t.pt, t.fr, 0)
  IN IF fr = {} THEN Result(NoTable, fr, "fails")
     ELSE IF t.err = "fails" THEN [undo EXCEPT !.err = IF @ = "" THEN "fails" ELSE @]
     ELSE IF m.err = "fails" THEN UnmapTrampoline(m) ELSE m

\* mutant: p->sz is not reset
FreedProcKeepsSize(q) == [NoProc EXCEPT !.sz = proc[q].sz]

\* what freeproc leaves in the slot
FreedProc(q) == NoProc

\* freeproc, with a page table
Freeproc(pt, fr, tf, sz) == ProcFreepagetable(pt, Kfree(Result(pt, fr, ""), {tf}).fr, sz)

Unused == {q \in Proc : proc[q].state = "unused"}

\* allocproc: a slot, its lock held until fork is done, and a trapframe; a fork
\* that finds no unused slot waits for the one in allocation
Fork(p) ==
  LET q == CHOOSE q \in Unused : TRUE
      f == Min(free)
  IN /\ Unused = {} => \A x \in Proc : proc[x].state # "alloc"
     /\ Called(p)
     /\ IF Unused = {} \/ free = {} THEN UNCHANGED <<free, content, proc, loc, panic>>
        ELSE /\ free' = free \ {f}
             /\ proc' = [proc EXCEPT ![q].state = "alloc", ![q].trapframe = f]
             /\ loc' = [loc EXCEPT ![p] = [NoCall EXCEPT !.pc = "pagetable", !.child = q, !.tf = f]]
             /\ UNCHANGED <<content, panic>>

\* proc_pagetable, for fork's child and for exec
Pagetable(p) ==
  LET l == loc[p]
      fork == l.child # None
      r == ProcPagetable(free, l.tf)
      undone == Kfree(r, {l.tf})
  IN /\ At(p, "pagetable")
     /\ IF r.err = "fails"
        THEN IF fork THEN Do(p, undone.fr, Nothing, [proc EXCEPT ![l.child] = FreedProc(l.child)], NoCall)
             ELSE Do(p, r.fr, Nothing, proc, [l EXCEPT !.pc = "bad"])
        ELSE IF fork
        THEN Or(r, p, Nothing, [proc EXCEPT ![l.child].pagetable = r.pt], [l EXCEPT !.pc = "uvmcopy"])
        ELSE Or(r, p, Nothing, proc, [l EXCEPT !.pt = r.pt, !.pc = "exec"])

\* One turn of uvmcopy's loop; at the end the child is made runnable.
Uvmcopy(p) ==
  LET l == loc[p]
      q == l.child
      old == proc[p].pagetable.pte[l.a]
      f == Min(free)
      m == Mappages(proc[q].pagetable, free \ {f}, l.a, f, old.user)
      full == free = {} \/ m.err = "fails"
      err == Uvmunmap(IF free = {} THEN proc[q].pagetable ELSE m.pt,
                      IF free = {} THEN free ELSE m.fr \cup {f}, 0, l.a, TRUE)
      undo == Freeproc(err.pt, err.fr, l.tf, 0)
  IN /\ At(p, "uvmcopy")
     /\ IF l.a * PGSIZE >= proc[p].sz
        THEN Do(p, free, Nothing, [proc EXCEPT ![q].sz = proc[p].sz, ![q].parent = p, ![q].state = "running"],
                NoCall)
        ELSE IF old.pa = 0 THEN Or(Result(NoTable, free, "uvmcopy"), p, Nothing, proc, l)
        ELSE IF full
        THEN Or(IF err.err # "" THEN err ELSE undo, p, Nothing, [proc EXCEPT ![q] = FreedProc(q)], NoCall)
        ELSE Or(m, p, f :> content[old.pa], [proc EXCEPT ![q].pagetable = m.pt], [l EXCEPT !.a = @ + 1])

\* exit; the children go to init
Exit(p) ==
  /\ p # initproc /\ Called(p)
  /\ proc' = [q \in Proc |-> IF q = p THEN [proc[p] EXCEPT !.state = "zombie"]
               ELSE IF proc[q].parent = p THEN [proc[q] EXCEPT !.parent = initproc] ELSE proc[q]]
  /\ UNCHANGED <<free, content, loc, panic>>

\* wait frees a zombie child
Wait(p) == \E q \in Proc :
  LET r == Freeproc(proc[q].pagetable, free, proc[q].trapframe, proc[q].sz) IN
  /\ At(p, "user") /\ proc[q].state = "zombie" /\ proc[q].parent = p
  /\ Or(r, p, Nothing, [proc EXCEPT ![q] = FreedProc(q)], loc[p])

-----------------------------------------------------------------------------
(* sys_exec and exec *)

ExecCall(p) == \E s \in Programs, n \in 0..MAXARG :
  Enter(p, [NoCall EXCEPT !.pc = "argv", !.segs = s, !.want = n, !.tf = proc[p].trapframe])

\* mutant: the argument pages are forgotten
ForgetArgv(r, l) == r

\* kfree of the argument pages
FreeArgv(r, l) == Kfree(r, {l.argv[i] : i \in DOMAIN l.argv})

\* One turn of sys_exec's loop, which may find a bad pointer; then the file is
\* opened and its header read, or not.
Argv(p) ==
  LET l == loc[p]
      i == Len(l.argv)
      giveUp == Or(FreeArgv(Result(NoTable, free, ""), l), p, Nothing, proc, NoCall)
  IN /\ At(p, "argv")
     /\ \/ giveUp
        \/ i < MAXARG /\ i = l.want /\ Do(p, free, Nothing, proc, [l EXCEPT !.pc = "pagetable"])
        \/ /\ i < MAXARG /\ i < l.want /\ free # {}
           /\ Do(p, free \ {Min(free)}, Nothing, proc, [l EXCEPT !.argv = Append(@, Min(free))])

\* The next segment, whose header may be bad, is given memory, after the last
\* one the stack.
Exec(p) ==
  LET l == loc[p]
      end == PgRoundUp(l.sz)
      go == [l EXCEPT !.pc = "uvmalloc", !.a = end, !.old = end]
  IN /\ At(p, "exec")
     /\ \/ /\ l.segs = <<>>
           /\ Do(p, free, Nothing, proc,
                 [go EXCEPT !.sz = end * PGSIZE, !.new = end * PGSIZE + 2 * PGSIZE, !.k = "stack"])
        \/ l.segs # <<>> /\ Do(p, free, Nothing, proc, [l EXCEPT !.pc = "bad"])
        \/ /\ l.segs # <<>> /\ Head(l.segs) < l.sz
           /\ Do(p, free, Nothing, proc, [l EXCEPT !.pc = "loadseg", !.segs = Tail(@)])
        \/ /\ l.segs # <<>> /\ Head(l.segs) >= l.sz
           /\ Do(p, free, Nothing, proc,
                 [go EXCEPT !.new = Head(l.segs), !.segs = Tail(@), !.k = "loadseg"])

\* loadseg, which may fail: the pages below the size hold the program
Loadseg(p) ==
  LET l == loc[p]
      pages == {l.pt.pte[v].pa : v \in 0..(PgRoundUp(l.sz) - 1)}
  IN /\ At(p, "loadseg")
     /\ \/ Do(p, free, Nothing, proc, [l EXCEPT !.pc = "bad"])
        \/ Do(p, free, [f \in pages |-> "text"], proc, [l EXCEPT !.pc = "exec"])

\* uvmclear, the arguments, which may not fit, and the commit to the new image
Stack(p) ==
  LET l == loc[p]
      top == PgRoundUp(l.sz) - 1
      pt == [l.pt EXCEPT !.pte[top - 1].user = FALSE]
      r == FreeArgv(ProcFreepagetable(proc[p].pagetable, free, proc[p].sz), l)
  IN /\ At(p, "stack")
     /\ \/ Do(p, free, Nothing, proc, [l EXCEPT !.pt = pt, !.pc = "bad"])
        \/ Or(r, p, pt.pte[top].pa :> "args", [proc EXCEPT ![p].pagetable = pt, ![p].sz = l.sz], NoCall)

\* proc_freepagetable(pagetable, sz)
BadFrees(l) == IF l.pt.root = 0 THEN Result(NoTable, free, "") ELSE ProcFreepagetable(l.pt, free, l.sz)

\* bad: of exec, and back in sys_exec
Bad(p) ==
  LET r == BadFrees(loc[p]) IN
  /\ At(p, "bad")
  /\ Or(IF r.err # "" THEN r ELSE FreeArgv(r, loc[p]), p, Nothing, proc, NoCall)

-----------------------------------------------------------------------------

\* userinit
Init ==
  LET t == ProcPagetable(Frame \ {1}, 1)
      f == Min(t.fr)
      m == Mappages(t.pt, t.fr \ {f}, 0, f, TRUE)
  IN /\ free = m.fr
     /\ content = [x \in Frame |-> IF x = f THEN "text" ELSE "junk"]
     /\ proc = [p \in Proc |-> IF p # initproc THEN NoProc
           ELSE [state |-> "running", parent |-> None, trapframe |-> 1, pagetable |-> m.pt, sz |-> PGSIZE]]
     /\ loc = [p \in Proc |-> NoCall]
     /\ calls = 0 /\ panic = None

Next == \E p \in Proc :
  \/ Store(p) \/ Sbrk(p) \/ Uvmalloc(p) \/ Fork(p) \/ Pagetable(p) \/ Uvmcopy(p) \/ Exit(p) \/ Wait(p)
  \/ ExecCall(p) \/ Argv(p) \/ Exec(p) \/ Loadseg(p) \/ Stack(p) \/ Bad(p)

Spec == Init /\ [][Next]_vars

-----------------------------------------------------------------------------
(* Properties *)

Tables == {<<p, "own">> : p \in Proc} \cup {<<p, "new">> : p \in Proc}
Table(t) == IF t[2] = "own" THEN proc[t[1]].pagetable ELSE loc[t[1]].pt

TypeOK ==
  /\ free \subseteq Frame
  /\ \A p \in Proc :
       /\ proc[p].state \in {"unused", "alloc", "running", "zombie"}
       /\ proc[p].trapframe \in 0..NFRAME /\ proc[p].sz \in 0..(U - 1)
       /\ proc[p].state = "unused" => proc[p] = NoProc
  /\ \A t \in Tables, v \in Va : Table(t).pte[v].pa \in 0..TrampolineFrame
  /\ calls \in 0..MaxCalls

\* Who has page f: the free list, a trapframe, a node or a user page of a
\* table, an argument of exec.
Users(f) ==
  {<<p, "trapframe">> : p \in {x \in Proc : proc[x].trapframe = f}}
  \cup {<<t, "root">> : t \in {x \in Tables : Table(x).root = f}}
  \cup {<<y[1], y[2]>> : y \in {x \in Tables \X Node : Table(x[1]).node[x[2]] = f}}
  \cup {<<y[1], y[2]>> : y \in {x \in Tables \X (Va \ {TRAPFRAME}) : Table(x[1]).pte[x[2]].pa = f}}
  \cup {<<y[1], y[2], "argv">> : y \in {x \in Proc \X (1..MAXARG) :
                                        x[2] \in DOMAIN loc[x[1]].argv /\ loc[x[1]].argv[x[2]] = f}}

\* In every state a page is free or has one use, also in the middle of a call
\* and whichever kalloc of fork, sbrk or exec fails: no page is leaked, none
\* is shared, and none is freed in use.
PagesOnce == \A f \in Frame : Cardinality(Users(f)) = IF f \in free THEN 0 ELSE 1

\* A process in user space has the pages below its size and no others, its
\* trapframe and the trampoline: what uvmcopy and uvmfree assume of sz.
SizeMapped ==
  \A p \in Proc : (proc[p].state = "running" /\ loc[p].pc = "user") =>
    LET pt == proc[p].pagetable IN
    /\ \A v \in Va \ {TRAPFRAME, TRAMPOLINE} : pt.pte[v].pa # 0 <=> v < PgRoundUp(proc[p].sz)
    /\ pt.pte[TRAPFRAME].pa = proc[p].trapframe /\ pt.pte[TRAMPOLINE].pa = TrampolineFrame

\* None of the panics of kalloc.c and vm.c is reached.
NoPanic == panic = None

\* The memory at every moment: pages used once, sizes that match the tables,
\* and so no panic of vm.c (kalloc, mappages, uvmunmap, freewalk, growproc).
PagesSound == TypeOK /\ PagesOnce /\ SizeMapped /\ NoPanic

Pages(p) ==
  [x \in 1..PgRoundUp(proc[p].sz) |->
     LET e == proc[p].pagetable.pte[x - 1] IN IF e.user THEN content[e.pa] ELSE "guard"]

Abs == INSTANCE PrivateMemory WITH
  mem <- [p \in Proc |-> IF proc[p].state = "running" THEN Pages(p) ELSE <<"gone">>],
  Gone <- <<"gone">>, MaxPages <- NFRAME

\* Processes have memory of their own: see module PrivateMemory.
ImplementsPrivateMemory == Abs!MSpec
==============================================================================
