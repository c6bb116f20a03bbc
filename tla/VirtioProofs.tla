---------------------------- MODULE VirtioProofs ----------------------------
(***************************************************************************)
(* Proofs about VirtioDisk, for every number of processes, blocks and      *)
(* descriptors and every width of the ring indices.                        *)
(***************************************************************************)
EXTENDS VirtioDisk, NumberFacts, FiniteSetTheorems, TLAPS

\* Entries of the avail ring the device has not taken, and of the used ring the
\* interrupt handler has not looked at.
ToTake == Ahead(seen, avail)
\* How far position u of the used ring is ahead of position a.
Lag(a, u) == IF a <= u THEN u - a ELSE u - a + NUM
\* Completions virtio_disk_intr has not looked at.
ToReap == Lag(used_idx, used % NUM)
\* The k-th entry of the avail ring the device has yet to take.
RingAt(k) == ring[(seen + k) % NUM]
\* The k-th entry of the used ring the handler has yet to look at.
ElemAt(k) == elems[(used_idx + k) % NUM]
\* The numbers of those entries.
Taken == 0..(ToTake - 1)
\* The numbers of those completions.
Done  == 0..(ToReap - 1)

\* Descriptor i heads the chain of a process whose transfer is not over.
Pending(i) == \E p \in Waiting : idx[p] = i /\ bdisk[p] = 1

\* A descriptor is free, or its address is a buffer of a waiting process.
Owners ==
  /\ \A d \in Desc : d \in free <=> addr[d] = None
  /\ \A d \in Desc : addr[d] = None \/ addr[d] \in Waiting

\* A waiting process has a chain of three descriptors of its own.
Shape ==
  \A p \in Waiting :
    /\ more[idx[p]] /\ more[next[idx[p]]]
    /\ idx[p] # next[idx[p]] /\ idx[p] # next[next[idx[p]]]
    /\ next[idx[p]] # next[next[idx[p]]]
    /\ info[idx[p]] = p
    /\ \A d \in Desc : addr[d] = p <=> d \in Chain(idx[p])

\* No descriptor is lost.
Count == Cardinality(free) + 3 * Cardinality(Waiting) = NUM

\* What the avail ring offers are different requests that wait, and the device
\* has none of them yet.
InRing ==
  /\ \A k \in Taken : Pending(RingAt(k)) /\ RingAt(k) \notin inflight
  /\ \A j, k \in Taken : RingAt(j) = RingAt(k) => j = k

\* What the device works on are requests that wait.
InDevice == \A i \in inflight : Pending(i)

\* What the used ring reports are different requests that wait, and they are
\* neither with the device nor offered to it.
InUsed ==
  /\ \A k \in Done : Pending(ElemAt(k)) /\ ElemAt(k) \notin inflight
  /\ \A j, k \in Done : ElemAt(j) = ElemAt(k) => j = k
  /\ \A j \in Taken, k \in Done : RingAt(j) # ElemAt(k)

\* The inductive invariant.
VInv == TypeOK /\ NoPanic /\ Owners /\ Shape /\ Count /\ InRing /\ InDevice /\ InUsed
-----------------------------------------------------------------------------
\* What the constants are.  NUM divides the modulus of the 16-bit indices.
LEMMA Sizes ==
  /\ NUM \in Nat /\ NUM > 2 /\ NUM \in Nat \ {0}
  /\ IdxMod \in Nat /\ IdxMod >= NUM /\ IdxMod \in Nat \ {0}
  /\ \E c \in Nat : IdxMod = c * NUM
<1>1. NUM \in Nat \ {0} /\ NUM > 2 /\ IdxMod \in Nat \ {0} /\ IdxMod % NUM = 0
  BY VirtioAssumption
<1>2. PICK c \in Int, r \in 0..(NUM - 1) : IdxMod = c * NUM + r
  BY <1>1, ModWitness
<1>3. r = 0
  BY <1>1, <1>2, ModUnique, Zenon
<1>4. IdxMod = c * NUM
  BY <1>1, <1>2, <1>3
<1>5. c > 0
  <2> SUFFICES ASSUME c <= 0 PROVE FALSE
    BY <1>2
  <2>1. c * NUM <= 0
    BY <1>1, <1>2
  <2> QED
    BY <1>1, <1>4, <2>1
<1>6. c * NUM >= NUM
  BY <1>1, <1>2, <1>5
<1> QED
  BY <1>1, <1>2, <1>4, <1>5, <1>6

\* An index that wraps around stays at its place in the ring.
LEMMA Wrap ==
  ASSUME NEW x \in Int
  PROVE  (x + IdxMod) % NUM = x % NUM
<1>1. PICK c \in Nat : IdxMod = c * NUM
  BY Sizes, Zenon
<1>2. NUM \in Nat \ {0} /\ c \in Int
  BY Sizes
<1>3. (x + c * NUM) % NUM = x % NUM
  BY <1>2, ModShift, Zenon
<1> QED
  BY <1>1, <1>3, Zenon

\* Remainders of numbers below the modulus.
LEMMA ModSmall ==
  ASSUME NEW m \in Nat \ {0}, NEW r \in 0..(m - 1)
  PROVE  r % m = r /\ (r + m) % m = r
<1>1. (0 * m + r) % m = r /\ (1 * m + r) % m = r
  BY ModUnique
<1>2. 0 * m + r = r /\ 1 * m + r = r + m
  OBVIOUS
<1> QED
  BY <1>1, <1>2, Zenon

\* The successor on a ring.
LEMMA Bump ==
  ASSUME NEW m \in Nat \ {0}, NEW r \in 0..(m - 1)
  PROVE  (r + 1) % m = IF r + 1 = m THEN 0 ELSE r + 1
<1>1. CASE r + 1 = m
  <2>1. 0 \in 0..(m - 1) /\ r + 1 = 0 + m
    BY <1>1
  <2> QED
    BY <1>1, <2>1, ModSmall, Zenon
<1>2. CASE r + 1 # m
  <2>1. r + 1 \in 0..(m - 1)
    BY <1>2
  <2> QED
    BY <1>2, <2>1, ModSmall, Zenon
<1> QED
  BY <1>1, <1>2, Zenon

\* The distance of two indices, by cases.
LEMMA AheadIs ==
  ASSUME NEW a \in 0..(IdxMod - 1), NEW b \in 0..(IdxMod - 1)
  PROVE  Ahead(a, b) = IF a <= b THEN b - a ELSE b - a + IdxMod
<1>1. CASE a <= b
  <2>1. b - a \in 0..(IdxMod - 1)
    BY <1>1, Sizes
  <2> QED
    BY <1>1, <2>1, Sizes, ModSmall, Zenon DEF Ahead
<1>2. CASE ~(a <= b)
  <2>1. b - a + IdxMod \in 0..(IdxMod - 1)
    BY <1>2, Sizes
  <2> QED
    BY <1>2, <2>1, Sizes, ModSmall, Zenon DEF Ahead
<1> QED
  BY <1>1, <1>2, Zenon

\* It is an index, and zero only for equal ones.
LEMMA AheadType ==
  ASSUME NEW a \in 0..(IdxMod - 1), NEW b \in 0..(IdxMod - 1)
  PROVE  Ahead(a, b) \in 0..(IdxMod - 1) /\ (Ahead(a, b) = 0 <=> a = b)
BY AheadIs, Sizes

\* It grows when the index ahead moves.
LEMMA AheadMore ==
  ASSUME NEW a \in 0..(IdxMod - 1), NEW b \in 0..(IdxMod - 1),
         Ahead(a, b) + 1 < IdxMod
  PROVE  /\ (b + 1) % IdxMod \in 0..(IdxMod - 1)
         /\ Ahead(a, (b + 1) % IdxMod) = Ahead(a, b) + 1
<1> DEFINE c == (b + 1) % IdxMod
<1>1. c = IF b + 1 = IdxMod THEN 0 ELSE b + 1
  BY Sizes, Bump, Zenon
<1> HIDE DEF c
<1>2. c \in 0..(IdxMod - 1)
  BY <1>1, Sizes
<1>3. Ahead(a, c) = IF a <= c THEN c - a ELSE c - a + IdxMod
  BY <1>2, AheadIs, Zenon
<1>4. Ahead(a, b) = IF a <= b THEN b - a ELSE b - a + IdxMod
  BY AheadIs, Zenon
<1>5. Ahead(a, c) = Ahead(a, b) + 1
  BY <1>1, <1>3, <1>4, Sizes
<1> QED
  BY <1>2, <1>5, Zenon DEF c

\* It shrinks when the index behind moves.
LEMMA AheadLess ==
  ASSUME NEW a \in 0..(IdxMod - 1), NEW b \in 0..(IdxMod - 1), a # b
  PROVE  /\ (a + 1) % IdxMod \in 0..(IdxMod - 1)
         /\ Ahead((a + 1) % IdxMod, b) = Ahead(a, b) - 1
<1> DEFINE c == (a + 1) % IdxMod
<1>1. c = IF a + 1 = IdxMod THEN 0 ELSE a + 1
  BY Sizes, Bump, Zenon
<1> HIDE DEF c
<1>2. c \in 0..(IdxMod - 1)
  BY <1>1, Sizes
<1>3. Ahead(c, b) = IF c <= b THEN b - c ELSE b - c + IdxMod
  BY <1>2, AheadIs, Zenon
<1>4. Ahead(a, b) = IF a <= b THEN b - a ELSE b - a + IdxMod
  BY AheadIs, Zenon
<1>5. Ahead(c, b) = Ahead(a, b) - 1
  BY <1>1, <1>3, <1>4, Sizes
<1> QED
  BY <1>2, <1>5, Zenon DEF c

\* The two indices are that far apart on the ring too.
LEMMA AheadEnd ==
  ASSUME NEW a \in 0..(IdxMod - 1), NEW b \in 0..(IdxMod - 1)
  PROVE  (a + Ahead(a, b)) % NUM = b % NUM
<1>1. a + Ahead(a, b) = b \/ a + Ahead(a, b) = b + IdxMod
  BY AheadIs, Sizes
<1>2. b \in Int
  OBVIOUS
<1>3. (b + IdxMod) % NUM = b % NUM
  BY <1>2, Wrap, Zenon
<1> QED
  BY <1>1, <1>3, Zenon

\* The entry after the one at index a, counted from the advanced index.
LEMMA Advanced ==
  ASSUME NEW a \in 0..(IdxMod - 1), NEW k \in Nat
  PROVE  (((a + 1) % IdxMod) + k) % NUM = (a + (k + 1)) % NUM
<1>1. CASE a + 1 = IdxMod
  <2>1. (a + 1) % IdxMod = 0
    BY <1>1, Sizes, Bump, Zenon
  <2>2. a + (k + 1) = k + IdxMod /\ (0 + k) = k
    BY <1>1, Sizes
  <2> QED
    BY <2>1, <2>2, Wrap
<1>2. CASE a + 1 # IdxMod
  <2>1. (a + 1) % IdxMod = a + 1
    BY <1>2, Sizes, Bump, Zenon
  <2>2. (a + 1) + k = a + (k + 1)
    BY Sizes
  <2> QED
    BY <2>1, <2>2, Zenon
<1> QED
  BY <1>1, <1>2, Zenon

\* The same for a position of the ring.
LEMMA AdvancedNum ==
  ASSUME NEW a \in Desc, NEW k \in Nat
  PROVE  (((a + 1) % NUM) + k) % NUM = (a + (k + 1)) % NUM
<1>1. CASE a + 1 = NUM
  <2>1. (a + 1) % NUM = 0
    BY <1>1, Sizes, Bump, Zenon DEF Desc
  <2>2. a + (k + 1) = k + 1 * NUM /\ (0 + k) = k
    BY <1>1, Sizes DEF Desc
  <2>3. NUM \in Nat \ {0} /\ k \in Int /\ 1 \in Int
    BY Sizes
  <2>4. (k + 1 * NUM) % NUM = k % NUM
    BY <2>3, ModShift, Zenon
  <2> QED
    BY <2>1, <2>2, <2>4, Zenon
<1>2. CASE a + 1 # NUM
  <2>1. (a + 1) % NUM = a + 1
    BY <1>2, Sizes, Bump, Zenon DEF Desc
  <2>2. (a + 1) + k = a + (k + 1)
    BY Sizes DEF Desc
  <2> QED
    BY <2>1, <2>2, Zenon
<1> QED
  BY <1>1, <1>2, Zenon

\* Entries closer than NUM have different places on the ring.
LEMMA Apart ==
  ASSUME NEW x \in Nat, NEW j \in 0..(NUM - 1), NEW k \in 0..(NUM - 1), j # k
  PROVE  (x + j) % NUM # (x + k) % NUM
<1>1. CASE j < k
  <2>1. k - j \in 1..(NUM - 1) /\ x + k = (x + j) + (k - j) /\ x + j \in Int
    BY <1>1, Sizes
  <2> QED
    BY <2>1, Sizes, ModApart, Zenon
<1>2. CASE k < j
  <2>1. j - k \in 1..(NUM - 1) /\ x + j = (x + k) + (j - k) /\ x + k \in Int
    BY <1>2, Sizes
  <2> QED
    BY <2>1, Sizes, ModApart, Zenon
<1> QED
  BY <1>1, <1>2, Sizes

\* A place on the ring is the number of a descriptor.
LEMMA Position ==
  ASSUME NEW x \in Nat
  PROVE  x % NUM \in Desc
<1>1. NUM \in Nat /\ NUM > 0
  BY Sizes
<1> QED
  BY <1>1 DEF Desc

\* used->idx wraps around, and its place on the ring moves by one.
LEMMA UsedBump ==
  ASSUME NEW u \in 0..(IdxMod - 1)
  PROVE  ((u + 1) % IdxMod) % NUM = IF (u % NUM) + 1 = NUM THEN 0 ELSE (u % NUM) + 1
<1>1. ((u + 1) % IdxMod) % NUM = (u + 1) % NUM
  <2>1. (((u + 1) % IdxMod) + 0) % NUM = (u + (0 + 1)) % NUM
    BY Advanced, Zenon
  <2>2. (u + 1) % IdxMod \in Int
    BY Sizes, Bump
  <2> QED
    BY <2>1, <2>2
<1>0. NUM \in Nat \ {0} /\ u \in Int
  BY Sizes
<1>2. PICK q \in Int, r \in 0..(NUM - 1) : u = q * NUM + r
  BY <1>0, ModWitness, Zenon
<1>3. u % NUM = r
  BY <1>2, Sizes, ModUnique, Zenon
<1>4. (u + 1) % NUM = (r + 1) % NUM
  <2>1. u + 1 = (r + 1) + q * NUM
    BY <1>2, Sizes
  <2>2. r + 1 \in Int
    BY <1>0
  <2>3. ((r + 1) + q * NUM) % NUM = (r + 1) % NUM
    BY <1>0, <2>2, ModShift, Zenon
  <2> QED
    BY <2>1, <2>3, Zenon
<1>5. (r + 1) % NUM = IF r + 1 = NUM THEN 0 ELSE r + 1
  BY Sizes, Bump, Zenon
<1> QED
  BY <1>1, <1>3, <1>4, <1>5, Zenon

\* The distance of two places on the ring.
LEMMA LagFacts ==
  ASSUME NEW a \in Desc, NEW u \in Desc
  PROVE  /\ Lag(a, u) \in 0..(NUM - 1) /\ (Lag(a, u) = 0 <=> a = u)
         /\ (a + Lag(a, u)) % NUM = u
         /\ Lag(a, u) + 1 < NUM => Lag(a, IF u + 1 = NUM THEN 0 ELSE u + 1) = Lag(a, u) + 1
         /\ a # u => Lag((a + 1) % NUM, u) = Lag(a, u) - 1
<1>1. Lag(a, u) \in 0..(NUM - 1) /\ (Lag(a, u) = 0 <=> a = u)
  BY Sizes DEF Lag, Desc
<1>2. (a + Lag(a, u)) % NUM = u
  <2>1. a + Lag(a, u) = u \/ a + Lag(a, u) = u + NUM
    BY Sizes DEF Lag, Desc
  <2>2. u % NUM = u /\ (u + NUM) % NUM = u
    BY Sizes, ModSmall, Zenon DEF Desc
  <2> QED
    BY <2>1, <2>2, Zenon
<1>3. Lag(a, u) + 1 < NUM => Lag(a, IF u + 1 = NUM THEN 0 ELSE u + 1) = Lag(a, u) + 1
  BY Sizes DEF Lag, Desc
<1>4. a # u => Lag((a + 1) % NUM, u) = Lag(a, u) - 1
  <2>1. (a + 1) % NUM = IF a + 1 = NUM THEN 0 ELSE a + 1
    BY Sizes, Bump, Zenon DEF Desc
  <2> QED
    BY <2>1, Sizes DEF Lag, Desc
<1> QED
  BY <1>1, <1>2, <1>3, <1>4, Zenon

\* A sequence of n different elements of a finite set.
LEMMA Fits ==
  ASSUME NEW n \in Nat, NEW S, IsFiniteSet(S), NEW f \in [0..(n - 1) -> S],
         \A j, k \in 0..(n - 1) : f[j] = f[k] => j = k
  PROVE  n <= Cardinality(S)
<1>1. f \in Injection(0..(n - 1), S)
  BY Zenon DEF Injection, IsInjective
<1>2. Cardinality(0..(n - 1)) <= Cardinality(S)
  BY <1>1, FS_Injection, Zenon
<1>3. Cardinality(0..(n - 1)) = n
  BY FS_Interval
<1> QED
  BY <1>2, <1>3, Zenon

\* There are NUM descriptors.
LEMMA DescFinite == IsFiniteSet(Desc) /\ Cardinality(Desc) = NUM
<1>1. 0 \in Int /\ NUM - 1 \in Int /\ ~(0 > NUM - 1) /\ (NUM - 1) - 0 + 1 = NUM
  BY Sizes
<1> QED
  BY <1>1, FS_Interval, Zenon DEF Desc
-----------------------------------------------------------------------------
\* The descriptors of the waiting processes.
LEMMA ChainFacts ==
  ASSUME VInv, NEW p \in Waiting
  PROVE  /\ p \in Proc /\ p # None
         /\ idx[p] \in Desc /\ next[idx[p]] \in Desc /\ next[next[idx[p]]] \in Desc
         /\ Chain(idx[p]) = {idx[p], next[idx[p]], next[next[idx[p]]]}
         /\ addr[idx[p]] = p /\ addr[next[idx[p]]] = p
         /\ addr[next[next[idx[p]]]] = p
         /\ idx[p] \notin free /\ next[idx[p]] \notin free
         /\ next[next[idx[p]]] \notin free
<1>1. p \in Proc /\ p # None
  BY VirtioAssumption, Zenon DEF Waiting
<1>2. idx[p] \in Desc /\ next[idx[p]] \in Desc /\ next[next[idx[p]]] \in Desc
  BY <1>1, Zenon DEF VInv, TypeOK
<1>3. Chain(idx[p]) = {idx[p], next[idx[p]], next[next[idx[p]]]}
  BY Zenon DEF VInv, Shape, Chain
<1>4. \A d \in Desc : addr[d] = p <=> d \in Chain(idx[p])
  BY Zenon DEF VInv, Shape
<1>5. \A d \in Desc : d \in free => addr[d] = None
  BY Zenon DEF VInv, Owners
<1> QED
  BY <1>1, <1>2, <1>3, <1>4, <1>5

\* Two processes share no descriptor.
LEMMA HeadsApart ==
  ASSUME VInv, NEW p \in Waiting, NEW q \in Waiting, p # q
  PROVE  /\ idx[p] # idx[q]
         /\ Chain(idx[p]) \cap Chain(idx[q]) = {}
<1>1. \A r \in {p, q} : \A d \in Chain(idx[r]) : d \in Desc /\ addr[d] = r
  <2> SUFFICES ASSUME NEW r \in {p, q}, NEW d \in Chain(idx[r])
               PROVE  d \in Desc /\ addr[d] = r
    BY Zenon
  <2>1. r \in Waiting
    BY Zenon
  <2>2. Chain(idx[r]) \subseteq Desc
    BY <2>1, ChainFacts
  <2> QED
    BY <2>1, <2>2, Zenon DEF VInv, Shape
<1>2. idx[p] \in Chain(idx[p]) /\ idx[q] \in Chain(idx[q])
  BY Zenon DEF Chain
<1> QED
  BY <1>1, <1>2

\* The descriptors of a pending request are in use.
LEMMA PendingFacts ==
  ASSUME VInv, NEW i, Pending(i)
  PROVE  i \in Desc /\ i \notin free
BY ChainFacts, Zenon DEF Pending

\* What the invariant says of the indices.
LEMMA Counters ==
  ASSUME VInv
  PROVE  /\ ToTake \in 0..(IdxMod - 1) /\ (ToTake = 0 <=> seen = avail)
         /\ used % NUM \in Desc /\ used_idx \in Desc
         /\ ToReap \in 0..(NUM - 1) /\ (ToReap = 0 <=> used_idx = used % NUM)
         /\ MoreUsed <=> ToReap > 0
<1>1. /\ seen \in 0..(IdxMod - 1) /\ avail \in 0..(IdxMod - 1) /\ used_idx \in Desc
      /\ used \in Nat
  BY Sizes DEF VInv, TypeOK
<1>2. used % NUM \in Desc
  BY <1>1, Position, Zenon
<1>3. ToTake \in 0..(IdxMod - 1) /\ (ToTake = 0 <=> seen = avail)
  BY <1>1, AheadType, Zenon DEF ToTake
<1>4. ToReap \in 0..(NUM - 1) /\ (ToReap = 0 <=> used_idx = used % NUM)
  BY <1>1, <1>2, LagFacts, Zenon DEF ToReap
<1>5. used_idx % NUM = used_idx
  BY <1>1, Sizes, ModSmall, Zenon DEF Desc
<1>6. MoreUsed <=> ToReap > 0
  BY <1>4, <1>5, Sizes DEF MoreUsed
<1> QED
  BY <1>1, <1>2, <1>3, <1>4, <1>6, Zenon

\* The avail ring has room whenever there are descriptors to publish: what it
\* holds are different descriptors, none of them free.
LEMMA RingRoom ==
  ASSUME VInv, NEW d \in free, NEW e \in free, d # e
  PROVE  ToTake + 1 < NUM
<1> DEFINE f == [k \in 0..(ToTake - 1) |-> RingAt(k)]
<1>1. ToTake \in Nat
  BY Counters, Sizes
<1>2. d \in Desc /\ e \in Desc \ {d}
  BY Zenon DEF VInv, TypeOK
<1>3. \A k \in 0..(ToTake - 1) : RingAt(k) \in (Desc \ {d}) \ {e}
  BY <1>2, PendingFacts, Zenon DEF VInv, InRing, Taken
<1>4. f \in [0..(ToTake - 1) -> (Desc \ {d}) \ {e}]
  BY <1>3, Zenon
<1>5. \A j, k \in 0..(ToTake - 1) : f[j] = f[k] => j = k
  BY Zenon DEF VInv, InRing, Taken
<1>6. IsFiniteSet(Desc \ {d}) /\ Cardinality(Desc \ {d}) = NUM - 1
  BY <1>2, DescFinite, FS_RemoveElement, Zenon
<1>7. /\ IsFiniteSet((Desc \ {d}) \ {e})
      /\ Cardinality((Desc \ {d}) \ {e}) = (NUM - 1) - 1
  BY <1>2, <1>6, FS_RemoveElement, Zenon
<1> HIDE DEF f
<1>8. ToTake <= (NUM - 1) - 1
  BY <1>1, <1>4, <1>5, <1>7, Fits
<1> QED
  BY <1>1, <1>8, Sizes

\* The used ring has room for what the device still holds.
LEMMA UsedRoom ==
  ASSUME VInv, NEW i \in inflight
  PROVE  ToReap + 1 < NUM
<1> DEFINE f == [k \in 0..(ToReap - 1) |-> ElemAt(k)]
<1>1. ToReap \in Nat
  BY Counters, Sizes
<1>2. PICK p \in Waiting : idx[p] = i
  BY Zenon DEF VInv, InDevice, Pending
<1>3. i \in Desc /\ next[i] \in Desc /\ addr[next[i]] = p /\ i # next[i]
  BY <1>2, ChainFacts, Zenon DEF VInv, Shape
<1>4. \A k \in 0..(ToReap - 1) : ElemAt(k) \in (Desc \ {i}) \ {next[i]}
  <2> SUFFICES ASSUME NEW k \in 0..(ToReap - 1)
               PROVE  ElemAt(k) \in (Desc \ {i}) \ {next[i]}
    BY Zenon
  <2>1. Pending(ElemAt(k)) /\ ElemAt(k) # i
    BY Zenon DEF VInv, InUsed, Done
  <2>2. PICK q \in Waiting : idx[q] = ElemAt(k)
    BY <2>1, Zenon DEF Pending
  <2>3. idx[q] \in Desc /\ addr[idx[q]] = q
    BY ChainFacts, Zenon
  <2> QED
    BY <1>2, <1>3, <2>1, <2>2, <2>3, Zenon
<1>5. f \in [0..(ToReap - 1) -> (Desc \ {i}) \ {next[i]}]
  BY <1>4, Zenon
<1>6. \A j, k \in 0..(ToReap - 1) : f[j] = f[k] => j = k
  BY Zenon DEF VInv, InUsed, Done
<1>7. IsFiniteSet(Desc \ {i}) /\ Cardinality(Desc \ {i}) = NUM - 1
  BY <1>3, DescFinite, FS_RemoveElement, Zenon
<1>8. /\ IsFiniteSet((Desc \ {i}) \ {next[i]})
      /\ Cardinality((Desc \ {i}) \ {next[i]}) = (NUM - 1) - 1
  BY <1>3, <1>7, FS_RemoveElement, Zenon
<1> HIDE DEF f
<1>9. ToReap <= (NUM - 1) - 1
  BY <1>1, <1>5, <1>6, <1>8, Fits
<1> QED
  BY <1>1, <1>9, Sizes

\* alloc_desc finds the first free descriptor.
LEMMA LowestFree ==
  ASSUME NEW S, S \subseteq Desc, S # {}
  PROVE  Min(S) \in S
<1>1. S \in SUBSET Nat
  BY Sizes DEF Desc
<1>2. IsWellFoundedOn({ss \in Nat \X Nat : ss[1] < ss[2]}, Nat)
  BY NatLessThanWellFounded, Zenon DEF OpToRel
<1>3. PICK x \in S : \A y \in S : ~(<<y, x>> \in {ss \in Nat \X Nat : ss[1] < ss[2]})
  BY <1>1, <1>2, WFMin, Zenon
<1>4. \A y \in S : x <= y
  <2> SUFFICES ASSUME NEW y \in S PROVE x <= y
    BY Zenon
  <2>1. x \in Nat /\ y \in Nat /\ ~(y < x)
    BY <1>1, <1>3, Zenon
  <2> QED
    BY <2>1
<1> QED
  BY <1>4, Zenon DEF Min

\* alloc3_desc takes three different ones.
LEMMA ThreeFree ==
  ASSUME VInv, ~Alloc3Fails
  PROVE  /\ First \in free /\ Second \in free /\ Third \in free
         /\ First # Second /\ First # Third /\ Second # Third
         /\ Cardinality(free \ {First, Second, Third}) = Cardinality(free) - 3
         /\ IsFiniteSet(free) /\ Cardinality(free) \in Nat
         /\ free \subseteq Desc
<1>1. free \subseteq Desc /\ IsFiniteSet(free) /\ Cardinality(free) \in Nat
  BY DescFinite, FS_Subset, FS_CardinalityType, Zenon DEF VInv, TypeOK
<1>2. Cardinality(free) >= 3
  BY <1>1 DEF Alloc3Fails
<1>3. free # {}
  BY <1>1, <1>2, FS_EmptySet
<1>4. First \in free
  BY <1>1, <1>3, LowestFree, Zenon DEF First
<1>5. IsFiniteSet(free \ {First}) /\ Cardinality(free \ {First}) = Cardinality(free) - 1
  BY <1>1, <1>4, FS_RemoveElement, Zenon
<1>6. free \ {First} # {} /\ free \ {First} \subseteq Desc
  BY <1>1, <1>2, <1>5, FS_EmptySet
<1>7. Second \in free \ {First}
  BY <1>6, LowestFree, Zenon DEF Second
<1>8. free \ {First, Second} = (free \ {First}) \ {Second}
  BY Zenon
<1>9. /\ IsFiniteSet(free \ {First, Second})
      /\ Cardinality(free \ {First, Second}) = Cardinality(free) - 1 - 1
  BY <1>5, <1>7, <1>8, FS_RemoveElement, Zenon
<1>10. free \ {First, Second} # {} /\ free \ {First, Second} \subseteq Desc
  BY <1>1, <1>2, <1>9, FS_EmptySet
<1>11. Third \in free \ {First, Second}
  BY <1>10, LowestFree, Zenon DEF Third
<1>12. free \ {First, Second, Third} = (free \ {First, Second}) \ {Third}
  BY Zenon
<1>13. Cardinality(free \ {First, Second, Third}) = Cardinality(free) - 1 - 1 - 1
  BY <1>9, <1>11, <1>12, FS_RemoveElement, Zenon
<1> QED
  BY <1>1, <1>4, <1>7, <1>11, <1>13

\* The waiting processes can be counted.
LEMMA WaitingFinite == IsFiniteSet(Waiting) /\ Cardinality(Waiting) \in Nat
<1>1. Waiting \in SUBSET Proc /\ IsFiniteSet(Proc)
  BY VirtioAssumption, Zenon DEF Waiting
<1> QED
  BY <1>1, FS_Subset, FS_CardinalityType, Zenon

\* Three different things are three.
LEMMA ThreeElements ==
  ASSUME NEW a, NEW b, NEW c, a # b, a # c, b # c
  PROVE  Cardinality({a, b, c}) = 3
<1>1. IsFiniteSet({a}) /\ Cardinality({a}) = 1
  BY FS_Singleton, Zenon
<1>2. IsFiniteSet({a} \cup {b}) /\ Cardinality({a} \cup {b}) = 1 + 1
  BY <1>1, FS_AddElement, Zenon
<1>3. Cardinality(({a} \cup {b}) \cup {c}) = 1 + 1 + 1
  BY <1>2, FS_AddElement
<1>4. {a, b, c} = ({a} \cup {b}) \cup {c}
  BY Zenon
<1> QED
  BY <1>3, <1>4
-----------------------------------------------------------------------------
(* The actions. *)

\* Steps that change only control states, and who waits not at all.
LEMMA QuietKeeps ==
  ASSUME VInv, TypeOK', NoPanic', Waiting' = Waiting,
         UNCHANGED <<chain, ring, avail, elems, used, used_idx, info, bdisk, idx,
                     seen, inflight>>
  PROVE  VInv'
<1>1. \A i : Pending(i)' <=> Pending(i)
  BY Zenon DEF Pending
<1>2. \A i : Chain(i)' = Chain(i)
  BY Zenon DEF Chain, chain
<1>3. /\ ToTake' = ToTake /\ ToReap' = ToReap /\ Taken' = Taken /\ Done' = Done
      /\ \A k : RingAt(k)' = RingAt(k) /\ ElemAt(k)' = ElemAt(k)
  BY Zenon DEF ToTake, ToReap, Lag, Ahead, Taken, Done, RingAt, ElemAt
<1>4. Owners' /\ Count'
  BY Zenon DEF VInv, Owners, Count, chain
<1>5. Shape'
  BY <1>2, Zenon DEF VInv, Shape, chain
<1>6. InRing' /\ InDevice' /\ InUsed'
  BY <1>1, <1>3, Zenon DEF VInv, InRing, InDevice, InUsed
<1> QED
  BY <1>4, <1>5, <1>6, Zenon DEF VInv

\* They are the calls, the failed allocations, kill, the spurious wakeups and
\* the handler outside of its loop.
LEMMA QuietSteps ==
  ASSUME VInv, NEW p \in Proc,
         \/ Call(p) \/ AllocFail(p) \/ Kill(p) \/ (Wake(p) /\ ~Finished(p))
         \/ IntrEnter \/ IntrLoopEnd \/ IntrAck \/ UNCHANGED vars
  PROVE  VInv'
<1>0. TypeOK /\ NoPanic
  BY Zenon DEF VInv
<1>1. UNCHANGED <<chain, ring, avail, elems, used, used_idx, info, bdisk, idx,
                  seen, inflight>>
  BY Zenon DEF Call, AllocFail, Kill, Wake, IntrEnter, IntrLoopEnd, IntrAck,
     vars, device, chain
<1>2. \A q \in Proc : /\ pc'[q] \in {"sleep_buf", "woken"} <=> pc[q] \in {"sleep_buf", "woken"}
                      /\ pc'[q] # "panic"
  BY <1>0, Zenon DEF Call, AllocFail, Kill, Wake, IntrEnter, IntrLoopEnd,
     IntrAck, vars, WakeFree, TypeOK, NoPanic
<1>3. Waiting' = Waiting
  BY <1>2, Zenon DEF Waiting
<1>4. NoPanic'
  BY <1>0, <1>2, Zenon DEF Call, AllocFail, Kill, Wake, IntrEnter, IntrLoopEnd,
     IntrAck, vars, NoPanic
<1>5. TypeOK'
  <2>1. CASE Call(p)
    BY <1>0, <2>1, VirtioAssumption DEF Call, TypeOK, chain, device
  <2>2. CASE AllocFail(p) \/ Kill(p) \/ (Wake(p) /\ ~Finished(p))
    BY <1>0, <2>2, Zenon DEF AllocFail, Kill, Wake, WakeFree, TypeOK, chain,
       device, bufs
  <2>3. CASE IntrEnter \/ IntrLoopEnd \/ IntrAck \/ UNCHANGED vars
    BY <1>0, <2>3, Zenon DEF IntrEnter, IntrLoopEnd, IntrAck, vars, TypeOK,
       chain, device, bufs
  <2> QED
    BY <2>1, <2>2, <2>3, Zenon
<1> QED
  BY <1>1, <1>3, <1>4, <1>5, QuietKeeps, Zenon

\* Steps that leave the chains and the waiting processes alone.
LEMMA ChainsKeep ==
  ASSUME VInv, Waiting' = Waiting, UNCHANGED <<chain, info, idx>>
  PROVE  Owners' /\ Count' /\ Shape'
<1>1. \A i : Chain(i)' = Chain(i)
  BY Zenon DEF Chain, chain
<1>2. Owners' /\ Count'
  BY Zenon DEF VInv, Owners, Count, chain
<1>3. Shape'
  BY <1>1, Zenon DEF VInv, Shape, chain
<1> QED
  BY <1>2, <1>3, Zenon

\* Steps that leave the avail ring alone, and those that leave the used ring alone.
LEMMA RingKeeps ==
  ASSUME UNCHANGED <<ring, avail, seen>>
  PROVE  ToTake' = ToTake /\ Taken' = Taken /\ \A k : RingAt(k)' = RingAt(k)
BY Zenon DEF ToTake, Ahead, Taken, RingAt

\* The same for the used ring.
LEMMA UsedKeeps ==
  ASSUME UNCHANGED <<elems, used, used_idx>>
  PROVE  ToReap' = ToReap /\ Done' = Done /\ \A k : ElemAt(k)' = ElemAt(k)
BY Zenon DEF ToReap, Lag, Done, ElemAt

\* DevFetch takes the first entry of the avail ring.
LEMMA Fetched ==
  ASSUME VInv, DevFetch
  PROVE  /\ seen' \in 0..(IdxMod - 1) /\ 0 \in Taken
         /\ \A k \in Taken' : k + 1 \in Taken /\ k + 1 # 0
         /\ \A j, k \in Taken' : j + 1 = k + 1 => j = k
         /\ \A k \in Taken : k # 0 => \E j \in Taken' : k = j + 1
         /\ \A k \in Taken' : RingAt(k)' = RingAt(k + 1)
         /\ inflight' = inflight \cup {RingAt(0)}
<1>0. seen \in 0..(IdxMod - 1) /\ avail \in 0..(IdxMod - 1)
  BY Zenon DEF VInv, TypeOK
<1>1. seen # avail /\ seen' = (seen + 1) % IdxMod /\ ring' = ring /\ avail' = avail
  BY Zenon DEF DevFetch
<1>2. ToTake \in Nat /\ ToTake > 0 /\ ToTake' = ToTake - 1 /\ seen' \in 0..(IdxMod - 1)
  BY <1>0, <1>1, Counters, AheadLess, Sizes DEF ToTake
<1>3. /\ \A k \in Taken' : k + 1 \in Taken /\ k + 1 # 0
      /\ \A j, k \in Taken' : j + 1 = k + 1 => j = k
      /\ 0 \in Taken
  BY <1>2 DEF Taken
<1>4. \A k \in Taken : k # 0 => k - 1 \in Taken' /\ k = (k - 1) + 1
  BY <1>2 DEF Taken
<1>5. \A k \in Taken' : RingAt(k)' = RingAt(k + 1)
  BY <1>0, <1>1, <1>2, Advanced DEF RingAt, Taken
<1>6. inflight' = inflight \cup {RingAt(0)}
  BY <1>0 DEF DevFetch, RingAt
<1> QED
  BY <1>2, <1>3, <1>4, <1>5, <1>6, Zenon

\* The device takes a request.
LEMMA FetchKeeps ==
  ASSUME VInv, DevFetch
  PROVE  VInv'
<1>0. TypeOK /\ NoPanic
  BY Zenon DEF VInv
<1>1. seen' \in 0..(IdxMod - 1) /\ inflight' = inflight \cup {RingAt(0)} /\ 0 \in Taken
  BY Fetched, Zenon
<1>2. /\ \A k \in Taken' : k + 1 \in Taken /\ k + 1 # 0
      /\ \A j, k \in Taken' : j + 1 = k + 1 => j = k
      /\ \A k \in Taken' : RingAt(k)' = RingAt(k + 1)
  BY Fetched, Zenon
<1>3. Pending(RingAt(0)) /\ RingAt(0) \in Desc
  BY <1>1, PendingFacts, Zenon DEF VInv, InRing
<1>4. Waiting' = Waiting /\ \A i : Pending(i)' <=> Pending(i)
  BY Zenon DEF DevFetch, Waiting, Pending
<1>5. Owners' /\ Count' /\ Shape'
  BY <1>4, ChainsKeep, Zenon DEF DevFetch
<1>6. Done' = Done /\ \A k : ElemAt(k)' = ElemAt(k)
  BY UsedKeeps, Zenon DEF DevFetch
<1>7. InRing'
  <2>1. \A k \in Taken' : Pending(RingAt(k + 1)) /\ RingAt(k + 1) \notin inflight'
    BY <1>1, <1>2, Zenon DEF VInv, InRing
  <2>2. \A j, k \in Taken' : RingAt(j + 1) = RingAt(k + 1) => j = k
    BY <1>2, Zenon DEF VInv, InRing
  <2> QED
    BY <1>2, <1>4, <2>1, <2>2 DEF InRing
<1>8. InDevice'
  BY <1>1, <1>3, <1>4, Zenon DEF VInv, InDevice
<1>9. InUsed'
  BY <1>1, <1>2, <1>4, <1>6, Zenon DEF VInv, InUsed
<1>10. TypeOK' /\ NoPanic'
  BY <1>0, <1>1, <1>3, Zenon DEF DevFetch, TypeOK, NoPanic, chain, bufs
<1> QED
  BY <1>5, <1>7, <1>8, <1>9, <1>10, Zenon DEF VInv

\* The request the device completes belongs to a waiting process.
LEMMA Completed ==
  ASSUME VInv, NEW i \in Desc, DevComplete(i)
  PROVE  \E p \in Waiting :
           /\ p \in Proc /\ idx[p] = i /\ bdisk[p] = 1 /\ addr[next[i]] = p
           /\ p # None
BY ChainFacts DEF VInv, InDevice, Pending, DevComplete

\* The device completes a request.
LEMMA CompleteKeeps ==
  ASSUME VInv, NEW i \in Desc, DevComplete(i)
  PROVE  VInv'
<1>0. /\ TypeOK /\ NoPanic /\ used \in 0..(IdxMod - 1) /\ used_idx \in Desc
      /\ used % NUM \in Desc /\ i \in inflight
  BY Counters, Zenon DEF VInv, TypeOK, DevComplete
<1>1. /\ used' = (used + 1) % IdxMod /\ used_idx' = used_idx
      /\ elems' = [elems EXCEPT ![used % NUM] = i] /\ inflight' = inflight \ {i}
  BY Zenon DEF DevComplete
<1>2. ToReap \in Nat /\ ToReap + 1 < NUM
  BY <1>0, Counters, UsedRoom, Sizes
<1>3. ToReap' = ToReap + 1
  <2>1. used' % NUM = IF (used % NUM) + 1 = NUM THEN 0 ELSE (used % NUM) + 1
    BY <1>0, <1>1, UsedBump, Zenon
  <2> QED
    BY <1>0, <1>1, <1>2, <2>1, LagFacts DEF ToReap
<1>4. \A k \in Done' : k \in Nat /\ (k = ToReap \/ k \in Done)
  BY <1>2, <1>3 DEF Done
<1>5. \A k \in Done : k # ToReap
  BY <1>2 DEF Done
<1>6. \A k \in Done' : ElemAt(k)' = IF k = ToReap THEN i ELSE ElemAt(k)
  <2> SUFFICES ASSUME NEW k \in Done'
               PROVE  ElemAt(k)' = IF k = ToReap THEN i ELSE ElemAt(k)
    BY Zenon
  <2>1. (used_idx + ToReap) % NUM = used % NUM
    BY <1>0, LagFacts DEF ToReap
  <2>2. used_idx \in Nat /\ k \in 0..(NUM - 1) /\ ToReap \in 0..(NUM - 1)
    BY <1>0, <1>2, <1>3, Sizes DEF Desc, Done
  <2>3. k # ToReap => (used_idx + k) % NUM # used % NUM
    BY <2>1, <2>2, Apart, Zenon
  <2>4. (used_idx + k) % NUM \in Desc
    BY <2>2, Position, used_idx + k \in Nat, Zenon
  <2>5. elems \in [Desc -> Desc]
    BY <1>0, Zenon DEF TypeOK
  <2> QED
    BY <1>0, <1>1, <2>1, <2>3, <2>4, <2>5, Zenon DEF ElemAt
<1>7. Waiting' = Waiting /\ \A j : Pending(j)' <=> Pending(j)
  BY Zenon DEF DevComplete, Waiting, Pending
<1>8. Owners' /\ Count' /\ Shape'
  BY <1>7, ChainsKeep, Zenon DEF DevComplete
<1>9. Taken' = Taken /\ \A k : RingAt(k)' = RingAt(k)
  BY RingKeeps, Zenon DEF DevComplete
<1>10. InRing' /\ InDevice'
  BY <1>1, <1>7, <1>9, Zenon DEF VInv, InRing, InDevice
<1>11. Pending(i)
  BY <1>0, Zenon DEF VInv, InDevice
<1>12. InUsed'
  <2>1. \A k \in Done' : Pending(ElemAt(k))' /\ ElemAt(k)' \notin inflight'
    BY <1>0, <1>1, <1>4, <1>6, <1>7, <1>11 DEF VInv, InUsed
  <2>2. \A j, k \in Done' : ElemAt(j)' = ElemAt(k)' => j = k
    BY <1>0, <1>4, <1>6 DEF VInv, InUsed
  <2>3. \A j \in Taken', k \in Done' : RingAt(j)' # ElemAt(k)'
    BY <1>0, <1>4, <1>6, <1>9 DEF VInv, InUsed, InRing
  <2> QED
    BY <2>1, <2>2, <2>3, Zenon DEF InUsed
<1>13. TypeOK' /\ NoPanic'
  <2>1. PICK p \in Proc : addr[next[i]] = p /\ p # None
    BY Completed, Zenon
  <2>2. bdata' \in [Proc -> Data] /\ blk' \in [Proc -> Data]
    <3>1. /\ bdata \in [Proc -> Data] /\ blk \in [Proc -> Data]
          /\ bdata[p] \in Data /\ blk[p] \in Data
      BY <1>0, Zenon DEF TypeOK
    <3>2. CASE write[p]
      BY <2>1, <3>1, <3>2, Zenon DEF DevComplete
    <3>3. CASE ~write[p]
      BY <2>1, <3>1, <3>3, Zenon DEF DevComplete
    <3> QED
      BY <3>2, <3>3, Zenon
  <2>3. used' \in 0..(IdxMod - 1)
    BY <1>0, <1>1, Bump, Sizes
  <2>4. elems' \in [Desc -> Desc]
    BY <1>0, <1>1, Zenon DEF TypeOK
  <2> QED
    BY <1>0, <1>1, <2>2, <2>3, <2>4 DEF DevComplete, TypeOK, NoPanic, chain
<1> QED
  BY <1>8, <1>10, <1>12, <1>13, Zenon DEF VInv

\* The entry virtio_disk_intr looks at belongs to a waiting process.
LEMMA Reaped ==
  ASSUME VInv, IntrLoop
  PROVE  /\ ToReap \in Nat /\ ToReap > 0 /\ 0 \in Done /\ UsedElem = ElemAt(0)
         /\ \E p \in Waiting :
              /\ p \in Proc /\ p # None /\ idx[p] = ElemAt(0) /\ bdisk[p] = 1
              /\ info[UsedElem] = p
<1>1. ToReap \in Nat /\ ToReap > 0
  BY Counters, Sizes DEF IntrLoop
<1>2. used_idx \in Desc
  BY Zenon DEF VInv, TypeOK
<1>3. used_idx % NUM = used_idx /\ used_idx + 0 = used_idx
  BY <1>2, Sizes, ModSmall DEF Desc
<1>4. UsedElem = ElemAt(0)
  BY <1>3, Zenon DEF UsedElem, ElemAt
<1>5. 0 \in Done
  BY <1>1 DEF Done
<1>6. Pending(ElemAt(0))
  BY <1>5, Zenon DEF VInv, InUsed
<1>7. PICK p \in Waiting : idx[p] = ElemAt(0) /\ bdisk[p] = 1
  BY <1>6, Zenon DEF Pending
<1>8. info[UsedElem] = p
  BY <1>4, <1>7, Zenon DEF VInv, Shape
<1> QED
  BY <1>1, <1>4, <1>5, <1>7, <1>8, ChainFacts, Zenon

\* The handler looks at a completion.
LEMMA IntrKeeps ==
  ASSUME VInv, IntrLoop
  PROVE  VInv'
<1>0. TypeOK /\ NoPanic /\ used_idx \in Desc /\ used % NUM \in Desc
  BY Counters, Zenon DEF VInv
<1>1. PICK p \in Waiting :
        /\ p \in Proc /\ p # None /\ idx[p] = ElemAt(0) /\ bdisk[p] = 1
        /\ info[UsedElem] = p
  BY Reaped, Zenon
<1>2. ToReap \in Nat /\ ToReap > 0 /\ 0 \in Done
  BY Reaped, Zenon
<1>3. /\ used_idx' = (used_idx + 1) % NUM /\ elems' = elems /\ used' = used
      /\ bdisk' = [bdisk EXCEPT ![p] = 0] /\ pc' = WokenBuf(p) /\ intr' = intr
      /\ UNCHANGED <<chain, ring, avail, info, bufs, write, idx, device, reqs>>
  BY <1>1, Zenon DEF IntrLoop, Advance
<1>4. used_idx' \in Desc
  BY <1>0, <1>3, Position, used_idx + 1 \in Nat, Sizes, Zenon DEF Desc
<1>5. ToReap' = ToReap - 1
  <2>1. used_idx # used % NUM
    BY <1>2, Counters
  <2> QED
    BY <1>0, <1>3, <2>1, LagFacts DEF ToReap
<1>6. /\ \A k \in Done' : k + 1 \in Done /\ k + 1 # 0 /\ k \in Nat
      /\ \A j, k \in Done' : j + 1 = k + 1 => j = k
  BY <1>2, <1>5 DEF Done
<1>7. \A k \in Done' : ElemAt(k)' = ElemAt(k + 1)
  BY <1>0, <1>3, <1>6, AdvancedNum, Zenon DEF ElemAt
<1>8. \A q \in Proc : pc'[q] = IF q = p /\ pc[q] = "sleep_buf" THEN "woken" ELSE pc[q]
  BY <1>3, Zenon DEF WokenBuf
<1>9. Waiting' = Waiting
  BY <1>8, Zenon DEF Waiting
<1>10. \A q \in Proc : bdisk'[q] = IF q = p THEN 0 ELSE bdisk[q]
  BY <1>0, <1>1, <1>3, Zenon DEF TypeOK
<1>11. \A i : Pending(i) /\ i # ElemAt(0) => Pending(i)'
  <2> SUFFICES ASSUME NEW i, Pending(i), i # ElemAt(0) PROVE Pending(i)'
    BY Zenon
  <2>1. PICK q \in Waiting : idx[q] = i /\ bdisk[q] = 1
    BY Zenon DEF Pending
  <2>2. q # p /\ q \in Proc
    BY <1>1, <2>1, Zenon DEF Waiting
  <2> QED
    BY <1>3, <1>9, <1>10, <2>1, <2>2, Zenon DEF Pending
<1>12. Owners' /\ Count' /\ Shape'
  BY <1>3, <1>9, ChainsKeep, Zenon
<1>13. Taken' = Taken /\ (\A k : RingAt(k)' = RingAt(k)) /\ inflight' = inflight
  BY <1>3, RingKeeps, Zenon DEF device
<1>14. InRing' /\ InDevice'
  BY <1>2, <1>11, <1>13 DEF VInv, InRing, InDevice, InUsed
<1>15. InUsed'
  <2>1. \A k \in Done' : ElemAt(k + 1) # ElemAt(0)
    BY <1>2, <1>6 DEF VInv, InUsed
  <2>2. \A k \in Done' : \A i : i = ElemAt(k + 1) => Pending(i)' /\ i \notin inflight'
    BY <1>6, <1>11, <1>13, <2>1 DEF VInv, InUsed
  <2>3. \A k \in Done' : Pending(ElemAt(k))' /\ ElemAt(k)' \notin inflight'
    BY <1>7, <2>2, Zenon
  <2>4. \A j, k \in Done' : ElemAt(j)' = ElemAt(k)' => j = k
    BY <1>6, <1>7, Zenon DEF VInv, InUsed
  <2>5. \A j \in Taken', k \in Done' : RingAt(j)' # ElemAt(k)'
    BY <1>6, <1>7, <1>13, Zenon DEF VInv, InUsed
  <2> QED
    BY <2>3, <2>4, <2>5, Zenon DEF InUsed
<1>16. NoPanic'
  BY <1>0, <1>3, <1>8 DEF NoPanic
<1>17. TypeOK'
  <2>1. pc' \in [Proc -> {"idle", "alloc", "sleep_free", "sleep_buf", "woken", "panic"}]
    BY <1>0, <1>3, Zenon DEF TypeOK, WokenBuf
  <2>2. bdisk' \in [Proc -> 0..1]
    <3>1. bdisk \in [Proc -> 0..1] /\ 0 \in 0..1
      BY <1>0 DEF TypeOK
    <3> QED
      BY <1>3, <3>1, Zenon
  <2> QED
    BY <1>0, <1>3, <1>4, <2>1, <2>2, Zenon DEF TypeOK, chain, bufs, device
<1> QED
  BY <1>12, <1>14, <1>15, <1>16, <1>17, Zenon DEF VInv

\* Submit adds one entry to the avail ring and overwrites none the device has
\* yet to take.
LEMMA Published ==
  ASSUME VInv, NEW p \in Proc, Submit(p)
  PROVE  /\ avail' \in 0..(IdxMod - 1) /\ ring' \in [Desc -> Desc]
         /\ ToTake \in Taken'
         /\ \A k \in Taken : k \in Taken' /\ k # ToTake
         /\ \A k \in Taken' : k = ToTake \/ k \in Taken
         /\ \A k \in Taken' : RingAt(k)' = IF k = ToTake THEN First ELSE RingAt(k)
<1>0. /\ seen \in 0..(IdxMod - 1) /\ avail \in 0..(IdxMod - 1)
      /\ ring \in [Desc -> Desc]
  BY Zenon DEF VInv, TypeOK
<1>1. /\ First \in free /\ First \in Desc /\ Second \in free /\ First # Second
  BY ThreeFree, Zenon DEF Submit
<1>2. /\ ring' = [ring EXCEPT ![avail % NUM] = First]
      /\ avail' = (avail + 1) % IdxMod /\ seen' = seen
  BY Zenon DEF Submit, device
<1>3. ToTake \in Nat /\ ToTake + 1 < NUM
  BY <1>1, Counters, RingRoom, Sizes
<1>4. ToTake + 1 < IdxMod
  BY <1>3, Sizes
<1>5. ToTake' = ToTake + 1 /\ avail' \in 0..(IdxMod - 1)
  BY <1>0, <1>2, <1>4, AheadMore, Zenon DEF ToTake
<1>6. /\ \A k \in Taken' : k = ToTake \/ k \in Taken
      /\ \A k \in Taken : k \in Taken' /\ k # ToTake
      /\ ToTake \in Taken'
  BY <1>3, <1>5 DEF Taken
<1>7. avail % NUM \in Desc
  BY <1>0, Position, Sizes
<1>8. \A k \in Taken' : RingAt(k)' = IF k = ToTake THEN First ELSE RingAt(k)
  <2> SUFFICES ASSUME NEW k \in Taken'
               PROVE  RingAt(k)' = IF k = ToTake THEN First ELSE RingAt(k)
    BY Zenon
  <2>1. (seen + ToTake) % NUM = avail % NUM
    BY <1>0, AheadEnd, Zenon DEF ToTake
  <2>2. seen \in Nat /\ k \in 0..(NUM - 1) /\ ToTake \in 0..(NUM - 1)
    BY <1>0, <1>3, <1>5, Sizes DEF Taken
  <2>3. k # ToTake => (seen + k) % NUM # avail % NUM
    BY <2>1, <2>2, Apart, Zenon
  <2>4. (seen + k) % NUM \in Desc
    BY <2>2, Position, seen + k \in Nat, Zenon
  <2> QED
    BY <1>0, <1>2, <1>7, <2>1, <2>3, <2>4, Zenon DEF RingAt
<1>9. ring' \in [Desc -> Desc]
  BY <1>0, <1>1, <1>2, Zenon
<1> QED
  BY <1>5, <1>6, <1>8, <1>9, Zenon

\* virtio_disk_rw publishes a request.
LEMMA SubmitKeeps ==
  ASSUME VInv, NEW p \in Proc, Submit(p)
  PROVE  VInv'
<1>0. /\ TypeOK /\ NoPanic /\ seen \in 0..(IdxMod - 1) /\ avail \in 0..(IdxMod - 1)
      /\ p \notin Waiting /\ p # None
  BY VirtioAssumption, Zenon DEF VInv, TypeOK, Submit, Waiting
<1>1. PICK a \in free, b \in free, c \in free :
        /\ a = First /\ b = Second /\ c = Third /\ a # b /\ a # c /\ b # c
        /\ a \in Desc /\ b \in Desc /\ c \in Desc
  BY ThreeFree, Zenon DEF Submit
<1>2. /\ free' = free \ {a, b, c}
      /\ \A d \in Desc : addr'[d] = IF d \in {a, b, c} THEN p ELSE addr[d]
      /\ \A d \in Desc : more'[d] = IF d = a \/ d = b THEN TRUE
                                    ELSE IF d = c THEN FALSE ELSE more[d]
      /\ \A d \in Desc : next'[d] = IF d = a THEN b ELSE IF d = b THEN c
                                    ELSE IF d = c THEN 0 ELSE next[d]
      /\ \A d \in Desc : info'[d] = IF d = a THEN p ELSE info[d]
      /\ \A q \in Proc : idx'[q] = IF q = p THEN a ELSE idx[q]
      /\ \A q \in Proc : bdisk'[q] = IF q = p THEN 1 ELSE bdisk[q]
      /\ \A q \in Proc : pc'[q] = IF q = p THEN "sleep_buf" ELSE pc[q]
      /\ inflight' = inflight
      /\ UNCHANGED <<elems, used, used_idx, intr>>
  BY <1>0, <1>1, Zenon DEF Submit, RecordBuf, TypeOK, device
<1>3. Waiting' = Waiting \cup {p}
  BY <1>2 DEF Waiting
<1>4. \A q \in Waiting :
        /\ q # p /\ q \in Proc /\ q # None /\ idx'[q] = idx[q] /\ bdisk'[q] = bdisk[q]
        /\ idx[q] \in Desc /\ next[idx[q]] \in Desc /\ next[next[idx[q]]] \in Desc
        /\ idx[q] \notin {a, b, c} /\ next[idx[q]] \notin {a, b, c}
        /\ next[next[idx[q]]] \notin {a, b, c}
  <2> SUFFICES ASSUME NEW q \in Waiting
               PROVE  /\ q # p /\ q \in Proc /\ q # None
                      /\ idx'[q] = idx[q] /\ bdisk'[q] = bdisk[q]
                      /\ idx[q] \in Desc /\ next[idx[q]] \in Desc
                      /\ next[next[idx[q]]] \in Desc
                      /\ idx[q] \notin {a, b, c} /\ next[idx[q]] \notin {a, b, c}
                      /\ next[next[idx[q]]] \notin {a, b, c}
    BY Zenon
  <2>1. q # p /\ q \in Proc
    BY <1>0, Zenon DEF Waiting
  <2>2. /\ q # None /\ idx[q] \in Desc /\ next[idx[q]] \in Desc
        /\ next[next[idx[q]]] \in Desc /\ idx[q] \notin free
        /\ next[idx[q]] \notin free /\ next[next[idx[q]]] \notin free
    BY ChainFacts, Zenon
  <2>3. idx'[q] = idx[q] /\ bdisk'[q] = bdisk[q]
    BY <1>2, <2>1, Zenon
  <2> QED
    BY <2>1, <2>2, <2>3, Zenon
<1>5. /\ \A i : Pending(i) => Pending(i)' /\ i \notin {a, b, c}
      /\ Pending(a)'
  <2>1. \A i : Pending(i) => i \notin {a, b, c}
    BY <1>4, Zenon DEF Pending
  <2>2. \A i : Pending(i) => Pending(i)'
    BY <1>3, <1>4, Zenon DEF Pending
  <2>3. p \in Waiting' /\ idx'[p] = a /\ bdisk'[p] = 1
    BY <1>2, <1>3, Zenon
  <2> QED
    BY <2>1, <2>2, <2>3, Zenon DEF Pending
<1>6. Owners'
  <2>1. \A d \in Desc : (d \in free <=> addr[d] = None) /\ (addr[d] = None \/ addr[d] \in Waiting)
    BY Zenon DEF VInv, Owners
  <2> QED
    BY <1>0, <1>2, <1>3, <2>1, Zenon DEF Owners
<1>7. Shape'
  <2>0. \A q \in Waiting :
          /\ idx'[q] = idx[q] /\ more'[idx[q]] = more[idx[q]]
          /\ next'[idx[q]] = next[idx[q]] /\ info'[idx[q]] = info[idx[q]]
          /\ more'[next[idx[q]]] = more[next[idx[q]]]
          /\ next'[next[idx[q]]] = next[next[idx[q]]]
    BY <1>2, <1>4, Zenon
  <2>1. \A q \in Waiting : Chain(idx[q])' = Chain(idx[q])
    BY <2>0 DEF Chain
  <2>2. ASSUME NEW q \in Waiting
        PROVE  /\ more'[idx'[q]] /\ more'[next'[idx'[q]]]
               /\ idx'[q] # next'[idx'[q]] /\ idx'[q] # next'[next'[idx'[q]]]
               /\ next'[idx'[q]] # next'[next'[idx'[q]]]
               /\ info'[idx'[q]] = q
    BY <2>0 DEF VInv, Shape
  <2>3. ASSUME NEW q \in Waiting, NEW d \in Desc
        PROVE  addr'[d] = q <=> d \in Chain(idx[q])'
    <3>1. addr[d] = q <=> d \in Chain(idx[q])
      BY Zenon DEF VInv, Shape
    <3>2. d \in {a, b, c} => addr[d] = None
      BY Zenon DEF VInv, Owners
    <3> QED
      BY <1>2, <1>4, <2>1, <3>1, <3>2
  <2>p. /\ idx'[p] = a /\ next'[a] = b /\ next'[b] = c
        /\ more'[a] = TRUE /\ more'[b] = TRUE /\ info'[a] = p
    BY <1>1, <1>2, Zenon
  <2>4. /\ more'[idx'[p]] /\ more'[next'[idx'[p]]]
        /\ idx'[p] # next'[idx'[p]] /\ idx'[p] # next'[next'[idx'[p]]]
        /\ next'[idx'[p]] # next'[next'[idx'[p]]]
        /\ info'[idx'[p]] = p
    BY <1>1, <2>p, Zenon
  <2>5. Chain(idx[p])' = {a, b, c}
    BY <2>p, Zenon DEF Chain
  <2>6. \A d \in Desc : addr'[d] = p <=> d \in Chain(idx[p])'
    BY <1>0, <1>2, <2>5 DEF VInv, Owners
  <2> QED
    BY <1>3, <2>2, <2>3, <2>4, <2>6, Zenon DEF Shape
<1>8. Count'
  <2>1. /\ Cardinality(free') = Cardinality(free) - 3
        /\ Cardinality(free) \in Nat
    BY <1>1, <1>2, ThreeFree, Zenon DEF Submit
  <2>2. Cardinality(Waiting') = Cardinality(Waiting) + 1 /\ Cardinality(Waiting) \in Nat
    BY <1>0, <1>3, WaitingFinite, FS_AddElement, Zenon
  <2>3. Cardinality(free) + 3 * Cardinality(Waiting) = NUM
    BY Zenon DEF VInv, Count
  <2> QED
    BY <2>1, <2>2, <2>3 DEF Count
<1>9. avail' \in 0..(IdxMod - 1) /\ ring' \in [Desc -> Desc]
  BY Published, Zenon
<1>11. \A k \in Taken' : k = ToTake \/ k \in Taken
  BY Published, Zenon
<1>13. \A k \in Taken' : RingAt(k)' = IF k = ToTake THEN a ELSE RingAt(k)
  BY <1>1, Published, Zenon
<1>14. \A i \in inflight : i \notin {a, b, c}
  BY <1>5, Zenon DEF VInv, InDevice
<1>i. inflight' = inflight
  BY <1>2, Zenon
<1>15. InRing'
  <2>1. ASSUME NEW k \in Taken', NEW i, i = RingAt(k)'
        PROVE  Pending(i)' /\ i \notin inflight'
    <3>1. CASE k = ToTake
      BY <1>5, <1>13, <1>14, <1>i, <2>1, <3>1, Zenon
    <3>2. CASE k # ToTake
      <4>1. k \in Taken /\ i = RingAt(k)
        BY <1>11, <1>13, <2>1, <3>2, Zenon
      <4> QED
        BY <1>5, <1>i, <4>1, Zenon DEF VInv, InRing
    <3> QED
      BY <3>1, <3>2, Zenon
  <2>2. \A j, k \in Taken' : RingAt(j)' = RingAt(k)' => j = k
    BY <1>5, <1>11, <1>13 DEF VInv, InRing
  <2> QED
    BY <2>1, <2>2, Zenon DEF InRing
<1>16. InDevice'
  BY <1>2, <1>5, Zenon DEF VInv, InDevice
<1>17. Done' = Done /\ \A k : ElemAt(k)' = ElemAt(k)
  BY <1>2, UsedKeeps, Zenon
<1>18. InUsed'
  <2>1. \A k \in Done' : \A i : i = ElemAt(k)' => Pending(i)' /\ i \notin inflight' /\ i # a
    <3>1. \A k \in Done : Pending(ElemAt(k)) /\ ElemAt(k) \notin inflight
      BY Zenon DEF VInv, InUsed
    <3> QED
      BY <1>5, <1>17, <1>i, <3>1, Zenon
  <2>2. \A j, k \in Done' : ElemAt(j)' = ElemAt(k)' => j = k
    BY <1>17, Zenon DEF VInv, InUsed
  <2>3. \A j \in Taken', k \in Done' : RingAt(j)' # ElemAt(k)'
    BY <1>11, <1>13, <1>17, <2>1, Zenon DEF VInv, InUsed
  <2> QED
    BY <2>1, <2>2, <2>3, Zenon DEF InUsed
<1>19. NoPanic'
  BY <1>0, <1>2, Zenon DEF NoPanic
<1>20. TypeOK'
  <2>1. /\ free' \subseteq Desc /\ addr' \in [Desc -> Proc \cup {None}]
        /\ info' \in [Desc -> Proc \cup {None}] /\ more' \in [Desc -> BOOLEAN]
    BY <1>0, <1>1, Zenon DEF Submit, RecordBuf, TypeOK
  <2>2. next' \in [Desc -> Desc] /\ idx' \in [Proc -> Desc]
    <3>1. 0 \in Desc
      BY Sizes DEF Desc
    <3> QED
      BY <1>0, <1>1, <3>1, Zenon DEF Submit, TypeOK
  <2>3. bdisk' \in [Proc -> 0..1]
    BY <1>0, 1 \in 0..1, Zenon DEF Submit, TypeOK
  <2>4. pc' \in [Proc -> {"idle", "alloc", "sleep_free", "sleep_buf", "woken", "panic"}]
    BY <1>0, Zenon DEF Submit, TypeOK
  <2>5. UNCHANGED <<elems, used, used_idx, bdata, blk, write, seen, inflight, isr,
                    intr, reqs>>
    BY Zenon DEF Submit, bufs, device
  <2> QED
    BY <1>0, <1>9, <2>1, <2>2, <2>3, <2>4, <2>5, Zenon DEF TypeOK
<1> QED
  BY <1>6, <1>7, <1>8, <1>15, <1>16, <1>18, <1>19, <1>20, Zenon DEF VInv

\* virtio_disk_rw finds its transfer done and frees the chain.
LEMMA WakeKeeps ==
  ASSUME VInv, NEW p \in Proc, Wake(p), Finished(p)
  PROVE  VInv'
<1>0. TypeOK /\ NoPanic /\ p \in Waiting
  BY Zenon DEF VInv, Wake, Waiting
<1>a. /\ idx[p] \in Desc /\ next[idx[p]] \in Desc /\ next[next[idx[p]]] \in Desc
      /\ Chain(idx[p]) = {idx[p], next[idx[p]], next[next[idx[p]]]}
      /\ idx[p] \notin free /\ next[idx[p]] \notin free
      /\ next[next[idx[p]]] \notin free
  BY <1>0, ChainFacts, Zenon
<1>b. /\ idx[p] # next[idx[p]] /\ idx[p] # next[next[idx[p]]]
      /\ next[idx[p]] # next[next[idx[p]]]
      /\ \A d \in Desc : addr[d] = p <=> d \in Chain(idx[p])
  BY <1>0, Zenon DEF VInv, Shape
<1>1. PICK a \in Desc, b \in Desc, c \in Desc :
        /\ a = idx[p] /\ Chain(idx[p]) = {a, b, c} /\ a # b /\ a # c /\ b # c
        /\ a \notin free /\ b \notin free /\ c \notin free
        /\ \A d \in Desc : addr[d] = p <=> d \in {a, b, c}
  BY <1>a, <1>b, Zenon
<1>2. /\ free' = free \cup {a, b, c}
      /\ \A d \in Desc : addr'[d] = IF d \in {a, b, c} THEN None ELSE addr[d]
      /\ \A d \in Desc : info'[d] = IF d = a THEN None ELSE info[d]
      /\ more' = more /\ next' = next /\ idx' = idx /\ bdisk' = bdisk /\ bdisk[p] = 0
      /\ UNCHANGED <<ring, avail, elems, used, used_idx, seen, inflight, intr>>
  <2>1. Freed(idx[p]) = {a, b, c}
    BY <1>1, Zenon DEF Freed
  <2>2. /\ free' = free \cup Freed(idx[p])
        /\ addr' = [d \in Desc |-> IF d \in Freed(idx[p]) THEN None ELSE addr[d]]
        /\ info' = [info EXCEPT ![idx[p]] = None]
    BY Zenon DEF Wake
  <2>3. \A d \in Desc : addr'[d] = IF d \in {a, b, c} THEN None ELSE addr[d]
    BY <2>1, <2>2, Zenon
  <2>4. \A d \in Desc : info'[d] = IF d = a THEN None ELSE info[d]
    BY <1>0, <1>1, <2>2, Zenon DEF TypeOK
  <2>5. /\ more' = more /\ next' = next /\ idx' = idx /\ bdisk' = bdisk /\ bdisk[p] = 0
        /\ UNCHANGED <<ring, avail, elems, used, used_idx, seen, inflight, intr>>
    BY Zenon DEF Wake, Finished, device
  <2> QED
    BY <2>1, <2>2, <2>3, <2>4, <2>5, Zenon
<1>3. \A q \in Proc : pc'[q] = IF q = p THEN "idle"
                               ELSE IF pc[q] = "sleep_free" THEN "alloc" ELSE pc[q]
  <2>1. Freed(idx[p]) \cap free = {}
    BY <1>1, Zenon DEF Freed
  <2>2. pc' = [WakeFree(pc) EXCEPT ![p] = "idle"]
    BY <2>1, Zenon DEF Wake
  <2> QED
    BY <2>2, Zenon DEF WakeFree
<1>4. Waiting' = Waiting \ {p}
  BY <1>3, Zenon DEF Waiting
<1>5. \A i : Pending(i)' <=> Pending(i)
  <2>1. idx' = idx /\ bdisk' = bdisk /\ bdisk[p] # 1
    BY <1>2
  <2>2. \A i : Pending(i)' <=> \E q \in Waiting' : idx[q] = i /\ bdisk[q] = 1
    BY <2>1, Zenon DEF Pending
  <2> QED
    BY <1>4, <2>1, <2>2, Zenon DEF Pending
<1>6. \A i : Chain(i)' = Chain(i)
  BY <1>2, Zenon DEF Chain
<1>7. Owners'
  <2>1. \A d \in Desc : (d \in free <=> addr[d] = None) /\ (addr[d] = None \/ addr[d] \in Waiting)
    BY Zenon DEF VInv, Owners
  <2> QED
    BY <1>1, <1>2, <1>4, <2>1, Zenon DEF Owners
<1>8. Shape'
  <2>1. \A q \in Waiting \ {p} :
          /\ more[idx[q]] /\ more[next[idx[q]]]
          /\ idx[q] # next[idx[q]] /\ idx[q] # next[next[idx[q]]]
          /\ next[idx[q]] # next[next[idx[q]]]
    BY Zenon DEF VInv, Shape
  <2>2. \A q \in Waiting \ {p} : info'[idx[q]] = q
    <3> SUFFICES ASSUME NEW q \in Waiting \ {p} PROVE info'[idx[q]] = q
      BY Zenon
    <3>1. idx[q] \in Desc /\ idx[q] # a /\ info[idx[q]] = q
      BY <1>0, <1>1, ChainFacts, HeadsApart, Zenon DEF VInv, Shape
    <3> QED
      BY <1>2, <3>1, Zenon
  <2>3. \A q \in Waiting \ {p}, d \in Desc : addr'[d] = q <=> d \in Chain(idx[q])
    <3> SUFFICES ASSUME NEW q \in Waiting \ {p}, NEW d \in Desc
                 PROVE  addr'[d] = q <=> d \in Chain(idx[q])
      BY Zenon
    <3>1. addr[d] = q <=> d \in Chain(idx[q])
      BY Zenon DEF VInv, Shape
    <3>2. q # None
      BY ChainFacts, Zenon
    <3> QED
      BY <1>1, <1>2, <3>1, <3>2, Zenon
  <2> QED
    BY <1>2, <1>4, <1>6, <2>1, <2>2, <2>3, Zenon DEF Shape
<1>9. Count'
  <2>1. IsFiniteSet(free)
    BY <1>0, DescFinite, FS_Subset, Zenon DEF TypeOK
  <2>c. {a, b, c} \in SUBSET Desc
    BY Zenon
  <2>d. IsFiniteSet({a, b, c})
    BY <2>c, DescFinite, FS_Subset, Zenon
  <2>n. a # b /\ a # c /\ b # c
    BY <1>1, Zenon
  <2>e. Cardinality({a, b, c}) = 3
    BY <2>n, ThreeElements, Zenon
  <2>2. IsFiniteSet({a, b, c}) /\ Cardinality({a, b, c}) = 3
    BY <2>d, <2>e, Zenon
  <2>3. free \cap {a, b, c} = {}
    BY <1>1, Zenon
  <2>4. Cardinality(free \cup {a, b, c}) = Cardinality(free) + 3 - 0
    BY <2>1, <2>2, <2>3, FS_Union, FS_EmptySet
  <2>5. Cardinality(Waiting') = Cardinality(Waiting) - 1 /\ Cardinality(Waiting) \in Nat
    BY <1>0, <1>4, WaitingFinite, FS_RemoveElement, Zenon
  <2>6. Cardinality(free) \in Nat
    BY <2>1, FS_CardinalityType, Zenon
  <2>7. Cardinality(free) + 3 * Cardinality(Waiting) = NUM
    BY Zenon DEF VInv, Count
  <2>8. Cardinality(free') = Cardinality(free) + 3
    BY <1>2, <2>4, <2>6
  <2>9. Cardinality(free') + 3 * Cardinality(Waiting') = NUM
    BY <2>5, <2>6, <2>7, <2>8
  <2> QED
    BY <2>9, Zenon DEF Count
<1>10. /\ Taken' = Taken /\ Done' = Done
       /\ \A k : RingAt(k)' = RingAt(k) /\ ElemAt(k)' = ElemAt(k)
  BY <1>2, RingKeeps, UsedKeeps, Zenon
<1>11. InRing' /\ InDevice' /\ InUsed'
  BY <1>2, <1>5, <1>10, Zenon DEF VInv, InRing, InDevice, InUsed
<1>12. NoPanic'
  BY <1>0, <1>2, <1>3, Zenon DEF NoPanic
<1>13. TypeOK'
  <2>1. /\ free' \subseteq Desc /\ addr' \in [Desc -> Proc \cup {None}]
        /\ info' \in [Desc -> Proc \cup {None}]
    <3>1. /\ free' = free \cup {a, b, c}
          /\ addr' = [i \in Desc |-> IF i \in Freed(idx[p]) THEN None ELSE addr[i]]
          /\ info' = [info EXCEPT ![idx[p]] = None]
      BY <1>2, Zenon DEF Wake
    <3>2. free' \subseteq Desc
      BY <1>0, <3>1, Zenon DEF TypeOK
    <3>3. addr' \in [Desc -> Proc \cup {None}]
      BY <1>0, <3>1, Zenon DEF TypeOK
    <3>4. info' \in [Desc -> Proc \cup {None}]
      BY <1>0, <3>1, Zenon DEF TypeOK
    <3> QED
      BY <3>2, <3>3, <3>4, Zenon
  <2>2. pc' \in [Proc -> {"idle", "alloc", "sleep_free", "sleep_buf", "woken", "panic"}]
    BY <1>0, Zenon DEF Wake, WakeFree, TypeOK
  <2> QED
    BY <1>0, <1>2, <2>1, <2>2, Zenon DEF Wake, TypeOK, bufs, device
<1> QED
  BY <1>7, <1>8, <1>9, <1>11, <1>12, <1>13 DEF VInv

\* virtio_disk_init establishes the invariant.
LEMMA InitVInv == Init => VInv
<1> SUFFICES ASSUME Init PROVE VInv
  BY Zenon
<1>1. Waiting = {}
  BY Zenon DEF Init, Waiting
<1>2. Past \in Nat /\ Past % NUM \in Desc /\ Past \in 0..(IdxMod - 1)
  BY VirtioAssumption, Position, Sizes
<1>3. ToTake = 0 /\ ToReap = 0
  BY <1>2, AheadType, LagFacts DEF Init, ToTake, ToReap
<1>4. Taken = {} /\ Done = {}
  BY <1>3 DEF Taken, Done
<1>5. InRing /\ InDevice /\ InUsed
  BY <1>4, Zenon DEF Init, InRing, InDevice, InUsed
<1>6. Shape /\ Owners
  BY <1>1, Zenon DEF Init, Shape, Owners
<1>7. Count
  <2>1. Cardinality(Waiting) = 0 /\ Cardinality(free) = NUM
    BY <1>1, DescFinite, FS_EmptySet, Zenon DEF Init
  <2> QED
    BY <2>1, Sizes DEF Count
<1>8. NoPanic
  BY Zenon DEF Init, NoPanic
<1>9. TypeOK
  <2>1. 0 \in Desc /\ 0 \in 0..1 /\ 0 \in 0..MaxReq /\ Zero \in Data
    BY VirtioAssumption, Sizes DEF Desc, Zero
  <2> QED
    BY <1>2, <2>1, Zenon DEF Init, TypeOK
<1> QED
  BY <1>5, <1>6, <1>7, <1>8, <1>9, Zenon DEF VInv

\* Every step preserves it.
LEMMA StepVInv == VInv /\ [Next]_vars => VInv'
<1> SUFFICES ASSUME VInv, [Next]_vars PROVE VInv'
  BY Zenon
<1>1. CASE \E p \in Proc : Call(p) \/ Step(p) \/ Kill(p)
  <2>1. PICK p \in Proc : Call(p) \/ Step(p) \/ Kill(p)
    BY <1>1, Zenon
  <2> QED
    BY <2>1, QuietSteps, SubmitKeeps, WakeKeeps, Zenon DEF Step
<1>2. CASE Device
  BY <1>2, FetchKeeps, CompleteKeeps, Zenon DEF Device
<1>3. CASE Intr \/ UNCHANGED vars
  <2>1. CASE IntrLoop
    BY <2>1, IntrKeeps, Zenon
  <2>2. CASE ~IntrLoop
    <3>1. CASE Proc = {}
      <4>1. UNCHANGED <<chain, ring, avail, elems, used, used_idx, info, bdisk, idx,
                        seen, inflight>>
        BY <1>3, <2>2, Zenon DEF Intr, IntrEnter, IntrLoopEnd, IntrAck, vars,
           device, chain
      <4>2. TypeOK' /\ NoPanic' /\ Waiting' = Waiting
        BY <1>3, <2>2, Zenon DEF Intr, IntrEnter, IntrLoopEnd, IntrAck, vars,
           TypeOK, chain, device, bufs, VInv, NoPanic, Waiting
      <4> QED
        BY <4>1, <4>2, QuietKeeps
    <3>2. CASE Proc # {}
      BY <1>3, <2>2, <3>2, QuietSteps, Zenon DEF Intr
    <3> QED
      BY <3>1, <3>2, Zenon
  <2> QED
    BY <2>1, <2>2, Zenon
<1> QED
  BY <1>1, <1>2, <1>3, Zenon DEF Next

\* So it holds in every reachable state.
LEMMA InvariantVInv == Spec => []VInv
BY InitVInv, StepVInv, PTL DEF Spec

\* It implies DescriptorsSound.
LEMMA VInvSound == VInv => DescriptorsSound
<1> SUFFICES ASSUME VInv PROVE DescriptorsSound
  BY Zenon
<1>1. TypeOK /\ NoPanic
  BY Zenon DEF VInv
<1>2. \A i \in Posted : Pending(i)
  BY Zenon DEF VInv, InRing, InDevice, Posted, Entries, RingAt, Taken, ToTake
<1>3. ChainsWhole
  <2> SUFFICES ASSUME NEW i \in Posted
               PROVE  /\ Cardinality(Chain(i)) = 3 /\ Chain(i) \cap free = {}
                      /\ \E p \in Waiting :
                           /\ idx[p] = i /\ info[i] = p /\ bdisk[p] = 1
                           /\ \A j \in Chain(i) : addr[j] = p
    BY Zenon DEF ChainsWhole
  <2>1. PICK p \in Waiting : idx[p] = i /\ bdisk[p] = 1
    BY <1>2, Zenon DEF Pending
  <2>2. /\ Chain(i) = {i, next[i], next[next[i]]} /\ Chain(i) \cap free = {}
        /\ \A j \in Chain(i) : addr[j] = p
    <3>1. /\ Chain(i) = {i, next[i], next[next[i]]}
          /\ addr[i] = p /\ addr[next[i]] = p /\ addr[next[next[i]]] = p
          /\ i \notin free /\ next[i] \notin free /\ next[next[i]] \notin free
      BY <2>1, ChainFacts, Zenon
    <3> QED
      BY <3>1, Zenon
  <2>3. i # next[i] /\ i # next[next[i]] /\ next[i] # next[next[i]] /\ info[i] = p
    BY <2>1, Zenon DEF VInv, Shape
  <2>n. Cardinality({i, next[i], next[next[i]]}) = 3
    BY <2>3, ThreeElements, Zenon
  <2>4. Cardinality(Chain(i)) = 3
    BY <2>2, <2>n, Zenon
  <2> QED
    BY <2>1, <2>2, <2>3, <2>4, Zenon
<1>4. NoLeak
  BY HeadsApart, Zenon DEF VInv, Count, NoLeak
<1> QED
  BY <1>1, <1>3, <1>4, Zenon DEF DescriptorsSound

\* Theorem: no descriptor is leaked, shared or freed twice, and the interrupt
\* handler finds the buffer of every completion (virtio_disk_rw, free_chain,
\* virtio_disk_intr).
THEOREM DescriptorsStaySound == Spec => []DescriptorsSound
BY InvariantVInv, VInvSound, PTL
-----------------------------------------------------------------------------
(* What the callers see. *)

\* The requests whose transfer is still to come.
LEMMA PostedIs == Posted = inflight \cup {RingAt(k) : k \in Taken}
BY Zenon DEF Posted, Entries, RingAt, Taken, ToTake

\* The same after a step.
LEMMA PostedNext == Posted' = inflight' \cup {RingAt(k)' : k \in Taken'}
BY Zenon DEF Posted, Entries, RingAt, Taken, ToTake

\* Each belongs to a waiting process.
LEMMA PostedPending ==
  ASSUME VInv, NEW i \in Posted
  PROVE  Pending(i)
BY PostedIs, Zenon DEF VInv, InRing, InDevice

\* A transfer that is reported is not still to come.
LEMMA NotPosted ==
  ASSUME VInv, NEW p \in Waiting, bdisk[p] = 0
  PROVE  idx[p] \notin Posted
BY PostedPending, HeadsApart DEF Pending

\* When the progress of a call does not change.
LEMMA SameProgress ==
  ASSUME NEW p \in Proc,
         pc'[p] = "idle" <=> pc[p] = "idle",
         (p \in Waiting' /\ idx'[p] \notin Posted') <=> (p \in Waiting /\ idx[p] \notin Posted)
  PROVE  Progress(p)' = Progress(p)
BY Zenon DEF Progress

\* Failed allocations, kill and spurious wakeups are invisible.
LEMMA QuietMaps ==
  ASSUME VInv, NEW p \in Proc,
         \/ AllocFail(p) \/ Kill(p) \/ (Wake(p) /\ ~Finished(p))
  PROVE  UNCHANGED <<[q \in Proc |-> Progress(q)], write, bdata, blk>>
<1>1. UNCHANGED <<write, bdata, blk, idx, ring, avail, seen, inflight>>
  BY Zenon DEF AllocFail, Kill, Wake, bufs, device
<1>2. \A q \in Proc :
        /\ pc'[q] \in {"sleep_buf", "woken"} <=> pc[q] \in {"sleep_buf", "woken"}
        /\ pc'[q] = "idle" <=> pc[q] = "idle"
  BY Zenon DEF AllocFail, Kill, Wake, WakeFree, VInv, TypeOK
<1>3. Waiting' = Waiting /\ Posted' = Posted
  BY <1>1, <1>2, Zenon DEF Waiting, Posted, Entries, Ahead
<1>4. \A q \in Proc : Progress(q)' = Progress(q)
  BY <1>1, <1>2, <1>3, SameProgress, Zenon
<1> QED
  BY <1>1, <1>4, Zenon

\* So is the interrupt handler.
LEMMA IntrMaps ==
  ASSUME VInv, Intr \/ UNCHANGED vars
  PROVE  UNCHANGED <<[q \in Proc |-> Progress(q)], write, bdata, blk>>
<1>1. UNCHANGED <<write, bdata, blk, idx, ring, avail, seen, inflight>>
  BY Zenon DEF Intr, IntrEnter, IntrLoop, IntrLoopEnd, IntrAck, vars, bufs,
     device
<1>2. \A q \in Proc :
        /\ pc'[q] \in {"sleep_buf", "woken"} <=> pc[q] \in {"sleep_buf", "woken"}
        /\ pc'[q] = "idle" <=> pc[q] = "idle"
  BY Zenon DEF Intr, IntrEnter, IntrLoop, IntrLoopEnd, IntrAck, vars, WokenBuf
<1>3. Waiting' = Waiting /\ Posted' = Posted
  BY <1>1, <1>2, Zenon DEF Waiting, Posted, Entries, Ahead
<1>4. \A q \in Proc : Progress(q)' = Progress(q)
  BY <1>1, <1>2, <1>3, SameProgress, Zenon
<1> QED
  BY <1>1, <1>4, Zenon

\* So is the device taking a request.
LEMMA FetchMaps ==
  ASSUME VInv, DevFetch
  PROVE  UNCHANGED <<[q \in Proc |-> Progress(q)], write, bdata, blk>>
<1>1. UNCHANGED <<write, bdata, blk, idx, pc>>
  BY Zenon DEF DevFetch, bufs
<1>2. \A i : (\E k \in Taken : i = RingAt(k))
               <=> (i = RingAt(0) \/ \E k \in Taken' : i = RingAt(k)')
  BY Fetched
<1>3. Posted' = Posted
  BY <1>2, Fetched, PostedIs, PostedNext
<1>4. Waiting' = Waiting
  BY <1>1, Zenon DEF Waiting
<1>5. \A q \in Proc : Progress(q)' = Progress(q)
  BY <1>1, <1>3, <1>4, SameProgress, Zenon
<1> QED
  BY <1>1, <1>5, Zenon

\* So is publishing it.
LEMMA SubmitMaps ==
  ASSUME VInv, NEW p \in Proc, Submit(p)
  PROVE  UNCHANGED <<[q \in Proc |-> Progress(q)], write, bdata, blk>>
<1>1. /\ UNCHANGED <<write, bdata, blk, inflight>> /\ pc[p] = "alloc"
      /\ \A q \in Proc : pc'[q] = IF q = p THEN "sleep_buf" ELSE pc[q]
      /\ \A q \in Proc : idx'[q] = IF q = p THEN First ELSE idx[q]
  BY Zenon DEF Submit, VInv, TypeOK, bufs, device
<1>2. \A i : (\E k \in Taken' : i = RingAt(k)')
               <=> (i = First \/ \E k \in Taken : i = RingAt(k))
  BY Published, Zenon
<1>3. Posted' = Posted \cup {First}
  BY <1>1, <1>2, PostedIs, PostedNext, Zenon
<1>4. Waiting' = Waiting \cup {p} /\ p \notin Waiting
  BY <1>1, Zenon DEF Waiting
<1>5. \A q \in Waiting : q # p /\ q \in Proc /\ idx[q] # First
  <2>1. First \in free
    BY ThreeFree, Zenon DEF Submit
  <2>2. \A q \in Waiting : q \in Proc /\ idx[q] \notin free
    BY ChainFacts, Zenon
  <2> QED
    BY <1>4, <2>1, <2>2, Zenon
<1>6. \A q \in Proc : Progress(q)' = Progress(q)
  <2> SUFFICES ASSUME NEW q \in Proc PROVE Progress(q)' = Progress(q)
    BY Zenon
  <2>1. pc'[q] = "idle" <=> pc[q] = "idle"
    BY <1>1, Zenon
  <2>2. (q \in Waiting' /\ idx'[q] \notin Posted') <=> (q \in Waiting /\ idx[q] \notin Posted)
    BY <1>1, <1>3, <1>4, <1>5, Zenon
  <2> QED
    BY <2>1, <2>2, SameProgress, Zenon
<1> QED
  BY <1>1, <1>6, Zenon

\* The call of virtio_disk_rw is the abstract call.
LEMMA CallMaps ==
  ASSUME VInv, NEW p \in Proc, Call(p)
  PROVE  Sync!SyncNext
<1>1. /\ pc[p] = "idle" /\ pc' = [pc EXCEPT ![p] = "alloc"]
      /\ UNCHANGED <<blk, idx, ring, avail, seen, inflight>>
  BY Zenon DEF Call, device
<1>2. \A q \in Proc : pc'[q] = IF q = p THEN "alloc" ELSE pc[q]
  BY <1>1, Zenon DEF VInv, TypeOK
<1>3. Waiting' = Waiting /\ Posted' = Posted
  BY <1>1, <1>2 DEF Waiting, Posted, Entries, Ahead
<1>4. \A q \in Proc : q # p => Progress(q)' = Progress(q)
  BY <1>1, <1>2, <1>3, SameProgress, Zenon
<1>5. Progress(p) = "idle" /\ Progress(p)' = "busy"
  BY <1>1, <1>2, <1>3 DEF Progress, Waiting
<1>6. [q \in Proc |-> Progress(q)]' = [[q \in Proc |-> Progress(q)] EXCEPT ![p] = "busy"]
  BY <1>4, <1>5, Zenon
<1>7. Sync!SyncCall(p)
  BY <1>1, <1>5, <1>6, Zenon DEF Sync!SyncCall, Call
<1> QED
  BY <1>7, Zenon DEF Sync!SyncNext

\* The completion by the device is the abstract transfer.
LEMMA CompleteMaps ==
  ASSUME VInv, NEW i \in Desc, DevComplete(i)
  PROVE  Sync!SyncNext
<1>1. PICK p \in Waiting :
        p \in Proc /\ idx[p] = i /\ bdisk[p] = 1 /\ addr[next[i]] = p /\ p # None
  BY Completed, Zenon
<1>2. /\ UNCHANGED <<write, idx, pc, ring, avail, seen>> /\ inflight' = inflight \ {i}
      /\ i \in inflight
  BY Zenon DEF DevComplete
<1>3. Taken' = Taken /\ \A k : RingAt(k)' = RingAt(k)
  BY <1>2, RingKeeps, Zenon
<1>4. \A k \in Taken : RingAt(k) # i
  BY <1>2, Zenon DEF VInv, InRing
<1>5. Posted' = Posted \ {i} /\ i \in Posted
  BY <1>2, <1>3, <1>4, PostedIs, PostedNext, Zenon
<1>6. Waiting' = Waiting
  BY <1>2, Zenon DEF Waiting
<1>7. \A q \in Proc : q # p => Progress(q)' = Progress(q)
  <2> SUFFICES ASSUME NEW q \in Proc, q # p PROVE Progress(q)' = Progress(q)
    BY Zenon
  <2>1. q \in Waiting => idx[q] # i
    BY <1>1, HeadsApart
  <2> QED
    BY <1>2, <1>5, <1>6, <2>1, SameProgress
<1>8. Progress(p) = "busy" /\ Progress(p)' = "done"
  BY <1>1, <1>2, <1>5, <1>6, Zenon DEF Progress, Waiting
<1>9. [q \in Proc |-> Progress(q)]' = [[q \in Proc |-> Progress(q)] EXCEPT ![p] = "done"]
  BY <1>7, <1>8, Zenon
<1>10. \/ write[p] /\ blk' = [blk EXCEPT ![p] = bdata[p]] /\ UNCHANGED bdata
       \/ ~write[p] /\ bdata' = [bdata EXCEPT ![p] = blk[p]] /\ UNCHANGED blk
  BY <1>1, Zenon DEF DevComplete
<1>11. Sync!SyncTransfer(p)
  BY <1>1, <1>2, <1>8, <1>9, <1>10, Zenon DEF Sync!SyncTransfer
<1> QED
  BY <1>1, <1>11, Zenon DEF Sync!SyncNext

\* The return of virtio_disk_rw is the abstract return.
LEMMA WakeMaps ==
  ASSUME VInv, VInv', NEW p \in Proc, Wake(p), Finished(p)
  PROVE  Sync!SyncNext
<1>1. /\ p \in Waiting /\ bdisk[p] = 0 /\ pc'[p] # "panic"
      /\ UNCHANGED <<write, bdata, blk, idx, ring, avail, seen, inflight>>
  BY Zenon DEF Wake, Finished, Waiting, bufs, device, VInv, NoPanic
<1>2. pc' = [WakeFree(pc) EXCEPT ![p] = "idle"]
  BY <1>1, Zenon DEF Wake, WakeFree
<1>3. \A q \in Proc : pc'[q] = IF q = p THEN "idle"
                               ELSE IF pc[q] = "sleep_free" THEN "alloc" ELSE pc[q]
  BY <1>2, Zenon DEF WakeFree
<1>4. Waiting' = Waiting \ {p} /\ Posted' = Posted
  BY <1>1, <1>3, Zenon DEF Waiting, Posted, Entries, Ahead
<1>5. \A q \in Proc : q # p => Progress(q)' = Progress(q)
  BY <1>1, <1>3, <1>4, SameProgress, Zenon
<1>6. idx[p] \notin Posted
  BY <1>1, NotPosted
<1>7. Progress(p) = "done" /\ Progress(p)' = "idle"
  BY <1>1, <1>3, <1>6, Zenon DEF Progress, Waiting
<1>8. [q \in Proc |-> Progress(q)]' = [[q \in Proc |-> Progress(q)] EXCEPT ![p] = "idle"]
  BY <1>5, <1>7, Zenon
<1>9. Sync!SyncReturn(p)
  BY <1>1, <1>7, <1>8, Zenon DEF Sync!SyncReturn
<1> QED
  BY <1>9, Zenon DEF Sync!SyncNext

\* Every step maps to a step of the synchronous disk or to none.
LEMMA StepMaps ==
  VInv /\ VInv' /\ [Next]_vars
    => [Sync!SyncNext]_<<[p \in Proc |-> Progress(p)], write, bdata, blk>>
<1> SUFFICES ASSUME VInv, VInv', [Next]_vars
             PROVE  \/ Sync!SyncNext
                    \/ UNCHANGED <<[q \in Proc |-> Progress(q)], write, bdata, blk>>
  BY Zenon
<1>1. CASE \E p \in Proc : Call(p) \/ Step(p) \/ Kill(p)
  <2>1. PICK p \in Proc : Call(p) \/ Step(p) \/ Kill(p)
    BY <1>1, Zenon
  <2> QED
    BY <2>1, CallMaps, QuietMaps, SubmitMaps, WakeMaps DEF Step
<1>2. CASE Device
  BY <1>2, FetchMaps, CompleteMaps, Zenon DEF Device
<1>3. CASE Intr \/ UNCHANGED vars
  BY <1>3, IntrMaps, Zenon
<1> QED
  BY <1>1, <1>2, <1>3, Zenon DEF Next

\* The initial states map to initial states.
LEMMA InitMaps == Init => Sync!SyncInit
<1> SUFFICES ASSUME Init PROVE Sync!SyncInit
  OBVIOUS
<1>1. \A p \in Proc : Progress(p) = "idle"
  <2>1. \A p \in Proc : pc[p] = "idle"
    BY Zenon DEF Init
  <2> QED
    BY <2>1, Zenon DEF Progress, Waiting
<1>2. write \in [Proc -> BOOLEAN] /\ bdata \in [Proc -> Data] /\ blk \in [Proc -> Data]
  BY InitVInv, Zenon DEF VInv, TypeOK
<1> QED
  BY <1>1, <1>2, Zenon DEF Sync!SyncInit

\* Theorem: virtio_disk_rw is a synchronous transfer of one block, once, in the
\* direction asked for, whatever the order of completions and wakeups.
THEOREM DriverImplementsSyncDisk == Spec => ImplementsSyncDisk
<1>1. VInv /\ VInv' /\ [Next]_vars
        => [Sync!SyncNext]_<<[p \in Proc |-> Progress(p)], write, bdata, blk>>
  BY StepMaps, Zenon
<1> QED
  BY <1>1, InitMaps, InvariantVInv, PTL DEF Spec, ImplementsSyncDisk, Sync!SyncSpec
=============================================================================
