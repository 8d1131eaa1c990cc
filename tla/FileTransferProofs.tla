------------------------ MODULE FileTransferProofs ------------------------
(***************************************************************************)
(* Proofs about FileTransfer, for every directory, block size and value of *)
(* the uninitialised counts, over every interleaving with resets and       *)
(* failing sends: what the child has put on the wire and what it logs.     *)
(***************************************************************************)
EXTENDS FileTransfer, WellFoundedInduction, SequenceTheorems, FiniteSetTheorems, TLAPS

---------------------------------------------------------------------------
(* Induction over the natural numbers and recursion over positions, stated *)
(* of sets: the provers cannot instantiate the library's theorems that     *)
(* take an operator.                                                       *)

\* Every non-empty set of natural numbers has a least element.
LEMMA LeastNat ==
    ASSUME NEW T \in SUBSET Nat, T # {}
    PROVE  \E m \in T : \A k \in T : m <= k
  <1> DEFINE R == OpToRel(<, Nat)
  <1>1. IsWellFoundedOn(R, Nat)
    BY NatLessThanWellFounded
  <1>2. \A x, y \in Nat : <<x, y>> \notin R => ~(x < y)
    BY DEF OpToRel
  <1> HIDE DEF R
  <1>3. PICK m \in T : \A y \in T : <<y, m>> \notin R
    BY <1>1, WFMin
  <1>4. \A y \in T : ~(y < m)
    BY <1>2, <1>3
  <1>5. \A y \in T : m <= y
    BY <1>4
  <1> QED BY <1>5

\* Induction over the natural numbers: a set that holds 0 and is closed under
\* successor holds them all.
LEMMA NatSetInduction ==
    ASSUME NEW S, 0 \in S, \A n \in Nat : n \in S => n + 1 \in S
    PROVE  Nat \subseteq S
  <1> SUFFICES ASSUME Nat \ S # {} PROVE FALSE
    OBVIOUS
  <1>1. PICK m \in Nat \ S : \A k \in Nat \ S : m <= k
    BY LeastNat
  <1>2. m # 0 /\ m - 1 \in Nat
    BY <1>1
  <1> QED BY <1>1, <1>2

\* Data of a recursion on D: step says how the value at x follows from that at
\* next[x], whose rank is higher; beyond rank len the values are those of base.
ScanData(D, V, len, rank, base, next, step) ==
    /\ len \in Nat
    /\ rank \in [D -> Nat] /\ base \in [D -> V]
    /\ next \in [D -> D] /\ step \in [D \X V -> V]
    /\ \A x \in D : rank[x] <= len => rank[next[x]] > rank[x]

\* f is a function so defined.
IsScan(f, D, V, len, rank, base, next, step) ==
    /\ f \in [D -> V]
    /\ \A x \in D : f[x] = IF rank[x] > len THEN base[x] ELSE step[<<x, f[next[x]]>>]

\* A recursion whose rank grows up to a bound defines a function: the blocks
\* that file_transfer cuts a file into are one.
LEMMA ForwardRecursion ==
    ASSUME NEW D, NEW V, NEW len, NEW rank, NEW base, NEW next, NEW step,
           ScanData(D, V, len, rank, base, next, step)
    PROVE  \E f : IsScan(f, D, V, len, rank, base, next, step)
  <1> DEFINE Val(f, x) == IF rank[x] > len THEN base[x] ELSE step[<<x, f[next[x]]>>]
             S == {n \in Nat : \E f \in [D -> V] : \A x \in D :
                                  rank[x] + n > len => f[x] = Val(f, x)}
  <1>0. /\ len \in Nat
        /\ rank \in [D -> Nat] /\ base \in [D -> V]
        /\ next \in [D -> D] /\ step \in [D \X V -> V]
        /\ \A x \in D : rank[x] <= len => rank[next[x]] > rank[x]
    BY DEF ScanData
  <1>1. 0 \in S
    <2>1. \A x \in D : rank[x] + 0 > len => base[x] = Val(base, x)
      BY <1>0
    <2> QED BY <1>0, <2>1
  <1>2. ASSUME NEW n \in Nat, n \in S
        PROVE  n + 1 \in S
    <2>1. PICK f \in [D -> V] : \A x \in D : rank[x] + n > len => f[x] = Val(f, x)
      BY <1>2
    <2> DEFINE g == [x \in D |-> IF rank[x] + n > len THEN f[x] ELSE Val(f, x)]
    <2>2. \A x \in D : Val(f, x) \in V
      BY <1>0
    <2>3. g \in [D -> V]
      BY <2>2
    <2>4. ASSUME NEW x \in D, rank[x] + (n + 1) > len
          PROVE  g[x] = Val(g, x)
      <3>1. g[x] = Val(f, x)
        BY <2>1
      <3>2. CASE rank[x] > len
        BY <3>1, <3>2
      <3>3. CASE rank[x] <= len
        <4>1. rank[next[x]] + n > len /\ next[x] \in D
          BY <1>0, <2>4, <3>3
        <4>2. g[next[x]] = f[next[x]]
          BY <4>1
        <4> QED BY <3>1, <3>3, <4>2
      <3> QED BY <1>0, <3>2, <3>3
    <2>5. \E h \in [D -> V] : \A x \in D : rank[x] + (n + 1) > len => h[x] = Val(h, x)
      <3> HIDE DEF g, Val
      <3> QED BY <2>3, <2>4
    <2> QED BY <2>5
  <1>3. len + 1 \in S
    <2> HIDE DEF S
    <2> QED BY <1>0, <1>1, <1>2, NatSetInduction
  <1>4. PICK f \in [D -> V] : \A x \in D : rank[x] + (len + 1) > len => f[x] = Val(f, x)
    BY <1>3
  <1>5. \A x \in D : f[x] = Val(f, x)
    BY <1>0, <1>4
  <1>6. IsScan(f, D, V, len, rank, base, next, step)
    BY <1>5 DEF IsScan
  <1> QED BY <1>6

(***************************************************************************)
(* The operators of the model.                                             *)
(***************************************************************************)

\* What the entry e contributes to the stream.
Part(e) == IF Shipped(e) THEN e.blocks ELSE << >>

\* BlocksOf satisfies its recursion: nothing for no entry, and one entry more
\* adds its blocks at the end when shipfile ships it.
LEMMA BlocksUnfold ==
    ASSUME NEW d \in Seq(DirEntry)
    PROVE  /\ BlocksOf(d)[0] = << >>
           /\ \A n \in 0 .. Len(d) : BlocksOf(d)[n] \in Seq(Blocks)
           /\ \A n \in 1 .. Len(d) : BlocksOf(d)[n] = BlocksOf(d)[n - 1] \o Part(d[n])
  <1> DEFINE D == 0 .. Len(d)
             V == Seq(Blocks)
             len == Len(d)
             rank == [n \in D |-> Len(d) + 1 - n]
             base == [n \in D |-> << >>]
             next == [n \in D |-> IF n = 0 THEN 0 ELSE n - 1]
             step == [z \in D \X V |-> IF z[1] = 0 THEN << >> ELSE z[2] \o Part(d[z[1]])]
             Body(n, f) == IF n = 0 THEN << >>
                           ELSE f[n - 1] \o (IF Shipped(d[n]) THEN d[n].blocks ELSE << >>)
             Is(f) == f = [n \in D |-> Body(n, f)]
  <1>1. Len(d) \in Nat /\ \A n \in 1 .. Len(d) : d[n] \in DirEntry
    OBVIOUS
  <1>2. \A n \in D : n = 0 \/ (n # 0 /\ n \in 1 .. Len(d) /\ n - 1 \in D)
    BY <1>1
  <1>3. \A n \in 1 .. Len(d) : Part(d[n]) \in V
    BY <1>1 DEF Part, DirEntry
  <1>4. \A v, w \in V : v \o w \in V
    OBVIOUS
  <1>5. << >> \in V
    OBVIOUS
  <1>6. ScanData(D, V, len, rank, base, next, step)
    <2>1. base \in [D -> V] /\ rank \in [D -> Nat] /\ len \in Nat
      BY <1>1
    <2>2. next \in [D -> D] /\ \A n \in D : rank[n] <= len => rank[next[n]] > rank[n]
      BY <1>1
    <2>3. \A n \in D, v \in V : (IF n = 0 THEN << >> ELSE v \o Part(d[n])) \in V
      <3> HIDE DEF D, V
      <3> QED BY <1>2, <1>3, <1>4, <1>5
    <2>4. step \in [D \X V -> V]
      <3> HIDE DEF D, V
      <3> QED BY <2>3
    <2> HIDE DEF D, V, len, rank, base, next, step
    <2> QED BY <2>1, <2>2, <2>4 DEF ScanData
  <1>7. PICK f : IsScan(f, D, V, len, rank, base, next, step)
    <2> HIDE DEF D, V, len, rank, base, next, step
    <2> QED BY <1>6, ForwardRecursion
  <1>8. f \in [D -> V]
    BY <1>7 DEF IsScan
  <1>9. ASSUME NEW n \in D
        PROVE  f[n] = Body(n, f)
    <2>1. f[n] = IF rank[n] > len THEN base[n] ELSE step[<<n, f[next[n]]>>]
      BY <1>7 DEF IsScan
    <2>2. CASE n = 0
      <3>1. rank[n] > len
        BY <1>1, <2>2
      <3> HIDE DEF rank, len
      <3> QED BY <2>1, <2>2, <3>1
    <2>3. CASE n # 0
      <3>1. ~(rank[n] > len) /\ n - 1 \in D
        BY <1>1, <2>3
      <3>2. next[n] = n - 1
        BY <2>3
      <3>3. f[n - 1] \in V
        BY <1>8, <3>1
      <3>4. step[<<n, f[n - 1]>>] = f[n - 1] \o Part(d[n])
        <4> HIDE DEF D, V
        <4> QED BY <2>3, <3>3
      <3>5. f[n] = f[n - 1] \o Part(d[n])
        <4> HIDE DEF rank, len, step, next
        <4> QED BY <2>1, <3>1, <3>2, <3>4
      <3> QED BY <2>3, <3>5 DEF Part
    <2> QED BY <2>2, <2>3
  <1>10. Is(f)
    <2> HIDE DEF Body, D
    <2> QED BY <1>8, <1>9
  <1> HIDE DEF Is
  <1>11. Is(CHOOSE g : Is(g))
    BY <1>10
  <1>12. BlocksOf(d) = CHOOSE g : Is(g)
    BY DEF BlocksOf, Is
  <1> DEFINE B == BlocksOf(d)
  <1>13. B = [n \in D |-> Body(n, B)]
    BY <1>11, <1>12 DEF Is
  <1> HIDE DEF B
  <1>14. B[0] = << >>
    <2>1. 0 \in D
      BY <1>1
    <2> HIDE DEF D
    <2> QED BY <1>13, <2>1
  <1>15. ASSUME NEW n \in 1 .. Len(d)
         PROVE  B[n] = B[n - 1] \o Part(d[n])
    <2>1. n \in D /\ n # 0
      BY <1>1
    <2>2. B[n] = Body(n, B)
      <3> HIDE DEF Body, D
      <3> QED BY <1>13, <2>1
    <2> QED BY <2>1, <2>2 DEF Part
  <1>16. ASSUME NEW n \in D
         PROVE  B[n] \in V
    <2> DEFINE S == {m \in Nat : m \in D => B[m] \in V}
    <2>1. 0 \in S
      BY <1>5, <1>14
    <2>2. ASSUME NEW m \in Nat, m \in S
          PROVE  m + 1 \in S
      <3> SUFFICES ASSUME m + 1 \in D PROVE B[m + 1] \in V
        OBVIOUS
      <3>1. m \in D /\ m + 1 \in 1 .. Len(d) /\ (m + 1) - 1 = m
        BY <1>1
      <3>2. B[m] \in V
        BY <2>2, <3>1
      <3>3. Part(d[m + 1]) \in V
        BY <1>3, <3>1
      <3>4. B[m + 1] = B[(m + 1) - 1] \o Part(d[m + 1])
        BY <1>15, <3>1
      <3>5. B[m + 1] = B[m] \o Part(d[m + 1])
        BY <3>1, <3>4
      <3> HIDE DEF V
      <3> QED BY <1>4, <3>2, <3>3, <3>5
    <2>3. n \in S
      <3> HIDE DEF S
      <3>1. n \in Nat
        BY <1>1
      <3> QED BY <2>1, <2>2, <3>1, NatSetInduction
    <2> QED BY <2>3
  <1> QED BY <1>14, <1>15, <1>16 DEF B

\* One entry more is one refusal more exactly when fopen refuses it.
LEMMA RefusedNext ==
    ASSUME NEW d, NEW n \in Nat
    PROVE  /\ IsFiniteSet(Refused(d, n)) /\ Cardinality(Refused(d, n)) \in Nat
           /\ Cardinality(Refused(d, n + 1)) =
                Cardinality(Refused(d, n)) + (IF NotOpened(d[n + 1]) THEN 1 ELSE 0)
  <1>1. IsFiniteSet(1 .. n)
    BY FS_Interval
  <1>2. IsFiniteSet(Refused(d, n))
    <2>1. Refused(d, n) \subseteq 1 .. n
      BY DEF Refused
    <2> QED BY <1>1, <2>1, FS_Subset
  <1>3. Cardinality(Refused(d, n)) \in Nat
    BY <1>2, FS_CardinalityType
  <1>4. CASE NotOpened(d[n + 1])
    <2>1. Refused(d, n + 1) = Refused(d, n) \cup {n + 1} /\ n + 1 \notin Refused(d, n)
      BY <1>4 DEF Refused
    <2> QED BY <1>2, <1>3, <1>4, <2>1, FS_AddElement
  <1>5. CASE ~NotOpened(d[n + 1])
    <2>1. Refused(d, n + 1) = Refused(d, n)
      BY <1>5 DEF Refused
    <2> QED BY <1>2, <1>3, <1>5, <2>1
  <1> QED BY <1>2, <1>3, <1>4, <1>5

\* Moving the head of t to the end of s does not change what the two hold.
LEMMA MoveHead ==
    ASSUME NEW S, NEW s \in Seq(S), NEW t \in Seq(S), t # << >>
    PROVE  /\ Append(s, Head(t)) \in Seq(S) /\ Tail(t) \in Seq(S)
           /\ Len(Append(s, Head(t))) = Len(s) + 1
           /\ Append(s, Head(t)) \o Tail(t) = s \o t
  <1>1. /\ Head(t) \in S /\ Tail(t) \in Seq(S) /\ Len(Tail(t)) = Len(t) - 1
        /\ \A k \in 1 .. Len(Tail(t)) : Tail(t)[k] = t[k + 1]
        /\ Head(t) = t[1] /\ Len(t) \in Nat \ {0}
    OBVIOUS
  <1> DEFINE u == Append(s, Head(t))
             v == Tail(t)
  <1>2. /\ u \in Seq(S) /\ Len(u) = Len(s) + 1 /\ u[Len(s) + 1] = t[1]
        /\ \A k \in 1 .. Len(s) : u[k] = s[k]
    BY <1>1
  <1>3. v \in Seq(S) /\ Len(v) = Len(t) - 1 /\ \A k \in 1 .. Len(v) : v[k] = t[k + 1]
    BY <1>1
  <1> HIDE DEF u, v
  <1>4. /\ u \o v \in Seq(S) /\ s \o t \in Seq(S)
        /\ Len(u \o v) = Len(s \o t)
    <2>1. /\ u \o v \in Seq(S) /\ Len(u \o v) = Len(u) + Len(v)
          /\ s \o t \in Seq(S) /\ Len(s \o t) = Len(s) + Len(t)
      <3>1. u \in Seq(S) /\ v \in Seq(S)
        BY <1>2, <1>3
      <3> QED BY <3>1
    <2>2. Len(s) \in Nat
      OBVIOUS
    <2> QED BY <1>1, <1>2, <1>3, <2>1, <2>2
  <1>5. ASSUME NEW k \in 1 .. Len(s \o t)
        PROVE  (u \o v)[k] = (s \o t)[k]
    <2>0. Len(s) \in Nat /\ Len(s \o t) = Len(s) + Len(t)
      OBVIOUS
    <2>1. CASE k <= Len(s)
      <3>1. k \in 1 .. Len(s) /\ k \in 1 .. Len(u)
        BY <1>2, <2>0, <2>1
      <3>2. (u \o v)[k] = u[k] /\ (s \o t)[k] = s[k]
        BY <1>2, <1>3, <3>1
      <3> QED BY <1>2, <3>1, <3>2
    <2>2. CASE k = Len(s) + 1
      <3>1. (u \o v)[k] = u[k]
        BY <1>2, <1>3, <2>0, <2>2
      <3>2. (s \o t)[k] = t[1]
        BY <1>1, <2>0, <2>2
      <3> QED BY <1>2, <2>2, <3>1, <3>2
    <2>3. CASE k > Len(s) + 1
      <3>1. (u \o v)[k] = v[k - Len(u)] /\ k - Len(u) \in 1 .. Len(v)
        BY <1>1, <1>2, <1>3, <2>0, <2>3
      <3>2. (s \o t)[k] = t[k - Len(s)]
        BY <1>1, <2>0, <2>3
      <3>3. k - Len(u) + 1 = k - Len(s)
        BY <1>2, <2>0
      <3> QED BY <1>3, <3>1, <3>2, <3>3
    <2>4. k <= Len(s) \/ k = Len(s) + 1 \/ k > Len(s) + 1
      <3>1. \A a, b \in Nat : a <= b \/ a = b + 1 \/ a > b + 1
        OBVIOUS
      <3> QED BY <2>0, <3>1
    <2> QED BY <2>1, <2>2, <2>3, <2>4
  <1>6. u \o v = s \o t
    BY <1>4, <1>5, SeqEqual
  <1> QED BY <1>1, <1>2, <1>6 DEF u, v

\* The entry readdir returns next is the one behind those done with.
LEMMA NextEntry ==
    ASSUME TypeOK, dir # << >>
    PROVE  /\ Done \in Nat /\ Done + 1 \in 1 .. Len(dir0) /\ dir0 \in Seq(DirEntry)
           /\ Head(dir) \in DirEntry /\ Head(dir) = dir0[Done + 1]
           /\ Tail(dir) \in Seq(DirEntry) /\ Len(Tail(dir)) <= Len(dir0)
           /\ Len(dir0) - Len(Tail(dir)) = Done + 1
           /\ \A k \in 1 .. Len(Tail(dir)) : Tail(dir)[k] = dir0[Done + 1 + k]
  <1>1. /\ dir0 \in Seq(DirEntry) /\ dir \in Seq(DirEntry) /\ Len(dir) <= Len(dir0)
        /\ \A k \in 1 .. Len(dir) : dir[k] = dir0[Done + k]
    BY DirsAssumption DEF TypeOK
  <1>2. Len(dir0) \in Nat /\ Len(dir) \in Nat \ {0} /\ Done = Len(dir0) - Len(dir)
    BY <1>1 DEF Done
  <1> HIDE DEF Done
  <1>3. /\ Head(dir) = dir[1] /\ Head(dir) \in DirEntry
        /\ Tail(dir) \in Seq(DirEntry) /\ Len(Tail(dir)) = Len(dir) - 1
        /\ \A k \in 1 .. Len(Tail(dir)) : Tail(dir)[k] = dir[k + 1]
    BY <1>1, <1>2
  <1>4. Done \in Nat /\ Done + 1 \in 1 .. Len(dir0) /\ 1 \in 1 .. Len(dir)
    BY <1>1, <1>2
  <1>5. ASSUME NEW k \in 1 .. Len(Tail(dir))
        PROVE  Tail(dir)[k] = dir0[Done + 1 + k]
    <2>1. k + 1 \in 1 .. Len(dir) /\ Done + (k + 1) = Done + 1 + k
      BY <1>2, <1>3, <1>4
    <2> QED BY <1>1, <1>3, <2>1
  <1> QED BY <1>1, <1>2, <1>3, <1>4, <1>5

(***************************************************************************)
(* The inductive invariant.                                                *)
(***************************************************************************)

\* Where the loops of run_file_transfer and shipfile are: an open file is the
\* entry readdir returned last, and it is one shipfile ships; a log line is
\* there only when the child has exited.
Position ==
    /\ pc = "fread" => dir # << >> /\ Shipped(Head(dir))
    /\ log # << >> => pc = "exited"

\* The wire holds the blocks of the entries done with and, within a file, what
\* is left of it will complete the blocks of one entry more.
WireSoFar ==
    dropped = 0 =>
        /\ pc \in {"opendir", "readdir"} => wire = BlocksOf(dir0)[Done]
        /\ pc = "fread" => wire \o left = BlocksOf(dir0)[Done + 1]

\* The counts of shipfile and the totals of run_file_transfer, as long as no
\* entry was skipped, are those of the messages sent or dropped so far.
Counts ==
    NoSkips =>
        /\ pc \in {"opendir", "readdir"} => blocktotal = Len(wire) + dropped
        /\ pc = "fread" => /\ blocktotal + blockcount = Len(wire) + dropped
                           /\ bytecount = BlockSize * blockcount
        /\ pc \in {"opendir", "readdir", "fread"} => bytetotal = BlockSize * blocktotal

\* errors is the number of entries fopen refused.
ErrorCount ==
    pc \in {"opendir", "readdir", "fread"} =>
        errors = Cardinality(Refused(dir0, Done))

\* What a step of the child keeps: the properties of the runs, and the state
\* of the two loops that they follow from.
IInv == TypeOK /\ Position /\ WireSoFar /\ Counts /\ ErrorCount /\ LogTruthful

(***************************************************************************)
(* Steps.                                                                  *)
(***************************************************************************)

\* A step that leaves the directory alone.
LEMMA SameEntry ==
    ASSUME dir' = dir, dir0' = dir0
    PROVE  /\ Done' = Done /\ (NoSkips' <=> NoSkips)
           /\ BlocksOf(dir0') = BlocksOf(dir0)
           /\ Refused(dir0', Done') = Refused(dir0, Done)
  <1>1. Done' = Done
    BY DEF Done
  <1> HIDE DEF Done
  <1> QED BY <1>1 DEF NoSkips

\* A step that is done with the entry readdir returned.
LEMMA OneEntryMore ==
    ASSUME TypeOK, dir # << >>, dir' = Tail(dir), dir0' = dir0
    PROVE  /\ Done \in Nat /\ Done' = Done + 1
           /\ dir0' \in Dirs /\ dir' \in Seq(DirEntry) /\ Len(dir') <= Len(dir0')
           /\ \A k \in 1 .. Len(dir') : dir'[k] = dir0'[Done' + k]
           /\ NoSkips' => NoSkips /\ (TypeSelected(Head(dir)) => Shipped(Head(dir)))
           /\ BlocksOf(dir0')[Done'] = BlocksOf(dir0)[Done + 1]
           /\ BlocksOf(dir0)[Done] \in Seq(Blocks)
           /\ BlocksOf(dir0)[Done + 1] = BlocksOf(dir0)[Done] \o Part(Head(dir))
           /\ Cardinality(Refused(dir0, Done)) \in Nat
           /\ Cardinality(Refused(dir0', Done')) =
                Cardinality(Refused(dir0, Done)) + (IF NotOpened(Head(dir)) THEN 1 ELSE 0)
  <1>1. /\ Done \in Nat /\ Done + 1 \in 1 .. Len(dir0) /\ dir0 \in Seq(DirEntry)
        /\ Head(dir) = dir0[Done + 1]
        /\ Tail(dir) \in Seq(DirEntry) /\ Len(Tail(dir)) <= Len(dir0)
        /\ Len(dir0) - Len(Tail(dir)) = Done + 1
        /\ \A k \in 1 .. Len(Tail(dir)) : Tail(dir)[k] = dir0[Done + 1 + k]
    BY NextEntry
  <1>2. Done' = Done + 1
    BY <1>1 DEF Done
  <1> HIDE DEF Done
  <1>3. dir0' \in Dirs
    BY DEF TypeOK
  <1>4. \A k \in 1 .. Len(dir') : dir'[k] = dir0'[Done' + k]
    BY <1>1, <1>2
  <1>5. NoSkips' => NoSkips /\ (TypeSelected(Head(dir)) => Shipped(Head(dir)))
    <2>1. \A k \in 1 .. Done : k \in 1 .. Done + 1
      BY <1>1
    <2>2. Done + 1 \in 1 .. Done + 1
      BY <1>1
    <2> QED BY <1>1, <1>2, <2>1, <2>2 DEF NoSkips
  <1>6. Done \in 0 .. Len(dir0) /\ (Done + 1) - 1 = Done
    BY <1>1
  <1>7. /\ BlocksOf(dir0)[Done] \in Seq(Blocks)
        /\ BlocksOf(dir0)[Done + 1] = BlocksOf(dir0)[Done] \o Part(Head(dir))
    BY <1>1, <1>6, BlocksUnfold
  <1>8. /\ Cardinality(Refused(dir0, Done)) \in Nat
        /\ Cardinality(Refused(dir0, Done + 1)) =
             Cardinality(Refused(dir0, Done)) + (IF NotOpened(Head(dir)) THEN 1 ELSE 0)
    BY <1>1, RefusedNext
  <1>9. Len(dir') <= Len(dir0') /\ dir' \in Seq(DirEntry)
    BY <1>1
  <1>10. /\ BlocksOf(dir0')[Done'] = BlocksOf(dir0)[Done + 1]
         /\ Cardinality(Refused(dir0', Done')) = Cardinality(Refused(dir0, Done + 1))
    BY <1>2
  <1> QED BY <1>1, <1>2, <1>3, <1>4, <1>5, <1>7, <1>8, <1>9, <1>10

\* The invariant holds when the child is forked.
LEMMA InitIInv == Init => IInv
  <1> SUFFICES ASSUME Init PROVE IInv
    OBVIOUS
  <1>1. /\ dir0 \in Seq(DirEntry) /\ dir = dir0 /\ Len(dir0) \in Nat /\ Done = 0
    BY DirsAssumption DEF Init, Done
  <1> HIDE DEF Done
  <1>2. TypeOK
    <2>1. /\ Len(dir) <= Len(dir0)
          /\ \A k \in 1 .. Len(dir) : dir[k] = dir0[Done + k]
      <3>1. \A k \in 1 .. Len(dir) : 0 + k = k
        BY <1>1
      <3> QED BY <1>1, <3>1
    <2>2. << >> \in Seq(Blocks) /\ Len(<< >>) = 0
      OBVIOUS
    <2>3. /\ blockcount \in Nat /\ bytecount \in Nat
          /\ drained \in Nat /\ drained <= Len(wire)
      BY <2>2, UninitAssumption DEF Init
    <2> QED BY <1>1, <2>1, <2>2, <2>3 DEF Init, TypeOK
  <1>3. Position /\ LogTruthful
    BY DEF Init, Position, LogTruthful
  <1>4. WireSoFar
    BY <1>1, BlocksUnfold DEF Init, WireSoFar
  <1>5. Counts
    BY BlockSizeAssumption DEF Init, Counts
  <1>6. ErrorCount
    <2>1. Refused(dir0, 0) = {}
      BY DEF Refused
    <2> QED BY <1>1, <2>1, FS_EmptySet DEF Init, ErrorCount
  <1> QED BY <1>2, <1>3, <1>4, <1>5, <1>6 DEF IInv

\* Opening the directory, a peer that reads or resets, SIGPIPE or another
\* signal: nothing but pc, drained and peerGone changes.
Quiet ==
    /\ UNCHANGED <<dir0, dir, left, blockcount, bytecount, blocktotal, bytetotal,
                   errors, sendMutex, wire, dropped, readErr, log>>
    /\ drained' = drained \/ (drained < Len(wire) /\ drained' = drained + 1)
    /\ peerGone' = peerGone \/ peerGone' = TRUE
    /\ \/ pc' = pc
       \/ pc = "opendir" /\ pc' = "readdir"
       \/ pc # "exited" /\ pc' \in {"exited", "killed"}

\* Such a step keeps the invariant.
LEMMA QuietIInv ==
    ASSUME IInv, Quiet
    PROVE  IInv'
  <1>1. /\ UNCHANGED <<dir0, dir, left, blockcount, bytecount, blocktotal, bytetotal,
                       errors, sendMutex, wire, dropped, readErr, log>>
        /\ drained' = drained \/ (drained < Len(wire) /\ drained' = drained + 1)
        /\ peerGone' = peerGone \/ peerGone' = TRUE
        /\ \/ pc' = pc
           \/ pc = "opendir" /\ pc' = "readdir"
           \/ pc # "exited" /\ pc' \in {"exited", "killed"}
    BY DEF Quiet
  <1>2. /\ Done' = Done /\ (NoSkips' <=> NoSkips)
        /\ BlocksOf(dir0') = BlocksOf(dir0)
        /\ Refused(dir0', Done') = Refused(dir0, Done)
    BY <1>1, SameEntry
  <1>3. TypeOK'
    <2>1. pc' \in {"opendir", "readdir", "fread", "exited", "killed"} /\ peerGone' \in BOOLEAN
      BY <1>1 DEF IInv, TypeOK
    <2>2. drained' \in Nat /\ drained' <= Len(wire')
      BY <1>1 DEF IInv, TypeOK
    <2> QED BY <1>1, <1>2, <2>1, <2>2 DEF IInv, TypeOK
  <1>4. Position'
    BY <1>1 DEF IInv, Position
  <1>5. WireSoFar'
    BY <1>1, <1>2 DEF IInv, WireSoFar
  <1>6. Counts'
    <2>1. CASE pc' = pc
      BY <1>1, <1>2, <2>1 DEF IInv, Counts
    <2>2. CASE pc = "opendir" /\ pc' = "readdir"
      BY <1>1, <1>2, <2>2 DEF IInv, Counts
    <2>3. CASE pc' \in {"exited", "killed"}
      BY <2>3 DEF Counts
    <2> QED BY <1>1, <2>1, <2>2, <2>3
  <1>7. ErrorCount'
    BY <1>1, <1>2 DEF IInv, ErrorCount
  <1>8. LogTruthful'
    BY <1>1, <1>2 DEF IInv, LogTruthful
  <1> QED BY <1>3, <1>4, <1>5, <1>6, <1>7, <1>8 DEF IInv

\* An entry that is not shipped: not selected, a dot file, or one that fopen
\* refuses.
LEMMA UnshippedIInv ==
    ASSUME IInv, SkipEntry \/ NotShipped
    PROVE  IInv'
  <1> DEFINE e == Head(dir)
  <1>1. /\ pc = "readdir" /\ pc' = pc /\ dir # << >> /\ dir' = Tail(dir)
        /\ UNCHANGED <<dir0, left, blockcount, bytecount, sendMutex, peerGone,
                       wire, drained, dropped, readErr, log>>
        /\ ~Shipped(e)
    BY DEF SkipEntry, NotShipped, Shipped
  <1>2. \/ ~TypeSelected(e) /\ UNCHANGED <<blocktotal, bytetotal, errors>>
        \/ /\ TypeSelected(e) /\ (e.dot \/ ~e.opens)
           /\ errors' = errors + (IF e.dot THEN 0 ELSE 1)
           /\ blocktotal' = blocktotal + blockcount /\ bytetotal' = bytetotal + bytecount
    BY DEF SkipEntry, NotShipped
  <1> HIDE DEF e
  <1>3. TypeOK /\ Position /\ WireSoFar /\ Counts /\ ErrorCount
    BY DEF IInv
  <1>4. /\ Done \in Nat /\ Done' = Done + 1
        /\ dir0' \in Dirs /\ dir' \in Seq(DirEntry) /\ Len(dir') <= Len(dir0')
        /\ \A k \in 1 .. Len(dir') : dir'[k] = dir0'[Done' + k]
        /\ NoSkips' => NoSkips /\ (TypeSelected(e) => Shipped(e))
        /\ BlocksOf(dir0')[Done'] = BlocksOf(dir0)[Done + 1]
        /\ BlocksOf(dir0)[Done] \in Seq(Blocks)
        /\ BlocksOf(dir0)[Done + 1] = BlocksOf(dir0)[Done] \o Part(e)
        /\ Cardinality(Refused(dir0, Done)) \in Nat
        /\ Cardinality(Refused(dir0', Done')) =
             Cardinality(Refused(dir0, Done)) + (IF NotOpened(e) THEN 1 ELSE 0)
    BY <1>1, <1>3, OneEntryMore DEF e
  <1>5. /\ blocktotal' \in Nat /\ bytetotal' \in Nat /\ errors' \in Nat
        /\ errors' = errors + (IF NotOpened(e) THEN 1 ELSE 0)
    <2>1. /\ blocktotal \in Nat /\ bytetotal \in Nat /\ errors \in Nat
          /\ blockcount \in Nat /\ bytecount \in Nat
      BY <1>3 DEF TypeOK
    <2> QED BY <1>2, <2>1 DEF NotOpened
  <1>6. TypeOK'
    BY <1>1, <1>3, <1>4, <1>5 DEF TypeOK
  <1>7. Position' /\ LogTruthful'
    BY <1>1, <1>3 DEF Position, LogTruthful
  <1>8. WireSoFar'
    <2>1. BlocksOf(dir0)[Done + 1] = BlocksOf(dir0)[Done]
      BY <1>1, <1>4, ConcatEmptySeq DEF Part
    <2> QED BY <1>1, <1>3, <1>4, <2>1 DEF WireSoFar
  <1>9. Counts'
    <2> SUFFICES ASSUME NoSkips'
                 PROVE  blocktotal' = Len(wire') + dropped' /\ bytetotal' = BlockSize * blocktotal'
      BY <1>1 DEF Counts
    <2>1. NoSkips /\ ~TypeSelected(e)
      BY <1>1, <1>4
    <2> QED BY <1>1, <1>2, <1>3, <2>1 DEF Counts
  <1>10. ErrorCount'
    BY <1>1, <1>3, <1>4, <1>5 DEF ErrorCount
  <1> QED BY <1>6, <1>7, <1>8, <1>9, <1>10 DEF IInv

\* shipfile opens a file.
LEMMA OpenFileIInv ==
    ASSUME IInv, OpenFile
    PROVE  IInv'
  <1>1. /\ pc = "readdir" /\ pc' = "fread" /\ dir # << >> /\ Shipped(Head(dir))
        /\ left' = Head(dir).blocks /\ blockcount' = 0 /\ bytecount' = 0
        /\ UNCHANGED <<dir0, dir, blocktotal, bytetotal, errors, sendMutex, peerGone,
                       wire, drained, dropped, readErr, log>>
    BY DEF OpenFile, Shipped
  <1>2. TypeOK /\ Position /\ WireSoFar /\ Counts /\ ErrorCount
    BY DEF IInv
  <1>3. /\ Done' = Done /\ (NoSkips' <=> NoSkips)
        /\ BlocksOf(dir0') = BlocksOf(dir0)
        /\ Refused(dir0', Done') = Refused(dir0, Done)
    BY <1>1, SameEntry
  <1>4. /\ Done \in Nat /\ Done + 1 \in 1 .. Len(dir0) /\ dir0 \in Seq(DirEntry)
        /\ Head(dir) \in DirEntry /\ Head(dir) = dir0[Done + 1]
    BY <1>1, <1>2, NextEntry
  <1>5. TypeOK'
    <2>1. left' \in Seq(Blocks)
      BY <1>1, <1>4 DEF DirEntry
    <2> QED BY <1>1, <1>2, <1>3, <2>1 DEF TypeOK
  <1>6. Position' /\ LogTruthful'
    BY <1>1, <1>2 DEF Position, LogTruthful
  <1>7. WireSoFar'
    <2>1. (Done + 1) - 1 = Done
      BY <1>4
    <2>2. BlocksOf(dir0)[Done + 1] = BlocksOf(dir0)[Done] \o Part(Head(dir))
      BY <1>4, <2>1, BlocksUnfold
    <2>3. Part(Head(dir)) = left'
      BY <1>1 DEF Part
    <2> QED BY <1>1, <1>2, <1>3, <2>2, <2>3 DEF WireSoFar
  <1>8. Counts'
    <2> SUFFICES ASSUME NoSkips'
                 PROVE  /\ blocktotal' + 0 = Len(wire') + dropped'
                        /\ 0 = BlockSize * 0
                        /\ bytetotal' = BlockSize * blocktotal'
      BY <1>1 DEF Counts
    <2>1. blocktotal = Len(wire) + dropped /\ bytetotal = BlockSize * blocktotal
      BY <1>1, <1>2, <1>3 DEF Counts
    <2>2. blocktotal \in Nat
      BY <1>2 DEF TypeOK
    <2> QED BY <1>1, <2>1, <2>2, BlockSizeAssumption
  <1>9. ErrorCount'
    BY <1>1, <1>2, <1>3 DEF ErrorCount
  <1> QED BY <1>5, <1>6, <1>7, <1>8, <1>9 DEF IInv

\* A block is sent, or dropped with an error: it is counted either way.
LEMMA BlockIInv ==
    ASSUME IInv, SendBlock \/ SendNoMemory \/ SendFails
    PROVE  IInv'
  <1>1. /\ pc = "fread" /\ pc' = pc /\ left # << >> /\ left' = Tail(left)
        /\ blockcount' = blockcount + 1 /\ bytecount' = bytecount + BlockSize
        /\ UNCHANGED <<dir0, dir, blocktotal, bytetotal, errors, drained, readErr, log, peerGone>>
        /\ sendMutex' = sendMutex \/ sendMutex' = TRUE
    BY DEF SendBlock, CanSend, SendNoMemory, SendFails, CountBlock
  <1>2. \/ wire' = Append(wire, Head(left)) /\ dropped' = dropped
        \/ wire' = wire /\ dropped' = dropped + 1
    BY DEF SendBlock, CanSend, SendNoMemory, SendFails, CountBlock
  <1>3. TypeOK /\ Position /\ WireSoFar /\ Counts /\ ErrorCount
    BY DEF IInv
  <1>4. /\ Done' = Done /\ (NoSkips' <=> NoSkips)
        /\ BlocksOf(dir0') = BlocksOf(dir0)
        /\ Refused(dir0', Done') = Refused(dir0, Done)
    BY <1>1, SameEntry
  <1>5. /\ left \in Seq(Blocks) /\ wire \in Seq(Blocks) /\ dropped \in Nat
        /\ blockcount \in Nat /\ bytecount \in Nat /\ blocktotal \in Nat
    BY <1>3 DEF TypeOK
  <1>6. /\ Append(wire, Head(left)) \in Seq(Blocks) /\ Tail(left) \in Seq(Blocks)
        /\ Len(Append(wire, Head(left))) = Len(wire) + 1
        /\ Append(wire, Head(left)) \o Tail(left) = wire \o left
    BY <1>1, <1>5, MoveHead
  <1>7. TypeOK'
    <2>1. /\ left' \in Seq(Blocks) /\ wire' \in Seq(Blocks) /\ dropped' \in Nat
          /\ blockcount' \in Nat /\ bytecount' \in Nat /\ sendMutex' \in BOOLEAN
          /\ drained' \in Nat /\ drained' <= Len(wire')
      <3>1. left' \in Seq(Blocks) /\ wire' \in Seq(Blocks)
        BY <1>1, <1>2, <1>5, <1>6
      <3>2. dropped' \in Nat /\ blockcount' \in Nat /\ bytecount' \in Nat
        BY <1>1, <1>2, <1>5, BlockSizeAssumption
      <3>3. sendMutex' \in BOOLEAN
        BY <1>1, <1>3 DEF TypeOK
      <3>4. drained' \in Nat /\ drained' <= Len(wire')
        <4>1. drained \in Nat /\ drained <= Len(wire) /\ Len(wire) \in Nat
          BY <1>3, <1>5 DEF TypeOK
        <4>2. Len(wire') = Len(wire) \/ Len(wire') = Len(wire) + 1
          BY <1>2, <1>6
        <4> QED BY <1>1, <4>1, <4>2
      <3> QED BY <3>1, <3>2, <3>3, <3>4
    <2> QED BY <1>1, <1>3, <1>4, <2>1 DEF TypeOK
  <1>8. Position' /\ LogTruthful'
    BY <1>1, <1>3 DEF Position, LogTruthful
  <1>9. WireSoFar'
    <2> SUFFICES ASSUME dropped' = 0
                 PROVE  wire' \o left' = BlocksOf(dir0)[Done + 1]
      BY <1>1, <1>4 DEF WireSoFar
    <2>1. wire' = Append(wire, Head(left)) /\ dropped = 0
      BY <1>2, <1>5
    <2>2. wire \o left = BlocksOf(dir0)[Done + 1]
      BY <1>1, <1>3, <2>1 DEF WireSoFar
    <2> QED BY <1>1, <1>6, <2>1, <2>2
  <1>10. Counts'
    <2> SUFFICES ASSUME NoSkips'
                 PROVE  /\ blocktotal' + blockcount' = Len(wire') + dropped'
                        /\ bytecount' = BlockSize * blockcount'
                        /\ bytetotal' = BlockSize * blocktotal'
      BY <1>1 DEF Counts
    <2>1. /\ blocktotal + blockcount = Len(wire) + dropped
          /\ bytecount = BlockSize * blockcount /\ bytetotal = BlockSize * blocktotal
      BY <1>1, <1>3, <1>4 DEF Counts
    <2>2. Len(wire') + dropped' = Len(wire) + dropped + 1
      <3>1. Len(wire) \in Nat
        BY <1>5
      <3>2. \/ Len(wire') = Len(wire) + 1 /\ dropped' = dropped
            \/ Len(wire') = Len(wire) /\ dropped' = dropped + 1
        BY <1>2, <1>6
      <3>3. dropped \in Nat
        BY <1>5
      <3> QED BY <3>1, <3>2, <3>3
    <2>3. BlockSize * (blockcount + 1) = BlockSize * blockcount + BlockSize
      BY <1>5, BlockSizeAssumption
    <2>4. blocktotal' + blockcount' = Len(wire') + dropped'
      <3>1. Len(wire) \in Nat
        BY <1>5
      <3>2. blocktotal \in Nat /\ blockcount \in Nat /\ dropped \in Nat
        BY <1>5
      <3>3. blocktotal' = blocktotal /\ blockcount' = blockcount + 1
        BY <1>1
      <3> QED BY <2>1, <2>2, <3>1, <3>2, <3>3
    <2> QED BY <1>1, <2>1, <2>3, <2>4
  <1>11. ErrorCount'
    BY <1>1, <1>3, <1>4 DEF ErrorCount
  <1> QED BY <1>7, <1>8, <1>9, <1>10, <1>11 DEF IInv

\* The end of a file: its counts are added to the totals.
LEMMA CloseFileIInv ==
    ASSUME IInv, CloseFile
    PROVE  IInv'
  <1>1. /\ pc = "fread" /\ pc' = "readdir" /\ left = << >> /\ dir' = Tail(dir)
        /\ blocktotal' = blocktotal + blockcount /\ bytetotal' = bytetotal + bytecount
        /\ UNCHANGED <<dir0, left, blockcount, bytecount, errors, sendMutex, peerGone,
                       wire, drained, dropped, readErr, log>>
    BY DEF CloseFile
  <1>2. TypeOK /\ Position /\ WireSoFar /\ Counts /\ ErrorCount
    BY DEF IInv
  <1>3. dir # << >> /\ Shipped(Head(dir))
    BY <1>1, <1>2 DEF Position
  <1>4. /\ Done \in Nat /\ Done' = Done + 1
        /\ dir0' \in Dirs /\ dir' \in Seq(DirEntry) /\ Len(dir') <= Len(dir0')
        /\ \A k \in 1 .. Len(dir') : dir'[k] = dir0'[Done' + k]
        /\ NoSkips' => NoSkips
        /\ BlocksOf(dir0')[Done'] = BlocksOf(dir0)[Done + 1]
        /\ Cardinality(Refused(dir0, Done)) \in Nat
        /\ Cardinality(Refused(dir0', Done')) =
             Cardinality(Refused(dir0, Done)) + (IF NotOpened(Head(dir)) THEN 1 ELSE 0)
    BY <1>1, <1>2, <1>3, OneEntryMore
  <1>5. /\ blocktotal \in Nat /\ bytetotal \in Nat /\ blockcount \in Nat
        /\ bytecount \in Nat /\ wire \in Seq(Blocks)
    BY <1>2 DEF TypeOK
  <1>6. TypeOK'
    <2>1. blocktotal' \in Nat /\ bytetotal' \in Nat
      BY <1>1, <1>5
    <2> QED BY <1>1, <1>2, <1>4, <2>1 DEF TypeOK
  <1>7. Position' /\ LogTruthful'
    BY <1>1, <1>2 DEF Position, LogTruthful
  <1>8. WireSoFar'
    <2>1. wire \o left = wire
      BY <1>1, <1>5, ConcatEmptySeq
    <2> QED BY <1>1, <1>2, <1>4, <2>1 DEF WireSoFar
  <1>9. Counts'
    <2> SUFFICES ASSUME NoSkips'
                 PROVE  blocktotal' = Len(wire') + dropped' /\ bytetotal' = BlockSize * blocktotal'
      BY <1>1 DEF Counts
    <2>1. /\ blocktotal + blockcount = Len(wire) + dropped
          /\ bytecount = BlockSize * blockcount /\ bytetotal = BlockSize * blocktotal
      BY <1>1, <1>2, <1>4 DEF Counts
    <2>2. BlockSize * (blocktotal + blockcount) = BlockSize * blocktotal + BlockSize * blockcount
      BY <1>5, BlockSizeAssumption
    <2> QED BY <1>1, <2>1, <2>2
  <1>10. ErrorCount'
    <2>1. ~NotOpened(Head(dir))
      BY <1>3 DEF Shipped, NotOpened
    <2> QED BY <1>1, <1>2, <1>4, <2>1 DEF ErrorCount
  <1> QED BY <1>6, <1>7, <1>8, <1>9, <1>10 DEF IInv

\* The child writes its log line and exits.
LEMMA LogAndExitIInv ==
    ASSUME IInv, LogAndExit
    PROVE  IInv'
  <1>1. PICK err \in BOOLEAN :
            /\ readErr' = err
            /\ errors' = errors + (IF err THEN 1 ELSE 0)
            /\ log' = hipftlog(blocktotal, bytetotal, errors')
    BY DEF LogAndExit
  <1>2. /\ pc = "readdir" /\ pc' = "exited"
        /\ UNCHANGED <<dir0, dir, left, blockcount, bytecount, blocktotal, bytetotal,
                       sendMutex, peerGone, wire, drained, dropped>>
    BY DEF LogAndExit
  <1>3. TypeOK /\ Counts /\ ErrorCount
    BY DEF IInv
  <1>4. /\ Done' = Done /\ (NoSkips' <=> NoSkips)
        /\ Refused(dir0', Done') = Refused(dir0, Done)
    BY <1>2, SameEntry
  <1>5. TypeOK'
    <2>1. errors' \in Nat /\ readErr' \in BOOLEAN
      BY <1>1, <1>3 DEF TypeOK
    <2> QED BY <1>2, <1>3, <1>4, <2>1 DEF TypeOK
  <1>6. Position' /\ WireSoFar' /\ Counts' /\ ErrorCount'
    BY <1>2 DEF Position, WireSoFar, Counts, ErrorCount
  <1>7. LogTruthful'
    <2>1. log'.blocks = blocktotal /\ log'.bytes = bytetotal /\ log'.errors = errors'
      BY <1>1 DEF hipftlog
    <2>2. errors' = Cardinality(Refused(dir0', Done')) + IF readErr' THEN 1 ELSE 0
      BY <1>1, <1>2, <1>3, <1>4 DEF ErrorCount
    <2>3. NoSkips' => blocktotal = Len(wire') + dropped' /\ bytetotal = BlockSize * blocktotal
      BY <1>2, <1>3, <1>4 DEF Counts
    <2> QED BY <2>1, <2>2, <2>3 DEF LogTruthful
  <1> QED BY <1>5, <1>6, <1>7 DEF IInv

\* Every step of the child, and a peer that reads or resets, keeps the invariant.
LEMMA StepIInv ==
    ASSUME IInv, [Next]_svars
    PROVE  IInv'
  <1>1. CASE Opendir \/ PeerReset \/ Drain \/ SendKilled \/ UNCHANGED svars
    <2>1. CASE Drain
      <3>1. /\ UNCHANGED <<dir0, dir, left, blockcount, bytecount, blocktotal, bytetotal,
                          errors, sendMutex, wire, dropped, readErr, log>>
            /\ drained < Len(wire) /\ drained' = drained + 1
            /\ peerGone' = peerGone /\ pc' = pc
        BY <2>1 DEF Drain
      <3> QED BY <3>1, QuietIInv DEF Quiet
    <2>2. CASE Opendir \/ PeerReset \/ SendKilled \/ UNCHANGED svars
      <3>1. /\ UNCHANGED <<dir0, dir, left, blockcount, bytecount, blocktotal, bytetotal,
                          errors, sendMutex, wire, drained, dropped, readErr, log>>
            /\ peerGone' = peerGone \/ peerGone' = TRUE
            /\ \/ pc' = pc
               \/ pc = "opendir" /\ pc' = "readdir"
               \/ pc # "exited" /\ pc' \in {"exited", "killed"}
        BY <2>2 DEF Opendir, PeerReset, SendKilled, svars
      <3> QED BY <3>1, QuietIInv DEF Quiet
    <2> QED BY <1>1, <2>1, <2>2
  <1>2. CASE SkipEntry \/ NotShipped
    BY <1>2, UnshippedIInv
  <1>3. CASE OpenFile
    BY <1>3, OpenFileIInv
  <1>4. CASE SendBlock \/ SendNoMemory \/ SendFails
    BY <1>4, BlockIInv
  <1>5. CASE CloseFile
    BY <1>5, CloseFileIInv
  <1>6. CASE LogAndExit
    BY <1>6, LogAndExitIInv
  <1> QED BY <1>1, <1>2, <1>3, <1>4, <1>5, <1>6 DEF Next, Child

\* The wire only grows, a block at a time, and only while the child runs.
LEMMA WireGrows ==
    ASSUME IInv, Child \/ SendNoMemory
    PROVE  /\ pc \in {"opendir", "readdir", "fread"}
           /\ \/ wire' = wire
              \/ \E b \in Blocks : wire' = Append(wire, b)
  <1>1. pc \in {"opendir", "readdir", "fread"}
    BY DEF Child, Opendir, SkipEntry, NotShipped, OpenFile, SendBlock, CanSend, SendFails, SendKilled,
           CloseFile, LogAndExit, SendNoMemory
  <1>2. CASE SendBlock
    <2>1. Head(left) \in Blocks
      BY <1>2 DEF SendBlock, CanSend, IInv, TypeOK
    <2> QED BY <1>1, <1>2, <2>1 DEF SendBlock
  <1>3. CASE ~SendBlock
    <2>1. wire' = wire
      BY <1>3 DEF Child, Opendir, SkipEntry, NotShipped, OpenFile, SendFails, SendKilled,
                  CloseFile, LogAndExit, SendNoMemory
    <2> QED BY <1>1, <2>1
  <1> QED BY <1>2, <1>3

\* The invariant holds in every reachable state.
THEOREM Invariance == Spec => []IInv
  <1>1. IInv /\ [Next]_svars => IInv'
    BY StepIInv
  <1> QED BY <1>1, InitIInv, PTL DEF Spec

\* The child's state keeps its types, and what readdir has still to return
\* stays the end of the directory opendir found.
THEOREM TypeCorrect == Spec => []TypeOK
  <1>1. IInv => TypeOK
    BY DEF IInv
  <1> QED BY <1>1, Invariance, PTL

\* Between two files, with no send dropped and no symbolic link read, the wire
\* holds exactly the full blocks of the entries read so far, once each and in
\* readdir order (run_file_transfer, shipfile), for directories of every length
\* and sockets of every size.
THEOREM Faithful == Spec => []StreamIsFiles
  <1>1. IInv => StreamIsFiles
    BY DEF IInv, WireSoFar, StreamIsFiles
  <1> QED BY <1>1, Invariance, PTL

\* The line of hipftlog counts the messages sent or dropped, their bytes and
\* the failed opens correctly, whenever every selected entry could be opened;
\* its error count is right in every case.
THEOREM Truthful == Spec => []LogTruthful
  <1>1. IInv => LogTruthful
    BY DEF IInv
  <1> QED BY <1>1, Invariance, PTL
===========================================================================
