----------------------------- MODULE CobsProofs -----------------------------
(***************************************************************************)
(* Lemmas about the operators of Cobs, for every MaxMarker >= 3 and byte   *)
(* strings of every length.  The functions of cobs.c are recursive scans;  *)
(* ForwardRecursion shows that each satisfies its recursion, and           *)
(* BackwardInduction reasons about it from the end of the string.          *)
(***************************************************************************)
EXTENDS Cobs, WellFoundedInduction, SequenceTheorems, TLAPS

---------------------------------------------------------------------------
(* Induction over the natural numbers and recursion over positions, stated *)
(* of sets: the provers cannot instantiate the library's theorems that     *)
(* take an operator.                                                       *)

\* Every non-empty set of natural numbers has a least element.
LEMMA LeastNat ==
    ASSUME NEW T \in SUBSET Nat, T # {}
    PROVE  \E m \in T : \A k \in T : m <= k
  <1> DEFINE R == OpToRel(<, Nat)
  <1>1. IsWellFoundedOn(R, Nat)
    BY NatLessThanWellFounded
  <1>2. \A x, y \in Nat : <<x, y>> \notin R => ~(x < y)
    BY DEF OpToRel
  <1> HIDE DEF R
  <1>3. PICK m \in T : \A y \in T : <<y, m>> \notin R
    BY <1>1, WFMin
  <1>4. \A y \in T : ~(y < m)
    BY <1>2, <1>3
  <1>5. \A y \in T : m <= y
    BY <1>4
  <1> QED BY <1>5

\* Induction over the natural numbers: a set that holds 0 and is closed under
\* successor holds them all.
LEMMA NatSetInduction ==
    ASSUME NEW S, 0 \in S, \A n \in Nat : n \in S => n + 1 \in S
    PROVE  Nat \subseteq S
  <1> SUFFICES ASSUME Nat \ S # {} PROVE FALSE
    OBVIOUS
  <1>1. PICK m \in Nat \ S : \A k \in Nat \ S : m <= k
    BY LeastNat
  <1>2. m # 0 /\ m - 1 \in Nat
    BY <1>1
  <1> QED BY <1>1, <1>2

\* Induction from the end of an array of len bytes towards its start.
LEMMA BackwardInduction ==
    ASSUME NEW len \in Nat, NEW S,
           \A p \in Nat \ {0} : p > len => p \in S,
           \A p \in 1 .. len : (\A q \in Nat \ {0} : q > p => q \in S) => p \in S
    PROVE  Nat \ {0} \subseteq S
  <1> DEFINE T == {n \in Nat : \A p \in Nat \ {0} : p + n > len => p \in S}
  <1>1. 0 \in T
    OBVIOUS
  <1>2. ASSUME NEW n \in Nat, n \in T
        PROVE  n + 1 \in T
    <2> SUFFICES ASSUME NEW p \in Nat \ {0}, p + (n + 1) > len
                 PROVE  p \in S
      OBVIOUS
    <2>1. \A q \in Nat \ {0} : q > p => q \in S
      BY <1>2
    <2> QED BY <2>1
  <1>3. len \in T
    <2> HIDE DEF T
    <2> QED BY <1>1, <1>2, NatSetInduction
  <1> QED BY <1>3

\* Data of a recursion on D: step says how the value at x follows from that at
\* next[x], whose rank is higher; beyond rank len the values are those of base.
ScanData(D, V, len, rank, base, next, step) ==
    /\ len \in Nat
    /\ rank \in [D -> Nat] /\ base \in [D -> V]
    /\ next \in [D -> D] /\ step \in [D \X V -> V]
    /\ \A x \in D : rank[x] <= len => rank[next[x]] > rank[x]

\* f is a function so defined.
IsScan(f, D, V, len, rank, base, next, step) ==
    /\ f \in [D -> V]
    /\ \A x \in D : f[x] = IF rank[x] > len THEN base[x] ELSE step[<<x, f[next[x]]>>]

\* A recursion whose rank grows up to a bound defines a function: each scan of
\* an array in cobs.c is one.
LEMMA ForwardRecursion ==
    ASSUME NEW D, NEW V, NEW len, NEW rank, NEW base, NEW next, NEW step,
           ScanData(D, V, len, rank, base, next, step)
    PROVE  \E f : IsScan(f, D, V, len, rank, base, next, step)
  <1> DEFINE Val(f, x) == IF rank[x] > len THEN base[x] ELSE step[<<x, f[next[x]]>>]
             S == {n \in Nat : \E f \in [D -> V] : \A x \in D :
                                  rank[x] + n > len => f[x] = Val(f, x)}
  <1>0. /\ len \in Nat
        /\ rank \in [D -> Nat] /\ base \in [D -> V]
        /\ next \in [D -> D] /\ step \in [D \X V -> V]
        /\ \A x \in D : rank[x] <= len => rank[next[x]] > rank[x]
    BY DEF ScanData
  <1>1. 0 \in S
    <2>1. \A x \in D : rank[x] + 0 > len => base[x] = Val(base, x)
      BY <1>0
    <2> QED BY <1>0, <2>1
  <1>2. ASSUME NEW n \in Nat, n \in S
        PROVE  n + 1 \in S
    <2>1. PICK f \in [D -> V] : \A x \in D : rank[x] + n > len => f[x] = Val(f, x)
      BY <1>2
    <2> DEFINE g == [x \in D |-> IF rank[x] + n > len THEN f[x] ELSE Val(f, x)]
    <2>2. \A x \in D : Val(f, x) \in V
      BY <1>0
    <2>3. g \in [D -> V]
      BY <2>2
    <2>4. ASSUME NEW x \in D, rank[x] + (n + 1) > len
          PROVE  g[x] = Val(g, x)
      <3>1. g[x] = Val(f, x)
        BY <2>1
      <3>2. CASE rank[x] > len
        BY <3>1, <3>2
      <3>3. CASE rank[x] <= len
        <4>1. rank[next[x]] + n > len /\ next[x] \in D
          BY <1>0, <2>4, <3>3
        <4>2. g[next[x]] = f[next[x]]
          BY <4>1
        <4> QED BY <3>1, <3>3, <4>2
      <3> QED BY <1>0, <3>2, <3>3
    <2>5. \E h \in [D -> V] : \A x \in D : rank[x] + (n + 1) > len => h[x] = Val(h, x)
      <3> HIDE DEF g, Val
      <3> QED BY <2>3, <2>4
    <2> QED BY <2>5
  <1>3. len + 1 \in S
    <2> HIDE DEF S
    <2> QED BY <1>0, <1>1, <1>2, NatSetInduction
  <1>4. PICK f \in [D -> V] : \A x \in D : rank[x] + (len + 1) > len => f[x] = Val(f, x)
    BY <1>3
  <1>5. \A x \in D : f[x] = Val(f, x)
    BY <1>0, <1>4
  <1>6. IsScan(f, D, V, len, rank, base, next, step)
    BY <1>5 DEF IsScan
  <1> QED BY <1>6

---------------------------------------------------------------------------
(*************************************************************************)
(* The locals of cobs_encode: what each step does to them.               *)
(*************************************************************************)

\* The locals of cobs_encode; marker is 0xFF only on entry to PlaceMarker.
Locals == [dst : Seq(0 .. Unwritten), curr : Nat, marker : 1 .. MaxMarker]

\* Only the reserved slot may hold something that is not a non-zero byte.
OnlyHole(e) ==
    /\ e.curr \in 1 .. Len(e.dst)
    /\ \A p \in 1 .. Len(e.dst) : p # e.curr => e.dst[p] \in 1 .. MaxMarker

\* What PlaceMarker (cobs.c:6) does to the destination: it grows by one byte
\* and the hole is now its last byte.
LEMMA PlaceMarkerShape ==
    ASSUME NEW e \in Locals, OnlyHole(e), NEW r, r = PlaceMarker(e)
    PROVE  /\ r \in Locals
           /\ OnlyHole(r)
           /\ Len(r.dst) = Len(e.dst) + 1
           /\ r.curr = Len(e.dst) + 1
           /\ r.marker = 1
  <1> DEFINE w == [e.dst EXCEPT ![e.curr] = e.marker]
  <1>0. e.dst \in Seq(0 .. Unwritten) /\ e.marker \in 1 .. MaxMarker /\ e.curr \in 1 .. Len(e.dst)
    BY DEF Locals, OnlyHole
  <1>1. w \in Seq(0 .. Unwritten) /\ Len(w) = Len(e.dst)
    BY <1>0, MaxMarkerAssumption DEF Unwritten
  <1>2. /\ r.dst = Append(w, Unwritten)
        /\ r.curr = Len(e.dst) + 1
        /\ r.marker = 1
        /\ r = [dst |-> r.dst, curr |-> r.curr, marker |-> r.marker]
    BY DEF PlaceMarker
  <1>3. r.dst \in Seq(0 .. Unwritten) /\ Len(r.dst) = Len(e.dst) + 1
    BY <1>1, <1>2, MaxMarkerAssumption DEF Unwritten
  <1>4. ASSUME NEW p \in 1 .. Len(e.dst)
        PROVE  r.dst[p] \in 1 .. MaxMarker
    <2>1. r.dst[p] = w[p]
      BY <1>1, <1>2
    <2>2. CASE p = e.curr
      BY <1>0, <2>1, <2>2
    <2>3. CASE p # e.curr
      BY <1>0, <2>1, <2>3 DEF OnlyHole
    <2> QED BY <2>2, <2>3
  <1>5. r \in Locals
    <2>1. r.curr \in Nat /\ r.marker \in 1 .. MaxMarker
      BY <1>0, <1>2, MaxMarkerAssumption
    <2> QED BY <1>2, <1>3, <2>1 DEF Locals
  <1>6. OnlyHole(r)
    <2> SUFFICES ASSUME NEW p \in 1 .. Len(r.dst), p # r.curr
                 PROVE  r.dst[p] \in 1 .. MaxMarker
      BY <1>0, <1>2, <1>3, SMTT(30) DEF OnlyHole
    <2>1. p \in 1 .. Len(e.dst)
      BY <1>0, <1>2, <1>3
    <2> QED BY <1>4, <2>1
  <1> QED BY <1>2, <1>3, <1>5, <1>6

\* What copying a data byte (cobs.c:19-20) does: one byte more, the hole stays.
LEMMA CopyShape ==
    ASSUME NEW e \in Locals, OnlyHole(e), e.marker < MaxMarker,
           NEW b \in 1 .. MaxMarker,
           NEW r, r = CopyByte(e, b)
    PROVE  /\ r \in Locals
           /\ OnlyHole(r)
           /\ Len(r.dst) = Len(e.dst) + 1
           /\ r.curr = e.curr
           /\ r.marker = e.marker + 1
  <1>0. e.dst \in Seq(0 .. Unwritten) /\ e.marker \in 1 .. MaxMarker /\ e.curr \in 1 .. Len(e.dst)
    BY DEF Locals, OnlyHole
  <1>1. /\ r.dst = Append(e.dst, b)
        /\ r.curr = e.curr
        /\ r.marker = e.marker + 1
        /\ r = [dst |-> r.dst, curr |-> r.curr, marker |-> r.marker]
    BY DEF CopyByte
  <1>2. r.dst \in Seq(0 .. Unwritten) /\ Len(r.dst) = Len(e.dst) + 1
    BY <1>0, <1>1, MaxMarkerAssumption DEF Unwritten
  <1>3. r \in Locals
    <2>1. r.curr \in Nat /\ r.marker \in 1 .. MaxMarker
      BY <1>0, <1>1, MaxMarkerAssumption
    <2> QED BY <1>1, <1>2, <2>1 DEF Locals
  <1>4. OnlyHole(r)
    <2>1. ASSUME NEW p \in 1 .. Len(r.dst), p # r.curr
          PROVE  r.dst[p] \in 1 .. MaxMarker
      <3>1. CASE p = Len(e.dst) + 1
        BY <1>0, <1>1, <3>1
      <3>2. CASE p \in 1 .. Len(e.dst)
        <4>1. r.dst[p] = e.dst[p]
          BY <1>0, <1>1, <3>2
        <4> QED BY <1>1, <2>1, <3>2, <4>1 DEF OnlyHole
      <3> QED BY <1>0, <1>2, <3>1, <3>2
    <2> QED BY <1>0, <1>1, <1>2, <2>1 DEF OnlyHole
  <1> QED BY <1>1, <1>2, <1>3, <1>4

\* One iteration of the loop keeps the shape; LoopInv's arithmetic follows.
LEMMA EncStepShape ==
    ASSUME NEW e \in Locals, OnlyHole(e), e.marker < MaxMarker,
           e.marker = Len(e.dst) - e.curr + 1,
           NEW b \in Byte,
           NEW r, r = EncStep(e, b)
    PROVE  /\ r \in Locals
           /\ OnlyHole(r)
           /\ r.marker < MaxMarker
           /\ r.marker = Len(r.dst) - r.curr + 1
           /\ \/ /\ b # SPECIAL_CHAR /\ e.marker < FullBlock
                 /\ Len(r.dst) = Len(e.dst) + 1 /\ r.marker = e.marker + 1
              \/ /\ b = SPECIAL_CHAR
                 /\ Len(r.dst) = Len(e.dst) + 1 /\ r.marker = 1
              \/ /\ b # SPECIAL_CHAR /\ e.marker = FullBlock
                 /\ Len(r.dst) = Len(e.dst) + 2 /\ r.marker = 1
  <1>0. /\ Len(e.dst) \in Nat /\ e.curr \in Nat /\ e.marker \in Nat
        /\ MaxMarker \in Nat /\ MaxMarker >= 3
    BY MaxMarkerAssumption DEF Locals, OnlyHole
  <1>1. CASE b = SPECIAL_CHAR
    <2>1. r = PlaceMarker(e)
      BY <1>1 DEF EncStep
    <2> QED BY <1>0, <1>1, <2>1, PlaceMarkerShape
  <1>2. CASE b # SPECIAL_CHAR
    <2> DEFINE f == CopyByte(e, b)
    <2>1. b \in 1 .. MaxMarker
      BY <1>2, MaxMarkerAssumption DEF Byte, SPECIAL_CHAR
    <2>2. /\ f \in Locals /\ OnlyHole(f) /\ Len(f.dst) = Len(e.dst) + 1
          /\ f.curr = e.curr /\ f.marker = e.marker + 1
      BY <2>1, CopyShape
    <2>3. r = IF f.marker = MaxMarker THEN PlaceMarker(f) ELSE f
      BY <1>2 DEF EncStep
    <2> HIDE DEF f
    <2>4. CASE f.marker = MaxMarker
      <3>1. r = PlaceMarker(f)
        BY <2>3, <2>4
      <3>2. r \in Locals /\ OnlyHole(r) /\ Len(r.dst) = Len(f.dst) + 1
            /\ r.curr = Len(f.dst) + 1 /\ r.marker = 1
        BY <2>2, <3>1, PlaceMarkerShape
      <3> QED BY <1>0, <1>2, <2>2, <2>4, <3>2 DEF FullBlock
    <2>5. CASE f.marker # MaxMarker
      <3>1. r = f
        BY <2>3, <2>5
      <3>2. /\ r \in Locals /\ OnlyHole(r) /\ Len(r.dst) = Len(e.dst) + 1
            /\ r.curr = e.curr /\ r.marker = e.marker + 1
        BY <2>2, <3>1
      <3>3. r.marker < MaxMarker /\ e.marker < FullBlock
        BY <1>0, <2>5, <3>1, <3>2 DEF FullBlock
      <3>4. r.marker = Len(r.dst) - r.curr + 1
        BY <1>0, <3>2
      <3> QED BY <1>2, <3>2, <3>3, <3>4
    <2> QED BY <2>4, <2>5
  <1> QED BY <1>1, <1>2

\* What the code after the loop (cobs.c:26-29) returns.
LEMMA EncFinishShape ==
    ASSUME NEW e \in Locals, OnlyHole(e), e.marker < MaxMarker,
           e.marker = Len(e.dst) - e.curr + 1,
           NEW r, r = EncFinish(e)
    PROVE  /\ r \in Locals
           /\ r.curr = Len(r.dst)
           /\ r.marker = 1
           /\ e.marker = 1 => Len(r.dst) = Len(e.dst)
           /\ e.marker # 1 => Len(r.dst) = Len(e.dst) + 1
           /\ r.curr \in 1 .. Len(r.dst)
           /\ r.dst[r.curr] = SPECIAL_CHAR
           /\ \A p \in 1 .. Len(r.dst) : p # r.curr => r.dst[p] \in 1 .. MaxMarker
  <1> DEFINE f == IF e.marker # 1 THEN PlaceMarker(e) ELSE e
  <1>0. /\ Len(e.dst) \in Nat /\ e.curr \in Nat /\ e.marker \in Nat
        /\ MaxMarker \in Nat /\ MaxMarker >= 3
    BY MaxMarkerAssumption DEF Locals, OnlyHole
  <1>1. /\ f \in Locals /\ OnlyHole(f) /\ f.curr = Len(f.dst) /\ f.marker = 1
        /\ e.marker = 1 => Len(f.dst) = Len(e.dst)
        /\ e.marker # 1 => Len(f.dst) = Len(e.dst) + 1
    <2>1. CASE e.marker = 1
      <3>1. f = e
        BY <2>1
      <3> HIDE DEF f
      <3>2. e.curr = Len(e.dst)
        BY <1>0, <2>1
      <3> QED BY <2>1, <3>1, <3>2, Zenon
    <2>2. CASE e.marker # 1
      <3>1. f = PlaceMarker(e)
        BY <2>2
      <3> HIDE DEF f
      <3> QED BY <1>0, <2>2, <3>1, PlaceMarkerShape
    <2> QED BY <2>1, <2>2
  <1>2. r = [f EXCEPT !.dst = [@ EXCEPT ![f.curr] = SPECIAL_CHAR]]
    BY DEF EncFinish
  <1> HIDE DEF f
  <1>3. f.dst \in Seq(0 .. Unwritten) /\ f.curr \in 1 .. Len(f.dst) /\ 0 \in 0 .. Unwritten
    BY <1>1, MaxMarkerAssumption DEF Locals, OnlyHole, Unwritten
  <1>4. /\ r.dst = [f.dst EXCEPT ![f.curr] = SPECIAL_CHAR]
        /\ r.curr = f.curr
        /\ r.marker = f.marker
        /\ r = [dst |-> r.dst, curr |-> r.curr, marker |-> r.marker]
    BY <1>1, <1>2 DEF Locals
  <1>5. r.dst \in Seq(0 .. Unwritten) /\ Len(r.dst) = Len(f.dst)
    BY <1>3, <1>4 DEF SPECIAL_CHAR
  <1>6. r \in Locals
    <2>1. r.curr \in Nat /\ r.marker \in 1 .. MaxMarker
      BY <1>1, <1>4 DEF Locals
    <2> QED BY <1>4, <1>5, <2>1 DEF Locals
  <1>7. r.dst[r.curr] = SPECIAL_CHAR
    BY <1>3, <1>4
  <1>8. ASSUME NEW p \in 1 .. Len(r.dst), p # r.curr
        PROVE  r.dst[p] \in 1 .. MaxMarker
    <2>1. r.dst[p] = f.dst[p]
      BY <1>3, <1>4, <1>5, <1>8
    <2> QED BY <1>1, <1>4, <1>5, <1>8, <2>1 DEF OnlyHole
  <1> QED BY <1>1, <1>3, <1>4, <1>5, <1>6, <1>7, <1>8

---------------------------------------------------------------------------
(*************************************************************************)
(* Each scan of cobs.c satisfies the recursion that defines it (ForwardRecursion).*)
(*************************************************************************)

\* Where cobs_decode finds the marker after the one at p (cobs.c:70-79).
NextOffset(src, p) == p + IF src[p] = SPECIAL_CHAR THEN 1 ELSE src[p]

\* What cobs_decode writes for the block whose marker is at p.
DecodedBlock(src, len, p) ==
    SubSeq(src, p + 1, p + src[p] - 1)
      \o (IF src[p] < MaxMarker /\ NextOffset(src, p) <= len
          THEN <<SPECIAL_CHAR>> ELSE << >>)

\* cobs_decode satisfies its recursion: past the end nothing is written, and a
\* block is followed by what the rest of the string decodes to.
LEMMA DecodeUnfold ==
    ASSUME NEW src \in Seq(Byte), NEW len \in 0 .. Len(src)
    PROVE  \E from : /\ cobs_decode(src, len) = from[1]
                     /\ \A p \in Offset : p > len => from[p] = << >>
                     /\ \A p \in 1 .. len :
                          from[p] = DecodedBlock(src, len, p) \o from[NextOffset(src, p)]
  <1> DEFINE U == {src[j] : j \in Nat} \cup {0}
             V == Seq(U)
             Body(p, f) == IF p > len THEN << >>
                           ELSE DecodedBlock(src, len, p) \o f[NextOffset(src, p)]
             Is(f) == f = [p \in Offset |-> Body(p, f)]
             rank == [p \in Offset |-> p]
             base == [p \in Offset |-> << >>]
             next == [p \in Offset |-> IF p <= len THEN NextOffset(src, p) ELSE p]
             step == [y \in Offset \X V |-> IF y[1] <= len THEN DecodedBlock(src, len, y[1]) \o y[2] ELSE << >>]
  <1>1. ASSUME NEW p \in Offset, p <= len
        PROVE  /\ NextOffset(src, p) \in Offset /\ NextOffset(src, p) > p
               /\ DecodedBlock(src, len, p) \in V
    <2>1. src[p] \in Nat
      <3>1. p \in 1 .. Len(src)
        BY <1>1 DEF Offset
      <3> QED BY <3>1, MaxMarkerAssumption DEF Byte
    <2>2. NextOffset(src, p) \in Offset /\ NextOffset(src, p) > p
      BY <2>1 DEF NextOffset, Offset, SPECIAL_CHAR
    <2>3. SubSeq(src, p + 1, p + src[p] - 1) \in V
      BY <2>1 DEF Offset
    <2>4. (IF src[p] < MaxMarker /\ NextOffset(src, p) <= len
          THEN <<SPECIAL_CHAR>> ELSE << >>) \in V
      <3>1. SPECIAL_CHAR \in U
        BY DEF SPECIAL_CHAR
      <3> HIDE DEF U
      <3>2. <<SPECIAL_CHAR>> \in V /\ << >> \in V
        BY <3>1
      <3> HIDE DEF V
      <3> QED BY <3>2
    <2> HIDE DEF U
    <2> QED BY <2>2, <2>3, <2>4 DEF DecodedBlock
  <1>2. ScanData(Offset, V, len, rank, base, next, step)
    <2>1. base \in [Offset -> V] /\ rank \in [Offset -> Nat]
      BY DEF Offset
    <2>2. next \in [Offset -> Offset] /\ \A p \in Offset : rank[p] <= len => rank[next[p]] > rank[p]
      BY <1>1
    <2>3. step \in [Offset \X V -> V]
      <3> HIDE DEF U
      <3> QED BY <1>1
    <2> HIDE DEF V, rank, base, next, step
    <2> QED BY <2>1, <2>2, <2>3 DEF ScanData
  <1>3. PICK f : IsScan(f, Offset, V, len, rank, base, next, step)
    <2> HIDE DEF V, rank, base, next, step
    <2> QED BY <1>2, ForwardRecursion
  <1>4. f \in [Offset -> V]
    BY <1>3 DEF IsScan
  <1>5. ASSUME NEW p \in Offset
        PROVE  f[p] = Body(p, f)
    <2>1. f[p] = IF rank[p] > len THEN base[p] ELSE step[<<p, f[next[p]]>>]
      BY <1>3 DEF IsScan
    <2>2. rank[p] = p /\ base[p] = << >>
      OBVIOUS
    <2>3. CASE p > len
      BY <2>1, <2>2, <2>3
    <2>4. CASE ~(p > len)
      <3>1. p <= len
        BY <2>4 DEF Offset
      <3>2. next[p] = NextOffset(src, p) /\ f[next[p]] \in V
        BY <1>1, <1>4, <3>1
      <3>3. step[<<p, f[next[p]]>>] = DecodedBlock(src, len, p) \o f[next[p]]
        <4> HIDE DEF V, next
        <4> QED BY <3>1, <3>2
      <3> HIDE DEF V, rank, base, next, step
      <3> QED BY <2>1, <2>2, <2>4, <3>2, <3>3
    <2> QED BY <2>3, <2>4
  <1>6. Is(f)
    <2> HIDE DEF Body
    <2> QED BY <1>4, <1>5
  <1>7. Is(CHOOSE g : Is(g))
    <2> HIDE DEF Is
    <2> QED BY <1>6
  <1>8. cobs_decode(src, len) = (CHOOSE g : Is(g))[1]
    BY DEF cobs_decode, DecodedBlock, NextOffset
  <1>9. PICK r : Is(r) /\ cobs_decode(src, len) = r[1]
    <2> HIDE DEF Is
    <2> QED BY <1>7, <1>8
  <1>10. \A p \in Offset : r[p] = Body(p, r)
    <2> HIDE DEF Body
    <2> QED BY <1>9
  <1>11. \A p \in Offset : p > len => r[p] = << >>
    BY <1>10
  <1>12. \A p \in 1 .. len : r[p] = DecodedBlock(src, len, p) \o r[NextOffset(src, p)]
    <2>1. \A p \in 1 .. len : p \in Offset /\ ~(p > len)
      BY DEF Offset
    <2> QED BY <1>10, <2>1
  <1> QED BY <1>9, <1>11, <1>12

\* alt_cobs_verify satisfies its recursion over the markers.
LEMMA AltVerifyUnfold ==
    ASSUME NEW src \in Seq(Byte), NEW len \in 0 .. Len(src)
    PROVE  \E walk : /\ alt_cobs_verify(src, len)
                          <=> walk[1] /\ \A p \in 1 .. len : src[p] # SPECIAL_CHAR
                     /\ \A p \in Offset :
                          walk[p] <=> IF p > len THEN p = len + 1
                                      ELSE src[p] # 0 /\ walk[p + src[p]]
  <1> DEFINE Body(p, f) == IF p > len THEN p = len + 1 ELSE src[p] # 0 /\ f[p + src[p]]
             Is(f) == f = [p \in Offset |-> Body(p, f)]
             rank == [p \in Offset |-> p]
             base == [p \in Offset |-> p = len + 1]
             next == [p \in Offset |-> IF p <= len /\ src[p] # 0 THEN p + src[p] ELSE p + 1]
             step == [y \in Offset \X BOOLEAN |-> src[y[1]] # 0 /\ y[2]]
  <1>1. ASSUME NEW p \in Offset, p <= len, src[p] # 0
        PROVE  p + src[p] \in Offset /\ p + src[p] > p
    <2>1. p \in 1 .. Len(src)
      BY <1>1 DEF Offset
    <2>2. src[p] \in 1 .. MaxMarker
      BY <1>1, <2>1, MaxMarkerAssumption DEF Byte
    <2> QED BY <2>2, MaxMarkerAssumption DEF Offset
  <1>2. ScanData(Offset, BOOLEAN, len, rank, base, next, step)
    <2>1. base \in [Offset -> BOOLEAN] /\ rank \in [Offset -> Nat]
      BY DEF Offset
    <2>2. \A p \in Offset : p + 1 \in Offset /\ p + 1 > p
      BY DEF Offset
    <2>3. next \in [Offset -> Offset] /\ \A p \in Offset : rank[p] <= len => rank[next[p]] > rank[p]
      BY <1>1, <2>2
    <2>4. step \in [Offset \X BOOLEAN -> BOOLEAN]
      OBVIOUS
    <2> HIDE DEF rank, base, next, step
    <2> QED BY <2>1, <2>3, <2>4 DEF ScanData
  <1>3. PICK f : IsScan(f, Offset, BOOLEAN, len, rank, base, next, step)
    <2> HIDE DEF rank, base, next, step
    <2> QED BY <1>2, ForwardRecursion
  <1>4. f \in [Offset -> BOOLEAN]
    BY <1>3 DEF IsScan
  <1>5. ASSUME NEW p \in Offset
        PROVE  f[p] = Body(p, f)
    <2>1. f[p] = IF rank[p] > len THEN base[p] ELSE step[<<p, f[next[p]]>>]
      BY <1>3 DEF IsScan
    <2>2. rank[p] = p /\ base[p] = (p = len + 1)
      OBVIOUS
    <2>3. CASE p > len
      BY <2>1, <2>2, <2>3
    <2>4. CASE ~(p > len)
      <3>1. p <= len /\ p + 1 \in Offset
        BY <2>4 DEF Offset
      <3>2. f[next[p]] \in BOOLEAN
        BY <1>1, <1>4, <3>1
      <3>3. step[<<p, f[next[p]]>>] = (src[p] # 0 /\ f[next[p]])
        <4> HIDE DEF next
        <4> QED BY <3>1, <3>2
      <3>4. src[p] # 0 => next[p] = p + src[p]
        BY <3>1
      <3> HIDE DEF rank, base, next, step
      <3> QED BY <2>1, <2>2, <2>4, <3>3, <3>4
    <2> QED BY <2>3, <2>4
  <1>6. Is(f)
    <2> HIDE DEF Body
    <2> QED BY <1>4, <1>5
  <1>7. Is(CHOOSE g : Is(g))
    <2> HIDE DEF Is
    <2> QED BY <1>6
  <1>8. alt_cobs_verify(src, len)
          <=> (CHOOSE g : Is(g))[1] /\ \A p \in 1 .. len : src[p] # SPECIAL_CHAR
    BY DEF alt_cobs_verify
  <1>9. PICK r : Is(r) /\ (alt_cobs_verify(src, len)
                              <=> r[1] /\ \A p \in 1 .. len : src[p] # SPECIAL_CHAR)
    <2> HIDE DEF Is
    <2> QED BY <1>7, <1>8
  <1>10. \A p \in Offset : r[p] = Body(p, r)
    <2> HIDE DEF Body
    <2> QED BY <1>9
  <1>11. \A p \in Offset : r[p] <=> Body(p, r)
    BY <1>10
  <1> QED BY <1>9, <1>11

\* cobs_decoded_length_from_encoded satisfies its recursion over the markers of
\* a string whose first zero is at end.
LEMMA DecodedLengthUnfold ==
    ASSUME NEW src \in Seq(Byte), NEW end \in 1 .. Len(src),
           end = cobs_encoded_length_from_encoded(src),
           \A p \in 1 .. end - 1 : src[p] # SPECIAL_CHAR
    PROVE  \E sum : /\ cobs_decoded_length_from_encoded(src) = sum[1]
                    /\ \A p \in Offset :
                         sum[p] = IF p = end THEN 0
                                  ELSE IF p > end THEN -1
                                  ELSE IF sum[p + src[p]] = -1 THEN -1
                                  ELSE sum[p + src[p]]
                                         + IF src[p] = MaxMarker THEN FullBlock ELSE src[p]
  <1> DEFINE Plus(p, v) == IF v = -1 THEN -1
                           ELSE v + IF src[p] = MaxMarker THEN FullBlock ELSE src[p]
             Body(p, f) == IF p = end THEN 0 ELSE IF p > end THEN -1
                           ELSE Plus(p, f[p + src[p]])
             Is(f) == f = [p \in Offset |-> Body(p, f)]
             rank == [p \in Offset |-> p]
             base == [p \in Offset |-> IF p = end THEN 0 ELSE -1]
             next == [p \in Offset |-> IF p < end THEN p + src[p] ELSE p]
             step == [y \in Offset \X Int |-> IF y[1] < end THEN Plus(y[1], y[2]) ELSE 0]
  <1>1. ASSUME NEW p \in Offset, p < end
        PROVE  /\ p + src[p] \in Offset /\ p + src[p] > p /\ src[p] \in Int /\ FullBlock \in Int
    <2>1. p \in 1 .. Len(src) /\ p \in 1 .. end - 1
      BY <1>1 DEF Offset
    <2>2. src[p] \in 1 .. MaxMarker
      BY <1>1, <2>1, MaxMarkerAssumption DEF Byte, SPECIAL_CHAR
    <2> QED BY <2>2, MaxMarkerAssumption DEF Offset, FullBlock
  <1>2. ScanData(Offset, Int, end - 1, rank, base, next, step)
    <2>1. base \in [Offset -> Int] /\ rank \in [Offset -> Nat] /\ end - 1 \in Nat
      BY DEF Offset
    <2>2. next \in [Offset -> Offset]
      BY <1>1
    <2>3. \A p \in Offset : rank[p] <= end - 1 => rank[next[p]] > rank[p]
      <3>1. \A p \in Offset : p <= end - 1 => p < end
        BY DEF Offset
      <3> QED BY <1>1, <2>2, <3>1
    <2>4. ASSUME NEW p \in Offset, NEW v \in Int
          PROVE  (IF p < end THEN Plus(p, v) ELSE 0) \in Int
      BY <1>1
    <2>5. step \in [Offset \X Int -> Int]
      <3> HIDE DEF Plus
      <3> QED BY <2>4
    <2> HIDE DEF rank, base, next, step
    <2> QED BY <2>1, <2>2, <2>3, <2>5 DEF ScanData
  <1>3. PICK f : IsScan(f, Offset, Int, end - 1, rank, base, next, step)
    <2> HIDE DEF rank, base, next, step
    <2> QED BY <1>2, ForwardRecursion
  <1>4. f \in [Offset -> Int]
    BY <1>3 DEF IsScan
  <1>5. ASSUME NEW p \in Offset
        PROVE  f[p] = Body(p, f)
    <2>1. f[p] = IF rank[p] > end - 1 THEN base[p] ELSE step[<<p, f[next[p]]>>]
      BY <1>3 DEF IsScan
    <2>2. rank[p] = p /\ base[p] = (IF p = end THEN 0 ELSE -1)
      OBVIOUS
    <2>3. CASE p >= end
      <3>1. rank[p] > end - 1 /\ (p = end \/ p > end)
        BY <2>2, <2>3 DEF Offset
      <3> QED BY <2>1, <2>2, <3>1
    <2>4. CASE p < end
      <3>1. next[p] = p + src[p] /\ f[next[p]] \in Int
        BY <1>1, <1>4, <2>4
      <3>2. step[<<p, f[next[p]]>>] = Plus(p, f[next[p]])
        <4> HIDE DEF next, Plus
        <4> QED BY <2>4, <3>1
      <3>3. ~(rank[p] > end - 1) /\ p # end /\ ~(p > end)
        BY <2>2, <2>4 DEF Offset
      <3> HIDE DEF rank, base, next, step, Plus
      <3> QED BY <2>1, <3>1, <3>2, <3>3
    <2>5. p >= end \/ p < end
      BY DEF Offset
    <2> QED BY <2>3, <2>4, <2>5
  <1>6. Is(f)
    <2> HIDE DEF Body
    <2> QED BY <1>4, <1>5
  <1>7. Is(CHOOSE g : Is(g))
    <2> HIDE DEF Is
    <2> QED BY <1>6
  <1>8. cobs_decoded_length_from_encoded(src) = (CHOOSE g : Is(g))[1]
    BY DEF cobs_decoded_length_from_encoded
  <1>9. PICK r : Is(r) /\ cobs_decoded_length_from_encoded(src) = r[1]
    <2> HIDE DEF Is
    <2> QED BY <1>7, <1>8
  <1>10. \A p \in Offset : r[p] = Body(p, r)
    <2> HIDE DEF Body
    <2> QED BY <1>9
  <1> QED BY <1>9, <1>10

\* cobs_verify satisfies its recursion over the bytes.
LEMMA VerifyUnfold ==
    ASSUME NEW src \in Seq(Byte), NEW len \in 0 .. Len(src)
    PROVE  \E rest \in [Offset -> [Nat -> BOOLEAN]] :
             /\ cobs_verify(src, len) = rest[1][0]
             /\ \A p \in Offset, marker \in Nat : rest[p][marker] =
                  IF p > len THEN marker = 0
                  ELSE /\ src[p] # SPECIAL_CHAR
                       /\ rest[p + 1][(IF marker = 0 THEN src[p] ELSE marker) - 1]
  <1> DEFINE V == [Nat -> BOOLEAN]
             Body(p, v) == [marker \in Nat |->
                  IF p > len THEN marker = 0
                  ELSE /\ src[p] # SPECIAL_CHAR
                       /\ v[(IF marker = 0 THEN src[p] ELSE marker) - 1]]
             Is(f) == f = [p \in Offset |-> Body(p, f[p + 1])]
             rank == [p \in Offset |-> p]
             base == [p \in Offset |-> [marker \in Nat |-> marker = 0]]
             next == [p \in Offset |-> p + 1]
             step == [y \in Offset \X V |-> Body(y[1], y[2])]
  <1>1. ScanData(Offset, V, len, rank, base, next, step)
    <2>1. /\ base \in [Offset -> V] /\ next \in [Offset -> Offset]
          /\ rank \in [Offset -> Nat]
          /\ \A p \in Offset : rank[p] <= len => rank[next[p]] > rank[p]
      BY DEF Offset
    <2>2. step \in [Offset \X V -> V]
      OBVIOUS
    <2> HIDE DEF V, rank, base, next, step
    <2> QED BY <2>1, <2>2 DEF ScanData
  <1>2. PICK f : IsScan(f, Offset, V, len, rank, base, next, step)
    <2> HIDE DEF V, rank, base, next, step
    <2> QED BY <1>1, ForwardRecursion
  <1>3. f \in [Offset -> V]
    BY <1>2 DEF IsScan
  <1>4. ASSUME NEW p \in Offset
        PROVE  f[p] = Body(p, f[p + 1])
    <2>1. /\ p + 1 \in Offset /\ f[p + 1] \in V
          /\ rank[p] = p /\ next[p] = p + 1 
          /\ base[p] = [marker \in Nat |-> marker = 0]
      BY <1>3 DEF Offset
    <2>2. step[<<p, f[p + 1]>>] = Body(p, f[p + 1])
      <3> HIDE DEF Body, V
      <3> QED BY <2>1
    <2>3. f[p] = IF rank[p] > len THEN base[p] ELSE step[<<p, f[next[p]]>>]
      BY <1>2 DEF IsScan
    <2>4. CASE p > len
      BY <2>1, <2>3, <2>4
    <2>5. CASE ~(p > len)
      <3> HIDE DEF Body, V, rank, next, base, step
      <3> QED BY <2>1, <2>2, <2>3, <2>5
    <2> QED BY <2>4, <2>5
  <1>5. Is(f)
    <2> HIDE DEF Body
    <2> QED BY <1>3, <1>4
  <1>6. Is(CHOOSE g : Is(g))
    <2> HIDE DEF Is
    <2> QED BY <1>5
  <1>7. cobs_verify(src, len) = (CHOOSE g : Is(g))[1][0]
    BY DEF cobs_verify
  <1>8. PICK r : Is(r) /\ cobs_verify(src, len) = r[1][0]
    <2> HIDE DEF Is
    <2> QED BY <1>6, <1>7
  <1>9. \A p \in Offset : r[p] = Body(p, r[p + 1])
    <2> HIDE DEF Body
    <2> QED BY <1>8
  <1>10. r \in [Offset -> V]
    <2>1. \A p, v : Body(p, v) \in V
      OBVIOUS
    <2>2. r = [p \in Offset |-> r[p]]
      <3> HIDE DEF Body
      <3> QED BY <1>8
    <2> HIDE DEF Body, V
    <2> QED BY <1>9, <2>1, <2>2
  <1>11. ASSUME NEW p \in Offset, NEW marker \in Nat
         PROVE  r[p][marker] =
                  IF p > len THEN marker = 0
                  ELSE /\ src[p] # SPECIAL_CHAR
                       /\ r[p + 1][(IF marker = 0 THEN src[p] ELSE marker) - 1]
    <2>1. r[p][marker] = Body(p, r[p + 1])[marker]
      <3> HIDE DEF Body
      <3> QED BY <1>9
    <2> QED BY <2>1
  <1> QED BY <1>8, <1>10, <1>11

\* cobs_encoded_length_from_decoded satisfies its recursion over the bytes.
LEMMA EncodedLengthUnfold ==
    ASSUME NEW src \in Seq(Byte), NEW len \in 0 .. Len(src)
    PROVE  \E run \in [Offset -> [Nat -> Nat]] :
             /\ cobs_encoded_length_from_decoded(src, len) = len + 2 + run[1][0]
             /\ \A j \in Offset, last \in Nat : run[j][last] =
                  IF j > len THEN 0
                  ELSE IF src[j] = SPECIAL_CHAR THEN run[j + 1][0]
                  ELSE IF last + 1 >= FullBlock THEN 1 + run[j + 1][0]
                  ELSE run[j + 1][last + 1]
  <1> DEFINE V == [Nat -> Nat]
             Body(j, v) == [last \in Nat |->
                  IF j > len THEN 0
                  ELSE LET l == IF src[j] = SPECIAL_CHAR THEN 0 ELSE last + 1
                       IN  IF l >= FullBlock THEN 1 + v[0] ELSE v[l]]
             Is(f) == f = [j \in Offset |-> Body(j, f[j + 1])]
             rank == [j \in Offset |-> j]
             base == [j \in Offset |-> [last \in Nat |-> 0]]
             next == [j \in Offset |-> j + 1]
             step == [y \in Offset \X V |-> Body(y[1], y[2])]
  <1>1. ASSUME NEW j, NEW v \in V
        PROVE  Body(j, v) \in V
    <2>1. ASSUME NEW last \in Nat
          PROVE  (IF j > len THEN 0
                  ELSE LET l == IF src[j] = SPECIAL_CHAR THEN 0 ELSE last + 1
                       IN  IF l >= FullBlock THEN 1 + v[0] ELSE v[l]) \in Nat
      <3>1. v[0] \in Nat /\ v[last + 1] \in Nat
        <4>1. 0 \in Nat /\ last + 1 \in Nat
          OBVIOUS
        <4>2. v \in [Nat -> Nat]
          BY <1>1
        <4> QED BY ONLY <4>1, <4>2
      <3> HIDE DEF V
      <3> QED BY <3>1
    <2> QED BY <2>1
  <1>2. ScanData(Offset, V, len, rank, base, next, step)
    <2>1. /\ base \in [Offset -> V] /\ next \in [Offset -> Offset]
          /\ rank \in [Offset -> Nat]
          /\ \A p \in Offset : rank[p] <= len => rank[next[p]] > rank[p]
      BY DEF Offset
    <2>2. step \in [Offset \X V -> V]
      <3> HIDE DEF Body, V
      <3> QED BY <1>1
    <2> HIDE DEF V, rank, base, next, step
    <2> QED BY <2>1, <2>2 DEF ScanData
  <1>3. PICK f : IsScan(f, Offset, V, len, rank, base, next, step)
    <2> HIDE DEF V, rank, base, next, step
    <2> QED BY <1>2, ForwardRecursion
  <1>4. f \in [Offset -> V]
    BY <1>3 DEF IsScan
  <1>5. ASSUME NEW p \in Offset
        PROVE  f[p] = Body(p, f[p + 1])
    <2>1. /\ p + 1 \in Offset /\ f[p + 1] \in V
          /\ rank[p] = p /\ next[p] = p + 1
          /\ base[p] = [last \in Nat |-> 0]
      <3>1. p + 1 \in Offset
        BY DEF Offset
      <3>2. f[p + 1] \in V
        <4> HIDE DEF V
        <4> QED BY <1>4, <3>1
      <3> QED BY <3>1, <3>2
    <2>2. step[<<p, f[p + 1]>>] = Body(p, f[p + 1])
      <3> HIDE DEF Body, V
      <3> QED BY <2>1
    <2>3. f[p] = IF rank[p] > len THEN base[p] ELSE step[<<p, f[next[p]]>>]
      BY <1>3 DEF IsScan
    <2>4. CASE p > len
      BY <2>1, <2>3, <2>4
    <2>5. CASE ~(p > len)
      <3> HIDE DEF Body, V, rank, next, base, step
      <3> QED BY <2>1, <2>2, <2>3, <2>5
    <2> QED BY <2>4, <2>5
  <1>6. \E g \in [Offset -> V] : Is(g)
    <2> HIDE DEF Body, V
    <2> QED BY <1>4, <1>5
  <1>7. Is(CHOOSE g : Is(g))
    <2> HIDE DEF Is
    <2> QED BY <1>6
  <1>8. cobs_encoded_length_from_decoded(src, len) = len + 2 + (CHOOSE g : Is(g))[1][0]
    BY DEF cobs_encoded_length_from_decoded
  <1>9. PICK r : Is(r) /\ cobs_encoded_length_from_decoded(src, len) = len + 2 + r[1][0]
    <2> HIDE DEF Is
    <2> QED BY <1>7, <1>8
  <1>10. r = [j \in Offset |-> r[j]] /\ \A p \in Offset : r[p] = Body(p, r[p + 1])
    <2> HIDE DEF Body
    <2> QED BY <1>9
  <1>11. ASSUME NEW j \in Offset, NEW last \in Nat
         PROVE  r[j][last] =
                  IF j > len THEN 0
                  ELSE IF src[j] = SPECIAL_CHAR THEN r[j + 1][0]
                  ELSE IF last + 1 >= FullBlock THEN 1 + r[j + 1][0]
                  ELSE r[j + 1][last + 1]
    <2>1. r[j][last] = Body(j, r[j + 1])[last]
      <3> HIDE DEF Body
      <3> QED BY <1>10
    <2>2. ~(0 >= FullBlock)
      BY MaxMarkerAssumption DEF FullBlock
    <2> QED BY <2>1, <2>2
  <1>12. \A n \in Nat : \A j \in Offset : j + n > len => r[j] \in V
    <2> DEFINE S == {n \in Nat : \A j \in Offset : j + n > len => r[j] \in V}
    <2>1. 0 \in S
      <3>1. ASSUME NEW j \in Offset, j + 0 > len
            PROVE  r[j] \in V
        <4>1. j > len
          BY <3>1 DEF Offset
        <4>2. Body(j, r[j + 1]) = [last \in Nat |-> 0]
          BY <4>1
        <4>3. Body(j, r[j + 1]) \in V
          BY <4>2
        <4> HIDE DEF Body, V
        <4> QED BY <1>10, <4>3
      <3> QED BY <3>1
    <2>2. ASSUME NEW n \in Nat, n \in S
          PROVE  n + 1 \in S
      <3>1. ASSUME NEW j \in Offset, j + (n + 1) > len
            PROVE  r[j] \in V
        <4>1. j + 1 \in Offset /\ (j + 1) + n > len
          BY <3>1 DEF Offset
        <4>2. r[j + 1] \in V
          BY <2>2, <4>1
        <4> HIDE DEF Body, V
        <4> QED BY <1>1, <1>10, <4>2
      <3> HIDE DEF V
      <3> QED BY <3>1
    <2>3. Nat \subseteq S
      <3> HIDE DEF S
      <3> QED BY <2>1, <2>2, NatSetInduction
    <2> QED BY <2>3
  <1>13. r \in [Offset -> V]
    <2>1. \A j \in Offset : r[j] \in V
      <3>1. \A j \in Offset : j + len > len /\ len \in Nat
        BY DEF Offset
      <3> HIDE DEF V
      <3> QED BY <1>12, <3>1
    <2> HIDE DEF V
    <2> QED BY <1>10, <2>1
  <1> QED BY <1>9, <1>11, <1>13

\* A loose type of the locals of cobs_encode, closed under every step.
EncLocals == [dst : Seq(Nat), curr : Nat, marker : Nat]

\* cobs_encode is its loop: the set-up, one EncStep for each byte, EncFinish.
LEMMA EncodeUnfold ==
    ASSUME NEW src \in Seq(Byte)
    PROVE  \E loop : /\ cobs_encode(src) = EncFinish(loop[Len(src)]).dst
                     /\ loop[0] = EncInit
                     /\ \A k \in 1 .. Len(src) : loop[k] = EncStep(loop[k - 1], src[k])
  <1> DEFINE D == 0 .. Len(src)
             Body(k, f) == IF k = 0 THEN EncInit ELSE EncStep(f[k - 1], src[k])
             Is(f) == f = [k \in D |-> Body(k, f)]
             rank == [k \in D |-> Len(src) - k + 1]
             base == [k \in D |-> EncInit]
             next == [k \in D |-> IF k = 0 THEN 0 ELSE k - 1]
             step == [y \in D \X EncLocals |-> IF y[1] = 0 THEN EncInit ELSE EncStep(y[2], src[y[1]])]
  <1>1. EncInit \in EncLocals
    BY MaxMarkerAssumption DEF EncInit, EncLocals, Unwritten
  <1>2. ASSUME NEW e \in EncLocals, NEW b \in Nat
        PROVE  EncStep(e, b) \in EncLocals
    <2>1. ASSUME NEW g \in EncLocals
          PROVE  PlaceMarker(g) \in EncLocals
      <3>1. g.dst \in Seq(Nat) /\ g.curr \in Nat /\ g.marker \in Nat /\ Unwritten \in Nat
        BY MaxMarkerAssumption DEF EncLocals, Unwritten
      <3>2. [g.dst EXCEPT ![g.curr] = g.marker] \in Seq(Nat)
        <4> DEFINE d == g.dst
                   w == [d EXCEPT ![g.curr] = g.marker]
        <4>1. d \in [1 .. Len(d) -> Nat] /\ Len(d) \in Nat
          BY <3>1
        <4>2. w \in [1 .. Len(d) -> Nat]
          BY <3>1, <4>1
        <4>3. \A n \in Nat : \A s \in [1 .. n -> Nat] : s \in Seq(Nat)
          OBVIOUS
        <4>4. w \in Seq(Nat)
          <5> HIDE DEF d, w
          <5> QED BY <4>1, <4>2, <4>3
        <4> QED BY <4>4
      <3>3. Append([g.dst EXCEPT ![g.curr] = g.marker], Unwritten) \in Seq(Nat)
        BY <3>1, <3>2
      <3>4. Len(g.dst) + 1 \in Nat
        BY <3>1
      <3> QED BY <3>3, <3>4 DEF PlaceMarker, EncLocals
    <2>2. CopyByte(e, b) \in EncLocals
      BY DEF CopyByte, EncLocals
    <2> HIDE DEF EncLocals
    <2> QED BY <2>1, <2>2 DEF EncStep
  <1>3. ScanData(D, EncLocals, Len(src), rank, base, next, step)
    <2>1. base \in [D -> EncLocals]
      BY <1>1
    <2>2. rank \in [D -> Nat] /\ next \in [D -> D] /\ Len(src) \in Nat
      OBVIOUS
    <2>3. \A x \in D : rank[x] <= Len(src) => rank[next[x]] > rank[x]
      OBVIOUS
    <2>4. \A k \in D : k # 0 => src[k] \in Nat
      BY MaxMarkerAssumption DEF Byte
    <2>5. step \in [D \X EncLocals -> EncLocals]
      <3> HIDE DEF D
      <3> QED BY <1>1, <1>2, <2>4
    <2> HIDE DEF D, rank, base, next, step
    <2> QED BY <2>1, <2>2, <2>3, <2>5 DEF ScanData
  <1>4. PICK f : IsScan(f, D, EncLocals, Len(src), rank, base, next, step)
    <2> HIDE DEF D, rank, base, next, step
    <2> QED BY <1>3, ForwardRecursion
  <1>5. f \in [D -> EncLocals]
    BY <1>4 DEF IsScan
  <1>6. ASSUME NEW k \in D
        PROVE  f[k] = Body(k, f)
    <2>1. f[k] = IF rank[k] > Len(src) THEN base[k] ELSE step[<<k, f[next[k]]>>]
      BY <1>4 DEF IsScan
    <2>2. CASE k = 0
      <3>1. rank[k] > Len(src) /\ base[k] = EncInit
        BY <2>2
      <3> QED BY <2>1, <2>2, <3>1
    <2>3. CASE k # 0
      <3>1. ~(rank[k] > Len(src)) /\ next[k] = k - 1 /\ k - 1 \in D
        BY <2>3
      <3>2. f[k - 1] \in EncLocals
        BY <1>5, <3>1
      <3>3. step[<<k, f[k - 1]>>] = EncStep(f[k - 1], src[k])
        <4> HIDE DEF D
        <4> QED BY <2>3, <3>2
      <3> HIDE DEF D, rank, base, next, step
      <3> QED BY <2>1, <2>3, <3>1, <3>3
    <2> QED BY <2>2, <2>3
  <1>7. Is(f)
    <2> HIDE DEF Body, D
    <2> QED BY <1>5, <1>6
  <1>8. Is(CHOOSE g : Is(g))
    <2> HIDE DEF Is
    <2> QED BY <1>7
  <1>9. cobs_encode(src) = EncFinish((CHOOSE g : Is(g))[Len(src)]).dst
    BY DEF cobs_encode
  <1>10. PICK r : Is(r) /\ cobs_encode(src) = EncFinish(r[Len(src)]).dst
    <2> HIDE DEF Is
    <2> QED BY <1>8, <1>9
  <1>11. \A k \in D : r[k] = Body(k, r)
    <2> HIDE DEF Body
    <2> QED BY <1>10
  <1>12. 0 \in D /\ \A k \in 1 .. Len(src) : k \in D /\ k # 0
    OBVIOUS
  <1> HIDE DEF D
  <1> QED BY <1>10, <1>11, <1>12

---------------------------------------------------------------------------
(*************************************************************************)
(* What the encoder has written, while it runs.                          *)
(*************************************************************************)

\* At p, dst holds the marker of a closed block of X: off[p] bytes of X precede
\* the block, its data bytes are those of X, and the marker's zero, unless the
\* block is full, is in X too.
Marked(off, dst, X, p) ==
    /\ dst[p] \in 1 .. MaxMarker
    /\ off[p + dst[p]] = off[p] + dst[p] - (IF dst[p] = MaxMarker THEN 1 ELSE 0)
    /\ off[p + dst[p]] <= Len(X)
    /\ \A r \in 1 .. dst[p] - 1 : dst[p + r] = X[off[p] + r]
    /\ dst[p] < MaxMarker => X[off[p] + dst[p]] = SPECIAL_CHAR

\* The markers of dst up to curr: B is the set of their offsets, off how much of
\* X lies before each.  Every closed block is Marked and leads to the next.
Layout(B, off, dst, X, curr) ==
    /\ off \in [Offset -> Nat] /\ off[1] = 0
    /\ B \subseteq 1 .. curr /\ 1 \in B /\ curr \in B
    /\ \A p \in B \ {curr} : Marked(off, dst, X, p) /\ p + dst[p] \in B

\* The bytes already copied to the open block are those of X.
OpenBlock(off, e, X) ==
    \A r \in 1 .. e.marker - 1 : e.dst[e.curr + r] = X[off[e.curr] + r]

\* The locals e of cobs_encode hold the encoding of the first n bytes of X.
Encoding(X, n, e) ==
    \E B, off : /\ Layout(B, off, e.dst, X, e.curr)
                /\ off[e.curr] = n - (e.marker - 1)
                /\ OpenBlock(off, e, X)

\* Writing the marker of the open block accounts for n bytes of X.
Closes(off, e, X, n) ==
    /\ n = off[e.curr] + e.marker - (IF e.marker = MaxMarker THEN 1 ELSE 0)
    /\ e.marker < MaxMarker => X[off[e.curr] + e.marker] = SPECIAL_CHAR

\* PlaceMarker closes the open block: one more marker in the layout.
LEMMA PlaceLayout ==
    ASSUME NEW e \in Locals, OnlyHole(e), e.marker = Len(e.dst) - e.curr + 1,
           NEW X \in Seq(Byte), NEW n \in 0 .. Len(X),
           NEW B, NEW off, Layout(B, off, e.dst, X, e.curr), OpenBlock(off, e, X),
           Closes(off, e, X, n),
           NEW f, f = PlaceMarker(e)
    PROVE  Encoding(X, n, f)
  <1> DEFINE c == e.curr
             d == e.dst
             m == e.marker
             B2 == B \cup {f.curr}
             off2 == [off EXCEPT ![f.curr] = n]
             g == f.dst
  <1>1. /\ d \in Seq(0 .. Unwritten) /\ m \in 1 .. MaxMarker /\ c \in 1 .. Len(d)
        /\ Len(d) \in Nat /\ MaxMarker \in Nat /\ n \in Nat /\ m \in Nat /\ m >= 1
        /\ c \in Nat /\ c >= 1 /\ c <= Len(d) /\ m = Len(d) - c + 1
    BY MaxMarkerAssumption DEF Locals, OnlyHole
  <1>2. /\ g = Append([d EXCEPT ![c] = m], Unwritten) /\ f.curr = Len(d) + 1
    BY DEF PlaceMarker
  <1>3. f.curr = c + m /\ f.curr \in Offset /\ c < f.curr
    <2> HIDE DEF c, d, m
    <2> QED BY <1>1, <1>2 DEF Offset
  <1>4. g[c] = m /\ \A p \in 1 .. Len(d) : p # c => g[p] = d[p]
    <2>1. [d EXCEPT ![c] = m] \in Seq(0 .. Unwritten) /\ Len([d EXCEPT ![c] = m]) = Len(d)
      BY <1>1 DEF Unwritten
    <2>2. \A p \in 1 .. Len(d) : g[p] = [d EXCEPT ![c] = m][p]
      <3> DEFINE w == [d EXCEPT ![c] = m]
      <3> HIDE DEF w
      <3> QED BY <1>1, <1>2, <2>1
    <2>3. [d EXCEPT ![c] = m][c] = m /\ \A p \in 1 .. Len(d) : p # c => [d EXCEPT ![c] = m][p] = d[p]
      <3> HIDE DEF c, d, m
      <3> QED BY <1>1
    <2> HIDE DEF c, d, m, g
    <2> QED BY <1>1, <2>2, <2>3
  <1>5. /\ off \in [Offset -> Nat] /\ off[1] = 0
        /\ B \subseteq 1 .. c /\ 1 \in B /\ c \in B
        /\ \A p \in B \ {c} : Marked(off, d, X, p) /\ p + d[p] \in B
    BY DEF Layout
  <1>6. /\ off2 \in [Offset -> Nat] /\ off2[f.curr] = n
        /\ \A p \in 1 .. c : off2[p] = off[p] /\ p \in Offset
    BY <1>1, <1>3, <1>5, SMTT(30) DEF Offset
  <1>7. ASSUME NEW p \in B2 \ {f.curr}
        PROVE  Marked(off2, g, X, p) /\ p + g[p] \in B2
    <2>0. p \in B /\ p \in 1 .. c
      BY <1>5
    <2>1. CASE p = c
      <3>1. g[p] = m /\ p + g[p] = f.curr /\ off2[p + g[p]] = n /\ off2[p] = off[c]
        BY <1>1, <1>3, <1>4, <1>6, <2>0, <2>1
      <3>2. \A r \in 1 .. m - 1 : g[p + r] = X[off2[p] + r]
        <4> SUFFICES ASSUME NEW r \in 1 .. m - 1
                     PROVE  g[p + r] = X[off2[p] + r]
          OBVIOUS
        <4>1. p + r \in 1 .. Len(d) /\ p + r # c
          BY <1>1, <2>1
        <4>2. d[c + r] = X[off[c] + r]
          BY <1>1 DEF OpenBlock
        <4> QED BY <1>4, <2>1, <3>1, <4>1, <4>2
      <3>3. n <= Len(X)
        BY <1>1
      <3> HIDE DEF g, m, off2, c
      <3>4. off2[p + g[p]] = off2[p] + g[p] - (IF g[p] = MaxMarker THEN 1 ELSE 0)
        BY <3>1 DEF m, c, Closes
      <3>5. g[p] < MaxMarker => X[off2[p] + g[p]] = SPECIAL_CHAR
        BY <3>1 DEF m, c, Closes
      <3> QED BY <1>1, <3>1, <3>2, <3>3, <3>4, <3>5 DEF Marked
    <2>2. CASE p # c
      <3>1. Marked(off, d, X, p) /\ p + d[p] \in B /\ p + d[p] \in 1 .. c
        BY <1>5, <2>0, <2>2
      <3>2. g[p] = d[p] /\ off2[p] = off[p] /\ off2[p + d[p]] = off[p + d[p]]
        <4>1. p \in 1 .. Len(d)
          <5> HIDE DEF c, d
          <5> QED BY <1>1, <2>0
        <4> HIDE DEF c, d, g, off2
        <4> QED BY <1>4, <1>6, <2>0, <2>2, <3>1, <4>1
      <3>3. d[p] \in 1 .. MaxMarker
        BY <3>1 DEF Marked
      <3>4. \A r \in 1 .. d[p] - 1 : g[p + r] = X[off[p] + r]
        <4> SUFFICES ASSUME NEW r \in 1 .. d[p] - 1
                     PROVE  g[p + r] = X[off[p] + r]
          OBVIOUS
        <4>1. p + r \in 1 .. Len(d) /\ p + r # c
          <5>1. p + d[p] <= c /\ p >= 1 /\ p \in Nat /\ d[p] \in Nat
            BY <1>1, <2>0, <3>1, <3>3
          <5> HIDE DEF c, d
          <5> QED BY <1>1, <5>1, SMTT(30)
        <4>2. d[p + r] = X[off[p] + r]
          BY <3>1 DEF Marked
        <4> QED BY <1>4, <4>1, <4>2
      <3> HIDE DEF g, off2, c, d
      <3> QED BY <3>1, <3>2, <3>4 DEF Marked
    <2> QED BY <2>1, <2>2
  <1>8. B2 \subseteq 1 .. f.curr /\ 1 \in B2 /\ f.curr \in B2 /\ off2[1] = 0
    <2>1. c \in Nat /\ f.curr \in Nat /\ 1 \in 1 .. c
      BY <1>1, <1>3 DEF Offset
    <2>2. 1 .. c \subseteq 1 .. f.curr /\ f.curr \in 1 .. f.curr
      <3> HIDE DEF c
      <3> QED BY <1>3, <2>1 DEF Offset
    <2> HIDE DEF c, off2
    <2> QED BY <1>5, <1>6, <2>1, <2>2
  <1>9. Layout(B2, off2, g, X, f.curr)
    <2> HIDE DEF B2, off2, g, c
    <2> QED BY <1>6, <1>7, <1>8 DEF Layout
  <1>10. f.marker = 1 /\ n = n - (1 - 1)
    BY <1>1 DEF PlaceMarker
  <1> HIDE DEF B2, off2, g
  <1>11. OpenBlock(off2, f, X)
    BY <1>10 DEF OpenBlock
  <1> QED BY <1>6, <1>9, <1>10, <1>11 DEF Encoding, g

\* Copying a data byte extends the open block by the next byte of X.
LEMMA CopyEncoding ==
    ASSUME NEW e \in Locals, OnlyHole(e), e.marker = Len(e.dst) - e.curr + 1,
           NEW X, NEW n \in Nat, n + 1 <= Len(X), Encoding(X, n, e),
           NEW b, b = X[n + 1],
           NEW f, f = CopyByte(e, b)
    PROVE  Encoding(X, n + 1, f)
  <1> DEFINE c == e.curr
             d == e.dst
             m == e.marker
  <1>0. /\ d \in Seq(0 .. Unwritten) /\ m \in Nat /\ m >= 1
        /\ Len(d) \in Nat /\ c \in Nat /\ c >= 1 /\ c <= Len(d) /\ m = Len(d) - c + 1
    BY MaxMarkerAssumption DEF Locals, OnlyHole
  <1>1. PICK B, off : Layout(B, off, d, X, c) /\ off[c] = n - (m - 1) /\ OpenBlock(off, e, X)
    BY DEF Encoding
  <1>2. f.dst = Append(d, b) /\ f.curr = c /\ f.marker = m + 1
    BY DEF CopyByte
  <1>3. (\A p \in 1 .. Len(d) : f.dst[p] = d[p]) /\ f.dst[Len(d) + 1] = b
    <2> HIDE DEF d
    <2> QED BY <1>0, <1>2
  <1>4. /\ off \in [Offset -> Nat] /\ off[1] = 0
        /\ B \subseteq 1 .. c /\ 1 \in B /\ c \in B
        /\ \A p \in B \ {c} : Marked(off, d, X, p) /\ p + d[p] \in B
    BY <1>1 DEF Layout
  <1>5. ASSUME NEW p \in B \ {c}
        PROVE  Marked(off, f.dst, X, p) /\ p + f.dst[p] \in B
    <2>1. Marked(off, d, X, p) /\ p + d[p] \in 1 .. c /\ p + d[p] \in B /\ p \in 1 .. c
      BY <1>4
    <2>2. d[p] \in 1 .. MaxMarker
      BY <2>1 DEF Marked
    <2> HIDE DEF c, d
    <2>3. f.dst[p] = d[p]
      <3>1. p \in 1 .. Len(d)
        BY <1>0, <2>1
      <3> QED BY <1>3, <3>1
    <2>4. ASSUME NEW r \in 1 .. d[p] - 1
          PROVE  f.dst[p + r] = d[p + r]
      <3>1. p + r \in 1 .. Len(d)
        BY <1>0, <2>1, <2>2, MaxMarkerAssumption, SMTT(30)
      <3> QED BY <1>3, <3>1
    <2>5. \A r \in 1 .. d[p] - 1 : f.dst[p + r] = X[off[p] + r]
      BY <2>1, <2>4 DEF Marked
    <2> QED BY <2>1, <2>3, <2>5 DEF Marked
  <1>6. Layout(B, off, f.dst, X, f.curr)
    <2> HIDE DEF c, d
    <2> QED BY <1>2, <1>4, <1>5 DEF Layout
  <1>7. OpenBlock(off, f, X)
    <2> HIDE DEF c, d, m
    <2> SUFFICES ASSUME NEW r \in 1 .. (m + 1) - 1
                 PROVE  f.dst[c + r] = X[off[c] + r]
      BY <1>2 DEF OpenBlock
    <2>1. CASE r = m
      <3>1. c + r = Len(d) + 1 /\ off[c] + r = n + 1
        BY <1>0, <1>1, <2>1
      <3> QED BY <1>3, <3>1
    <2>2. CASE r # m
      <3>1. r \in 1 .. m - 1 /\ c + r \in 1 .. Len(d)
        BY <1>0, <2>2
      <3>2. d[c + r] = X[off[c] + r]
        BY <1>1, <3>1 DEF OpenBlock, c, d, m
      <3> QED BY <1>3, <3>1, <3>2
    <2> QED BY <2>1, <2>2
  <1>8. off[f.curr] = (n + 1) - (f.marker - 1)
    <2> HIDE DEF c, d, m
    <2> QED BY <1>0, <1>1, <1>2
  <1> QED BY <1>6, <1>7, <1>8 DEF Encoding

\* The set-up of cobs_encode encodes nothing.
LEMMA StartEncoding ==
    ASSUME NEW X \in Seq(Byte)
    PROVE  Encoding(X, 0, EncInit)
  <1> DEFINE off == [p \in Offset |-> 0]
  <1>1. EncInit.curr = 1 /\ EncInit.marker = 1
    BY DEF EncInit
  <1>2. off \in [Offset -> Nat] /\ off[1] = 0
    BY DEF Offset
  <1> HIDE DEF off
  <1>3. Layout({1}, off, EncInit.dst, X, 1)
    BY <1>2 DEF Layout
  <1>4. OpenBlock(off, EncInit, X)
    BY <1>1 DEF OpenBlock
  <1> QED BY <1>1, <1>2, <1>3, <1>4 DEF Encoding

\* PlaceMarker after a zero of X, or when the open block is full.
LEMMA PlaceEncoding ==
    ASSUME NEW e \in Locals, OnlyHole(e), e.marker = Len(e.dst) - e.curr + 1,
           NEW X \in Seq(Byte), NEW n \in Nat, Encoding(X, n, e),
           NEW k \in 0 .. Len(X),
           e.marker = MaxMarker => k = n,
           e.marker # MaxMarker => k = n + 1 /\ X[k] = SPECIAL_CHAR
    PROVE  Encoding(X, k, PlaceMarker(e))
  <1>0. e.marker \in 1 .. MaxMarker /\ MaxMarker \in Nat
    BY MaxMarkerAssumption DEF Locals
  <1>1. PICK B, off : /\ Layout(B, off, e.dst, X, e.curr) /\ off[e.curr] = n - (e.marker - 1)
                      /\ OpenBlock(off, e, X)
    BY DEF Encoding
  <1>2. k = off[e.curr] + e.marker - (IF e.marker = MaxMarker THEN 1 ELSE 0)
    BY <1>0, <1>1, SMTT(30)
  <1>3. e.marker < MaxMarker => X[off[e.curr] + e.marker] = SPECIAL_CHAR
    <2> SUFFICES ASSUME e.marker < MaxMarker PROVE X[off[e.curr] + e.marker] = SPECIAL_CHAR
      OBVIOUS
    <2>1. off[e.curr] + e.marker = k /\ X[k] = SPECIAL_CHAR
      BY <1>0, <1>1
    <2> QED BY <2>1
  <1>4. Closes(off, e, X, k)
    BY <1>2, <1>3 DEF Closes
  <1> QED BY <1>1, <1>4, PlaceLayout

\* One iteration of the loop encodes one byte more, whatever the byte.
LEMMA StepEncoding ==
    ASSUME NEW e \in Locals, OnlyHole(e), e.marker < MaxMarker,
           e.marker = Len(e.dst) - e.curr + 1,
           NEW X \in Seq(Byte), NEW n \in Nat, n + 1 <= Len(X), Encoding(X, n, e)
    PROVE  Encoding(X, n + 1, EncStep(e, X[n + 1]))
  <1> DEFINE b == X[n + 1]
  <1>0. b \in Byte /\ n + 1 \in 0 .. Len(X)
    OBVIOUS
  <1>1. CASE b = SPECIAL_CHAR
    <2>1. e.marker # MaxMarker
      BY MaxMarkerAssumption DEF Locals
    <2>2. Encoding(X, n + 1, PlaceMarker(e))
      BY <1>0, <1>1, <2>1, PlaceEncoding
    <2> QED BY <1>1, <2>2 DEF EncStep
  <1>2. CASE b # SPECIAL_CHAR
    <2> DEFINE f == CopyByte(e, b)
    <2>1. b \in 1 .. MaxMarker
      BY <1>0, <1>2, MaxMarkerAssumption DEF Byte, SPECIAL_CHAR
    <2> HIDE DEF b
    <2>2. /\ f \in Locals /\ OnlyHole(f) /\ Len(f.dst) = Len(e.dst) + 1
          /\ f.curr = e.curr /\ f.marker = e.marker + 1
      BY <2>1, CopyShape
    <2>3. Encoding(X, n + 1, f)
      <3>1. b = X[n + 1] /\ f = CopyByte(e, b)
        BY DEF b
      <3> HIDE DEF f
      <3> QED BY <3>1, CopyEncoding
    <2>4. EncStep(e, b) = IF f.marker = MaxMarker THEN PlaceMarker(f) ELSE f
      BY <1>2 DEF EncStep
    <2>5. f.marker = Len(f.dst) - f.curr + 1
      <3>1. Len(e.dst) \in Nat /\ e.curr \in Nat
        BY DEF Locals
      <3> HIDE DEF f
      <3> QED BY <2>2, <3>1
    <2> HIDE DEF f
    <2>6. CASE f.marker = MaxMarker
      <3>1. Encoding(X, n + 1, PlaceMarker(f))
        BY <1>0, <2>2, <2>3, <2>5, <2>6, PlaceEncoding
      <3> QED BY <2>4, <2>6, <3>1 DEF b
    <2>7. CASE f.marker # MaxMarker
      BY <2>3, <2>4, <2>7 DEF b
    <2> QED BY <2>6, <2>7
  <1> QED BY <1>1, <1>2

---------------------------------------------------------------------------
(*************************************************************************)
(* What it returns.                                                      *)
(*************************************************************************)

\* F is a terminated string whose blocks hold exactly X.
Frame(X, F) ==
    /\ F \in Seq(Byte) /\ Len(F) >= 1 /\ F[Len(F)] = SPECIAL_CHAR
    /\ \A p \in 1 .. Len(F) - 1 : F[p] \in 1 .. MaxMarker
    /\ \E B, off : Layout(B, off, F, X, Len(F)) /\ off[Len(F)] = Len(X)

\* A layout depends on the bytes below its last marker only.
LEMMA LayoutUpTo ==
    ASSUME NEW B, NEW off, NEW d, NEW X, NEW c \in Nat, Layout(B, off, d, X, c),
           NEW g, \A p \in 1 .. c - 1 : g[p] = d[p]
    PROVE  Layout(B, off, g, X, c)
  <1>1. /\ off \in [Offset -> Nat] /\ off[1] = 0
        /\ B \subseteq 1 .. c /\ 1 \in B /\ c \in B
        /\ \A p \in B \ {c} : Marked(off, d, X, p) /\ p + d[p] \in B
    BY DEF Layout
  <1>2. ASSUME NEW p \in B \ {c}
        PROVE  Marked(off, g, X, p) /\ p + g[p] \in B
    <2>1. Marked(off, d, X, p) /\ p + d[p] \in 1 .. c /\ p + d[p] \in B /\ p \in 1 .. c - 1
      <3>1. p \in 1 .. c /\ p # c
        BY <1>1
      <3>2. p \in 1 .. c - 1
        BY <3>1
      <3> QED BY <1>1, <3>2
    <2>2. d[p] \in 1 .. MaxMarker /\ g[p] = d[p]
      BY <2>1 DEF Marked
    <2>3. ASSUME NEW r \in 1 .. d[p] - 1
          PROVE  g[p + r] = d[p + r]
      <3>1. p + r \in 1 .. c - 1
        BY <2>1, <2>2, MaxMarkerAssumption
      <3> QED BY <3>1
    <2>4. \A r \in 1 .. d[p] - 1 : g[p + r] = X[off[p] + r]
      BY <2>1, <2>3 DEF Marked
    <2> QED BY <2>1, <2>2, <2>4 DEF Marked
  <1> QED BY <1>1, <1>2 DEF Layout

\* What encodes a prefix of X encodes the same prefix of a longer string.
LEMMA ExtendEncoding ==
    ASSUME NEW e \in Locals, NEW X \in Seq(Byte), NEW n \in 0 .. Len(X), Encoding(X, n, e),
           NEW b \in Byte
    PROVE  Encoding(Append(X, b), n, e)
  <1> DEFINE Y == Append(X, b)
  <1>0. Len(X) \in Nat /\ Len(Y) = Len(X) + 1 /\ \A j \in 1 .. Len(X) : Y[j] = X[j]
    OBVIOUS
  <1> HIDE DEF Y
  <1>1. PICK B, off : /\ Layout(B, off, e.dst, X, e.curr) /\ off[e.curr] = n - (e.marker - 1)
                      /\ OpenBlock(off, e, X)
    BY DEF Encoding
  <1>2. /\ off \in [Offset -> Nat] /\ off[1] = 0
        /\ B \subseteq 1 .. e.curr /\ 1 \in B /\ e.curr \in B
        /\ \A p \in B \ {e.curr} : Marked(off, e.dst, X, p) /\ p + e.dst[p] \in B
    BY <1>1 DEF Layout
  <1>3. e.curr \in Nat /\ e.marker \in 1 .. MaxMarker /\ MaxMarker \in Nat
    BY MaxMarkerAssumption DEF Locals
  <1>4. \A p \in B : p \in Offset
    BY <1>2, <1>3 DEF Offset
  <1>5. ASSUME NEW p \in B \ {e.curr}
        PROVE  Marked(off, e.dst, Y, p)
    <2> DEFINE d == e.dst[p]
    <2>1. Marked(off, e.dst, X, p) /\ off[p] \in Nat
      BY <1>2, <1>4
    <2>2. /\ d \in 1 .. MaxMarker /\ off[p + d] = off[p] + d - (IF d = MaxMarker THEN 1 ELSE 0)
          /\ off[p + d] <= Len(X)
          /\ \A r \in 1 .. d - 1 : e.dst[p + r] = X[off[p] + r]
          /\ d < MaxMarker => X[off[p] + d] = SPECIAL_CHAR
      BY <2>1 DEF Marked
    <2> HIDE DEF d
    <2>3. \A r \in 1 .. d - 1 : off[p] + r \in 1 .. Len(X)
      BY <1>0, <1>3, <2>1, <2>2, SMTT(30)
    <2>4. d < MaxMarker => off[p] + d \in 1 .. Len(X)
      BY <1>0, <1>3, <2>1, <2>2
    <2>5. \A r \in 1 .. d - 1 : e.dst[p + r] = Y[off[p] + r]
      BY <1>0, <2>2, <2>3
    <2>6. d < MaxMarker => Y[off[p] + d] = SPECIAL_CHAR
      BY <1>0, <2>2, <2>4
    <2>7. off[p + d] <= Len(Y)
      <3>1. off[p + d] \in Int
        BY <1>3, <2>1, <2>2
      <3> QED BY <1>0, <2>2, <3>1
    <2> QED BY <2>2, <2>5, <2>6, <2>7 DEF Marked, d
  <1>6. Layout(B, off, e.dst, Y, e.curr)
    BY <1>2, <1>5 DEF Layout
  <1>7. OpenBlock(off, e, Y)
    <2> SUFFICES ASSUME NEW r \in 1 .. e.marker - 1
                 PROVE  e.dst[e.curr + r] = Y[off[e.curr] + r]
      BY DEF OpenBlock
    <2>1. e.dst[e.curr + r] = X[off[e.curr] + r]
      BY <1>1 DEF OpenBlock
    <2>2. off[e.curr] \in Nat
      BY <1>2, <1>4
    <2>3. off[e.curr] + r \in 1 .. Len(X)
      BY <1>0, <1>1, <1>3, <2>2, SMTT(30)
    <2> QED BY <1>0, <2>1, <2>3
  <1> QED BY <1>1, <1>6, <1>7 DEF Encoding, Y

\* With no data in the open block, the terminator goes where its marker was
\* reserved.
LEMMA TerminatedFrame ==
    ASSUME NEW e \in Locals, OnlyHole(e), e.marker = 1, e.curr = Len(e.dst),
           NEW X \in Seq(Byte), Encoding(X, Len(X), e),
           NEW F, F = [e.dst EXCEPT ![e.curr] = SPECIAL_CHAR]
    PROVE  Frame(X, F)
  <1> DEFINE d == e.dst
             c == e.curr
  <1>0. d \in Seq(0 .. Unwritten) /\ c \in 1 .. Len(d) /\ Len(d) \in Nat /\ Len(X) \in Nat /\ c = Len(d)
    BY DEF Locals, OnlyHole
  <1>1. \A p \in 1 .. Len(d) : p # c => d[p] \in 1 .. MaxMarker
    BY DEF OnlyHole
  <1>2. F = [d EXCEPT ![c] = SPECIAL_CHAR]
    OBVIOUS
  <1>3. PICK B, off : Layout(B, off, d, X, c) /\ off[c] = Len(X) - (1 - 1)
    BY DEF Encoding
  <1> HIDE DEF c, d
  <1>4. /\ Len(F) = Len(d) /\ F[c] = SPECIAL_CHAR /\ \A p \in 1 .. Len(d) - 1 : F[p] = d[p]
        /\ F \in [1 .. Len(d) -> 0 .. Unwritten]
    <2>1. d \in [1 .. Len(d) -> 0 .. Unwritten] /\ SPECIAL_CHAR \in 0 .. Unwritten
      BY <1>0, MaxMarkerAssumption DEF Unwritten, SPECIAL_CHAR
    <2>2. F \in [1 .. Len(d) -> 0 .. Unwritten] /\ F[c] = SPECIAL_CHAR
      BY <1>0, <1>2, <2>1
    <2>3. \A p \in 1 .. Len(d) - 1 : p \in 1 .. Len(d) /\ p # c
      BY <1>0
    <2>4. \A p \in 1 .. Len(d) - 1 : F[p] = d[p]
      BY <1>2, <2>1, <2>3
    <2>5. Len(F) = Len(d)
      BY <1>0, <2>2
    <2> QED BY <2>2, <2>4, <2>5
  <1>5. \A p \in 1 .. Len(d) - 1 : F[p] \in 1 .. MaxMarker
    BY <1>0, <1>1, <1>4
  <1>6. F \in [1 .. Len(d) -> Byte]
    <2>1. \A p \in 1 .. Len(d) : p # c => p \in 1 .. Len(d) - 1
      BY <1>0
    <2>2. \A p \in 1 .. Len(d) : F[p] \in Byte
      BY <1>0, <1>4, <1>5, <2>1, MaxMarkerAssumption DEF Byte, SPECIAL_CHAR
    <2> QED BY <1>4, <2>2
  <1>7. F \in Seq(Byte)
    <2>1. \A n \in Nat : \A s \in [1 .. n -> Byte] : s \in Seq(Byte)
      OBVIOUS
    <2> QED BY <1>0, <1>6, <2>1
  <1>8. Layout(B, off, F, X, c)
    BY <1>0, <1>3, <1>4, LayoutUpTo, SMTT(30)
  <1>9. off[c] = Len(X)
    BY <1>0, <1>3
  <1>10. Len(F) = c /\ Len(F) >= 1
    BY <1>0, <1>4
  <1> QED BY <1>4, <1>5, <1>7, <1>8, <1>9, <1>10, <1>0 DEF Frame

\* What the code after the loop returns: a frame of X, or, when data was left in
\* an open block, a frame of X and one zero more, that the last marker implies.
LEMMA FinishFrame ==
    ASSUME NEW e \in Locals, OnlyHole(e), e.marker < MaxMarker,
           e.marker = Len(e.dst) - e.curr + 1,
           NEW X \in Seq(Byte), Encoding(X, Len(X), e),
           NEW F, F = EncFinish(e).dst
    PROVE  \/ Frame(X, F)
           \/ X # << >> /\ X[Len(X)] # SPECIAL_CHAR /\ Frame(Append(X, SPECIAL_CHAR), F)
  <1>0. /\ e.dst \in Seq(0 .. Unwritten) /\ Len(e.dst) \in Nat /\ e.curr \in Nat
        /\ e.marker \in Nat /\ e.marker >= 1 /\ Len(X) \in Nat /\ MaxMarker \in Nat
        /\ e.curr \in 1 .. Len(e.dst)
    BY MaxMarkerAssumption DEF Locals, OnlyHole
  <1>1. CASE e.marker = 1
    <2>1. F = [e.dst EXCEPT ![e.curr] = SPECIAL_CHAR]
      BY <1>1 DEF EncFinish, Locals
    <2>2. e.curr = Len(e.dst)
      BY <1>0, <1>1
    <2> QED BY <1>1, <2>1, <2>2, TerminatedFrame
  <1>2. CASE e.marker # 1
    <2> DEFINE f == PlaceMarker(e)
               Y == Append(X, SPECIAL_CHAR)
    <2>1. f \in Locals /\ OnlyHole(f) /\ f.curr = Len(f.dst) /\ f.marker = 1
      BY <1>0, PlaceMarkerShape
    <2>2. F = [f.dst EXCEPT ![f.curr] = SPECIAL_CHAR]
      <3>1. EncFinish(e) = [f EXCEPT !.dst = [@ EXCEPT ![f.curr] = SPECIAL_CHAR]]
        BY <1>2 DEF EncFinish
      <3> HIDE DEF f
      <3> QED BY <2>1, <3>1 DEF Locals
    <2>3. /\ SPECIAL_CHAR \in Byte /\ Y \in Seq(Byte) /\ Len(Y) = Len(X) + 1
          /\ Y[Len(X) + 1] = SPECIAL_CHAR
      BY MaxMarkerAssumption DEF SPECIAL_CHAR, Byte
    <2>4. Encoding(Y, Len(X), e)
      <3>1. Len(X) \in 0 .. Len(X)
        BY <1>0
      <3> QED BY <2>3, <3>1, ExtendEncoding
    <2>5. Encoding(Y, Len(Y), f)
      <3>1. e.marker # MaxMarker /\ Len(Y) \in 0 .. Len(Y)
        BY <1>0, <2>3
      <3> HIDE DEF Y
      <3> QED BY <1>0, <2>3, <2>4, <3>1, PlaceEncoding
    <2>6. Frame(Y, F)
      <3> HIDE DEF f, Y
      <3> QED BY <2>1, <2>2, <2>3, <2>5, TerminatedFrame
    <2>7. X # << >> /\ X[Len(X)] # SPECIAL_CHAR
      <3>1. PICK B, off : /\ Layout(B, off, e.dst, X, e.curr) /\ off[e.curr] = Len(X) - (e.marker - 1)
                          /\ OpenBlock(off, e, X)
        BY DEF Encoding
      <3>2. off[e.curr] \in Nat
        BY <1>0, <3>1, SMTT(30) DEF Layout, Offset
      <3>3. Len(X) >= 1
        BY <1>0, <1>2, <3>1, <3>2
      <3>4. e.marker - 1 \in 1 .. e.marker - 1 /\ off[e.curr] + (e.marker - 1) = Len(X)
        <4>1. \A m, o, l \in Nat : m >= 1 /\ m # 1 /\ o = l - (m - 1)
                 => m - 1 \in 1 .. m - 1 /\ o + (m - 1) = l
          OBVIOUS
        <4> QED BY <1>0, <1>2, <3>1, <3>2, <4>1
      <3>5. e.dst[e.curr + (e.marker - 1)] = X[Len(X)]
        BY <3>1, <3>4 DEF OpenBlock
      <3>6. e.curr + (e.marker - 1) = Len(e.dst) /\ Len(e.dst) # e.curr /\ Len(e.dst) \in 1 .. Len(e.dst)
        <4>1. \A m, c, l \in Nat : m >= 1 /\ m # 1 /\ m = l - c + 1 /\ c \in 1 .. l
                 => c + (m - 1) = l /\ l # c /\ l \in 1 .. l
          OBVIOUS
        <4> QED BY <1>0, <1>2, <4>1
      <3>7. X[Len(X)] \in 1 .. MaxMarker
        BY <3>5, <3>6 DEF OnlyHole
      <3> QED BY <1>0, <3>3, <3>7 DEF SPECIAL_CHAR
    <2> QED BY <2>6, <2>7
  <1> QED BY <1>1, <1>2

---------------------------------------------------------------------------
(*************************************************************************)
(* What the decoder makes of a frame.                                    *)
(*************************************************************************)

\* What is decoded from a marked block is the piece of X that it holds.
LEMMA BlockBytes ==
    ASSUME NEW X \in Seq(Byte), NEW F \in Seq(Byte), NEW off \in [Offset -> Nat],
           NEW p \in 1 .. Len(F), Marked(off, F, X, p), p + F[p] <= Len(F)
    PROVE  /\ SubSeq(F, p + 1, p + F[p] - 1) = SubSeq(X, off[p] + 1, off[p] + F[p] - 1)
           /\ F[p] < MaxMarker => SubSeq(F, p + 1, p + F[p] - 1) \o <<SPECIAL_CHAR>>
                                     = SubSeq(X, off[p] + 1, off[p] + F[p])
  <1> DEFINE m == F[p]
             o == off[p]
             f == SubSeq(F, p + 1, p + m - 1)
             x == SubSeq(X, o + 1, o + m - 1)
  <1>1. /\ m \in 1 .. MaxMarker /\ MaxMarker \in Nat /\ m \in Nat /\ m >= 1 /\ o \in Nat /\ p \in Nat /\ p >= 1
        /\ Len(X) \in Nat /\ Len(F) \in Nat
        /\ p + m <= Len(F)
    BY MaxMarkerAssumption, SMTT(30) DEF Marked, Offset
  <1>2. \A r \in 1 .. m - 1 : F[p + r] = X[o + r]
    BY DEF Marked
  <1>3. o + m - 1 <= Len(X) /\ (m < MaxMarker => o + m <= Len(X))
    <2>1. o + m - (IF m = MaxMarker THEN 1 ELSE 0) <= Len(X)
      BY DEF Marked
    <2> HIDE DEF o, m
    <2> QED BY <1>1, <2>1
  <1>4. m < MaxMarker => X[o + m] = SPECIAL_CHAR
    BY DEF Marked
  <1> HIDE DEF m, o
  <1>5. f \in Seq(Byte) /\ Len(f) = m - 1 /\ \A r \in 1 .. m - 1 : f[r] = F[p + r]
    <2>1. \A r \in p + 1 .. p + m - 1 : F[r] \in Byte
      BY <1>1
    <2>2. /\ f \in Seq(Byte) /\ Len(f) = (IF p + 1 <= p + m - 1 THEN (p + m - 1) - (p + 1) + 1 ELSE 0)
          /\ \A r \in 1 .. (p + m - 1) - (p + 1) + 1 : f[r] = F[(p + 1) + r - 1]
      BY <1>1, <2>1, SubSeqProperties
    <2> HIDE DEF f
    <2> QED BY <1>1, <2>2, SMTT(30)
  <1>6. x \in Seq(Byte) /\ Len(x) = m - 1 /\ \A r \in 1 .. m - 1 : x[r] = X[o + r]
    <2>1. \A r \in o + 1 .. o + m - 1 : X[r] \in Byte
      BY <1>1, <1>3
    <2>2. /\ x \in Seq(Byte) /\ Len(x) = (IF o + 1 <= o + m - 1 THEN (o + m - 1) - (o + 1) + 1 ELSE 0)
          /\ \A r \in 1 .. (o + m - 1) - (o + 1) + 1 : x[r] = X[(o + 1) + r - 1]
      BY <1>1, <2>1, SubSeqProperties
    <2> HIDE DEF x
    <2> QED BY <1>1, <2>2, SMTT(30)
  <1>7. f = x
    <2> HIDE DEF f, x
    <2> QED BY <1>1, <1>2, <1>5, <1>6, SeqEqual
  <1>8. ASSUME m < MaxMarker
        PROVE  f \o <<SPECIAL_CHAR>> = SubSeq(X, o + 1, o + m)
    <2>1. o + 1 \in 1 .. Len(X) /\ o + m \in o + 1 .. Len(X)
      BY <1>1, <1>3, <1>8
    <2>2. SubSeq(X, o + 1, o + m) = SubSeq(X, o + 1, o + m - 1) \o << X[o + m] >>
      <3> DEFINE a == o + 1
                 b == o + m
      <3>1. a \in 1 .. Len(X) /\ b \in a .. Len(X)
        BY <2>1
      <3>3. b - 1 = o + m - 1
        BY <1>1
      <3> HIDE DEF a, b
      <3>2. SubSeq(X, a, b) = SubSeq(X, a, b - 1) \o << X[b] >>
        BY <3>1, SubSeqRecursiveSecond
      <3> QED BY <3>2, <3>3, Zenon DEF a, b
    <2> HIDE DEF f
    <2> QED BY <1>4, <1>7, <1>8, <2>2
  <1> QED BY <1>7, <1>8 DEF m, o

\* Adjacent pieces of a string put together.
LEMMA Adjacent ==
    ASSUME NEW X \in Seq(Byte), NEW a \in Nat, NEW b \in Nat, NEW n \in Nat,
           a <= b, b <= n, n <= Len(X)
    PROVE  SubSeq(X, a + 1, b) \o SubSeq(X, b + 1, n) = SubSeq(X, a + 1, n)
  <1>1. a + 1 \in 1 .. Len(X) + 1 /\ b \in (a + 1) - 1 .. Len(X) /\ n \in b .. Len(X)
    OBVIOUS
  <1> QED BY <1>1, ConcatAdjacentSubSeq

\* Decoding a frame, terminator included, gives back what it holds.
LEMMA FrameDecodes ==
    ASSUME NEW X \in Seq(Byte), NEW F, Frame(X, F)
    PROVE  cobs_decode(F, Len(F)) = X
  <1> DEFINE E == Len(F)
  <1>0. /\ F \in Seq(Byte) /\ E \in Nat /\ E >= 1 /\ F[E] = SPECIAL_CHAR /\ Len(X) \in Nat
        /\ E \in 0 .. Len(F) /\ E \in Offset
    BY DEF Frame, Offset
  <1>1. PICK B, off : Layout(B, off, F, X, E) /\ off[E] = Len(X)
    BY DEF Frame
  <1>2. /\ off \in [Offset -> Nat] /\ off[1] = 0
        /\ B \subseteq 1 .. E /\ 1 \in B /\ E \in B
        /\ \A p \in B \ {E} : Marked(off, F, X, p) /\ p + F[p] \in B
    BY <1>1 DEF Layout
  <1>3. PICK from : /\ cobs_decode(F, E) = from[1]
                    /\ \A p \in Offset : p > E => from[p] = << >>
                    /\ \A p \in 1 .. E : from[p] = DecodedBlock(F, E, p) \o from[NextOffset(F, p)]
    BY <1>0, DecodeUnfold
  <1> HIDE DEF E
  <1> DEFINE S == {p \in Offset : p \in B => from[p] = SubSeq(X, off[p] + 1, Len(X))}
  <1>4. from[E] = SubSeq(X, off[E] + 1, Len(X))
    <2>1. NextOffset(F, E) = E + 1
      BY <1>0 DEF NextOffset
    <2>2. from[E + 1] = << >>
      BY <1>0, <1>3 DEF Offset
    <2>3. SubSeq(F, E + 1, E + 0 - 1) = << >>
      BY <1>0, SubSeqEmpty
    <2>4. DecodedBlock(F, E, E) = << >>
      BY <1>0, <2>1, <2>3 DEF DecodedBlock, SPECIAL_CHAR
    <2>5. from[E] = << >>
      <3>1. E \in 1 .. E /\ << >> \o << >> = << >>
        BY <1>0
      <3> QED BY <1>3, <2>1, <2>2, <2>4, <3>1
    <2>6. SubSeq(X, Len(X) + 1, Len(X)) = << >>
      BY <1>0, SubSeqEmpty
    <2> QED BY <1>1, <2>5, <2>6
  <1>5. ASSUME NEW p \in 1 .. E, p \in B, p # E, \A q \in Offset : q > p => q \in S
        PROVE  from[p] = SubSeq(X, off[p] + 1, Len(X))
    <2> DEFINE m == F[p]
               q == p + m
    <2>1. Marked(off, F, X, p) /\ q \in B /\ q \in 1 .. E
      BY <1>2, <1>5
    <2>2. m \in 1 .. MaxMarker /\ MaxMarker \in Nat /\ p \in Offset /\ p \in 1 .. Len(F)
      BY <1>0, <1>5, <2>1, MaxMarkerAssumption DEF Marked, Offset, E
    <2>3. off[q] = off[p] + m - (IF m = MaxMarker THEN 1 ELSE 0) /\ off[q] <= Len(X)
      BY <2>1 DEF Marked
    <2>4. q \in Offset /\ q > p /\ off[p] \in Nat /\ off[q] \in Nat
      <3>1. q \in Offset /\ q > p
        <4> HIDE DEF m
        <4> QED BY <1>0, <2>2 DEF Offset
      <3> HIDE DEF q
      <3> QED BY <1>2, <2>2, <3>1
    <2>5. from[q] = SubSeq(X, off[q] + 1, Len(X))
      BY <1>5, <2>1, <2>4
    <2>6. NextOffset(F, p) = q
      BY <2>2 DEF NextOffset, SPECIAL_CHAR
    <2>7. /\ SubSeq(F, p + 1, p + m - 1) = SubSeq(X, off[p] + 1, off[p] + m - 1)
          /\ m < MaxMarker => SubSeq(F, p + 1, p + m - 1) \o <<SPECIAL_CHAR>>
                                     = SubSeq(X, off[p] + 1, off[p] + m)
      <3>1. q <= Len(F)
        BY <1>0, <2>1 DEF E
      <3> QED BY <1>0, <1>2, <2>1, <2>2, <3>1, BlockBytes
    <2>8. DecodedBlock(F, E, p) = SubSeq(X, off[p] + 1, off[q])
      <3>1. CASE m < MaxMarker
        <4>1. off[q] = off[p] + m
          BY <2>2, <2>3, <2>4, <3>1
        <4>2. NextOffset(F, p) <= E
          BY <1>0, <2>1, <2>6
        <4> QED BY <2>7, <3>1, <4>1, <4>2 DEF DecodedBlock
      <3>2. CASE ~(m < MaxMarker)
        <4>1. off[q] = off[p] + m - 1
          BY <2>2, <2>3, <2>4, <3>2
        <4>2. SubSeq(X, off[p] + 1, off[p] + m - 1) \in Seq(Byte)
          <5>1. \A r \in off[p] + 1 .. off[p] + m - 1 : X[r] \in Byte
            <6>1. off[p] \in Nat /\ off[p] + m - 1 <= Len(X) /\ m \in Nat /\ Len(X) \in Nat
              BY <1>0, <2>2, <2>3, <2>4, <4>1
            <6> HIDE DEF m, q
            <6>2. \A r \in off[p] + 1 .. off[p] + m - 1 : r \in 1 .. Len(X)
              BY ONLY <6>1
            <6> QED BY <6>2
          <5>2. off[p] + 1 \in Int /\ off[p] + m - 1 \in Int
            BY <2>2, <2>4
          <5> HIDE DEF m, q
          <5> QED BY <5>1, <5>2, SubSeqProperties
        <4>3. SubSeq(X, off[p] + 1, off[p] + m - 1) \o << >> = SubSeq(X, off[p] + 1, off[p] + m - 1)
          BY <4>2, ConcatEmptySeq
        <4> QED BY <2>7, <3>2, <4>1, <4>3 DEF DecodedBlock
      <3> QED BY <3>1, <3>2
    <2>9. from[p] = DecodedBlock(F, E, p) \o from[q]
      BY <1>3, <2>6
    <2>10. off[p] <= off[q]
      BY <2>2, <2>3, <2>4
    <2>11. SubSeq(X, off[p] + 1, off[q]) \o SubSeq(X, off[q] + 1, Len(X))
             = SubSeq(X, off[p] + 1, Len(X))
      <3>1. Len(X) <= Len(X)
        BY <1>0
      <3> HIDE DEF m, q
      <3> QED BY <1>0, <2>3, <2>4, <2>10, <3>1, Adjacent, ZenonT(40)
    <2> HIDE DEF m, q
    <2> QED BY <2>5, <2>8, <2>9, <2>11
  <1>6. \A p \in Nat \ {0} : p > E => p \in S
    <2>1. \A p \in Nat \ {0} : p > E => p \notin B
      BY <1>0, <1>2
    <2> QED BY <2>1 DEF Offset
  <1>7. ASSUME NEW p \in 1 .. E, \A q \in Nat \ {0} : q > p => q \in S
        PROVE  p \in S
    <2>1. p \in Offset
      BY <1>0 DEF Offset
    <2>2. p \in B => from[p] = SubSeq(X, off[p] + 1, Len(X))
      <3> HIDE DEF S
      <3> QED BY <1>4, <1>5, <1>7 DEF Offset
    <2> QED BY <2>1, <2>2
  <1>8. Nat \ {0} \subseteq S
    <2> HIDE DEF S
    <2> QED BY <1>0, <1>6, <1>7, BackwardInduction
  <1>9. from[1] = SubSeq(X, 1, Len(X))
    <2>1. 1 \in S /\ 0 + 1 = 1
      BY <1>8
    <2> QED BY <1>2, <2>1
  <1> QED BY <1>3, <1>9, SubSeqFull DEF E

\* X without a zero at its end, and the length of that.
Stripped(X) == IF X # << >> /\ X[Len(X)] = SPECIAL_CHAR THEN SubSeq(X, 1, Len(X) - 1) ELSE X

StrippedLen(X) == IF X # << >> /\ X[Len(X)] = SPECIAL_CHAR THEN Len(X) - 1 ELSE Len(X)

\* A frame without its terminator, as read_blocks collects it.
Unterminated(F) == SubSeq(F, 1, Len(F) - 1)

\* The first n elements of a sequence.
LEMMA PrefixProperties ==
    ASSUME NEW S, NEW s \in Seq(S), NEW n \in 0 .. Len(s)
    PROVE  /\ SubSeq(s, 1, n) \in Seq(S) /\ Len(SubSeq(s, 1, n)) = n
           /\ \A p \in 1 .. n : SubSeq(s, 1, n)[p] = s[p]
  <1>1. \A p \in 1 .. n : s[p] \in S
    OBVIOUS
  <1>2. /\ SubSeq(s, 1, n) \in Seq(S)
        /\ Len(SubSeq(s, 1, n)) = IF 1 <= n THEN n - 1 + 1 ELSE 0
        /\ \A p \in 1 .. n - 1 + 1 : SubSeq(s, 1, n)[p] = s[1 + p - 1]
    BY <1>1, SubSeqProperties
  <1>3. n \in Nat /\ n - 1 + 1 = n /\ \A p \in 1 .. n : 1 + p - 1 = p
    OBVIOUS
  <1>4. Len(SubSeq(s, 1, n)) = n
    BY <1>2, <1>3
  <1> QED BY <1>2, <1>3, <1>4

\* The bytes of a frame before its terminator are those of the frame.
LEMMA UnterminatedProperties ==
    ASSUME NEW X, NEW F, Frame(X, F)
    PROVE  /\ Unterminated(F) \in Seq(Byte) /\ Len(Unterminated(F)) = Len(F) - 1
           /\ \A p \in 1 .. Len(F) - 1 : Unterminated(F)[p] = F[p] /\ F[p] \in 1 .. MaxMarker
           /\ F = Append(Unterminated(F), SPECIAL_CHAR)
  <1>1. F \in Seq(Byte) /\ Len(F) \in Nat /\ Len(F) >= 1 /\ F[Len(F)] = SPECIAL_CHAR
    BY DEF Frame
  <1> DEFINE P == SubSeq(F, 1, Len(F) - 1)
  <1>2. P \in Seq(Byte) /\ Len(P) = Len(F) - 1 /\ \A p \in 1 .. Len(F) - 1 : P[p] = F[p]
    <2>1. Len(F) - 1 \in 0 .. Len(F)
      BY <1>1
    <2> QED BY <1>1, <2>1, PrefixProperties
  <1> HIDE DEF P
  <1>3. F = Append(P, SPECIAL_CHAR)
    <2>1. SPECIAL_CHAR \in Byte
      BY MaxMarkerAssumption DEF SPECIAL_CHAR, Byte
    <2>2. Append(P, SPECIAL_CHAR) \in Seq(Byte) /\ Len(Append(P, SPECIAL_CHAR)) = Len(F)
      BY <1>1, <1>2, <2>1
    <2>3. \A p \in 1 .. Len(F) : F[p] = Append(P, SPECIAL_CHAR)[p]
      BY <1>1, <1>2
    <2> QED BY <1>1, <2>2, <2>3, SeqEqual
  <1> QED BY <1>2, <1>3 DEF Unterminated, P, Frame

\* Stripped takes at most one byte.
LEMMA StrippedProperties ==
    ASSUME NEW X \in Seq(Byte)
    PROVE  /\ StrippedLen(X) \in Nat /\ StrippedLen(X) <= Len(X) /\ Len(X) - 1 <= StrippedLen(X)
           /\ Stripped(X) = SubSeq(X, 1, StrippedLen(X))
           /\ Stripped(X) \in Seq(Byte)
           /\ Len(Stripped(X)) = StrippedLen(X)
  <1>1. Len(X) \in Nat /\ (X # << >> => Len(X) >= 1)
    OBVIOUS
  <1>2. CASE X # << >> /\ X[Len(X)] = SPECIAL_CHAR
    <2>1. Stripped(X) = SubSeq(X, 1, Len(X) - 1) /\ StrippedLen(X) = Len(X) - 1
      BY <1>2 DEF Stripped, StrippedLen
    <2>2. Len(X) - 1 \in 0 .. Len(X)
      BY <1>1, <1>2
    <2>3. SubSeq(X, 1, Len(X) - 1) \in Seq(Byte) /\ Len(SubSeq(X, 1, Len(X) - 1)) = Len(X) - 1
      BY <2>2, PrefixProperties
    <2> QED BY <1>1, <2>1, <2>2, <2>3
  <1>3. CASE ~(X # << >> /\ X[Len(X)] = SPECIAL_CHAR)
    <2>1. Stripped(X) = X /\ StrippedLen(X) = Len(X)
      BY <1>3 DEF Stripped, StrippedLen
    <2>2. X = SubSeq(X, 1, Len(X))
      BY SubSeqFull
    <2> QED BY <1>1, <2>1, <2>2
  <1> QED BY <1>2, <1>3

\* Decoding a frame without its terminator, as read_blocks.c:125 does, gives back
\* what the frame holds except for a zero at its end.
LEMMA FrameBodyDecodes ==
    ASSUME NEW X \in Seq(Byte), NEW F, Frame(X, F)
    PROVE  cobs_decode(Unterminated(F), Len(Unterminated(F))) = Stripped(X)
  <1> DEFINE E == Len(F)
             P == Unterminated(F)
             R == StrippedLen(X)
             L == E - 1
  <1>0. /\ F \in Seq(Byte) /\ E \in Nat /\ E >= 1 /\ Len(X) \in Nat
        /\ P \in Seq(Byte) /\ Len(P) = L /\ L \in Nat /\ L \in 0 .. Len(P)
        /\ \A p \in 1 .. L : P[p] = F[p] /\ F[p] \in 1 .. MaxMarker
        /\ E \in Offset
    <2>1. F \in Seq(Byte) /\ E \in Nat /\ E >= 1 /\ Len(X) \in Nat
      BY DEF Frame
    <2>2. P \in Seq(Byte) /\ Len(P) = L /\ \A p \in 1 .. L : P[p] = F[p] /\ F[p] \in 1 .. MaxMarker
      BY UnterminatedProperties
    <2> HIDE DEF P, E
    <2> QED BY <2>1, <2>2 DEF Offset
  <1>00. R \in Nat /\ R <= Len(X) /\ Len(X) - 1 <= R /\ Stripped(X) = SubSeq(X, 1, R)
    BY StrippedProperties
  <1>1. PICK B, off : Layout(B, off, F, X, E) /\ off[E] = Len(X)
    BY DEF Frame
  <1>2. /\ off \in [Offset -> Nat] /\ off[1] = 0
        /\ B \subseteq 1 .. E /\ 1 \in B /\ E \in B
        /\ \A p \in B \ {E} : Marked(off, F, X, p) /\ p + F[p] \in B
    BY <1>1 DEF Layout
  <1>3. PICK from : /\ cobs_decode(P, L) = from[1]
                    /\ \A p \in Offset : p > L => from[p] = << >>
                    /\ \A p \in 1 .. L : from[p] = DecodedBlock(P, L, p) \o from[NextOffset(P, p)]
    <2> HIDE DEF P, L
    <2> QED BY <1>0, DecodeUnfold
  <1> HIDE DEF E, P, R
  <1>4. from[E] = << >>
    BY <1>0, <1>3
  <1> DEFINE S == {p \in Offset : p \in B /\ p # E => from[p] = SubSeq(X, off[p] + 1, R)}
  <1>5. ASSUME NEW p \in 1 .. L, p \in B, \A q \in Offset : q > p => q \in S
        PROVE  from[p] = SubSeq(X, off[p] + 1, R)
    <2> DEFINE m == F[p]
               q == p + m
    <2>1. Marked(off, F, X, p) /\ q \in B /\ q \in 1 .. E /\ P[p] = m
      BY <1>0, <1>2, <1>5
    <2>2. m \in 1 .. MaxMarker /\ MaxMarker \in Nat /\ p \in Offset /\ p \in 1 .. Len(F)
      BY <1>0, <1>5, <2>1, MaxMarkerAssumption DEF Marked, Offset, E
    <2>3. off[q] = off[p] + m - (IF m = MaxMarker THEN 1 ELSE 0) /\ off[q] <= Len(X)
      BY <2>1 DEF Marked
    <2>4. q \in Offset /\ q > p /\ off[p] \in Nat /\ off[q] \in Nat
      <3>1. q \in Offset /\ q > p
        <4> HIDE DEF m
        <4> QED BY <1>0, <2>2 DEF Offset
      <3> HIDE DEF q
      <3> QED BY <1>2, <2>2, <3>1
    <2>5. /\ SubSeq(F, p + 1, p + m - 1) = SubSeq(X, off[p] + 1, off[p] + m - 1)
          /\ m < MaxMarker => SubSeq(F, p + 1, p + m - 1) \o <<SPECIAL_CHAR>>
                                     = SubSeq(X, off[p] + 1, off[p] + m)
      <3>1. q <= Len(F)
        BY <1>0, <2>1 DEF E
      <3> QED BY <1>0, <1>2, <2>1, <2>2, <3>1, BlockBytes
    <2>6. SubSeq(P, p + 1, p + m - 1) = SubSeq(F, p + 1, p + m - 1)
      <3>1. p + m - 1 <= L /\ p + 1 \in Int /\ p + m - 1 \in Int
        <4> HIDE DEF m
        <4> QED BY <1>0, <2>1, <2>2
      <3>2. \A r \in p + 1 .. p + m - 1 : r \in 1 .. L
        <4> HIDE DEF m
        <4> QED BY <1>0, <2>2, <3>1
      <3>3. \A r \in p + 1 .. p + m - 1 : P[r] = F[r] /\ P[r] \in Byte
        BY <1>0, <3>2
      <3> DEFINE a == p + 1
                 b == p + m - 1
      <3>4. a \in Int /\ b \in Int /\ \A r \in a .. b : P[r] = F[r] /\ P[r] \in Byte
        BY <3>1, <3>3
      <3> HIDE DEF a, b
      <3>5. /\ SubSeq(P, a, b) \in Seq(Byte) /\ Len(SubSeq(P, a, b)) = IF a <= b THEN b - a + 1 ELSE 0
            /\ \A r \in 1 .. b - a + 1 : SubSeq(P, a, b)[r] = P[a + r - 1]
        BY <3>4, SubSeqProperties
      <3>6. /\ SubSeq(F, a, b) \in Seq(Byte) /\ Len(SubSeq(F, a, b)) = IF a <= b THEN b - a + 1 ELSE 0
            /\ \A r \in 1 .. b - a + 1 : SubSeq(F, a, b)[r] = F[a + r - 1]
        <4>1. \A r \in a .. b : F[r] \in Byte
          BY <3>4
        <4> QED BY <3>4, <4>1, SubSeqProperties
      <3>7. \A r \in 1 .. Len(SubSeq(P, a, b)) : SubSeq(P, a, b)[r] = SubSeq(F, a, b)[r]
        <4> SUFFICES ASSUME NEW r \in 1 .. Len(SubSeq(P, a, b))
                     PROVE  SubSeq(P, a, b)[r] = SubSeq(F, a, b)[r]
          OBVIOUS
        <4>1. r \in 1 .. b - a + 1 /\ a + r - 1 \in a .. b
          BY <3>4, <3>5
        <4> QED BY <3>4, <3>5, <3>6, <4>1
      <3>8. SubSeq(P, a, b) = SubSeq(F, a, b)
        BY <3>5, <3>6, <3>7, SeqEqual
      <3> QED BY <3>8 DEF a, b
    <2>7. NextOffset(P, p) = q
      BY <2>1, <2>2 DEF NextOffset, SPECIAL_CHAR
    <2>8. from[p] = DecodedBlock(P, L, p) \o from[q]
      BY <1>3, <2>7
    <2>9. SubSeq(X, off[p] + 1, off[p] + m - 1) \in Seq(Byte) /\ off[p] + m - 1 <= Len(X)
      <3> HIDE DEF m, q
      <3>1. off[p] + m - 1 <= Len(X)
        BY <1>0, <2>2, <2>3, <2>4
      <3>2. \A r \in off[p] + 1 .. off[p] + m - 1 : X[r] \in Byte
        BY <1>0, <2>2, <2>4, <3>1
      <3>3. off[p] + 1 \in Int /\ off[p] + m - 1 \in Int
        BY <2>2, <2>4
      <3> QED BY <3>1, <3>2, <3>3, SubSeqProperties
    <2>10. SubSeq(X, off[p] + 1, off[p] + m - 1) \o << >> = SubSeq(X, off[p] + 1, off[p] + m - 1)
      BY <2>9, ConcatEmptySeq
    <2>11. CASE q = E
      <3>1. ~(NextOffset(P, p) <= L)
        BY <1>0, <2>7, <2>11
      <3>2. DecodedBlock(P, L, p) = SubSeq(X, off[p] + 1, off[p] + m - 1)
        BY <2>1, <2>5, <2>6, <2>10, <3>1 DEF DecodedBlock
      <3>3. off[q] = Len(X)
        BY <1>1, <2>11
      <3>4. off[p] + m - 1 = R
        <4>1. CASE m < MaxMarker
          <5>1. off[p] + m = Len(X) /\ X[off[p] + m] = SPECIAL_CHAR
            <6>1. X[off[p] + m] = SPECIAL_CHAR
              BY <2>1, <4>1 DEF Marked
            <6> HIDE DEF m, q
            <6> QED BY <2>2, <2>3, <2>4, <3>3, <4>1, <6>1
          <5>2. X # << >>
            <6> HIDE DEF m, q
            <6> QED BY <2>2, <2>4, <5>1
          <5>3. R = Len(X) - 1
            BY <5>1, <5>2 DEF R, StrippedLen
          <5>4. \A a, b, l \in Int : a + b = l => a + b - 1 = l - 1
            OBVIOUS
          <5>5. off[p] \in Int /\ m \in Int /\ Len(X) \in Int
            BY <1>0, <2>2, <2>4
          <5> HIDE DEF m, q
          <5> QED BY <5>1, <5>3, <5>4, <5>5
        <4>2. CASE ~(m < MaxMarker)
          <5>1. m = MaxMarker /\ off[p] + m - 1 = Len(X)
            <6> HIDE DEF m, q
            <6> QED BY <2>2, <2>3, <2>4, <3>3, <4>2
          <5>2. m - 1 \in 1 .. m - 1 /\ p + (m - 1) \in 1 .. L
            BY <1>0, <2>1, <2>2, <5>1, MaxMarkerAssumption
          <5>3. F[p + (m - 1)] = X[off[p] + (m - 1)] /\ F[p + (m - 1)] # SPECIAL_CHAR
            <6>1. F[p + (m - 1)] = X[off[p] + (m - 1)]
              BY <2>1, <5>2 DEF Marked
            <6>2. F[p + (m - 1)] \in 1 .. MaxMarker
              BY <1>0, <5>2
            <6> QED BY <6>1, <6>2 DEF SPECIAL_CHAR
          <5>4. X[Len(X)] # SPECIAL_CHAR
            BY <5>1, <5>3
          <5>5. R = Len(X)
            BY <5>4 DEF R, StrippedLen
          <5> QED BY <5>1, <5>5
        <4> QED BY <4>1, <4>2
      <3>5. from[q] = << >>
        BY <1>4, <2>11
      <3> HIDE DEF m, q
      <3> QED BY <2>8, <2>10, <3>2, <3>4, <3>5
    <2>12. CASE q # E
      <3>1. q <= L /\ q \in 1 .. L
        BY <1>0, <2>1, <2>12
      <3>2. DecodedBlock(P, L, p) = SubSeq(X, off[p] + 1, off[q])
        <4>1. CASE m < MaxMarker
          <5>1. off[q] = off[p] + m
            <6> HIDE DEF m, q
            <6> QED BY <2>2, <2>3, <2>4, <4>1
          <5> QED BY <2>1, <2>5, <2>6, <2>7, <3>1, <4>1, <5>1 DEF DecodedBlock
        <4>2. CASE ~(m < MaxMarker)
          <5>1. off[q] = off[p] + m - 1
            <6> HIDE DEF m, q
            <6> QED BY <2>2, <2>3, <2>4, <4>2
          <5> QED BY <2>1, <2>5, <2>6, <2>10, <4>2, <5>1 DEF DecodedBlock
        <4> QED BY <4>1, <4>2
      <3>3. from[q] = SubSeq(X, off[q] + 1, R)
        BY <1>5, <2>1, <2>4, <2>12
      <3>4. off[q] < Len(X)
        <4>1. Marked(off, F, X, q) /\ F[q] \in 1 .. MaxMarker
          BY <1>0, <1>2, <2>1, <2>12, <3>1
        <4>2. /\ off[q + F[q]] = off[q] + F[q] - (IF F[q] = MaxMarker THEN 1 ELSE 0)
              /\ off[q + F[q]] <= Len(X)
          BY <4>1 DEF Marked
        <4> HIDE DEF m, q
        <4>3. \A n \in 1 .. MaxMarker : n - (IF n = MaxMarker THEN 1 ELSE 0) >= 1
          BY MaxMarkerAssumption
        <4> DEFINE n == F[q]
        <4>4. n \in 1 .. MaxMarker /\ n - (IF n = MaxMarker THEN 1 ELSE 0) >= 1
          BY <4>1, <4>3
        <4>5. off[q] + n - (IF n = MaxMarker THEN 1 ELSE 0) <= Len(X)
          BY <4>2
        <4> HIDE DEF n
        <4> QED BY <1>0, <2>2, <2>4, <4>4, <4>5
      <3>5. off[p] <= off[q] /\ off[q] <= R
        <4> HIDE DEF m, q
        <4> QED BY <1>0, <1>00, <2>2, <2>3, <2>4, <3>4, SMTT(30)
      <3>6. SubSeq(X, off[p] + 1, off[q]) \o SubSeq(X, off[q] + 1, R) = SubSeq(X, off[p] + 1, R)
        <4> HIDE DEF m, q
        <4> QED BY <1>00, <2>4, <3>5, Adjacent
      <3> HIDE DEF m, q
      <3> QED BY <2>8, <3>2, <3>3, <3>6
    <2> QED BY <2>11, <2>12
  <1>6. \A p \in Nat \ {0} : p > L => p \in S
    <2>1. \A p \in Nat \ {0} : p > L => (p \notin B \/ p = E)
      BY <1>0, <1>2
    <2> QED BY <2>1 DEF Offset
  <1>7. ASSUME NEW p \in 1 .. L, \A q \in Nat \ {0} : q > p => q \in S
        PROVE  p \in S
    <2>1. p \in Offset
      BY <1>0 DEF Offset
    <2>2. p \in B => from[p] = SubSeq(X, off[p] + 1, R)
      <3> HIDE DEF S
      <3> QED BY <1>5, <1>7 DEF Offset
    <2> QED BY <2>1, <2>2
  <1>8. Nat \ {0} \subseteq S
    <2> HIDE DEF S
    <2> QED BY <1>0, <1>6, <1>7, BackwardInduction
  <1>9. from[1] = SubSeq(X, 1, R)
    <2>1. CASE E = 1
      <3>1. Len(X) = 0 /\ R = 0
        BY <1>0, <1>00, <1>1, <1>2, <2>1
      <3>2. SubSeq(X, 1, 0) = << >>
        BY SubSeqEmpty
      <3> QED BY <1>4, <2>1, <3>1, <3>2
    <2>2. CASE E # 1
      <3>1. 1 \in S /\ 0 + 1 = 1
        BY <1>8
      <3> QED BY <1>2, <2>2, <3>1
    <2> QED BY <2>1, <2>2
  <1> QED BY <1>0, <1>00, <1>3, <1>9 DEF P

---------------------------------------------------------------------------
(*************************************************************************)
(* The verifiers and the length scans.                                   *)
(*************************************************************************)

\* alt_cobs_verify and cobs_verify give the same answer on every byte string.
LEMMA VerifiersEqual ==
    ASSUME NEW src \in Seq(Byte)
    PROVE  alt_cobs_verify(src, Len(src)) = cobs_verify(src, Len(src))
  <1> DEFINE len == Len(src)
             NonZero(p) == \A q \in p .. len : src[q] # SPECIAL_CHAR
  <1>0. len \in Nat /\ len \in 0 .. Len(src)
    OBVIOUS
  <1>1. PICK walk : /\ alt_cobs_verify(src, len) <=> walk[1] /\ \A p \in 1 .. len : src[p] # SPECIAL_CHAR
                    /\ \A p \in Offset : walk[p] <=> IF p > len THEN p = len + 1
                                                     ELSE src[p] # 0 /\ walk[p + src[p]]
    <2> HIDE DEF len
    <2> QED BY <1>0, AltVerifyUnfold
  <1>2. PICK rest \in [Offset -> [Nat -> BOOLEAN]] :
             /\ cobs_verify(src, len) = rest[1][0]
             /\ \A p \in Offset, marker \in Nat : rest[p][marker] =
                  IF p > len THEN marker = 0
                  ELSE /\ src[p] # SPECIAL_CHAR
                       /\ rest[p + 1][(IF marker = 0 THEN src[p] ELSE marker) - 1]
    <2> HIDE DEF len
    <2> QED BY <1>0, VerifyUnfold
  <1>3. \A p \in Offset : p > len => (walk[p] <=> p = len + 1)
    BY <1>1
  <1>4. ASSUME NEW p \in 1 .. len
        PROVE  /\ p \in Offset /\ p + 1 \in Offset /\ src[p] \in Nat
               /\ walk[p] <=> src[p] # 0 /\ walk[p + src[p]]
               /\ \A m \in Nat : rest[p][m] <=> /\ src[p] # 0
                                                /\ rest[p + 1][(IF m = 0 THEN src[p] ELSE m) - 1]
    <2>1. p \in Offset /\ p + 1 \in Offset /\ ~(p > len) /\ src[p] \in Nat
      BY <1>0, MaxMarkerAssumption DEF Offset, Byte
    <2> HIDE DEF len
    <2> QED BY <1>1, <1>2, <2>1 DEF SPECIAL_CHAR
  <1> HIDE DEF len
  <1> DEFINE S == {p \in Offset : p <= len + 1 => \A m \in Nat :
                     rest[p][m] <=> p + m <= len + 1 /\ walk[p + m] /\ NonZero(p)}
  <1>5. \A p \in Nat \ {0} : p > len => p \in S
    <2> SUFFICES ASSUME NEW p \in Offset, p > len, p <= len + 1, NEW m \in Nat
                 PROVE  rest[p][m] <=> p + m <= len + 1 /\ walk[p + m] /\ NonZero(p)
      BY DEF Offset
    <2>1. p = len + 1 /\ NonZero(p)
      BY <1>0 DEF Offset
    <2>2. walk[len + 1]
      BY <1>0, <1>3, <2>1
    <2>3. rest[p][m] <=> m = 0
      BY <1>2
    <2>4. m = 0 <=> p + m <= len + 1
      BY <1>0, <2>1
    <2>5. m = 0 => p + m = len + 1
      BY <1>0, <2>1
    <2> QED BY <2>1, <2>2, <2>3, <2>4, <2>5
  <1>6. ASSUME NEW p \in 1 .. len, \A q \in Nat \ {0} : q > p => q \in S
        PROVE  p \in S
    <2>1. /\ p \in Offset /\ p + 1 \in Offset /\ src[p] \in Nat /\ p \in Nat
          /\ p + 1 > p /\ p + 1 <= len + 1
      BY <1>0, <1>4
    <2>2. \A m \in Nat : rest[p + 1][m] <=> (p + 1) + m <= len + 1 /\ walk[(p + 1) + m] /\ NonZero(p + 1)
      <3>1. p + 1 \in S
        BY <1>6, <2>1 DEF Offset
      <3> QED BY <2>1, <3>1
    <2>3. NonZero(p) <=> src[p] # 0 /\ NonZero(p + 1)
      <3>1. \A q \in p .. len : q = p \/ q \in p + 1 .. len
        BY <1>0, <2>1
      <3>2. p \in p .. len /\ \A q \in p + 1 .. len : q \in p .. len
        BY <1>0, <2>1
      <3> QED BY <3>1, <3>2 DEF SPECIAL_CHAR
    <2> HIDE DEF NonZero, S
    <2>4. ASSUME NEW m \in Nat
          PROVE  rest[p][m] <=> p + m <= len + 1 /\ walk[p + m] /\ NonZero(p)
      <3> DEFINE k == IF m = 0 THEN src[p] ELSE m
      <3>1. rest[p][m] <=> src[p] # 0 /\ rest[p + 1][k - 1]
        BY <1>4
      <3>2. CASE src[p] = 0
        BY <2>3, <3>1, <3>2
      <3>3. CASE src[p] # 0
        <4>1. k \in Nat /\ k - 1 \in Nat /\ (p + 1) + (k - 1) = p + k
          BY <2>1, <3>3
        <4>2. rest[p + 1][k - 1] <=> p + k <= len + 1 /\ walk[p + k] /\ NonZero(p + 1)
          <5> HIDE DEF k
          <5> QED BY <2>2, <4>1
        <4>3. rest[p][m] <=> p + k <= len + 1 /\ walk[p + k] /\ NonZero(p)
          BY <2>3, <3>1, <3>3, <4>2
        <4>4. CASE m # 0
          <5>1. k = m
            BY <4>4
          <5> HIDE DEF k
          <5> QED BY <4>3, <5>1
        <4>5. CASE m = 0
          <5>1. k = src[p] /\ p + m = p
            BY <2>1, <4>5
          <5> HIDE DEF k
          <5>2. walk[p] <=> walk[p + k]
            BY <1>4, <3>3, <5>1
          <5>3. p <= len + 1
            BY <1>0, <2>1
          <5>4. walk[p + k] => p + k <= len + 1
            <6>1. p + k \in Offset
              BY <2>1, <4>1 DEF Offset
            <6>2. p + k > len => (walk[p + k] <=> p + k = len + 1)
              BY <1>3, <6>1
            <6> QED BY <1>0, <2>1, <4>1, <6>2
          <5> QED BY <4>3, <5>1, <5>2, <5>3, <5>4
        <4> QED BY <4>4, <4>5
      <3> QED BY <3>2, <3>3
    <2> QED BY <2>1, <2>4 DEF S
  <1>7. Nat \ {0} \subseteq S
    <2> HIDE DEF S
    <2> QED BY <1>0, <1>5, <1>6, BackwardInduction
  <1>8. rest[1][0] <=> walk[1] /\ NonZero(1)
    <2>1. 1 \in S /\ 1 <= len + 1 /\ 1 + 0 = 1 /\ 1 + 0 <= len + 1
      BY <1>0, <1>7
    <2> HIDE DEF NonZero
    <2> QED BY <2>1
  <1>9. cobs_verify(src, len) \in BOOLEAN
    BY <1>2 DEF Offset
  <1>10. alt_cobs_verify(src, len) \in BOOLEAN
    BY DEF alt_cobs_verify
  <1> QED BY <1>1, <1>2, <1>8, <1>9, <1>10 DEF len

\* Both verifiers accept every frame without its terminator.
LEMMA FrameVerifies ==
    ASSUME NEW X \in Seq(Byte), NEW F, Frame(X, F)
    PROVE  alt_cobs_verify(Unterminated(F), Len(Unterminated(F)))
  <1> DEFINE E == Len(F)
             P == Unterminated(F)
             L == E - 1
  <1>0. /\ F \in Seq(Byte) /\ E \in Nat /\ E >= 1 /\ Len(X) \in Nat
        /\ P \in Seq(Byte) /\ Len(P) = L /\ L \in Nat /\ L \in 0 .. Len(P)
        /\ \A p \in 1 .. L : P[p] = F[p] /\ F[p] \in 1 .. MaxMarker
        /\ E \in Offset
    <2>1. F \in Seq(Byte) /\ E \in Nat /\ E >= 1 /\ Len(X) \in Nat
      BY DEF Frame
    <2>2. P \in Seq(Byte) /\ Len(P) = L /\ \A p \in 1 .. L : P[p] = F[p] /\ F[p] \in 1 .. MaxMarker
      BY UnterminatedProperties
    <2> HIDE DEF P, E
    <2> QED BY <2>1, <2>2 DEF Offset
  <1>1. PICK B, off : Layout(B, off, F, X, E) /\ off[E] = Len(X)
    BY DEF Frame
  <1>2. /\ B \subseteq 1 .. E /\ 1 \in B /\ E \in B
        /\ \A p \in B \ {E} : p + F[p] \in B
    BY <1>1 DEF Layout
  <1> HIDE DEF P, L, E
  <1>3. PICK walk : /\ alt_cobs_verify(P, L) <=> walk[1] /\ \A p \in 1 .. L : P[p] # SPECIAL_CHAR
                    /\ \A p \in Offset : walk[p] <=> IF p > L THEN p = L + 1
                                                     ELSE P[p] # 0 /\ walk[p + P[p]]
    BY <1>0, AltVerifyUnfold
  <1> DEFINE S == {p \in Offset : p \in B => walk[p]}
  <1>4. \A p \in Nat \ {0} : p > L => p \in S
    <2>1. \A p \in Nat \ {0} : p > L /\ p \in B => p = L + 1
      BY <1>0, <1>2 DEF L
    <2> QED BY <1>3, <2>1 DEF Offset
  <1>5. ASSUME NEW p \in 1 .. L, \A q \in Nat \ {0} : q > p => q \in S
        PROVE  p \in S
    <2>1. p \in Offset /\ ~(p > L) /\ P[p] = F[p] /\ F[p] \in 1 .. MaxMarker
      BY <1>0 DEF Offset
    <2>2. walk[p] <=> walk[p + F[p]]
      <3>1. F[p] # 0
        BY <2>1
      <3> QED BY <1>3, <2>1, <3>1
    <2>3. p + F[p] \in Nat \ {0} /\ p + F[p] > p
      BY <1>0, <2>1, MaxMarkerAssumption
    <2>4. p \in B => p + F[p] \in B
      <3>1. p # E
        BY <1>0 DEF L
      <3> QED BY <1>2, <3>1
    <2> QED BY <1>5, <2>1, <2>2, <2>3, <2>4
  <1>6. Nat \ {0} \subseteq S
    <2> HIDE DEF S
    <2> QED BY <1>0, <1>4, <1>5, BackwardInduction
  <1>7. walk[1]
    BY <1>2, <1>6
  <1>8. \A p \in 1 .. L : P[p] # SPECIAL_CHAR
    <2>1. \A p \in 1 .. L : P[p] \in 1 .. MaxMarker
      BY <1>0
    <2> QED BY <2>1 DEF SPECIAL_CHAR
  <1> QED BY <1>0, <1>3, <1>7, <1>8 DEF P

\* cobs_encoded_length_from_encoded finds the first zero.
LEMMA FirstZero ==
    ASSUME NEW src, NEW n \in 1 .. Len(src), Len(src) \in Nat, src[n] = SPECIAL_CHAR,
           \A p \in 1 .. n - 1 : src[p] # SPECIAL_CHAR
    PROVE  cobs_encoded_length_from_encoded(src) = n
  <1> DEFINE Q(k) == src[k] = SPECIAL_CHAR /\ \A p \in 1 .. k - 1 : src[p] # SPECIAL_CHAR
             c == CHOOSE k \in 1 .. Len(src) : Q(k)
  <1>1. Q(n)
    OBVIOUS
  <1>2. c \in 1 .. Len(src) /\ Q(c)
    <2> HIDE DEF Q
    <2> QED BY <1>1
  <1> HIDE DEF c
  <1>3. c = n
    <2>1. ~(c < n)
      <3>1. c < n => c \in 1 .. n - 1
        BY <1>2
      <3> QED BY <1>2, <3>1
    <2>2. ~(n < c)
      <3>1. n < c => n \in 1 .. c - 1
        BY <1>2
      <3> QED BY <1>2, <3>1
    <2> QED BY <1>2, <2>1, <2>2
  <1> QED BY <1>3 DEF c, cobs_encoded_length_from_encoded

\* On a frame the two length scans of the receiver return the length of the
\* frame and of what it holds.
LEMMA FrameLengths ==
    ASSUME NEW X \in Seq(Byte), NEW F, Frame(X, F)
    PROVE  /\ cobs_encoded_length_from_encoded(F) = Len(F)
           /\ cobs_decoded_length_from_encoded(F) = Len(X)
  <1> DEFINE E == Len(F)
  <1>0. /\ F \in Seq(Byte) /\ E \in Nat /\ E >= 1 /\ Len(X) \in Nat /\ F[E] = SPECIAL_CHAR
        /\ \A p \in 1 .. E - 1 : F[p] \in 1 .. MaxMarker
        /\ E \in 1 .. Len(F) /\ E \in Offset
    BY DEF Frame, Offset
  <1>1. PICK B, off : Layout(B, off, F, X, E) /\ off[E] = Len(X)
    BY DEF Frame
  <1>2. /\ off \in [Offset -> Nat] /\ off[1] = 0
        /\ B \subseteq 1 .. E /\ 1 \in B /\ E \in B
        /\ \A p \in B \ {E} : Marked(off, F, X, p) /\ p + F[p] \in B
    BY <1>1 DEF Layout
  <1>3. \A p \in 1 .. E - 1 : F[p] # SPECIAL_CHAR
    BY <1>0 DEF SPECIAL_CHAR
  <1>4. cobs_encoded_length_from_encoded(F) = E
    BY <1>0, <1>3, FirstZero
  <1> HIDE DEF E
  <1>5. PICK sum : /\ cobs_decoded_length_from_encoded(F) = sum[1]
                   /\ \A p \in Offset :
                         sum[p] = IF p = E THEN 0
                                  ELSE IF p > E THEN -1
                                  ELSE IF sum[p + F[p]] = -1 THEN -1
                                  ELSE sum[p + F[p]]
                                         + IF F[p] = MaxMarker THEN FullBlock ELSE F[p]
    BY <1>0, <1>3, <1>4, DecodedLengthUnfold
  <1> DEFINE S == {p \in Offset : p \in B => sum[p] = Len(X) - off[p]}
  <1>6. \A p \in Nat \ {0} : p > E - 1 => p \in S
    <2>1. \A p \in Nat \ {0} : p > E - 1 /\ p \in B => p = E
      BY <1>0, <1>2
    <2>2. sum[E] = 0 /\ Len(X) - off[E] = 0
      BY <1>0, <1>1, <1>5
    <2> QED BY <2>1, <2>2 DEF Offset
  <1>7. ASSUME NEW p \in 1 .. E - 1, \A q \in Nat \ {0} : q > p => q \in S
        PROVE  p \in S
    <2> SUFFICES ASSUME p \in B
                 PROVE  sum[p] = Len(X) - off[p]
      BY <1>0 DEF Offset
    <2> DEFINE m == F[p]
               q == p + m
    <2>1. p \in Offset /\ p # E /\ ~(p > E) /\ m \in 1 .. MaxMarker /\ MaxMarker \in Nat
      BY <1>0, MaxMarkerAssumption DEF Offset
    <2>2. q \in Nat \ {0} /\ q > p /\ q \in B /\ Marked(off, F, X, p)
      <3>1. q \in B /\ Marked(off, F, X, p)
        BY <1>2, <2>1
      <3> HIDE DEF m
      <3> QED BY <1>0, <2>1, <3>1
    <2>3. off[q] = off[p] + m - (IF m = MaxMarker THEN 1 ELSE 0) /\ off[q] <= Len(X)
      BY <2>2 DEF Marked
    <2>4. sum[q] = Len(X) - off[q]
      BY <1>7, <2>2
    <2>5. off[p] \in Nat /\ off[q] \in Nat
      BY <1>2, <2>1, <2>2 DEF Offset
    <2>6. sum[p] = IF sum[q] = -1 THEN -1
                   ELSE sum[q] + IF m = MaxMarker THEN FullBlock ELSE m
      BY <1>5, <2>1
    <2> HIDE DEF m, q
    <2>7. sum[q] # -1
      BY <1>0, <2>3, <2>4, <2>5
    <2>8. CASE m = MaxMarker
      <3>1. off[q] = off[p] + m - 1 /\ sum[p] = (Len(X) - off[q]) + (m - 1)
        BY <2>3, <2>4, <2>6, <2>7, <2>8 DEF FullBlock
      <3> QED BY <1>0, <2>1, <2>5, <3>1
    <2>9. CASE m # MaxMarker
      <3>1. off[q] = off[p] + m /\ sum[p] = (Len(X) - off[q]) + m
        BY <2>1, <2>3, <2>4, <2>5, <2>6, <2>7, <2>9
      <3> QED BY <1>0, <2>1, <2>5, <3>1
    <2> QED BY <2>8, <2>9
  <1>8. Nat \ {0} \subseteq S
    <2>1. E - 1 \in Nat
      BY <1>0
    <2> HIDE DEF S
    <2> QED BY <1>6, <1>7, <2>1, BackwardInduction
  <1>9. sum[1] = Len(X) - off[1]
    BY <1>2, <1>8
  <1>10. sum[1] = Len(X)
    BY <1>0, <1>2, <1>9
  <1> QED BY <1>4, <1>5, <1>10 DEF E

\* A non-empty string that the verifiers accept is decoded to fewer bytes than
\* it has, so inside malloc(bindex) of read_blocks.c:124.
LEMMA VerifiedDecodes ==
    ASSUME NEW src \in Seq(Byte), src # << >>, alt_cobs_verify(src, Len(src))
    PROVE  Len(cobs_decode(src, Len(src))) < Len(src)
  <1> DEFINE len == Len(src)
  <1>0. len \in Nat /\ len >= 1 /\ len \in 0 .. Len(src)
    OBVIOUS
  <1>1. PICK walk : /\ alt_cobs_verify(src, len)
                         <=> walk[1] /\ \A p \in 1 .. len : src[p] # SPECIAL_CHAR
                    /\ \A p \in Offset : walk[p] <=> IF p > len THEN p = len + 1
                                                     ELSE src[p] # 0 /\ walk[p + src[p]]
    <2> HIDE DEF len
    <2> QED BY <1>0, AltVerifyUnfold
  <1>2. PICK from : /\ cobs_decode(src, len) = from[1]
                    /\ \A p \in Offset : p > len => from[p] = << >>
                    /\ \A p \in 1 .. len :
                         from[p] = DecodedBlock(src, len, p) \o from[NextOffset(src, p)]
    <2> HIDE DEF len
    <2> QED BY <1>0, DecodeUnfold
  <1> DEFINE S == {p \in Offset : walk[p] => /\ from[p] \in Seq(Byte)
                                             /\ p <= len => Len(from[p]) <= len - p}
  <1>3. \A p \in Nat \ {0} : p > len => p \in S
    <2>1. << >> \in Seq(Byte)
      OBVIOUS
    <2>2. \A p \in Nat \ {0} : p > len => p \in Offset /\ ~(p <= len)
      BY <1>0 DEF Offset
    <2> HIDE DEF len
    <2> QED BY <1>2, <2>1, <2>2
  <1>4. ASSUME NEW p \in 1 .. len, \A q \in Nat \ {0} : q > p => q \in S
        PROVE  p \in S
    <2> DEFINE m == src[p]
               q == p + m
               b == SubSeq(src, p + 1, p + m - 1)
    <2>0. p \in Offset /\ ~(p > len)
      BY DEF Offset
    <2> SUFFICES ASSUME walk[p]
                 PROVE  from[p] \in Seq(Byte) /\ Len(from[p]) <= len - p
      BY <2>0
    <2>1. m # 0 /\ walk[q]
      BY <1>1, <2>0
    <2>2. m \in 1 .. MaxMarker /\ MaxMarker \in Nat
      BY <2>1, MaxMarkerAssumption DEF Byte
    <2>3. q \in Offset /\ q \in Nat \ {0} /\ q > p
      <3> HIDE DEF m
      <3> QED BY <2>2 DEF Offset
    <2>4. q <= len + 1
      <3> HIDE DEF q
      <3> QED BY <1>0, <1>1, <2>1, <2>3
    <2>5. from[q] \in Seq(Byte) /\ (q <= len => Len(from[q]) <= len - q) /\ (q > len => Len(from[q]) = 0)
      <3>1. q > len => Len(from[q]) = 0
        <4> HIDE DEF q
        <4> QED BY <1>2, <2>3
      <3> HIDE DEF q, len
      <3> QED BY <1>4, <2>1, <2>3, <3>1
    <2>6. b \in Seq(Byte) /\ Len(b) = m - 1
      <3> HIDE DEF m
      <3>1. p \in Nat /\ m \in Nat /\ m >= 1 /\ p + m <= len + 1 /\ p >= 1
        BY <2>2, <2>4
      <3>2. \A r \in p + 1 .. p + m - 1 : src[r] \in Byte
        BY <1>0, <3>1
      <3>3. /\ b \in Seq(Byte) /\ Len(b) = (IF p + 1 <= p + m - 1 THEN (p + m - 1) - (p + 1) + 1 ELSE 0)
        BY <3>1, <3>2, SubSeqProperties
      <3> HIDE DEF b
      <3> QED BY <3>1, <3>3
    <2>7. NextOffset(src, p) = q
      BY <2>1 DEF NextOffset, SPECIAL_CHAR
    <2>8. from[p] = DecodedBlock(src, len, p) \o from[q]
      <3> HIDE DEF q, len
      <3> QED BY <1>2, <2>7
    <2>9. <<SPECIAL_CHAR>> \in Seq(Byte) /\ Len(<<SPECIAL_CHAR>>) = 1
      <3>1. SPECIAL_CHAR \in Byte
        BY <2>2 DEF SPECIAL_CHAR, Byte
      <3> QED BY <3>1
    <2>10. \/ DecodedBlock(src, len, p) = b \o << >>
           \/ q <= len /\ DecodedBlock(src, len, p) = b \o <<SPECIAL_CHAR>>
      <3> HIDE DEF len
      <3> QED BY <2>7 DEF DecodedBlock
    <2> HIDE DEF b, m, q, len
    <2>11. p + (m - 1) = q - 1 /\ p + m = q /\ p \in Nat /\ m \in Nat /\ q \in Nat
      BY <1>0, <2>2, <2>3 DEF q
    <2>12. \A s, t \in Seq(Byte) : s \o t \in Seq(Byte) /\ Len(s \o t) = Len(s) + Len(t)
      OBVIOUS
    <2>13. CASE DecodedBlock(src, len, p) = b \o << >>
      <3>1. DecodedBlock(src, len, p) \in Seq(Byte) /\ Len(DecodedBlock(src, len, p)) = m - 1
        BY <2>6, <2>13
      <3>2. from[p] \in Seq(Byte) /\ Len(from[p]) = (m - 1) + Len(from[q])
        BY <2>5, <2>8, <2>12, <3>1
      <3>3. Len(from[q]) \in Nat
        BY <2>5
      <3> QED BY <1>0, <2>4, <2>5, <2>11, <3>2, <3>3
    <2>14. CASE q <= len /\ DecodedBlock(src, len, p) = b \o <<SPECIAL_CHAR>>
      <3>1. DecodedBlock(src, len, p) \in Seq(Byte) /\ Len(DecodedBlock(src, len, p)) = (m - 1) + 1
        BY <2>6, <2>9, <2>14
      <3>2. from[p] \in Seq(Byte) /\ Len(from[p]) = ((m - 1) + 1) + Len(from[q])
        BY <2>5, <2>8, <2>12, <3>1
      <3>3. Len(from[q]) \in Nat
        BY <2>5
      <3> QED BY <1>0, <2>5, <2>11, <2>14, <3>2, <3>3
    <2> QED BY <2>10, <2>13, <2>14
  <1>5. Nat \ {0} \subseteq S
    <2> HIDE DEF S, len
    <2> QED BY <1>0, <1>3, <1>4, BackwardInduction
  <1>6. walk[1] /\ 1 \in S /\ 1 <= len
    BY <1>0, <1>1, <1>5
  <1>7. from[1] \in Seq(Byte) /\ Len(from[1]) <= len - 1
    BY <1>6
  <1> HIDE DEF len
  <1>8. Len(from[1]) < len
    <2>1. Len(from[1]) \in Nat
      BY <1>7
    <2> QED BY <1>0, <1>7, <2>1
  <1> QED BY <1>2, <1>8 DEF len

\* For such a string the length scan passes its assertion and reports between
\* one byte and the size of that buffer.
LEMMA VerifiedLength ==
    ASSUME NEW src \in Seq(Byte), src # << >>, alt_cobs_verify(src, Len(src))
    PROVE  cobs_decoded_length_from_encoded(Append(src, SPECIAL_CHAR)) \in 1 .. Len(src)
  <1> DEFINE len == Len(src)
             F == Append(src, SPECIAL_CHAR)
  <1>0. len \in Nat /\ len >= 1 /\ len \in 0 .. Len(src)
    OBVIOUS
  <1>1. PICK walk : /\ alt_cobs_verify(src, len)
                         <=> walk[1] /\ \A p \in 1 .. len : src[p] # SPECIAL_CHAR
                    /\ \A p \in Offset : walk[p] <=> IF p > len THEN p = len + 1
                                                     ELSE src[p] # 0 /\ walk[p + src[p]]
    <2> HIDE DEF len
    <2> QED BY <1>0, AltVerifyUnfold
  <1>2. walk[1] /\ \A p \in 1 .. len : src[p] # SPECIAL_CHAR
    BY <1>1
  <1>3. /\ F \in Seq(Byte) /\ Len(F) = len + 1 /\ F[len + 1] = SPECIAL_CHAR
        /\ \A p \in 1 .. len : F[p] = src[p] /\ F[p] # SPECIAL_CHAR
    <2>1. SPECIAL_CHAR \in Byte
      BY MaxMarkerAssumption DEF SPECIAL_CHAR, Byte
    <2> QED BY <1>2, <2>1
  <1> HIDE DEF F, len
  <1>4. /\ len + 1 \in 1 .. Len(F) /\ Len(F) \in Nat
        /\ \A p \in 1 .. (len + 1) - 1 : F[p] # SPECIAL_CHAR
    BY <1>0, <1>3
  <1>5. cobs_encoded_length_from_encoded(F) = len + 1
    BY <1>3, <1>4, FirstZero
  <1>6. PICK sum : /\ cobs_decoded_length_from_encoded(F) = sum[1]
                   /\ \A p \in Offset :
                         sum[p] = IF p = len + 1 THEN 0
                                  ELSE IF p > len + 1 THEN -1
                                  ELSE IF sum[p + F[p]] = -1 THEN -1
                                  ELSE sum[p + F[p]]
                                         + IF F[p] = MaxMarker THEN FullBlock ELSE F[p]
    BY <1>3, <1>4, <1>5, DecodedLengthUnfold
  <1> DEFINE S == {p \in Offset : walk[p] => /\ p = len + 1 => sum[p] = 0
                                             /\ p <= len => sum[p] \in 1 .. (len + 1) - p}
  <1>7. \A p \in Nat \ {0} : p > len => p \in S
    <2>1. \A p \in Nat \ {0} : p > len => p \in Offset /\ ~(p <= len)
      BY <1>0 DEF Offset
    <2> QED BY <1>1, <1>6, <2>1
  <1>8. ASSUME NEW p \in 1 .. len, \A q \in Nat \ {0} : q > p => q \in S
        PROVE  p \in S
    <2> DEFINE m == F[p]
               q == p + m
    <2>0. p \in Offset /\ ~(p > len) /\ p # len + 1 /\ ~(p > len + 1) /\ F[p] = src[p] /\ p \in 1 .. Len(F)
      BY <1>0, <1>3 DEF Offset
    <2> SUFFICES ASSUME walk[p]
                 PROVE  sum[p] \in 1 .. (len + 1) - p
      BY <2>0
    <2>1. m # 0 /\ walk[q]
      BY <1>1, <2>0
    <2>2. m \in 1 .. MaxMarker /\ MaxMarker \in Nat
      BY <1>3, <2>0, <2>1, MaxMarkerAssumption DEF Byte
    <2>3. q \in Offset /\ q \in Nat \ {0} /\ q > p
      <3> HIDE DEF m
      <3> QED BY <1>0, <2>2 DEF Offset
    <2> HIDE DEF q
    <2>4. q <= len + 1
      BY <1>0, <1>1, <2>1, <2>3
    <2>5. sum[q] \in 0 .. (len + 1) - q
      BY <1>0, <1>8, <2>1, <2>3, <2>4
    <2>6. sum[p] = IF sum[q] = -1 THEN -1
                   ELSE sum[q] + IF m = MaxMarker THEN FullBlock ELSE m
      BY <1>6, <2>0 DEF q
    <2>7. sum[q] # -1 /\ sum[q] \in Nat /\ sum[q] <= (len + 1) - q /\ q = p + m
      BY <1>0, <2>3, <2>4, <2>5 DEF q
    <2> HIDE DEF m
    <2>8. CASE m = MaxMarker
      <3>1. sum[p] = sum[q] + (m - 1) /\ m >= 3
        BY <2>6, <2>7, <2>8, MaxMarkerAssumption DEF FullBlock
      <3> QED BY <1>0, <2>2, <2>7, <3>1
    <2>9. CASE m # MaxMarker
      <3>1. sum[p] = sum[q] + m
        BY <2>6, <2>7, <2>9
      <3> QED BY <1>0, <2>2, <2>7, <3>1
    <2> QED BY <2>8, <2>9
  <1>9. Nat \ {0} \subseteq S
    <2> HIDE DEF S
    <2> QED BY <1>0, <1>7, <1>8, BackwardInduction
  <1>10. 1 \in S /\ 1 <= len /\ (len + 1) - 1 = len
    BY <1>0, <1>9
  <1>11. sum[1] \in 1 .. len
    BY <1>2, <1>10
  <1> QED BY <1>6, <1>11 DEF F, len

---------------------------------------------------------------------------
(*************************************************************************)
(* cobs_encode as a whole, and what the receiver makes of its result.    *)
(*************************************************************************)

\* Between iterations the locals of cobs_encode have this shape, and they hold
\* the encoding of the first n bytes of X.
Encodes(X, n, e) ==
    /\ e \in Locals /\ OnlyHole(e)
    /\ e.marker < MaxMarker /\ e.marker = Len(e.dst) - e.curr + 1
    /\ Encoding(X, n, e)

\* F is what cobs_encode returns for X: a frame of X, or of X and one zero
\* more, which the marker of its last block implies.
EncodedAs(X, F) ==
    \/ Frame(X, F)
    \/ X # << >> /\ X[Len(X)] # SPECIAL_CHAR /\ Frame(Append(X, SPECIAL_CHAR), F)

\* The set-up of cobs_encode.
LEMMA EncodesInit ==
    ASSUME NEW X \in Seq(Byte)
    PROVE  Encodes(X, 0, EncInit)
  <1>1. EncInit = [dst |-> <<Unwritten>>, curr |-> 1, marker |-> 1]
    BY DEF EncInit
  <1>2. Unwritten \in 0 .. Unwritten /\ 1 \in 1 .. MaxMarker /\ 1 < MaxMarker
    BY MaxMarkerAssumption DEF Unwritten
  <1>3. /\ <<Unwritten>> \in Seq(0 .. Unwritten) /\ Len(<<Unwritten>>) = 1
        /\ EncInit.dst = <<Unwritten>> /\ EncInit.curr = 1 /\ EncInit.marker = 1
    BY <1>1, <1>2
  <1>4. EncInit \in Locals
    BY <1>1, <1>2, <1>3 DEF Locals
  <1>5. OnlyHole(EncInit) /\ EncInit.marker = Len(EncInit.dst) - EncInit.curr + 1
    BY <1>3 DEF OnlyHole
  <1> QED BY <1>2, <1>3, <1>4, <1>5, StartEncoding DEF Encodes

\* One iteration of the loop.
LEMMA EncodesStep ==
    ASSUME NEW X \in Seq(Byte), NEW n \in Nat, n + 1 <= Len(X), NEW e, Encodes(X, n, e)
    PROVE  Encodes(X, n + 1, EncStep(e, X[n + 1]))
  <1>1. /\ e \in Locals /\ OnlyHole(e) /\ e.marker < MaxMarker
        /\ e.marker = Len(e.dst) - e.curr + 1 /\ Encoding(X, n, e)
    BY DEF Encodes
  <1>2. X[n + 1] \in Byte
    OBVIOUS
  <1> DEFINE r == EncStep(e, X[n + 1])
  <1>3. Encoding(X, n + 1, r)
    BY <1>1, StepEncoding
  <1>4. r \in Locals /\ OnlyHole(r) /\ r.marker < MaxMarker /\ r.marker = Len(r.dst) - r.curr + 1
    <2>1. r = EncStep(e, X[n + 1])
      OBVIOUS
    <2> HIDE DEF r
    <2> QED BY <1>1, <1>2, <2>1, EncStepShape
  <1> HIDE DEF r
  <1> QED BY <1>3, <1>4 DEF Encodes, r

\* The code after the loop.
LEMMA EncodesFinish ==
    ASSUME NEW X \in Seq(Byte), NEW e, Encodes(X, Len(X), e)
    PROVE  EncodedAs(X, EncFinish(e).dst)
  <1>1. /\ e \in Locals /\ OnlyHole(e) /\ e.marker < MaxMarker
        /\ e.marker = Len(e.dst) - e.curr + 1 /\ Encoding(X, Len(X), e)
    BY DEF Encodes
  <1> QED BY <1>1, FinishFrame DEF EncodedAs

\* cobs_encode returns a frame, for every source.
LEMMA EncodeFrames ==
    ASSUME NEW X \in Seq(Byte)
    PROVE  EncodedAs(X, cobs_encode(X))
  <1>1. PICK loop : /\ cobs_encode(X) = EncFinish(loop[Len(X)]).dst
                    /\ loop[0] = EncInit
                    /\ \A k \in 1 .. Len(X) : loop[k] = EncStep(loop[k - 1], X[k])
    BY EncodeUnfold
  <1> DEFINE S == {k \in Nat : k <= Len(X) => Encodes(X, k, loop[k])}
  <1>2. 0 \in S
    BY <1>1, EncodesInit
  <1>3. ASSUME NEW k \in Nat, k \in S
        PROVE  k + 1 \in S
    <2> SUFFICES ASSUME k + 1 <= Len(X)
                 PROVE  Encodes(X, k + 1, loop[k + 1])
      OBVIOUS
    <2>1. Len(X) \in Nat
      OBVIOUS
    <2>2. k <= Len(X) /\ k + 1 \in 1 .. Len(X) /\ (k + 1) - 1 = k
      BY <2>1
    <2>3. Encodes(X, k, loop[k]) /\ loop[k + 1] = EncStep(loop[k], X[k + 1])
      BY <1>1, <1>3, <2>2
    <2> QED BY <2>3, EncodesStep
  <1>4. Nat \subseteq S
    <2> HIDE DEF S
    <2> QED BY <1>2, <1>3, NatSetInduction
  <1>5. Encodes(X, Len(X), loop[Len(X)])
    <2>1. Len(X) \in Nat
      OBVIOUS
    <2> QED BY <1>4, <2>1
  <1> QED BY <1>1, <1>5, EncodesFinish

\* What the receiver makes of such a string without its terminator: it is
\* accepted, it decodes to X without a zero at its end, and the length scan
\* of the terminated string counts what decoding that one writes.
LEMMA EncodedRoundTrip ==
    ASSUME NEW X \in Seq(Byte), NEW F, EncodedAs(X, F)
    PROVE  /\ F \in Seq(Byte) /\ Len(F) >= 1 /\ F[Len(F)] = SPECIAL_CHAR
           /\ Unterminated(F) \in Seq(Byte)
           /\ alt_cobs_verify(Unterminated(F), Len(Unterminated(F)))
           /\ cobs_decode(Unterminated(F), Len(Unterminated(F))) = Stripped(X)
           /\ cobs_encoded_length_from_encoded(F) = Len(F)
           /\ cobs_decoded_length_from_encoded(F) = Len(cobs_decode(F, Len(F)))
           /\ cobs_decoded_length_from_encoded(F) \in {Len(Stripped(X)), Len(Stripped(X)) + 1}
           /\ X # << >> /\ X[Len(X)] = SPECIAL_CHAR => cobs_decoded_length_from_encoded(F) = Len(X)
  <1>1. CASE Frame(X, F)
    <2>1. F \in Seq(Byte) /\ Len(F) >= 1 /\ F[Len(F)] = SPECIAL_CHAR
      BY <1>1 DEF Frame
    <2>2. Len(X) \in {Len(Stripped(X)), Len(Stripped(X)) + 1}
      BY StrippedProperties, SMTT(30)
    <2> QED BY <1>1, <2>1, <2>2, UnterminatedProperties, FrameVerifies, FrameBodyDecodes,
               FrameLengths, FrameDecodes
  <1>2. CASE X # << >> /\ X[Len(X)] # SPECIAL_CHAR /\ Frame(Append(X, SPECIAL_CHAR), F)
    <2> DEFINE Y == Append(X, SPECIAL_CHAR)
    <2>1. F \in Seq(Byte) /\ Len(F) >= 1 /\ F[Len(F)] = SPECIAL_CHAR
      BY <1>2 DEF Frame
    <2>2. /\ Y \in Seq(Byte) /\ Len(Y) = Len(X) + 1 /\ Y[Len(Y)] = SPECIAL_CHAR /\ Y # << >>
          /\ SubSeq(Y, 1, Len(X)) = X /\ Len(Y) - 1 = Len(X)
      <3>1. SPECIAL_CHAR \in Byte
        BY MaxMarkerAssumption DEF SPECIAL_CHAR, Byte
      <3>2. Y \in Seq(Byte) /\ Len(Y) = Len(X) + 1 /\ Y[Len(Y)] = SPECIAL_CHAR /\ Y # << >>
        BY <3>1
      <3>3. \A p \in 1 .. Len(X) : Y[p] = X[p]
        OBVIOUS
      <3>4. Len(X) \in 0 .. Len(Y) /\ Len(X) \in Nat
        BY <3>2
      <3> HIDE DEF Y
      <3>5. SubSeq(Y, 1, Len(X)) = X
        BY <3>2, <3>3, <3>4, PrefixProperties, SeqEqual
      <3> QED BY <3>2, <3>4, <3>5
    <2>3. Stripped(Y) = X /\ Stripped(X) = X
      <3> HIDE DEF Y
      <3> QED BY <1>2, <2>2 DEF Stripped
    <2> HIDE DEF Y
    <2>4. Frame(Y, F)
      BY <1>2 DEF Y
    <2>5. Len(Y) \in {Len(Stripped(X)), Len(Stripped(X)) + 1}
      BY <2>2, <2>3
    <2> QED BY <1>2, <2>1, <2>2, <2>3, <2>4, <2>5, UnterminatedProperties, FrameVerifies,
               FrameBodyDecodes, FrameLengths, FrameDecodes
  <1> QED BY <1>1, <1>2 DEF EncodedAs

---------------------------------------------------------------------------
(*************************************************************************)
(* The prediction of the encoded length from the source.                 *)
(*************************************************************************)

\* run is the scan of cobs_encoded_length_from_decoded over X: run[j][last] is
\* the number of full blocks that end at or after byte j, when last data bytes
\* of the current block precede it.
FullBlocks(X, run) ==
    /\ run \in [Offset -> [Nat -> Nat]]
    /\ cobs_encoded_length_from_decoded(X, Len(X)) = Len(X) + 2 + run[1][0]
    /\ \A j \in Offset, last \in Nat : run[j][last] =
         IF j > Len(X) THEN 0
         ELSE IF X[j] = SPECIAL_CHAR THEN run[j + 1][0]
         ELSE IF last + 1 >= FullBlock THEN 1 + run[j + 1][0]
         ELSE run[j + 1][last + 1]

\* After n bytes of X the full blocks that the encoder has written, one extra
\* byte each, and those that the scan has yet to meet are all of them.
Foreseen(X, n, e) ==
    \E run : /\ FullBlocks(X, run)
             /\ Len(e.dst) - (n + 1) + run[n + 1][e.marker - 1] = run[1][0]

\* Before the loop everything is still to be met.
LEMMA ForeseenInit ==
    ASSUME NEW X \in Seq(Byte)
    PROVE  Foreseen(X, 0, EncInit)
  <1>1. Len(X) \in 0 .. Len(X)
    OBVIOUS
  <1>2. PICK run : FullBlocks(X, run)
    <2> DEFINE n == Len(X)
    <2>1. PICK run \in [Offset -> [Nat -> Nat]] :
             /\ cobs_encoded_length_from_decoded(X, n) = n + 2 + run[1][0]
             /\ \A j \in Offset, last \in Nat : run[j][last] =
                  IF j > n THEN 0
                  ELSE IF X[j] = SPECIAL_CHAR THEN run[j + 1][0]
                  ELSE IF last + 1 >= FullBlock THEN 1 + run[j + 1][0]
                  ELSE run[j + 1][last + 1]
      <3> HIDE DEF n
      <3>1. n \in 0 .. Len(X)
        BY <1>1 DEF n
      <3> QED BY <3>1, EncodedLengthUnfold
    <2>2. FullBlocks(X, run)
      BY <2>1, Zenon DEF FullBlocks
    <2> QED BY <2>2
  <1>3. Len(EncInit.dst) = 1 /\ EncInit.marker = 1
    BY DEF EncInit
  <1>4. run[1][0] \in Nat /\ 0 + 1 = 1 /\ 1 - 1 = 0
    BY <1>2 DEF FullBlocks, Offset
  <1>5. Len(EncInit.dst) - (0 + 1) + run[0 + 1][EncInit.marker - 1] = run[1][0]
    BY <1>3, <1>4
  <1> QED BY <1>2, <1>5 DEF Foreseen

\* The encoder closes a full block exactly where the scan counts one.
LEMMA ForeseenStep ==
    ASSUME NEW X \in Seq(Byte), NEW n \in Nat, n + 1 <= Len(X),
           NEW e, Encodes(X, n, e), Foreseen(X, n, e)
    PROVE  Foreseen(X, n + 1, EncStep(e, X[n + 1]))
  <1> DEFINE r == EncStep(e, X[n + 1])
             k == n + 1
             b == X[k]
  <1>1. PICK run : FullBlocks(X, run) /\ Len(e.dst) - k + run[k][e.marker - 1] = run[1][0]
    BY DEF Foreseen
  <1>2. /\ e \in Locals /\ OnlyHole(e) /\ e.marker < MaxMarker
        /\ e.marker = Len(e.dst) - e.curr + 1
    BY DEF Encodes
  <1>0. b \in Byte
    OBVIOUS
  <1>3. k \in Offset /\ k + 1 \in Offset /\ ~(k > Len(X)) /\ k \in Nat /\ Len(X) \in Nat
    BY DEF Offset
  <1>4. /\ r \in Locals
        /\ \/ /\ b # SPECIAL_CHAR /\ e.marker < FullBlock
              /\ Len(r.dst) = Len(e.dst) + 1 /\ r.marker = e.marker + 1
           \/ /\ b = SPECIAL_CHAR
              /\ Len(r.dst) = Len(e.dst) + 1 /\ r.marker = 1
           \/ /\ b # SPECIAL_CHAR /\ e.marker = FullBlock
              /\ Len(r.dst) = Len(e.dst) + 2 /\ r.marker = 1
    <2>1. r = EncStep(e, b)
      OBVIOUS
    <2> HIDE DEF r, b
    <2> QED BY <1>0, <1>2, <2>1, EncStepShape, ZenonT(40)
  <1> HIDE DEF r, k, b
  <1> DEFINE l == e.marker - 1
  <1>5. /\ Len(e.dst) \in Nat /\ Len(r.dst) \in Nat /\ e.marker \in Nat /\ l \in Nat
        /\ l + 1 = e.marker /\ FullBlock \in Nat
    <2>1. e.dst \in Seq(0 .. Unwritten) /\ r.dst \in Seq(0 .. Unwritten) /\ e.marker \in 1 .. MaxMarker
      BY <1>2, <1>4 DEF Locals
    <2>2. MaxMarker \in Nat /\ MaxMarker >= 3
      BY MaxMarkerAssumption
    <2> QED BY <2>1, <2>2 DEF FullBlock
  <1>6. /\ run[k][l] \in Nat /\ run[k + 1][0] \in Nat /\ run[k + 1][l + 1] \in Nat /\ run[1][0] \in Nat
    <2>1. 1 \in Offset /\ 0 \in Nat /\ l + 1 \in Nat
      BY <1>5 DEF Offset
    <2>2. run \in [Offset -> [Nat -> Nat]]
      BY <1>1 DEF FullBlocks
    <2> HIDE DEF l
    <2>3. \A j \in Offset, last \in Nat : run[j][last] \in Nat
      BY <2>2
    <2> QED BY <1>3, <1>5, <2>1, <2>3
  <1>7. run[k][l] = IF b = SPECIAL_CHAR THEN run[k + 1][0]
                    ELSE IF l + 1 >= FullBlock THEN 1 + run[k + 1][0]
                    ELSE run[k + 1][l + 1]
    <2> HIDE DEF l
    <2> QED BY <1>1, <1>3, <1>5 DEF FullBlocks, b
  <1>8. Len(e.dst) - k + run[k][l] = run[1][0]
    BY <1>1
  <1>9. Len(r.dst) - (k + 1) + run[k + 1][r.marker - 1] = run[1][0]
    <2> HIDE DEF l
    <2>1. CASE b # SPECIAL_CHAR /\ e.marker < FullBlock
      <3>1. run[k][l] = run[k + 1][l + 1] /\ r.marker - 1 = l + 1 /\ Len(r.dst) = Len(e.dst) + 1
        BY <1>4, <1>5, <1>7, <2>1
      <3> QED BY <1>3, <1>5, <1>6, <1>8, <3>1
    <2>2. CASE b = SPECIAL_CHAR
      <3>1. run[k][l] = run[k + 1][0] /\ r.marker - 1 = 0 /\ Len(r.dst) = Len(e.dst) + 1
        BY <1>4, <1>5, <1>7, <2>2
      <3> QED BY <1>3, <1>5, <1>6, <1>8, <3>1
    <2>3. CASE b # SPECIAL_CHAR /\ e.marker = FullBlock
      <3>1. run[k][l] = 1 + run[k + 1][0] /\ r.marker - 1 = 0 /\ Len(r.dst) = Len(e.dst) + 2
        BY <1>4, <1>5, <1>7, <2>3
      <3>2. Len(e.dst) - k + (1 + run[k + 1][0]) = run[1][0]
        BY <1>8, <3>1, Zenon
      <3>3. (Len(e.dst) + 2) - (k + 1) + run[k + 1][0] = run[1][0]
        <4> DEFINE x == Len(e.dst)
                   z == run[k + 1][0]
                   w == run[1][0]
        <4>1. x \in Nat /\ k \in Nat /\ z \in Nat /\ w \in Nat /\ x - k + (1 + z) = w
          BY <1>3, <1>5, <1>6, <3>2
        <4> HIDE DEF x, z, w
        <4>2. (x + 2) - (k + 1) + z = w
          BY <4>1
        <4> QED BY <4>2 DEF x, z, w
      <3> QED BY <3>1, <3>3
    <2> QED BY <1>4, <2>1, <2>2, <2>3
  <1> QED BY <1>1, <1>9 DEF Foreseen, r, k, b

\* Before the code after the loop the scan has foreseen the length to a byte.
LEMMA ForeseenAtEnd ==
    ASSUME NEW X \in Seq(Byte), NEW e, Encodes(X, Len(X), e), Foreseen(X, Len(X), e)
    PROVE  cobs_encoded_length_from_decoded(X, Len(X)) = Len(e.dst) + 1
  <1> DEFINE n == Len(X)
  <1>1. PICK run : FullBlocks(X, run) /\ Len(e.dst) - (n + 1) + run[n + 1][e.marker - 1] = run[1][0]
    BY DEF Foreseen
  <1>2. n \in Nat /\ n + 1 \in Offset /\ n + 1 > n /\ e.marker - 1 \in Nat /\ Len(e.dst) \in Nat
    BY MaxMarkerAssumption DEF Offset, Encodes, Locals
  <1> HIDE DEF n
  <1>3. run[n + 1][e.marker - 1] = 0
    BY <1>1, <1>2 DEF FullBlocks, n
  <1>4. cobs_encoded_length_from_decoded(X, n) = n + 2 + run[1][0]
    BY <1>1 DEF FullBlocks, n
  <1>5. n + 2 + run[1][0] = Len(e.dst) + 1
    BY <1>1, <1>2, <1>3
  <1> QED BY <1>4, <1>5 DEF n

---------------------------------------------------------------------------
(*************************************************************************)
(* cobs_partial_decode, on which hce_try_header relies.                  *)
(*************************************************************************)


\* How many bytes cobs_partial_decode copies behind the marker at p when d bytes are
\* still wanted: what the marker says, what the string has and what is wanted.
PartialRun(src, slen, p, d) ==
    CHOOSE m \in {src[p] - 1, slen - p, d} : \A k \in {src[p] - 1, slen - p, d} : m <= k

\* Whether it then writes a zero (cobs.c:83).
PartialZero(src, slen, p, d) == d > PartialRun(src, slen, p, d) /\ src[p] # Hex255

\* What it writes for that block, and how much is wanted behind it.
PartialBlock(src, slen, p, d) ==
    SubSeq(src, p + 1, p + PartialRun(src, slen, p, d))
      \o (IF PartialZero(src, slen, p, d) THEN <<SPECIAL_CHAR>> ELSE << >>)

PartialRest(src, slen, p, d) ==
    d - PartialRun(src, slen, p, d) - IF PartialZero(src, slen, p, d) THEN 1 ELSE 0

\* The string ends inside the block although more is wanted.
PartialEnds(src, slen, p, d) ==
    p + PartialRun(src, slen, p, d) = slen /\ d > PartialRun(src, slen, p, d)

\* What cobs_partial_decode returns, given what the scan wrote.
PartialResult(slen, dlen, out) ==
    IF slen < dlen \/ (out # << >> /\ out[Len(out)] = Unwritten)
    THEN [ret |-> 0, dst |-> << >>] ELSE [ret |-> dlen, dst |-> out]

\* The least of three numbers.
LEMMA LeastOfThree ==
    ASSUME NEW a \in Int, NEW b \in Int, NEW c \in Int, NEW n,
           n = CHOOSE m \in {a, b, c} : \A k \in {a, b, c} : m <= k
    PROVE  n \in {a, b, c} /\ n <= a /\ n <= b /\ n <= c
  <1>1. \E m \in {a, b, c} : \A k \in {a, b, c} : m <= k
    <2>1. CASE a <= b /\ a <= c
      BY <2>1
    <2>2. CASE b <= a /\ b <= c
      BY <2>2
    <2>3. CASE c <= a /\ c <= b
      BY <2>3
    <2> QED BY <2>1, <2>2, <2>3
  <1>2. n \in {a, b, c} /\ \A k \in {a, b, c} : n <= k
    BY <1>1
  <1> QED BY <1>2

\* A block of the scan stays inside the string, and what is wanted does not grow.
LEMMA PartialStep ==
    ASSUME NEW src \in Seq(Byte), NEW slen \in 0 .. Len(src), NEW p \in 1 .. slen,
           src[p] # 0, NEW d \in Nat
    PROVE  /\ PartialRun(src, slen, p, d) \in Nat
           /\ PartialRun(src, slen, p, d) \in {src[p] - 1, slen - p, d}
           /\ PartialRun(src, slen, p, d) <= src[p] - 1
           /\ PartialRun(src, slen, p, d) <= slen - p
           /\ PartialRun(src, slen, p, d) <= d
           /\ PartialRest(src, slen, p, d) \in Nat
           /\ PartialBlock(src, slen, p, d) \in Seq(0 .. Unwritten)
  <1> DEFINE n == PartialRun(src, slen, p, d)
  <1>1. /\ p \in 1 .. Len(src) /\ src[p] \in Byte /\ slen \in Nat
        /\ MaxMarker \in Nat /\ src[p] \in 0 .. MaxMarker
    BY MaxMarkerAssumption DEF Byte
  <1>2. src[p] - 1 \in Nat /\ slen - p \in Nat
    BY <1>1
  <1>3. n \in {src[p] - 1, slen - p, d} /\ n <= src[p] - 1 /\ n <= slen - p /\ n <= d
    <2> HIDE DEF n
    <2>1. n = CHOOSE m \in {src[p] - 1, slen - p, d} : \A k \in {src[p] - 1, slen - p, d} : m <= k
      BY DEF n, PartialRun
    <2> DEFINE a == src[p] - 1
               b == slen - p
    <2>2. a \in Int /\ b \in Int /\ d \in Int
      BY <1>2
    <2> HIDE DEF a, b
    <2>3. n \in {a, b, d} /\ n <= a /\ n <= b /\ n <= d
      BY <2>1, <2>2, LeastOfThree DEF a, b
    <2> QED BY <2>3 DEF a, b
  <1>4. n \in Nat
    BY <1>2, <1>3
  <1> HIDE DEF n
  <1>5. d - n - (IF d > n /\ src[p] # Hex255 THEN 1 ELSE 0) \in Nat
    BY <1>3, <1>4
  <1>6. SubSeq(src, p + 1, p + n) \in Seq(0 .. Unwritten)
    <2>1. p + 1 \in Int /\ p + n \in Int /\ \A r \in p + 1 .. p + n : r \in 1 .. Len(src)
      BY <1>3, <1>4
    <2>2. \A r \in p + 1 .. p + n : src[r] \in 0 .. Unwritten
      <3>1. \A r \in 1 .. Len(src) : src[r] \in Byte
        OBVIOUS
      <3>2. Byte \subseteq 0 .. Unwritten
        BY MaxMarkerAssumption DEF Byte, Unwritten
      <3> QED BY <2>1, <3>1, <3>2
    <2> QED BY <2>1, <2>2, SubSeqProperties
  <1>7. (IF PartialZero(src, slen, p, d) THEN <<SPECIAL_CHAR>> ELSE << >>) \in Seq(0 .. Unwritten)
    <2>1. SPECIAL_CHAR \in 0 .. Unwritten
      BY MaxMarkerAssumption DEF SPECIAL_CHAR, Unwritten
    <2>2. <<SPECIAL_CHAR>> \in Seq(0 .. Unwritten) /\ << >> \in Seq(0 .. Unwritten)
      BY <2>1
    <2> QED BY <2>2
  <1>8. PartialBlock(src, slen, p, d) \in Seq(0 .. Unwritten)
    <2>1. PartialBlock(src, slen, p, d) = SubSeq(src, p + 1, p + n)
            \o (IF PartialZero(src, slen, p, d) THEN <<SPECIAL_CHAR>> ELSE << >>)
      BY DEF PartialBlock, n
    <2> QED BY <1>6, <1>7, <2>1, ConcatProperties
  <1> QED BY <1>3, <1>4, <1>5, <1>8 DEF n, PartialRest, PartialZero

\* The scan of cobs_partial_decode: nothing is written past the end of the string or
\* once enough is; a marker zero or a block the string ends in makes it fail.
PartialScan(from, src, slen) ==
    \A p \in Offset, d \in Nat :
        /\ from[p][d] \in Seq(0 .. Unwritten)
        /\ p > slen \/ d = 0 => from[p][d] = << >>
        /\ p <= slen /\ d # 0 =>
             from[p][d] = IF src[p] = 0 \/ PartialEnds(src, slen, p, d) THEN <<Unwritten>>
                          ELSE PartialBlock(src, slen, p, d)
                                 \o from[p + 1 + PartialRun(src, slen, p, d)][PartialRest(src, slen, p, d)]

\* cobs_partial_decode satisfies its recursion.
LEMMA PartialUnfold ==
    ASSUME NEW src \in Seq(Byte), NEW slen \in 0 .. Len(src), NEW dlen \in Nat
    PROVE  \E from : /\ PartialScan(from, src, slen)
                     /\ cobs_partial_decode(src, slen, dlen) = PartialResult(slen, dlen, from[1][dlen])
  <1> DEFINE V == Seq(0 .. Unwritten)
             D == Offset \X Nat
             Run(p, d) == PartialRun(src, slen, p, d)
             Rest(p, d) == PartialRest(src, slen, p, d)
             Stops(p, d) == p > slen \/ d = 0
             Fails(p, d) == src[p] = 0 \/ PartialEnds(src, slen, p, d)
             Body(p, d, f) ==
                IF Stops(p, d) THEN << >>
                ELSE IF src[p] = 0 THEN <<Unwritten>>
                ELSE IF PartialEnds(src, slen, p, d) THEN <<Unwritten>>
                ELSE PartialBlock(src, slen, p, d) \o f[p + 1 + Run(p, d)][Rest(p, d)]
             Is(f) == f = [p \in Offset |-> [d \in Nat |-> Body(p, d, f)]]
             On(x) == x[1] <= slen /\ x[2] # 0 /\ src[x[1]] # 0
             rank == [x \in D |-> x[1]]
             base == [x \in D |-> << >>]
             next == [x \in D |-> IF On(x) THEN <<x[1] + 1 + Run(x[1], x[2]), Rest(x[1], x[2])>>
                                  ELSE <<x[1] + 1, x[2]>>]
             step == [y \in D \X V |->
                        IF Stops(y[1][1], y[1][2]) THEN << >>
                        ELSE IF Fails(y[1][1], y[1][2]) THEN <<Unwritten>>
                        ELSE PartialBlock(src, slen, y[1][1], y[1][2]) \o y[2]]
  <1>0. slen \in Nat /\ <<Unwritten>> \in V /\ << >> \in V
    <2>1. Unwritten \in 0 .. Unwritten /\ Len(src) \in Nat
      BY MaxMarkerAssumption DEF Unwritten
    <2> QED BY <2>1
  <1>1. ASSUME NEW p \in Offset, NEW d \in Nat, p <= slen, src[p] # 0
        PROVE  /\ Run(p, d) \in Nat /\ Rest(p, d) \in Nat
               /\ PartialBlock(src, slen, p, d) \in V
    <2>1. p \in 1 .. slen
      BY <1>1 DEF Offset
    <2> QED BY <1>1, <2>1, PartialStep
  <1> HIDE DEF V
  <1>2. next \in [D -> D] /\ \A x \in D : rank[next[x]] > rank[x] /\ rank[x] \in Nat
    <2>1. ASSUME NEW x \in D
          PROVE  next[x] \in D /\ next[x][1] > x[1] /\ x[1] \in Nat
      <3>1. x[1] \in Offset /\ x[2] \in Nat /\ x[1] \in Nat
        BY DEF Offset
      <3>2. CASE On(x)
        <4> DEFINE a == x[1] + 1 + Run(x[1], x[2])
                   b == Rest(x[1], x[2])
        <4>1. next[x] = <<a, b>>
          BY <3>2
        <4>2. Run(x[1], x[2]) \in Nat /\ b \in Nat
          BY <1>1, <3>1, <3>2
        <4>3. a \in Offset /\ a > x[1]
          <5> HIDE DEF Run
          <5> QED BY <3>1, <4>2 DEF Offset
        <4> HIDE DEF a, b, next
        <4> QED BY <3>1, <4>1, <4>2, <4>3
      <3>3. CASE ~On(x)
        <4>1. next[x] = <<x[1] + 1, x[2]>>
          BY <3>3
        <4>2. x[1] + 1 \in Offset /\ x[1] + 1 > x[1]
          BY <3>1 DEF Offset
        <4> HIDE DEF next
        <4> QED BY <3>1, <4>1, <4>2
      <3> QED BY <3>2, <3>3
    <2>2. next \in [D -> D]
      <3>1. \A x \in D : next[x] \in D
        BY <2>1
      <3> HIDE DEF On, Run, Rest
      <3> QED BY <3>1
    <2>3. \A x \in D : rank[x] = x[1]
      OBVIOUS
    <2> HIDE DEF next, rank, D
    <2> QED BY <2>1, <2>2, <2>3
  <1>3. step \in [D \X V -> V]
    <2>1. ASSUME NEW x \in D, NEW v \in V
          PROVE  (IF Stops(x[1], x[2]) THEN << >>
                  ELSE IF Fails(x[1], x[2]) THEN <<Unwritten>>
                  ELSE PartialBlock(src, slen, x[1], x[2]) \o v) \in V
      <3>1. x[1] \in Offset /\ x[2] \in Nat
        OBVIOUS
      <3>2. CASE ~Stops(x[1], x[2]) /\ ~Fails(x[1], x[2])
        <4>1. x[1] <= slen /\ src[x[1]] # 0
          BY <1>0, <3>1, <3>2 DEF Offset
        <4>2. PartialBlock(src, slen, x[1], x[2]) \in V
          BY <1>1, <3>1, <4>1
        <4>3. PartialBlock(src, slen, x[1], x[2]) \o v \in V
          BY <4>2, ConcatProperties DEF V
        <4> QED BY <3>2, <4>3
      <3> HIDE DEF Stops, Fails
      <3> QED BY <1>0, <3>2
    <2> HIDE DEF Stops, Fails, D
    <2> QED BY <2>1
  <1>4. rank \in [D -> Nat] /\ base \in [D -> V]
    BY <1>0 DEF Offset
  <1>5. PICK g : IsScan(g, D, V, slen, rank, base, next, step)
    <2> HIDE DEF D, rank, base, next, step
    <2>1. ScanData(D, V, slen, rank, base, next, step)
      BY <1>0, <1>2, <1>3, <1>4 DEF ScanData
    <2> QED BY <2>1, ForwardRecursion
  <1>6. /\ g \in [D -> V]
        /\ \A x \in D : g[x] = IF rank[x] > slen THEN base[x] ELSE step[<<x, g[next[x]]>>]
    <2> HIDE DEF D, rank, base, next, step
    <2> QED BY <1>5 DEF IsScan
  <1> DEFINE f == [p \in Offset |-> [d \in Nat |-> g[<<p, d>>]]]
  <1>7. \A p \in Offset, d \in Nat : f[p][d] = g[<<p, d>>] /\ f[p][d] \in V /\ <<p, d>> \in D
    <2>1. \A p \in Offset, d \in Nat : f[p][d] = g[<<p, d>>] /\ <<p, d>> \in D
      OBVIOUS
    <2>2. g \in [D -> V]
      BY <1>6
    <2> HIDE DEF D, f
    <2> QED BY ONLY <2>1, <2>2
  <1>8. ASSUME NEW p \in Offset, NEW d \in Nat
        PROVE  f[p][d] = Body(p, d, f)
    <2> DEFINE x == <<p, d>>
    <2>1. x \in D /\ x[1] = p /\ x[2] = d /\ rank[x] = p /\ base[x] = << >> /\ f[p][d] = g[x]
      BY <1>7
    <2>2. next[x] \in D /\ g[next[x]] \in V
      <3> HIDE DEF D, next, x
      <3> QED BY <1>2, <1>6, <2>1
    <2>3. step[<<x, g[next[x]]>>] = IF Stops(p, d) THEN << >>
                                    ELSE IF Fails(p, d) THEN <<Unwritten>>
                                    ELSE PartialBlock(src, slen, p, d) \o g[next[x]]
      <3> HIDE DEF Stops, Fails, D, next, x
      <3> QED BY <2>1, <2>2
    <2>4. CASE Stops(p, d)
      <3>1. g[x] = << >>
        <4> HIDE DEF D, step, next, x, rank, base
        <4> QED BY <1>6, <2>1, <2>3, <2>4
      <3> HIDE DEF x, f, Stops
      <3> QED BY <2>1, <2>4, <3>1
    <2>5. CASE ~Stops(p, d) /\ Fails(p, d)
      <3>1. g[x] = <<Unwritten>>
        <4>1. ~(p > slen)
          BY <2>5
        <4> HIDE DEF D, step, next, x, rank, base, Stops, Fails
        <4> QED BY <1>6, <2>1, <2>3, <2>5, <4>1
      <3> HIDE DEF x, f, Stops
      <3> QED BY <2>1, <2>5, <3>1
    <2>6. CASE ~Stops(p, d) /\ ~Fails(p, d)
      <3>0. p <= slen /\ d # 0 /\ src[p] # 0 /\ ~(p > slen)
        BY <1>0, <2>6 DEF Offset
      <3>1. On(x)
        BY <3>0, <2>1
      <3>2. next[x] = <<p + 1 + Run(p, d), Rest(p, d)>>
        <4> HIDE DEF On, D, x
        <4> QED BY <2>1, <3>1
      <3>3. p + 1 + Run(p, d) \in Offset /\ Rest(p, d) \in Nat
        <4>1. Run(p, d) \in Nat /\ Rest(p, d) \in Nat
          BY <1>1, <3>0
        <4> HIDE DEF Run, Rest
        <4> QED BY <4>1 DEF Offset
      <3>4. g[next[x]] = f[p + 1 + Run(p, d)][Rest(p, d)]
        <4> HIDE DEF f, x, next, Run, Rest
        <4> QED BY <1>7, <3>2, <3>3
      <3>5. g[x] = PartialBlock(src, slen, p, d) \o g[next[x]]
        <4> HIDE DEF D, step, next, x, rank, base, Stops, Fails
        <4> QED BY <1>6, <2>1, <2>3, <2>6, <3>0
      <3> HIDE DEF x, f, next, Run, Rest, Stops
      <3> QED BY <2>1, <2>6, <3>4, <3>5
    <2> QED BY <2>4, <2>5, <2>6
  <1>9. Is(f)
    <2>1. \A p \in Offset : f[p] = [d \in Nat |-> g[<<p, d>>]]
      OBVIOUS
    <2>2. \A p \in Offset : f[p] = [d \in Nat |-> Body(p, d, f)]
      <3> HIDE DEF Body, f
      <3> SUFFICES ASSUME NEW p \in Offset PROVE f[p] = [d \in Nat |-> Body(p, d, f)]
        OBVIOUS
      <3> QED BY <1>8, <2>1
    <2>3. f = [p \in Offset |-> f[p]]
      OBVIOUS
    <2> HIDE DEF Body, f
    <2> QED BY <2>2, <2>3
  <1>10. Is(CHOOSE h : Is(h))
    <2> HIDE DEF Is
    <2> QED BY <1>9
  <1>11. cobs_partial_decode(src, slen, dlen) = PartialResult(slen, dlen, (CHOOSE h : Is(h))[1][dlen])
    BY DEF cobs_partial_decode, PartialResult, PartialBlock, PartialEnds, PartialRest, PartialZero, PartialRun
  <1>12. PICK r : Is(r) /\ cobs_partial_decode(src, slen, dlen) = PartialResult(slen, dlen, r[1][dlen])
    <2> HIDE DEF Is
    <2> QED BY <1>10, <1>11
  <1>13. \A p \in Offset, d \in Nat : r[p][d] = Body(p, d, r)
    <2> HIDE DEF Body
    <2>1. r = [p \in Offset |-> [d \in Nat |-> Body(p, d, r)]]
      BY <1>12
    <2>2. \A p \in Offset : r[p] = [d \in Nat |-> Body(p, d, r)]
      BY <2>1
    <2> QED BY <2>2
  <1> DEFINE S == {p \in Offset : \A d \in Nat : r[p][d] \in V}
  <1>14. Offset \subseteq S
    <2>1. \A p \in Nat \ {0} : p > slen => p \in S
      <3>1. \A p \in Offset, d \in Nat : p > slen => r[p][d] = << >>
        BY <1>13
      <3> QED BY <1>0, <3>1 DEF Offset
    <2>2. ASSUME NEW p \in 1 .. slen, \A q \in Nat \ {0} : q > p => q \in S
          PROVE  p \in S
      <3>0. p \in Offset
        BY DEF Offset
      <3> SUFFICES ASSUME NEW d \in Nat PROVE r[p][d] \in V
        BY <3>0
      <3>1. r[p][d] = Body(p, d, r)
        <4> HIDE DEF Body
        <4> QED BY <1>13, <3>0
      <3>2. CASE ~Stops(p, d) /\ ~Fails(p, d)
        <4> DEFINE n == Run(p, d)
                   m == Rest(p, d)
                   b == PartialBlock(src, slen, p, d)
        <4>1. n \in Nat /\ m \in Nat /\ b \in V
          BY <1>0, <1>1, <3>0, <3>2
        <4>2. r[p][d] = b \o r[p + 1 + n][m]
          BY <3>1, <3>2
        <4> HIDE DEF n, m, b
        <4>3. r[p + 1 + n][m] \in V
          <5>1. p + 1 + n \in Nat \ {0} /\ p + 1 + n > p
            BY <3>0, <4>1
          <5> QED BY <2>2, <4>1, <5>1
        <4> QED BY <4>1, <4>2, <4>3, ConcatProperties DEF V
      <3>3. CASE Stops(p, d)
        BY <1>0, <3>1, <3>3
      <3>4. CASE ~Stops(p, d) /\ Fails(p, d)
        <4>1. r[p][d] = <<Unwritten>>
          BY <3>1, <3>4
        <4> QED BY <1>0, <4>1
      <3> HIDE DEF Stops, Fails
      <3> QED BY <3>2, <3>3, <3>4
    <2>3. Nat \ {0} \subseteq S
      <3> HIDE DEF S
      <3> QED BY <1>0, <2>1, <2>2, BackwardInduction
    <2> HIDE DEF S
    <2> QED BY <2>3 DEF Offset
  <1>15. PartialScan(r, src, slen)
    <2> SUFFICES ASSUME NEW p \in Offset, NEW d \in Nat
                 PROVE  /\ r[p][d] \in V
                        /\ Stops(p, d) => r[p][d] = << >>
                        /\ p <= slen /\ d # 0 =>
                             r[p][d] = IF Fails(p, d) THEN <<Unwritten>>
                                       ELSE PartialBlock(src, slen, p, d) \o r[p + 1 + Run(p, d)][Rest(p, d)]
      BY DEF PartialScan, V
    <2>1. r[p][d] \in V
      BY <1>14
    <2>2. r[p][d] = Body(p, d, r)
      <3> HIDE DEF Body
      <3> QED BY <1>13
    <2>3. p <= slen /\ d # 0 => ~Stops(p, d)
      BY <1>0 DEF Offset
    <2> HIDE DEF Stops, Run, Rest
    <2> QED BY <2>1, <2>2, <2>3
  <1> QED BY <1>12, <1>15


\* The n bytes behind position a of s are those behind position b of t.
SameBytes(s, a, t, b, n) ==
    /\ SubSeq(s, a + 1, a + n) = SubSeq(t, b + 1, b + n)
    /\ SubSeq(s, a + 1, a + n) \in Seq(Byte)

\* Stretches of two strings that agree byte by byte are equal.
LEMMA SameStretch ==
    ASSUME NEW s \in Seq(Byte), NEW t \in Seq(Byte), NEW a \in Nat, NEW b \in Nat, NEW n \in Nat,
           a + n <= Len(s), b + n <= Len(t), \A r \in 1 .. n : s[a + r] = t[b + r]
    PROVE  SameBytes(s, a, t, b, n)
  <1> DEFINE u == SubSeq(s, a + 1, a + n)
             v == SubSeq(t, b + 1, b + n)
  <1>0. Len(s) \in Nat /\ Len(t) \in Nat
    OBVIOUS
  <1>1. u \in Seq(Byte) /\ Len(u) = n /\ \A r \in 1 .. n : u[r] = s[a + r]
    <2>1. a + 1 \in Int /\ a + n \in Int /\ \A r \in a + 1 .. a + n : r \in 1 .. Len(s)
      BY <1>0
    <2>2. \A r \in a + 1 .. a + n : s[r] \in Byte
      BY <2>1
    <2>3. /\ u \in Seq(Byte) /\ Len(u) = IF a + 1 <= a + n THEN (a + n) - (a + 1) + 1 ELSE 0
          /\ \A r \in 1 .. (a + n) - (a + 1) + 1 : u[r] = s[(a + 1) + r - 1]
      BY <2>1, <2>2, SubSeqProperties
    <2> HIDE DEF u
    <2>4. (a + n) - (a + 1) + 1 = n /\ \A r \in 1 .. n : (a + 1) + r - 1 = a + r
      OBVIOUS
    <2>5. Len(u) = n
      BY <2>3
    <2> QED BY <2>3, <2>4, <2>5
  <1>2. v \in Seq(Byte) /\ Len(v) = n /\ \A r \in 1 .. n : v[r] = t[b + r]
    <2>1. b + 1 \in Int /\ b + n \in Int /\ \A r \in b + 1 .. b + n : r \in 1 .. Len(t)
      BY <1>0
    <2>2. \A r \in b + 1 .. b + n : t[r] \in Byte
      BY <2>1
    <2>3. /\ v \in Seq(Byte) /\ Len(v) = IF b + 1 <= b + n THEN (b + n) - (b + 1) + 1 ELSE 0
          /\ \A r \in 1 .. (b + n) - (b + 1) + 1 : v[r] = t[(b + 1) + r - 1]
      BY <2>1, <2>2, SubSeqProperties
    <2> HIDE DEF v
    <2>4. (b + n) - (b + 1) + 1 = n /\ \A r \in 1 .. n : (b + 1) + r - 1 = b + r
      OBVIOUS
    <2>5. Len(v) = n
      BY <2>3
    <2> QED BY <2>3, <2>4, <2>5
  <1> HIDE DEF u, v
  <1>3. u = v
    BY <1>1, <1>2, SeqEqual
  <1> QED BY <1>1, <1>3 DEF u, v, SameBytes

\* A stretch of a string with the byte behind it.
LEMMA OneMore ==
    ASSUME NEW X \in Seq(Byte), NEW o \in Nat, NEW m \in Nat \ {0}, o + m <= Len(X)
    PROVE  SubSeq(X, o + 1, o + m - 1) \o <<X[o + m]>> = SubSeq(X, o + 1, o + m)
  <1>1. o + m - 1 \in Nat /\ o <= o + m - 1 /\ o + m - 1 <= o + m /\ o + m \in Nat /\ Len(X) \in Nat
    OBVIOUS
  <1>2. SubSeq(X, o + 1, o + m - 1) \o SubSeq(X, (o + m - 1) + 1, o + m) = SubSeq(X, o + 1, o + m)
    BY <1>1, Adjacent
  <1>3. (o + m - 1) + 1 = o + m
    OBVIOUS
  <1>4. SubSeq(X, o + m, o + m) = <<X[o + m]>>
    <2> DEFINE k == o + m
               u == SubSeq(X, k, k)
    <2>1. k \in 1 .. Len(X) /\ k \in Int /\ \A r \in k .. k : r = k
      BY <1>1
    <2>2. X[k] \in Byte
      BY <2>1
    <2> HIDE DEF k
    <2>3. /\ u \in Seq(Byte) /\ Len(u) = IF k <= k THEN k - k + 1 ELSE 0
          /\ \A r \in 1 .. k - k + 1 : u[r] = X[k + r - 1]
      BY <2>1, <2>2, SubSeqProperties
    <2> HIDE DEF u
    <2>4. Len(u) = 1 /\ u[1] = X[k]
      <3>1. k - k + 1 = 1 /\ k + 1 - 1 = k /\ k <= k /\ 1 \in 1 .. 1
        BY <2>1
      <3> QED BY <2>3, <3>1
    <2>5. <<X[k]>> \in Seq(Byte) /\ Len(<<X[k]>>) = 1 /\ <<X[k]>>[1] = X[k]
      BY <2>2
    <2>6. u = <<X[k]>>
      <3>1. \A r \in 1 .. Len(u) : u[r] = <<X[k]>>[r]
        BY <2>4, <2>5
      <3> QED BY <2>3, <2>4, <2>5, <3>1, SeqEqual
    <2> QED BY <2>6 DEF u, k
  <1> QED BY <1>2, <1>3, <1>4

\* At p, the string P has the marker m of a block that holds m - 1 bytes of X, those
\* behind position o, and stands for the zero behind them.
HoldsBlock(P, p, X, o, m) ==
    /\ p \in 1 .. Len(P) /\ o \in Nat /\ m \in 1 .. MaxMarker - 1 /\ m = P[p]
    /\ p + m <= Len(P) + 1 /\ o + m <= Len(X)
    /\ \A r \in 1 .. m - 1 : P[p + r] = X[o + r]
    /\ X[o + m] = SPECIAL_CHAR

\* The scan there, d bytes wanted, when the rest of P scans as from says.
ScanAt(from, P, p, X, o, m, d) ==
    /\ d < m => from[p][d] = SubSeq(X, o + 1, o + d)
    /\ d >= m /\ p + m = Len(P) + 1 => from[p][d] = <<Unwritten>>
    /\ d >= m /\ p + m <= Len(P) =>
         from[p][d] = SubSeq(X, o + 1, o + m) \o from[p + m][d - m]

\* The scan at the marker of a block that holds m - 1 bytes of X and their zero:
\* it stops in the block, fails at the end of the string or goes on behind the block.
LEMMA PartialAtBlock ==
    ASSUME NEW P \in Seq(Byte), NEW X \in Seq(Byte), NEW from, PartialScan(from, P, Len(P)),
           NEW p, NEW o, NEW m, HoldsBlock(P, p, X, o, m), NEW d \in Nat
    PROVE  ScanAt(from, P, p, X, o, m, d)
  <1> SUFFICES ASSUME p \in 1 .. Len(P), o \in Nat, m \in 1 .. MaxMarker - 1, m = P[p],
                      p + m <= Len(P) + 1, o + m <= Len(X),
                      \A r \in 1 .. m - 1 : P[p + r] = X[o + r], X[o + m] = SPECIAL_CHAR
               PROVE  /\ d < m => from[p][d] = SubSeq(X, o + 1, o + d)
                      /\ d >= m /\ p + m = Len(P) + 1 => from[p][d] = <<Unwritten>>
                      /\ d >= m /\ p + m <= Len(P) =>
                           from[p][d] = SubSeq(X, o + 1, o + m) \o from[p + m][d - m]
    BY DEF HoldsBlock, ScanAt
  <1> DEFINE L == Len(P)
             n == PartialRun(P, L, p, d)
             rest == PartialRest(P, L, p, d)
             z == PartialZero(P, L, p, d)
             blk == PartialBlock(P, L, p, d)
  <1>1. /\ L \in Nat /\ L \in 0 .. Len(P) /\ p \in Offset /\ MaxMarker \in Nat /\ m \in Nat /\ m >= 1
        /\ P[p] # 0 /\ p <= L /\ Len(X) \in Nat /\ p \in Nat /\ Offset = Nat \ {0}
    <2>1. L \in Nat /\ Len(X) \in Nat /\ MaxMarker \in Nat /\ Offset = Nat \ {0}
      BY MaxMarkerAssumption DEF Offset
    <2>2. m \in Nat /\ m >= 1 /\ P[p] # 0
      BY <2>1
    <2>3. p \in 1 .. L /\ Len(P) = L
      OBVIOUS
    <2> HIDE DEF L
    <2>4. L \in 0 .. L /\ p \in Nat /\ p # 0 /\ p <= L
      BY ONLY <2>1, <2>3
    <2> QED BY <2>1, <2>2, <2>3, <2>4
  <1>2. /\ n \in Nat /\ n \in {m - 1, L - p, d} /\ n <= m - 1 /\ n <= L - p /\ n <= d /\ rest \in Nat
    <2> HIDE DEF L
    <2> QED BY <1>1, PartialStep DEF L
  <1>3. (z <=> d > n) /\ (z => rest = d - n - 1) /\ (~z => rest = d - n)
    <2>1. P[p] # Hex255
      BY <1>1 DEF Hex255
    <2>2. z <=> d > n
      BY <2>1 DEF PartialZero
    <2>3. rest = d - n - IF z THEN 1 ELSE 0
      BY DEF PartialRest
    <2> HIDE DEF n, rest, z
    <2> QED BY <1>2, <2>2, <2>3
  <1>4. blk = SubSeq(P, p + 1, p + n) \o (IF z THEN <<SPECIAL_CHAR>> ELSE << >>)
    BY DEF PartialBlock
  <1>5. /\ \A q \in Offset, k \in Nat : q > L \/ k = 0 => from[q][k] = << >>
        /\ d # 0 => from[p][d] = IF PartialEnds(P, L, p, d) THEN <<Unwritten>>
                                  ELSE blk \o from[p + 1 + n][rest]
    <2>1. \A q \in Offset, k \in Nat : q > L \/ k = 0 => from[q][k] = << >>
      BY DEF PartialScan
    <2>2. d # 0 => from[p][d] = IF P[p] = 0 \/ PartialEnds(P, L, p, d) THEN <<Unwritten>>
                                  ELSE blk \o from[p + 1 + n][rest]
      BY <1>1 DEF PartialScan
    <2> QED BY <1>1, <2>1, <2>2
  <1>6. PartialEnds(P, L, p, d) <=> p + n = L /\ d > n
    BY DEF PartialEnds
  <1>7. /\ SubSeq(P, p + 1, p + n) = SubSeq(X, o + 1, o + n)
        /\ SubSeq(P, p + 1, p + n) \in Seq(Byte)
    <2>1. p + n <= L /\ o + n <= Len(X) /\ \A r \in 1 .. n : r \in 1 .. m - 1
      <3> HIDE DEF n, rest, z, blk, L
      <3>1. p + n <= L
        BY ONLY <1>1, <1>2
      <3>2. o + n <= Len(X)
        BY <1>1, <1>2
      <3>3. \A r \in 1 .. n : r \in 1 .. m - 1
        BY ONLY <1>1, <1>2
      <3> QED BY <3>1, <3>2, <3>3
    <2>2. \A r \in 1 .. n : P[p + r] = X[o + r]
      BY <2>1
    <2>3. n \in Nat /\ p \in Nat /\ p + n <= Len(P) /\ o + n <= Len(X)
      BY <1>1, <1>2, <2>1
    <2> HIDE DEF n, rest, z, blk, L
    <2>4. SameBytes(P, p, X, o, n)
      BY <2>2, <2>3, SameStretch
    <2> QED BY <2>4 DEF SameBytes
  <1> DEFINE ends == PartialEnds(P, L, p, d)
  <1> HIDE DEF n, rest, z, blk, ends
  <1>8. ASSUME d < m PROVE from[p][d] = SubSeq(X, o + 1, o + d)
    <2>1. CASE d = 0
      <3>1. from[p][d] = << >>
        BY <1>1, <1>5, <2>1
      <3>2. o + 1 \in Int /\ o + d \in Int /\ o + d < o + 1
        BY <2>1
      <3> QED BY <3>1, <3>2, SubSeqEmpty
    <2>2. CASE d # 0
      <3>1. n = d
        <4>1. p + m <= L + 1
          BY DEF L
        <4> HIDE DEF L
        <4> QED BY ONLY <1>1, <1>2, <1>8, <4>1, d \in Nat
      <3>2. ~z /\ ~ends /\ rest = 0
        <4> HIDE DEF L
        <4> QED BY <1>2, <1>3, <1>6, <3>1 DEF ends
      <3>3. from[p + 1 + n][rest] = << >>
        <4>1. p + 1 + n \in Offset
          BY <1>1, <1>2
        <4> QED BY <1>2, <1>5, <3>2, <4>1
      <3>4. from[p][d] = (SubSeq(P, p + 1, p + n) \o << >>) \o << >>
        BY <1>4, <1>5, <2>2, <3>2, <3>3 DEF ends
      <3>5. (SubSeq(P, p + 1, p + n) \o << >>) \o << >> = SubSeq(P, p + 1, p + n)
        BY <1>7, ConcatEmptySeq
      <3> QED BY <1>7, <3>1, <3>4, <3>5
    <2> QED BY <2>1, <2>2
  <1>9. ASSUME d >= m
        PROVE  n = m - 1 /\ z /\ d # 0 /\ rest = d - m /\ p + 1 + n = p + m
    <2>1. p + m <= L + 1
      BY DEF L
    <2> HIDE DEF L
    <2>2. n = m - 1
      BY ONLY <1>1, <1>2, <1>9, <2>1, d \in Nat
    <2>3. d > n /\ d # 0
      BY ONLY <1>1, <1>9, <2>2, d \in Nat
    <2>4. z /\ rest = d - n - 1
      BY <1>3, <2>3
    <2>5. d - n - 1 = d - m /\ p + 1 + n = p + m
      BY ONLY <1>1, <2>2, d \in Nat
    <2> QED BY <2>2, <2>3, <2>4, <2>5
  <1>10. ASSUME d >= m, p + m = Len(P) + 1
         PROVE  from[p][d] = <<Unwritten>>
    <2>1. n = m - 1 /\ d > n
      BY <1>1, <1>9, <1>10
    <2>2. p + n = L
      <3>1. p + m = L + 1
        BY <1>10
      <3> HIDE DEF L
      <3> QED BY ONLY <1>1, <2>1, <3>1
    <2> QED BY <1>5, <1>6, <1>9, <1>10, <2>1, <2>2
  <1>11. ASSUME d >= m, p + m <= Len(P)
         PROVE  from[p][d] = SubSeq(X, o + 1, o + m) \o from[p + m][d - m]
    <2>1. p + n # L
      <3>1. n = m - 1 /\ p + m <= L
        BY <1>9, <1>11
      <3> HIDE DEF L
      <3> QED BY ONLY <1>1, <3>1
    <2>2. from[p][d] = blk \o from[p + m][d - m]
      BY <1>5, <1>6, <1>9, <1>11, <2>1
    <2>3. blk = SubSeq(X, o + 1, o + n) \o <<X[o + m]>>
      BY <1>4, <1>7, <1>9, <1>11
    <2>4. o + n = o + m - 1 /\ m \in Nat \ {0}
      BY <1>1, <1>9, <1>11
    <2>5. SubSeq(X, o + 1, o + m - 1) \o <<X[o + m]>> = SubSeq(X, o + 1, o + m)
      BY <2>4, OneMore
    <2> QED BY <2>2, <2>3, <2>4, <2>5
  <1> QED BY <1>8, <1>10, <1>11


\* No FullBlock consecutive bytes of X are without a zero.
NoFull(X) == \A a \in 0 .. Len(X) - FullBlock : \E r \in 1 .. FullBlock : X[a + r] = SPECIAL_CHAR

\* Then no block of a frame of X is full.
LEMMA NotFull ==
    ASSUME NEW X \in Seq(Byte), NoFull(X), NEW F, Frame(X, F),
           NEW B, NEW off, Layout(B, off, F, X, Len(F)), NEW p \in B, p # Len(F)
    PROVE  F[p] \in 1 .. MaxMarker - 1
  <1>1. /\ MaxMarker \in Nat /\ MaxMarker >= 3 /\ Len(F) \in Nat /\ Len(X) \in Nat
        /\ \A r \in 1 .. Len(F) - 1 : F[r] \in 1 .. MaxMarker
    BY MaxMarkerAssumption DEF Frame
  <1>2. /\ off \in [Offset -> Nat] /\ B \subseteq 1 .. Len(F)
        /\ Marked(off, F, X, p) /\ p + F[p] \in B
    BY DEF Layout
  <1>3. /\ F[p] \in 1 .. MaxMarker
        /\ off[p + F[p]] = off[p] + F[p] - (IF F[p] = MaxMarker THEN 1 ELSE 0)
        /\ off[p + F[p]] <= Len(X)
        /\ \A r \in 1 .. F[p] - 1 : F[p + r] = X[off[p] + r]
    BY <1>2 DEF Marked
  <1>4. p \in 1 .. Len(F) /\ p + F[p] \in 1 .. Len(F) /\ off[p] \in Nat
    <2>1. p \in 1 .. Len(F) /\ p + F[p] \in 1 .. Len(F)
      BY <1>2
    <2>2. p \in Offset
      BY <2>1 DEF Offset
    <2> QED BY <1>2, <2>1, <2>2
  <1>5. ASSUME F[p] = MaxMarker
        PROVE  FALSE
    <2>1. off[p] + FullBlock <= Len(X) /\ p + MaxMarker <= Len(F)
      BY <1>1, <1>3, <1>4, <1>5 DEF FullBlock
    <2>2. off[p] \in 0 .. Len(X) - FullBlock
      BY <1>1, <1>4, <2>1 DEF FullBlock
    <2>3. PICK r \in 1 .. FullBlock : X[off[p] + r] = SPECIAL_CHAR
      BY <2>2 DEF NoFull
    <2>4. r \in 1 .. F[p] - 1 /\ p + r \in 1 .. Len(F) - 1
      BY <1>1, <1>4, <1>5, <2>1 DEF FullBlock
    <2>5. F[p + r] = SPECIAL_CHAR /\ F[p + r] \in 1 .. MaxMarker
      BY <1>1, <1>3, <2>3, <2>4
    <2> QED BY <2>5 DEF SPECIAL_CHAR
  <1> QED BY <1>1, <1>3, <1>5

\* A sequence ends like its second part.
LEMMA EndOfConcat ==
    ASSUME NEW S, NEW s \in Seq(S), NEW t \in Seq(S), t # << >>
    PROVE  s \o t # << >> /\ (s \o t)[Len(s \o t)] = t[Len(t)]
  <1>1. Len(s) \in Nat /\ Len(t) \in Nat /\ Len(t) >= 1
    OBVIOUS
  <1>2. /\ s \o t \in Seq(S) /\ Len(s \o t) = Len(s) + Len(t)
        /\ \A i \in 1 .. Len(s) + Len(t) : (s \o t)[i] = IF i <= Len(s) THEN s[i] ELSE t[i - Len(s)]
    BY ConcatProperties
  <1>3. /\ Len(s) + Len(t) \in 1 .. Len(s) + Len(t) /\ ~(Len(s) + Len(t) <= Len(s))
        /\ (Len(s) + Len(t)) - Len(s) = Len(t)
    BY <1>1
  <1>4. (s \o t)[Len(s \o t)] = t[Len(t)]
    BY <1>2, <1>3
  <1>5. s \o t # << >>
    <2>1. Len(s \o t) >= 1
      BY <1>1, <1>2
    <2> HIDE <1>2
    <2> QED BY <2>1
  <1> QED BY <1>4, <1>5

\* What the scan makes of a frame of X, from a marker with o bytes of X before it on:
\* the d bytes of X that follow if they come before the last one, else failure.
Recovers(X, o, out, d) ==
    /\ o + d < Len(X) => out = SubSeq(X, o + 1, o + d)
    /\ o + d >= Len(X) => out # << >> /\ out[Len(out)] = Unwritten

\* cobs_partial_decode of a frame without a full block.
LEMMA FramePartial ==
    ASSUME NEW X \in Seq(Byte), NoFull(X), NEW F, Frame(X, F), NEW d \in 1 .. Len(F)
    PROVE  /\ X # << >> => X[Len(X)] = SPECIAL_CHAR
           /\ cobs_partial_decode(Unterminated(F), Len(Unterminated(F)), d)
                = IF d < Len(X) THEN [ret |-> d, dst |-> SubSeq(X, 1, d)]
                  ELSE [ret |-> 0, dst |-> << >>]
  <1> DEFINE E == Len(F)
             P == Unterminated(F)
             L == E - 1
  <1>0. /\ F \in Seq(Byte) /\ E \in Nat /\ E >= 1 /\ Len(X) \in Nat
        /\ P \in Seq(Byte) /\ Len(P) = L /\ L \in Nat /\ L \in 0 .. Len(P)
        /\ \A p \in 1 .. L : P[p] = F[p]
        /\ E \in Offset /\ d \in Nat /\ MaxMarker \in Nat
    <2>1. F \in Seq(Byte) /\ E \in Nat /\ E >= 1 /\ Len(X) \in Nat
      BY DEF Frame
    <2>2. P \in Seq(Byte) /\ Len(P) = L /\ \A p \in 1 .. L : P[p] = F[p]
      BY UnterminatedProperties
    <2> HIDE DEF P, E
    <2> QED BY <2>1, <2>2, MaxMarkerAssumption DEF Offset
  <1>1. PICK B, off : Layout(B, off, F, X, E) /\ off[E] = Len(X)
    BY DEF Frame
  <1>2. /\ off \in [Offset -> Nat] /\ off[1] = 0
        /\ B \subseteq 1 .. E /\ 1 \in B /\ E \in B
        /\ \A p \in B \ {E} : Marked(off, F, X, p) /\ p + F[p] \in B
    BY <1>1 DEF Layout
  <1>3. PICK from : /\ PartialScan(from, P, L)
                    /\ cobs_partial_decode(P, L, d) = PartialResult(L, d, from[1][d])
    <2> HIDE DEF P, L
    <2> QED BY <1>0, PartialUnfold
  <1>4. \A p \in B \ {E} : F[p] \in 1 .. MaxMarker - 1
    BY <1>1, NotFull
  <1> HIDE DEF E, P
  <1> DEFINE Good(p) == /\ E - p = Len(X) - off[p] /\ off[p] < Len(X)
                        /\ X[Len(X)] = SPECIAL_CHAR
                        /\ \A k \in Nat : Recovers(X, off[p], from[p][k], k)
             S == {p \in Offset : p \in B /\ p # E => Good(p)}
  <1>5. ASSUME NEW p \in 1 .. L, p \in B, \A q \in Offset : q > p => q \in S
        PROVE  Good(p)
    <2> DEFINE m == F[p]
               o == off[p]
               q == p + m
    <2>1. /\ Marked(off, F, X, p) /\ q \in B /\ q \in 1 .. E /\ P[p] = m
          /\ m \in 1 .. MaxMarker - 1
      <3>1. p \in B \ {E}
        BY <1>0, <1>5
      <3>2. Marked(off, F, X, p) /\ q \in B /\ m \in 1 .. MaxMarker - 1
        BY <1>2, <1>4, <3>1
      <3> QED BY <1>0, <1>2, <3>2
    <2>2. /\ off[q] = o + m - (IF m = MaxMarker THEN 1 ELSE 0) /\ off[q] <= Len(X)
          /\ \A r \in 1 .. m - 1 : F[p + r] = X[o + r]
          /\ m < MaxMarker => X[o + m] = SPECIAL_CHAR
      BY <2>1 DEF Marked
    <2>3. p \in Offset /\ q \in Offset /\ q > p /\ m \in Nat /\ m >= 1 /\ m < MaxMarker
      <3> HIDE DEF m
      <3> QED BY <1>0, <2>1 DEF Offset
    <2>4. o \in Nat
      BY <1>2, <2>3
    <2> HIDE DEF m, o, q
    <2>5. off[q] = o + m /\ o + m <= Len(X) /\ X[o + m] = SPECIAL_CHAR
      BY <1>0, <2>2, <2>3, <2>4
    <2>6. p + m <= Len(P) + 1 /\ p \in 1 .. Len(P) /\ p \in Nat /\ q = p + m /\ q <= E
      BY <1>0, <2>1, <2>3 DEF q
    <2>7. \A r \in 1 .. m - 1 : P[p + r] = X[o + r]
      <3>1. \A r \in 1 .. m - 1 : p + r \in 1 .. L
        BY <1>0, <2>3, <2>6
      <3> QED BY <1>0, <2>2, <3>1
    <2>8. ASSUME NEW k \in Nat
          PROVE  /\ k < m => from[p][k] = SubSeq(X, o + 1, o + k)
                 /\ k >= m /\ p + m = Len(P) + 1 => from[p][k] = <<Unwritten>>
                 /\ k >= m /\ p + m <= Len(P) =>
                      from[p][k] = SubSeq(X, o + 1, o + m) \o from[p + m][k - m]
      <3>1. PartialScan(from, P, Len(P))
        BY <1>0, <1>3
      <3>2. HoldsBlock(P, p, X, o, m)
        BY <2>1, <2>4, <2>5, <2>6, <2>7 DEF HoldsBlock
      <3>3. ScanAt(from, P, p, X, o, m, k)
        BY <1>0, <3>1, <3>2, PartialAtBlock
      <3> QED BY <3>3 DEF ScanAt
    <2>9. CASE q = E
      <3>1. E - p = Len(X) - o /\ o < Len(X) /\ X[Len(X)] = SPECIAL_CHAR /\ o + m = Len(X) /\ p + m = Len(P) + 1
        <4>1. o + m = Len(X) /\ p + m = E
          BY <1>1, <2>5, <2>6, <2>9
        <4>2. E = L + 1
          BY <1>0
        <4>3. E - p = m /\ Len(X) - o = m /\ o < Len(X)
          BY ONLY <1>0, <2>3, <2>4, <2>6, <4>1
        <4>4. p + m = Len(P) + 1
          BY <1>0, <4>1, <4>2
        <4>5. X[Len(X)] = SPECIAL_CHAR
          BY <2>5, <4>1
        <4> QED BY <4>1, <4>3, <4>4, <4>5
      <3>2. ASSUME NEW k \in Nat
            PROVE  Recovers(X, o, from[p][k], k)
        <4>1. CASE k < m
          <5>1. o + k < Len(X) /\ ~(o + k >= Len(X))
            BY ONLY <1>0, <2>3, <2>4, <3>1, <4>1, k \in Nat
          <5>2. from[p][k] = SubSeq(X, o + 1, o + k)
            BY <2>8, <4>1
          <5> QED BY <5>1, <5>2 DEF Recovers
        <4>2. CASE k >= m
          <5>1. from[p][k] = <<Unwritten>>
            BY <2>8, <3>1, <4>2
          <5>2. <<Unwritten>> # << >> /\ <<Unwritten>>[Len(<<Unwritten>>)] = Unwritten
            OBVIOUS
          <5>3. ~(o + k < Len(X))
            BY <2>3, <2>4, <3>1, <4>2
          <5> QED BY <5>1, <5>2, <5>3 DEF Recovers
        <4> QED BY <2>3, <4>1, <4>2
      <3> QED BY <3>1, <3>2 DEF o
    <2>10. CASE q # E
      <3>1. Good(q)
        BY <1>5, <2>1, <2>3, <2>10
      <3>2. /\ E - q = Len(X) - off[q] /\ off[q] < Len(X) /\ X[Len(X)] = SPECIAL_CHAR
            /\ \A k \in Nat : Recovers(X, off[q], from[q][k], k)
        BY <3>1
      <3>3. E - p = Len(X) - o /\ o < Len(X) /\ p + m <= Len(P)
        BY <1>0, <2>3, <2>4, <2>5, <2>6, <2>10, <3>2
      <3>4. ASSUME NEW k \in Nat
            PROVE  Recovers(X, o, from[p][k], k)
        <4>1. CASE k < m
          <5>1. o + k < Len(X) /\ ~(o + k >= Len(X))
            BY <1>0, <2>3, <2>4, <2>5, <4>1
          <5> QED BY <2>8, <4>1, <5>1 DEF Recovers
        <4>2. CASE k >= m
          <5> DEFINE j == k - m
          <5>1. j \in Nat /\ off[q] + j = o + k
            BY <2>3, <2>4, <2>5, <4>2
          <5>2. from[p][k] = SubSeq(X, o + 1, o + m) \o from[q][j]
            BY <2>6, <2>8, <3>3, <4>2
          <5> HIDE DEF j
          <5>3. Recovers(X, off[q], from[q][j], j)
            BY <3>2, <5>1
          <5>4. CASE o + k < Len(X)
            <6>1. from[q][j] = SubSeq(X, (o + m) + 1, o + k)
              BY <2>5, <5>1, <5>3, <5>4 DEF Recovers
            <6>2. o + m \in Nat /\ o + k \in Nat /\ o <= o + m /\ o + m <= o + k /\ o + k <= Len(X)
              BY <1>0, <2>3, <2>4, <4>2, <5>4
            <6>3. SubSeq(X, o + 1, o + m) \o SubSeq(X, (o + m) + 1, o + k) = SubSeq(X, o + 1, o + k)
              BY <2>4, <6>2, Adjacent
            <6>4. from[p][k] = SubSeq(X, o + 1, o + k)
              BY <5>2, <6>1, <6>3
            <6>5. ~(o + k >= Len(X))
              BY <1>0, <5>4, <6>2
            <6> QED BY <6>4, <6>5 DEF Recovers
          <5>5. CASE ~(o + k < Len(X))
            <6>1. off[q] + j >= Len(X)
              BY <1>0, <2>4, <5>1, <5>5
            <6>2. from[q][j] # << >> /\ from[q][j][Len(from[q][j])] = Unwritten
              BY <5>3, <6>1 DEF Recovers
            <6>3. from[q][j] \in Seq(0 .. Unwritten)
              BY <1>3, <2>3, <5>1 DEF PartialScan
            <6>4. SubSeq(X, o + 1, o + m) \in Seq(0 .. Unwritten)
              <7>1. o + 1 \in Int /\ o + m \in Int /\ \A r \in o + 1 .. o + m : r \in 1 .. Len(X)
                BY <1>0, <2>3, <2>4, <2>5
              <7>2. \A r \in 1 .. Len(X) : X[r] \in Byte
                OBVIOUS
              <7>3. Byte \subseteq 0 .. Unwritten
                BY <1>0 DEF Byte, Unwritten
              <7>4. \A r \in o + 1 .. o + m : X[r] \in 0 .. Unwritten
                BY <7>1, <7>2, <7>3
              <7> QED BY <7>1, <7>4, SubSeqProperties
            <6> DEFINE s == SubSeq(X, o + 1, o + m)
                       t == from[q][j]
            <6>5. s \o t # << >> /\ (s \o t)[Len(s \o t)] = t[Len(t)]
              <7>1. s \in Seq(0 .. Unwritten) /\ t \in Seq(0 .. Unwritten) /\ t # << >>
                BY <6>2, <6>3, <6>4
              <7> HIDE DEF s, t
              <7> QED BY <7>1, EndOfConcat
            <6> QED BY <5>2, <5>5, <6>2, <6>5 DEF Recovers
          <5> QED BY <5>4, <5>5
        <4> QED BY <2>3, <4>1, <4>2
      <3> QED BY <3>2, <3>3, <3>4 DEF o
    <2> QED BY <2>9, <2>10
  <1>6. Offset \subseteq S
    <2>1. \A p \in Nat \ {0} : p > L => p \in S
      <3>1. \A p \in Nat \ {0} : p > L /\ p \in B => p = E
        BY <1>0, <1>2
      <3> HIDE DEF Good
      <3> QED BY <3>1 DEF Offset
    <2>2. ASSUME NEW p \in 1 .. L, \A q \in Nat \ {0} : q > p => q \in S
          PROVE  p \in S
      <3>1. p \in Offset /\ \A q \in Offset : q > p => q \in S
        BY <2>2 DEF Offset
      <3>2. p \in B => Good(p)
        <4> HIDE DEF Good, S
        <4> QED BY <1>5, <3>1
      <3> HIDE DEF Good
      <3> QED BY <3>1, <3>2
    <2> HIDE DEF S
    <2>3. Nat \ {0} \subseteq S
      BY <1>0, <2>1, <2>2, BackwardInduction
    <2> QED BY <2>3 DEF Offset
  <1>7. 1 \in Offset
    BY DEF Offset
  <1>8. CASE E = 1
    <2>1. Len(X) = 0 /\ X = << >> /\ L = 0 /\ d >= 1
      BY <1>0, <1>1, <1>2, <1>8
    <2>2. L < d /\ ~(d < Len(X))
      BY <1>0, <2>1
    <2>3. cobs_partial_decode(P, L, d) = [ret |-> 0, dst |-> << >>]
      BY <1>3, <2>2 DEF PartialResult
    <2> QED BY <1>0, <2>1, <2>2, <2>3 DEF P
  <1>9. CASE E # 1
    <2>1. Good(1)
      <3> HIDE DEF Good
      <3> QED BY <1>2, <1>6, <1>7, <1>9
    <2>2. /\ E - 1 = Len(X) /\ 0 < Len(X) /\ X[Len(X)] = SPECIAL_CHAR
          /\ Recovers(X, 0, from[1][d], d)
      BY <1>0, <1>2, <2>1
    <2>3. CASE d < Len(X)
      <3>1. from[1][d] = SubSeq(X, 1, d) /\ ~(L < d)
        <4>1. 0 + d < Len(X) /\ 0 + 1 = 1 /\ 0 + d = d /\ ~(L < d)
          BY <1>0, <2>2, <2>3
        <4> QED BY <2>2, <4>1 DEF Recovers
      <3>2. SubSeq(X, 1, d)[Len(SubSeq(X, 1, d))] # Unwritten
        <4>1. d \in 0 .. Len(X) /\ d \in 1 .. d /\ d \in 1 .. Len(X)
          BY <1>0, <2>3
        <4>2. SubSeq(X, 1, d)[Len(SubSeq(X, 1, d))] = X[d]
          BY <4>1, PrefixProperties
        <4>3. X[d] \in Byte /\ Unwritten \notin Byte
          BY <1>0, <4>1 DEF Byte, Unwritten
        <4> QED BY <4>2, <4>3
      <3>3. cobs_partial_decode(P, L, d) = [ret |-> d, dst |-> SubSeq(X, 1, d)]
        BY <1>3, <3>1, <3>2 DEF PartialResult
      <3> QED BY <1>0, <2>2, <2>3, <3>3 DEF P
    <2>4. CASE ~(d < Len(X))
      <3>1. from[1][d] # << >> /\ from[1][d][Len(from[1][d])] = Unwritten
        <4>1. 0 + d >= Len(X)
          BY <1>0, <2>4
        <4> QED BY <2>2, <4>1 DEF Recovers
      <3>2. cobs_partial_decode(P, L, d) = [ret |-> 0, dst |-> << >>]
        BY <1>3, <3>1 DEF PartialResult
      <3> QED BY <1>0, <2>2, <2>4, <3>2 DEF P
    <2> QED BY <2>3, <2>4
  <1> QED BY <1>8, <1>9


\* A zero at the end makes no block full.
LEMMA NoFullLonger ==
    ASSUME NEW X \in Seq(Byte), NoFull(X), NEW Y, Y = Append(X, SPECIAL_CHAR)
    PROVE  NoFull(Y)
  <1>1. /\ Len(X) \in Nat /\ Len(Y) = Len(X) + 1 /\ Y[Len(X) + 1] = SPECIAL_CHAR
        /\ \A p \in 1 .. Len(X) : Y[p] = X[p]
    OBVIOUS
  <1>2. FullBlock \in Nat /\ FullBlock >= 2
    BY MaxMarkerAssumption DEF FullBlock
  <1> SUFFICES ASSUME NEW a \in 0 .. Len(Y) - FullBlock
               PROVE  \E r \in 1 .. FullBlock : Y[a + r] = SPECIAL_CHAR
    BY DEF NoFull
  <1>3. CASE a \in 0 .. Len(X) - FullBlock
    <2>1. PICK r \in 1 .. FullBlock : X[a + r] = SPECIAL_CHAR
      BY <1>3 DEF NoFull
    <2>2. a + r \in 1 .. Len(X)
      BY <1>1, <1>2, <1>3
    <2> QED BY <1>1, <2>1, <2>2
  <1>4. CASE a \notin 0 .. Len(X) - FullBlock
    <2>1. a + FullBlock = Len(X) + 1 /\ FullBlock \in 1 .. FullBlock
      BY <1>1, <1>2, <1>4
    <2> QED BY <1>1, <2>1
  <1> QED BY <1>3, <1>4

\* cobs_partial_decode of what cobs_encode returns, when no block is full: a
\* success is a prefix of the source, and every prefix that the encoding keeps
\* is recovered.
LEMMA EncodedPartial ==
    ASSUME NEW X \in Seq(Byte), NoFull(X), NEW F, EncodedAs(X, F), NEW d \in 1 .. Len(F),
           NEW r, r = cobs_partial_decode(Unterminated(F), Len(Unterminated(F)), d)
    PROVE  /\ r.ret \in {0, d}
           /\ r.ret = d => d <= Len(X) /\ r.dst = SubSeq(X, 1, d)
           /\ d <= Len(Stripped(X)) => r.ret = d
  <1>0. Len(X) \in Nat
    OBVIOUS
  <1>3. d \in Nat /\ d >= 1
    <2>1. Len(F) \in Nat
      BY DEF EncodedAs, Frame
    <2> QED BY <2>1
  <1>4. Len(Stripped(X)) = StrippedLen(X)
    BY StrippedProperties
  <1>1. CASE Frame(X, F)
    <2>1. /\ X # << >> => X[Len(X)] = SPECIAL_CHAR
          /\ r = IF d < Len(X) THEN [ret |-> d, dst |-> SubSeq(X, 1, d)]
                 ELSE [ret |-> 0, dst |-> << >>]
      BY <1>1, FramePartial
    <2>2. d < Len(X) => r.ret = d /\ r.dst = SubSeq(X, 1, d)
      BY <2>1
    <2>3. ~(d < Len(X)) => r.ret = 0
      BY <2>1
    <2>4. d <= StrippedLen(X) => d < Len(X)
      <3>1. CASE X = << >>
        BY <1>0, <1>3, <3>1 DEF StrippedLen
      <3>2. CASE X # << >>
        <4>1. StrippedLen(X) = Len(X) - 1
          BY <2>1, <3>2 DEF StrippedLen
        <4> QED BY <1>0, <1>3, <4>1
      <3> QED BY <3>1, <3>2
    <2> QED BY <1>0, <1>3, <1>4, <2>2, <2>3, <2>4
  <1>2. CASE X # << >> /\ X[Len(X)] # SPECIAL_CHAR /\ Frame(Append(X, SPECIAL_CHAR), F)
    <2> DEFINE Y == Append(X, SPECIAL_CHAR)
    <2>1. Y \in Seq(Byte) /\ Len(Y) = Len(X) + 1 /\ \A p \in 1 .. Len(X) : Y[p] = X[p]
      <3>1. SPECIAL_CHAR \in Byte
        BY MaxMarkerAssumption DEF SPECIAL_CHAR, Byte
      <3> QED BY <3>1
    <2>2. NoFull(Y)
      BY NoFullLonger
    <2>3. Frame(Y, F)
      BY <1>2
    <2> HIDE DEF Y
    <2>4. r = IF d < Len(Y) THEN [ret |-> d, dst |-> SubSeq(Y, 1, d)]
              ELSE [ret |-> 0, dst |-> << >>]
      BY <2>1, <2>2, <2>3, FramePartial
    <2>5. d < Len(Y) => r.ret = d /\ r.dst = SubSeq(Y, 1, d) /\ d <= Len(X)
      BY <1>0, <1>3, <2>1, <2>4
    <2>6. ~(d < Len(Y)) => r.ret = 0
      BY <2>4
    <2>7. ASSUME d <= Len(X)
          PROVE  SubSeq(Y, 1, d) = SubSeq(X, 1, d)
      <3>1. d \in 0 .. Len(X) /\ d \in 0 .. Len(Y)
        BY <1>0, <1>3, <2>1, <2>7
      <3> DEFINE u == SubSeq(Y, 1, d)
                 v == SubSeq(X, 1, d)
      <3>2. u \in Seq(Byte) /\ Len(u) = d /\ \A p \in 1 .. d : u[p] = Y[p]
        BY <2>1, <3>1, PrefixProperties
      <3>3. v \in Seq(Byte) /\ Len(v) = d /\ \A p \in 1 .. d : v[p] = X[p]
        BY <3>1, PrefixProperties
      <3> HIDE DEF u, v
      <3>4. \A p \in 1 .. d : p \in 1 .. Len(X)
        BY <3>1
      <3>5. u = v
        BY <2>1, <3>2, <3>3, <3>4, SeqEqual
      <3> QED BY <3>5 DEF u, v
    <2>8. StrippedLen(X) = Len(X)
      BY <1>2 DEF StrippedLen
    <2>9. d <= Len(X) => d < Len(Y)
      BY <1>0, <1>3, <2>1
    <2> QED BY <1>0, <1>3, <1>4, <2>5, <2>6, <2>7, <2>8, <2>9
  <1> QED BY <1>1, <1>2 DEF EncodedAs
=============================================================================
