--------------------------- MODULE SectionProofs ---------------------------
(***************************************************************************)
(* A section implements a set of numbers, for every range of numbers, as   *)
(* long as the largest uint64 is never added: high + 1 then never wraps.   *)
(***************************************************************************)
EXTENDS Section, FiniteSetTheorems, TLAPS

\* No bound is the largest uint64.
Bounded == \A i \in 1 .. Len(pieces) : pieces[i].high < MaxNum

IInv == TypeOK /\ Ordered /\ Bounded /\ PiecesLive

---------------------------------------------------------------------------
(* What the array helpers return.                                          *)

\* A function on 1 .. m is a sequence of length m.
LEMMA SeqOfFunction ==
  ASSUME NEW S, NEW m \in Nat, NEW f \in [1 .. m -> S]
  PROVE  f \in Seq(S) /\ Len(f) = m
  OBVIOUS

\* The array in which one piece gets new bounds (section.c:18, 39, 111, 114).
LEMMA ReplacedShape ==
  ASSUME pieces \in Seq(Piece), NEW i \in 1 .. Len(pieces), NEW p \in Piece
  PROVE  /\ Replaced(i, p) \in Seq(Piece)
         /\ Len(Replaced(i, p)) = Len(pieces)
         /\ \A k \in 1 .. Len(pieces) :
              Replaced(i, p)[k] = IF k = i THEN p ELSE pieces[k]
  <1>1. Replaced(i, p) \in [1 .. Len(pieces) -> Piece]
    BY DEF Replaced
  <1>2. Len(pieces) \in Nat
    OBVIOUS
  <1>3. \A k \in 1 .. Len(pieces) :
              Replaced(i, p)[k] = IF k = i THEN p ELSE pieces[k]
    BY DEF Replaced
  <1> QED BY <1>1, <1>2, <1>3, SeqOfFunction

\* The array after a merge (section.c:24-34, 45-55).
LEMMA JoinedShape ==
  ASSUME pieces \in Seq(Piece), NEW i \in 1 .. Len(pieces) - 1, NEW p \in Piece
  PROVE  /\ Joined(i, p) \in Seq(Piece)
         /\ Len(Joined(i, p)) = Len(pieces) - 1
         /\ \A k \in 1 .. Len(pieces) - 1 :
              Joined(i, p)[k] = IF k < i THEN pieces[k]
                                ELSE IF k = i THEN p ELSE pieces[k + 1]
  <1>1. Joined(i, p) \in [1 .. Len(pieces) - 1 -> Piece]
    BY DEF Joined
  <1>2. Len(pieces) - 1 \in Nat
    OBVIOUS
  <1>3. \A k \in 1 .. Len(pieces) - 1 :
              Joined(i, p)[k] = IF k < i THEN pieces[k]
                                ELSE IF k = i THEN p ELSE pieces[k + 1]
    BY DEF Joined
  <1> QED BY <1>1, <1>2, <1>3, SeqOfFunction

\* The array with one piece more (section.c:71-83, 98-107).
LEMMA InsertedShape ==
  ASSUME pieces \in Seq(Piece), NEW i \in 1 .. Len(pieces) + 1, NEW p \in Piece
  PROVE  /\ Inserted(i, p) \in Seq(Piece)
         /\ Len(Inserted(i, p)) = Len(pieces) + 1
         /\ \A k \in 1 .. Len(pieces) + 1 :
              Inserted(i, p)[k] = IF k < i THEN pieces[k]
                                  ELSE IF k = i THEN p ELSE pieces[k - 1]
  <1>1. Inserted(i, p) \in [1 .. Len(pieces) + 1 -> Piece]
    BY DEF Inserted
  <1>2. Len(pieces) + 1 \in Nat
    OBVIOUS
  <1>3. \A k \in 1 .. Len(pieces) + 1 :
              Inserted(i, p)[k] = IF k < i THEN pieces[k]
                                  ELSE IF k = i THEN p ELSE pieces[k - 1]
    BY DEF Inserted
  <1> QED BY <1>1, <1>2, <1>3, SeqOfFunction

\* The array with one piece less (section.c:118-130).
LEMMA RemovedShape ==
  ASSUME pieces \in Seq(Piece), NEW i \in 1 .. Len(pieces)
  PROVE  /\ Removed(i) \in Seq(Piece)
         /\ Len(Removed(i)) = Len(pieces) - 1
         /\ \A k \in 1 .. Len(pieces) - 1 :
              Removed(i)[k] = IF k < i THEN pieces[k] ELSE pieces[k + 1]
  <1>1. Removed(i) \in [1 .. Len(pieces) - 1 -> Piece]
    BY DEF Removed
  <1>2. Len(pieces) - 1 \in Nat
    OBVIOUS
  <1>3. \A k \in 1 .. Len(pieces) - 1 :
              Removed(i)[k] = IF k < i THEN pieces[k] ELSE pieces[k + 1]
    BY DEF Removed
  <1> QED BY <1>1, <1>2, <1>3, SeqOfFunction

\* Of ordered pieces, those that end below a number come first, and index
\* (section.c:11-13) counts them.
LEMMA BelowIsPrefix ==
  ASSUME IInv, NEW n \in Nat
  PROVE  /\ Cardinality(Below(n)) \in 0 .. Len(pieces)
         /\ \A j \in 1 .. Len(pieces) :
              pieces[j].high < n <=> j <= Cardinality(Below(n))
  <1> DEFINE B == Below(n)
             c == Cardinality(B)
             L == Len(pieces)
  <1>1. L \in Nat /\ B \subseteq 1 .. L
    BY DEF IInv, TypeOK, Below
  <1>2. IsFiniteSet(1 .. L) /\ Cardinality(1 .. L) = L
    <2> HIDE DEF L
    <2> QED BY <1>1, FS_Interval, 1 \in Int, L \in Int
  <1>3. IsFiniteSet(B) /\ c \in Nat /\ c <= L
    BY <1>1, <1>2, FS_Subset, FS_CardinalityType
  <1>4. \A j \in B : 1 .. j \subseteq B
    <2> SUFFICES ASSUME NEW j \in B, NEW k \in 1 .. j
                 PROVE  k \in B
      OBVIOUS
    <2>1. k \in 1 .. L /\ j \in 1 .. L /\ pieces[j].high < n
      BY <1>1 DEF Below
    <2>2. pieces[k] \in Piece /\ pieces[j] \in Piece
      BY <2>1 DEF IInv, TypeOK
    <2>3. k < j => pieces[k].high + 1 < pieces[j].low
      BY <2>1 DEF IInv, Ordered
    <2>4. pieces[j].low <= pieces[j].high
      BY <2>1 DEF IInv, Ordered
    <2>5. pieces[k].high < n
      BY <2>1, <2>2, <2>3, <2>4, MaxNumAssumption DEF Piece
    <2> QED BY <2>1, <2>5 DEF Below
  <1>5. \A j \in B : j <= c
    <2> TAKE j \in B
    <2>1. j \in Int /\ j >= 1 /\ 1 .. j \in SUBSET B
      BY <1>1, <1>4
    <2>2. Cardinality(1 .. j) = j
      BY <2>1, FS_Interval, 1 \in Int
    <2> QED BY <1>3, <2>1, <2>2, FS_Subset
  <1>6. B \in SUBSET (1 .. c)
    BY <1>1, <1>3, <1>5
  <1>7. IsFiniteSet(1 .. c) /\ Cardinality(1 .. c) = c
    BY <1>3, FS_Interval, 1 \in Int, c \in Int
  <1>8. B = 1 .. c
    BY <1>6, <1>7, FS_Subset
  <1>9. \A j \in 1 .. L : pieces[j].high < n <=> j \in B
    BY DEF Below
  <1> QED BY <1>1, <1>3, <1>8, <1>9

---------------------------------------------------------------------------
(* Arrays of ordered ranges, and what the helpers make of them.            *)

WellFormed(t) ==
    /\ t \in Seq(Piece)
    /\ \A i \in 1 .. Len(t) : t[i].low <= t[i].high /\ t[i].high < MaxNum
    /\ \A i, j \in 1 .. Len(t) : i < j => t[i].high + 1 < t[j].low

In(p, x) == p.low <= x /\ x <= p.high

\* The invariant in terms of the array.
LEMMA InvariantOfArray ==
  IInv <=> /\ WellFormed(pieces)
           /\ mem \in {"null", "live", "dangling"}
           /\ freed \in BOOLEAN /\ doubleFree \in BOOLEAN
           /\ PiecesLive
  BY DEF IInv, TypeOK, Ordered, Bounded, WellFormed

\* What well-formedness says of one piece and of two.
LEMMA WellFormedFacts ==
  ASSUME NEW t, WellFormed(t)
  PROVE  /\ t \in Seq(Piece) /\ Len(t) \in Nat
         /\ \A i \in 1 .. Len(t) : /\ t[i] \in Piece /\ t[i].low \in Nat /\ t[i].high \in Nat
                                   /\ t[i].low <= t[i].high /\ t[i].high < MaxNum
         /\ \A i, j \in 1 .. Len(t) : i < j => t[i].high + 1 < t[j].low
  <1>1. t \in Seq(Piece) /\ Len(t) \in Nat
    BY DEF WellFormed
  <1>2. \A i \in 1 .. Len(t) : t[i] \in Piece
    BY <1>1
  <1>3. \A p \in Piece : p.low \in Nat /\ p.high \in Nat
    BY MaxNumAssumption DEF Piece
  <1> QED BY <1>1, <1>2, <1>3 DEF WellFormed

\* A range with bounds below the largest uint64 is a piece.
LEMMA SpanFacts ==
  ASSUME NEW l \in Nat, NEW h \in Nat, l <= h, h < MaxNum
  PROVE  Span(l, h) \in Piece /\ Span(l, h).low = l /\ Span(l, h).high = h
  BY MaxNumAssumption DEF Span, Piece

\* Below the largest uint64, + 1 does not wrap.
LEMMA SuccFacts ==
  ASSUME NEW n \in Nat, n < MaxNum
  PROVE  Succ(n) = n + 1
  BY MaxNumAssumption DEF Succ

\* A gap between two ranges is a gap between parts of them.
LEMMA Between ==
  \A h, l \in Int : \A H, L \in Nat : h <= H /\ H + 1 < L /\ l >= L => h + 1 < l
  OBVIOUS

\* From the low bound of a range to the high bound of a later one.
LEMMA Across ==
  \A a, b, c, d \in Nat : a <= b /\ b + 1 < c /\ c <= d => a <= d
  OBVIOUS

\* New bounds for one piece keep the array well formed when they leave a gap
\* on both sides.
LEMMA ReplacedWellFormed ==
  ASSUME WellFormed(pieces), NEW i \in 1 .. Len(pieces),
         NEW l \in Nat, NEW h \in Nat, l <= h, h < MaxNum,
         \A j \in 1 .. i - 1 : pieces[j].high + 1 < l,
         \A j \in i + 1 .. Len(pieces) : h + 1 < pieces[j].low
  PROVE  /\ WellFormed(Replaced(i, Span(l, h)))
         /\ Len(Replaced(i, Span(l, h))) = Len(pieces)
         /\ \A x \in Nat :
              (\E k \in 1 .. Len(pieces) : In(Replaced(i, Span(l, h))[k], x))
                <=> \/ l <= x /\ x <= h
                    \/ \E k \in 1 .. Len(pieces) : k # i /\ In(pieces[k], x)
  <1> DEFINE p == Span(l, h)
             t == Replaced(i, p)
  <1>1. p \in Piece /\ p.low = l /\ p.high = h
    BY SpanFacts
  <1>2. /\ t \in Seq(Piece) /\ Len(t) = Len(pieces)
        /\ \A k \in 1 .. Len(pieces) : t[k] = IF k = i THEN p ELSE pieces[k]
    <2>1. pieces \in Seq(Piece)
      BY WellFormedFacts
    <2> HIDE DEF p
    <2> QED BY <1>1, <2>1, ReplacedShape
  <1> HIDE DEF p, t
  <1>3. WellFormed(t)
    <2>1. \A k \in 1 .. Len(t) : t[k].low <= t[k].high /\ t[k].high < MaxNum
      BY <1>1, <1>2, WellFormedFacts
    <2>2. ASSUME NEW a \in 1 .. Len(t), NEW b \in 1 .. Len(t), a < b
          PROVE  t[a].high + 1 < t[b].low
      <3>1. CASE a # i /\ b # i
        BY <1>2, <2>2, <3>1, WellFormedFacts
      <3>2. CASE a = i
        <4>1. b \in i + 1 .. Len(pieces) /\ t[a] = p /\ t[b] = pieces[b]
          BY <1>2, <2>2, <3>2
        <4> QED BY <1>1, <4>1
      <3>3. CASE b = i
        <4>1. a \in 1 .. i - 1 /\ t[a] = pieces[a] /\ t[b] = p
          BY <1>2, <2>2, <3>3
        <4> QED BY <1>1, <4>1
      <3> QED BY <3>1, <3>2, <3>3
    <2> QED BY <1>2, <2>1, <2>2 DEF WellFormed
  <1>4. ASSUME NEW x \in Nat
        PROVE  (\E k \in 1 .. Len(pieces) : In(t[k], x))
                <=> \/ l <= x /\ x <= h
                    \/ \E k \in 1 .. Len(pieces) : k # i /\ In(pieces[k], x)
    BY <1>1, <1>2 DEF In
  <1> QED BY <1>2, <1>3, <1>4 DEF t, p

\* So does joining a piece with the next one.
LEMMA JoinedWellFormed ==
  ASSUME WellFormed(pieces), NEW i \in 1 .. Len(pieces) - 1
  PROVE  LET t == Joined(i, Span(pieces[i].low, pieces[i + 1].high))
         IN  /\ WellFormed(t)
             /\ Len(t) = Len(pieces) - 1
             /\ \A x \in Nat :
                  (\E k \in 1 .. Len(pieces) - 1 : In(t[k], x))
                    <=> \/ pieces[i].low <= x /\ x <= pieces[i + 1].high
                        \/ \E k \in 1 .. Len(pieces) : In(pieces[k], x)
  <1> DEFINE p == Span(pieces[i].low, pieces[i + 1].high)
             t == Joined(i, p)
  <1>1. Len(pieces) \in Nat /\ i \in 1 .. Len(pieces) /\ i + 1 \in 1 .. Len(pieces)
    BY WellFormedFacts
  <1>2. /\ p \in Piece /\ p.low = pieces[i].low /\ p.high = pieces[i + 1].high
        /\ pieces[i].low <= pieces[i + 1].high
    <2>1. /\ pieces[i].low \in Nat /\ pieces[i].high \in Nat /\ pieces[i].low <= pieces[i].high
          /\ pieces[i + 1].low \in Nat /\ pieces[i + 1].high \in Nat
          /\ pieces[i + 1].low <= pieces[i + 1].high /\ pieces[i + 1].high < MaxNum
      BY <1>1, WellFormedFacts
    <2>2. pieces[i].high + 1 < pieces[i + 1].low
      BY <1>1, WellFormedFacts, i < i + 1
    <2>3. pieces[i].low <= pieces[i + 1].high
      BY <2>1, <2>2, Across
    <2> QED BY <2>1, <2>3, SpanFacts
  <1>3. /\ t \in Seq(Piece) /\ Len(t) = Len(pieces) - 1
        /\ \A k \in 1 .. Len(pieces) - 1 :
             t[k] = IF k < i THEN pieces[k] ELSE IF k = i THEN p ELSE pieces[k + 1]
    <2>1. pieces \in Seq(Piece)
      BY WellFormedFacts
    <2> HIDE DEF p
    <2> QED BY <1>2, <2>1, JoinedShape
  <1> HIDE DEF p, t
  <1>4. WellFormed(t)
    <2>1. \A k \in 1 .. Len(t) : t[k].low <= t[k].high /\ t[k].high < MaxNum
      <3> TAKE k \in 1 .. Len(t)
      <3>1. k \in 1 .. Len(pieces) - 1 /\ k \in 1 .. Len(pieces) /\ k + 1 \in 1 .. Len(pieces)
        BY <1>1, <1>3
      <3> QED BY <1>1, <1>2, <1>3, <3>1, WellFormedFacts
    <2>2. ASSUME NEW a \in 1 .. Len(t), NEW b \in 1 .. Len(t), a < b
          PROVE  t[a].high + 1 < t[b].low
      <3> DEFINE A == IF a < i THEN a ELSE a + 1
                 B == IF b <= i THEN b ELSE b + 1
      <3>1. A \in 1 .. Len(pieces) /\ B \in 1 .. Len(pieces) /\ A < B
        BY <1>1, <1>3, <2>2
      <3>2. t[a].high = pieces[A].high
        <4>1. CASE a < i
          BY <1>3, <4>1
        <4>2. CASE a = i
          BY <1>1, <1>2, <1>3, <4>2
        <4>3. CASE ~(a < i) /\ a # i
          BY <1>3, <4>3
        <4> QED BY <4>1, <4>2, <4>3
      <3>3. t[b].low = pieces[B].low
        <4>1. CASE b < i
          BY <1>3, <4>1
        <4>2. CASE b = i
          BY <1>1, <1>2, <1>3, <4>2
        <4>3. CASE ~(b < i) /\ b # i
          BY <1>3, <4>3
        <4> QED BY <4>1, <4>2, <4>3
      <3> QED BY <3>1, <3>2, <3>3, WellFormedFacts
    <2> QED BY <1>3, <2>1, <2>2 DEF WellFormed
  <1>5. ASSUME NEW x \in Nat
        PROVE  (\E k \in 1 .. Len(pieces) - 1 : In(t[k], x))
                    <=> \/ pieces[i].low <= x /\ x <= pieces[i + 1].high
                        \/ \E k \in 1 .. Len(pieces) : In(pieces[k], x)
    <2>1. ASSUME NEW k \in 1 .. Len(pieces) - 1, In(t[k], x)
          PROVE  \/ pieces[i].low <= x /\ x <= pieces[i + 1].high
                 \/ \E j \in 1 .. Len(pieces) : In(pieces[j], x)
      <3>1. CASE k < i
        BY <1>1, <1>3, <2>1, <3>1
      <3>2. CASE k = i
        BY <1>1, <1>2, <1>3, <2>1, <3>2 DEF In
      <3>3. CASE k > i
        BY <1>1, <1>3, <2>1, <3>3, k + 1 \in 1 .. Len(pieces)
      <3> QED BY <1>1, <3>1, <3>2, <3>3
    <2>2. ASSUME pieces[i].low <= x, x <= pieces[i + 1].high
          PROVE  \E k \in 1 .. Len(pieces) - 1 : In(t[k], x)
      BY <1>1, <1>2, <1>3, <2>2 DEF In
    <2>3. ASSUME NEW k \in 1 .. Len(pieces), In(pieces[k], x)
          PROVE  \E j \in 1 .. Len(pieces) - 1 : In(t[j], x)
      <3>1. CASE k < i
        BY <1>1, <1>3, <2>3, <3>1
      <3>2. CASE k = i \/ k = i + 1
        <4>1. pieces[i].low <= x /\ x <= pieces[i + 1].high
          <5>1. /\ pieces[i].low \in Nat /\ pieces[i].high \in Nat
                /\ pieces[i].low <= pieces[i].high
                /\ pieces[i + 1].low \in Nat /\ pieces[i + 1].high \in Nat
                /\ pieces[i + 1].low <= pieces[i + 1].high
            BY <1>1, WellFormedFacts
          <5>2. pieces[i].high + 1 < pieces[i + 1].low
            BY <1>1, WellFormedFacts, i < i + 1
          <5>3. CASE k = i
            BY <2>3, <5>1, <5>2, <5>3 DEF In
          <5>4. CASE k = i + 1
            BY <2>3, <5>1, <5>2, <5>4 DEF In
          <5> QED BY <3>2, <5>3, <5>4
        <4> QED BY <4>1, <2>2
      <3>3. CASE k > i + 1
        <4>1. /\ k - 1 \in 1 .. Len(pieces) - 1 /\ (k - 1) + 1 = k
              /\ ~(k - 1 < i) /\ k - 1 # i
          BY <1>1, <3>3
        <4>2. t[k - 1] = pieces[k]
          BY <1>3, <4>1
        <4> QED BY <4>1, <4>2, <2>3
      <3> QED BY <1>1, <3>1, <3>2, <3>3
    <2> QED BY <2>1, <2>2, <2>3
  <1> QED BY <1>3, <1>4, <1>5 DEF t, p

\* So does a new piece with a gap on both sides.
LEMMA InsertedWellFormed ==
  ASSUME WellFormed(pieces), NEW i \in 1 .. Len(pieces) + 1,
         NEW l \in Nat, NEW h \in Nat, l <= h, h < MaxNum,
         \A j \in 1 .. i - 1 : pieces[j].high + 1 < l,
         \A j \in i .. Len(pieces) : h + 1 < pieces[j].low
  PROVE  LET t == Inserted(i, Span(l, h))
         IN  /\ WellFormed(t)
             /\ Len(t) = Len(pieces) + 1
             /\ \A x \in Nat :
                  (\E k \in 1 .. Len(pieces) + 1 : In(t[k], x))
                    <=> \/ l <= x /\ x <= h
                        \/ \E k \in 1 .. Len(pieces) : In(pieces[k], x)
  <1> DEFINE p == Span(l, h)
             t == Inserted(i, p)
  <1>1. Len(pieces) \in Nat
    BY WellFormedFacts
  <1>2. p \in Piece /\ p.low = l /\ p.high = h
    BY SpanFacts
  <1>3. /\ t \in Seq(Piece) /\ Len(t) = Len(pieces) + 1
        /\ \A k \in 1 .. Len(pieces) + 1 :
             t[k] = IF k < i THEN pieces[k] ELSE IF k = i THEN p ELSE pieces[k - 1]
    <2>1. pieces \in Seq(Piece)
      BY WellFormedFacts
    <2> HIDE DEF p
    <2>2. t \in Seq(Piece)
      BY <1>2, <2>1, InsertedShape
    <2>3. Len(t) = Len(pieces) + 1
      BY <1>2, <2>1, InsertedShape
    <2>4. \A k \in 1 .. Len(pieces) + 1 :
             t[k] = IF k < i THEN pieces[k] ELSE IF k = i THEN p ELSE pieces[k - 1]
      BY <1>2, <2>1, InsertedShape
    <2> QED BY <2>2, <2>3, <2>4
  <1> HIDE DEF p, t
  <1>4. \A k \in 1 .. Len(t) :
          \/ k < i /\ k \in 1 .. Len(pieces) /\ t[k] = pieces[k]
          \/ k = i /\ t[k] = p
          \/ k > i /\ k - 1 \in i .. Len(pieces) /\ k - 1 \in 1 .. Len(pieces)
             /\ t[k] = pieces[k - 1]
    <2> TAKE k \in 1 .. Len(t)
    <2>1. k \in 1 .. Len(pieces) + 1
      BY <1>3
    <2>2. CASE k < i
      BY <1>1, <1>3, <2>1, <2>2
    <2>3. CASE k = i
      BY <1>3, <2>1, <2>3
    <2>4. CASE k > i
      <3>1. ~(k < i) /\ k # i /\ k - 1 \in i .. Len(pieces) /\ k - 1 \in 1 .. Len(pieces)
        BY <1>1, <2>1, <2>4
      <3> QED BY <1>3, <2>1, <2>4, <3>1
    <2> QED BY <2>1, <2>2, <2>3, <2>4
  <1>5. WellFormed(t)
    <2>1. \A k \in 1 .. Len(t) : t[k].low <= t[k].high /\ t[k].high < MaxNum
      BY <1>2, <1>4, WellFormedFacts
    <2>2. ASSUME NEW a \in 1 .. Len(t), NEW b \in 1 .. Len(t), a < b
          PROVE  t[a].high + 1 < t[b].low
      <3>1. CASE b < i
        <4>1. /\ a \in 1 .. Len(pieces) /\ t[a] = pieces[a]
              /\ b \in 1 .. Len(pieces) /\ t[b] = pieces[b]
          BY <1>1, <1>4, <2>2, <3>1
        <4> QED BY <2>2, <4>1, WellFormedFacts
      <3>2. CASE b = i
        <4>1. a \in 1 .. i - 1 /\ t[a] = pieces[a] /\ t[b] = p
          BY <1>1, <1>4, <2>2, <3>2
        <4> QED BY <1>2, <4>1
      <3>3. CASE b > i
        <4>1. b - 1 \in i .. Len(pieces) /\ b - 1 \in 1 .. Len(pieces) /\ t[b] = pieces[b - 1]
          BY <1>1, <1>4, <3>3
        <4>2. CASE a < i
          <5>1. a \in 1 .. Len(pieces) /\ t[a] = pieces[a] /\ a < b - 1
            BY <1>1, <1>4, <3>3, <4>2
          <5> QED BY <4>1, <5>1, WellFormedFacts
        <4>3. CASE a = i
          BY <1>2, <1>4, <4>1, <4>3
        <4>4. CASE a > i
          <5>1. a - 1 \in 1 .. Len(pieces) /\ t[a] = pieces[a - 1] /\ a - 1 < b - 1
            BY <1>1, <1>4, <2>2, <4>4
          <5> QED BY <4>1, <5>1, WellFormedFacts
        <4> QED BY <4>2, <4>3, <4>4
      <3> QED BY <3>1, <3>2, <3>3
    <2> QED BY <1>3, <2>1, <2>2 DEF WellFormed
  <1>6. ASSUME NEW x \in Nat
        PROVE  (\E k \in 1 .. Len(pieces) + 1 : In(t[k], x))
                    <=> \/ l <= x /\ x <= h
                        \/ \E k \in 1 .. Len(pieces) : In(pieces[k], x)
    <2>1. ASSUME NEW k \in 1 .. Len(pieces) + 1, In(t[k], x)
          PROVE  \/ l <= x /\ x <= h
                 \/ \E j \in 1 .. Len(pieces) : In(pieces[j], x)
      BY <1>2, <1>3, <1>4, <2>1 DEF In
    <2>2. ASSUME l <= x, x <= h
          PROVE  \E k \in 1 .. Len(pieces) + 1 : In(t[k], x)
      BY <1>2, <1>3, <2>2 DEF In
    <2>3. ASSUME NEW k \in 1 .. Len(pieces), In(pieces[k], x)
          PROVE  \E j \in 1 .. Len(pieces) + 1 : In(t[j], x)
      <3>1. CASE k < i
        BY <1>1, <1>3, <2>3, <3>1
      <3>2. CASE k >= i
        <4>1. /\ k + 1 \in 1 .. Len(pieces) + 1 /\ (k + 1) - 1 = k
              /\ ~(k + 1 < i) /\ k + 1 # i
          BY <1>1, <3>2
        <4>2. t[k + 1] = pieces[k]
          BY <1>3, <4>1
        <4> QED BY <4>1, <4>2, <2>3
      <3> QED BY <1>1, <3>1, <3>2
    <2> QED BY <2>1, <2>2, <2>3
  <1> QED BY <1>3, <1>5, <1>6 DEF t, p

\* So does removing a piece.
LEMMA RemovedWellFormed ==
  ASSUME WellFormed(pieces), NEW i \in 1 .. Len(pieces)
  PROVE  LET t == Removed(i)
         IN  /\ WellFormed(t)
             /\ Len(t) = Len(pieces) - 1
             /\ \A x \in Nat :
                  (\E k \in 1 .. Len(pieces) - 1 : In(t[k], x))
                    <=> \E k \in 1 .. Len(pieces) : k # i /\ In(pieces[k], x)
  <1> DEFINE t == Removed(i)
  <1>1. Len(pieces) \in Nat
    BY WellFormedFacts
  <1>2. /\ t \in Seq(Piece) /\ Len(t) = Len(pieces) - 1
        /\ \A k \in 1 .. Len(pieces) - 1 :
             t[k] = IF k < i THEN pieces[k] ELSE pieces[k + 1]
    BY RemovedShape, WellFormedFacts
  <1> HIDE DEF t
  <1>3. \A k \in 1 .. Len(t) :
          \/ k < i /\ k \in 1 .. Len(pieces) /\ t[k] = pieces[k]
          \/ k >= i /\ k + 1 \in 1 .. Len(pieces) /\ t[k] = pieces[k + 1]
    BY <1>1, <1>2
  <1>4. WellFormed(t)
    <2>1. \A k \in 1 .. Len(t) : t[k].low <= t[k].high /\ t[k].high < MaxNum
      BY <1>3, WellFormedFacts
    <2>2. ASSUME NEW a \in 1 .. Len(t), NEW b \in 1 .. Len(t), a < b
          PROVE  t[a].high + 1 < t[b].low
      <3>1. CASE b < i
        <4>1. /\ a \in 1 .. Len(pieces) /\ t[a] = pieces[a]
              /\ b \in 1 .. Len(pieces) /\ t[b] = pieces[b]
          BY <1>1, <1>3, <2>2, <3>1
        <4> QED BY <2>2, <4>1, WellFormedFacts
      <3>2. CASE b >= i
        <4>1. b + 1 \in 1 .. Len(pieces) /\ t[b] = pieces[b + 1]
          BY <1>1, <1>3, <3>2
        <4>2. CASE a < i
          <5>1. a \in 1 .. Len(pieces) /\ t[a] = pieces[a] /\ a < b + 1
            BY <1>1, <1>3, <2>2, <4>2
          <5> QED BY <4>1, <5>1, WellFormedFacts
        <4>3. CASE a >= i
          <5>1. a + 1 \in 1 .. Len(pieces) /\ t[a] = pieces[a + 1] /\ a + 1 < b + 1
            BY <1>1, <1>3, <2>2, <4>3
          <5> QED BY <4>1, <5>1, WellFormedFacts
        <4> QED BY <4>2, <4>3
      <3> QED BY <3>1, <3>2
    <2> QED BY <1>2, <2>1, <2>2 DEF WellFormed
  <1>5. ASSUME NEW x \in Nat
        PROVE  (\E k \in 1 .. Len(pieces) - 1 : In(t[k], x))
                    <=> \E k \in 1 .. Len(pieces) : k # i /\ In(pieces[k], x)
    <2>1. ASSUME NEW k \in 1 .. Len(pieces) - 1, In(t[k], x)
          PROVE  \E j \in 1 .. Len(pieces) : j # i /\ In(pieces[j], x)
      <3>1. CASE k < i
        BY <1>1, <1>2, <1>3, <2>1, <3>1
      <3>2. CASE k >= i
        <4>1. k + 1 \in 1 .. Len(pieces) /\ k + 1 # i /\ t[k] = pieces[k + 1]
          BY <1>1, <1>2, <1>3, <3>2
        <4> QED BY <2>1, <4>1
      <3> QED BY <3>1, <3>2
    <2>2. ASSUME NEW k \in 1 .. Len(pieces), k # i, In(pieces[k], x)
          PROVE  \E j \in 1 .. Len(pieces) - 1 : In(t[j], x)
      <3>1. CASE k < i
        BY <1>1, <1>2, <2>2, <3>1
      <3>2. CASE k > i
        <4>1. k - 1 \in 1 .. Len(pieces) - 1 /\ (k - 1) + 1 = k /\ ~(k - 1 < i)
          BY <1>1, <3>2
        <4>2. t[k - 1] = pieces[k]
          BY <1>2, <4>1
        <4> QED BY <4>1, <4>2, <2>2
      <3> QED BY <1>1, <2>2, <3>1, <3>2
    <2> QED BY <2>1, <2>2
  <1> QED BY <1>2, <1>4, <1>5 DEF t

\* So does splitting a piece around a number inside it (section.c:92-108).
LEMMA SplitWellFormed ==
  ASSUME WellFormed(pieces), NEW i \in 1 .. Len(pieces), NEW n \in Nat,
         pieces[i].low < n, n < pieces[i].high
  PROVE  LET t == [Inserted(i + 1, Span(n + 1, pieces[i].high))
                     EXCEPT ![i] = Span(pieces[i].low, n - 1)]
         IN  /\ WellFormed(t)
             /\ Len(t) = Len(pieces) + 1
             /\ \A x \in Nat :
                  (\E k \in 1 .. Len(pieces) + 1 : In(t[k], x))
                    <=> x # n /\ \E k \in 1 .. Len(pieces) : In(pieces[k], x)
  <1> DEFINE p == Span(pieces[i].low, n - 1)
             q == Span(n + 1, pieces[i].high)
             s == Inserted(i + 1, q)
             t == [s EXCEPT ![i] = p]
  <1>1. /\ Len(pieces) \in Nat /\ pieces[i].low \in Nat /\ pieces[i].high \in Nat
        /\ pieces[i].high < MaxNum /\ MaxNum \in Nat
    BY WellFormedFacts, MaxNumAssumption
  <1>2. p \in Piece /\ p.low = pieces[i].low /\ p.high = n - 1
    <2>1. n - 1 \in Nat /\ pieces[i].low <= n - 1 /\ n - 1 < MaxNum
      BY <1>1
    <2> QED BY <1>1, <2>1, SpanFacts
  <1>3. q \in Piece /\ q.low = n + 1 /\ q.high = pieces[i].high
    BY <1>1, SpanFacts
  <1>4. /\ s \in Seq(Piece) /\ Len(s) = Len(pieces) + 1
        /\ \A k \in 1 .. Len(pieces) + 1 :
             s[k] = IF k < i + 1 THEN pieces[k] ELSE IF k = i + 1 THEN q ELSE pieces[k - 1]
    <2> HIDE DEF q
    <2>1. i + 1 \in 1 .. Len(pieces) + 1
      BY <1>1
    <2>2. pieces \in Seq(Piece)
      BY WellFormedFacts
    <2>3. s \in Seq(Piece)
      BY <1>3, <2>1, <2>2, InsertedShape
    <2>4. Len(s) = Len(pieces) + 1
      BY <1>3, <2>1, <2>2, InsertedShape
    <2>5. \A k \in 1 .. Len(pieces) + 1 :
             s[k] = IF k < i + 1 THEN pieces[k] ELSE IF k = i + 1 THEN q ELSE pieces[k - 1]
      BY DEF Inserted
    <2> QED BY <2>3, <2>4, <2>5
  <1> HIDE DEF p, q, s
  <1>5. /\ t \in Seq(Piece) /\ Len(t) = Len(pieces) + 1
        /\ \A k \in 1 .. Len(pieces) + 1 : t[k] = IF k = i THEN p ELSE s[k]
    BY <1>1, <1>2, <1>4
  <1> HIDE DEF t
  <1>6. \A k \in 1 .. Len(t) :
          \/ k < i /\ k \in 1 .. Len(pieces) /\ t[k] = pieces[k]
          \/ k = i /\ t[k] = p
          \/ k = i + 1 /\ t[k] = q
          \/ k > i + 1 /\ k - 1 \in 1 .. Len(pieces) /\ t[k] = pieces[k - 1]
    BY <1>1, <1>4, <1>5
  <1>7. WellFormed(t)
    <2>1. \A k \in 1 .. Len(t) : t[k].low <= t[k].high /\ t[k].high < MaxNum
      <3> TAKE k \in 1 .. Len(t)
      <3>1. p.low <= p.high /\ p.high < MaxNum /\ q.low <= q.high /\ q.high < MaxNum
        BY <1>1, <1>2, <1>3
      <3> QED BY <1>6, <3>1, WellFormedFacts
    <2>2. ASSUME NEW a \in 1 .. Len(t), NEW b \in 1 .. Len(t), a < b
          PROVE  t[a].high + 1 < t[b].low
      <3> DEFINE A == IF a <= i THEN a ELSE a - 1
                 B == IF b <= i THEN b ELSE b - 1
      <3>1. A \in 1 .. Len(pieces) /\ B \in 1 .. Len(pieces) /\ A <= B
        BY <1>1, <1>5, <2>2
      <3>2. t[a].high <= pieces[A].high /\ t[a].high \in Int
        <4>1. CASE a < i
          <5>1. A = a /\ a \in 1 .. Len(pieces) /\ t[a] = pieces[a]
            BY <1>6, <4>1
          <5> QED BY <5>1, WellFormedFacts
        <4>2. CASE a = i
          BY <1>1, <1>2, <1>6, <4>2
        <4>3. CASE a = i + 1
          BY <1>1, <1>3, <1>6, <4>3
        <4>4. CASE a > i + 1
          <5>1. A = a - 1 /\ a - 1 \in 1 .. Len(pieces) /\ t[a] = pieces[a - 1]
            BY <1>6, <4>4
          <5> QED BY <5>1, WellFormedFacts
        <4> QED BY <4>1, <4>2, <4>3, <4>4
      <3>3. t[b].low >= pieces[B].low /\ t[b].low \in Int
        <4>1. CASE b < i
          <5>1. B = b /\ b \in 1 .. Len(pieces) /\ t[b] = pieces[b]
            BY <1>6, <4>1
          <5> QED BY <5>1, WellFormedFacts
        <4>2. CASE b = i
          BY <1>1, <1>2, <1>6, <4>2
        <4>3. CASE b = i + 1
          BY <1>1, <1>3, <1>6, <4>3
        <4>4. CASE b > i + 1
          <5>1. B = b - 1 /\ b - 1 \in 1 .. Len(pieces) /\ t[b] = pieces[b - 1]
            BY <1>6, <4>4
          <5> QED BY <5>1, WellFormedFacts
        <4> QED BY <4>1, <4>2, <4>3, <4>4
      <3>4. CASE A < B
        <4>1. /\ pieces[A].high + 1 < pieces[B].low
              /\ pieces[A].high \in Nat /\ pieces[B].low \in Nat
          BY <3>1, <3>4, WellFormedFacts
        <4> QED BY <3>2, <3>3, <4>1, Between
      <3>5. CASE A = B
        <4>1. a = i /\ b = i + 1
          BY <1>1, <1>5, <2>2, <3>5
        <4>2. t[a] = p /\ t[b] = q
          BY <1>6, <4>1
        <4> QED BY <1>2, <1>3, <4>2
      <3> QED BY <3>1, <3>4, <3>5
    <2> QED BY <1>5, <2>1, <2>2 DEF WellFormed
  <1>8. ASSUME NEW x \in Nat
        PROVE  (\E k \in 1 .. Len(pieces) + 1 : In(t[k], x))
                 <=> x # n /\ \E k \in 1 .. Len(pieces) : In(pieces[k], x)
    <2>1. ASSUME NEW k \in 1 .. Len(pieces), k # i
          PROVE  n < pieces[k].low \/ pieces[k].high < n
      <3>1. pieces[k].low \in Nat /\ pieces[k].high \in Nat
        BY WellFormedFacts
      <3>2. CASE k < i
        BY <1>1, <3>1, <3>2, WellFormedFacts
      <3>3. CASE k > i
        BY <1>1, <3>1, <3>3, WellFormedFacts
      <3> QED BY <1>1, <2>1, <3>2, <3>3
    <2>2. ASSUME NEW k \in 1 .. Len(pieces) + 1, In(t[k], x)
          PROVE  x # n /\ \E j \in 1 .. Len(pieces) : In(pieces[j], x)
      <3>1. CASE k < i
        <4>1. k \in 1 .. Len(pieces) /\ k # i /\ In(pieces[k], x)
          BY <1>5, <1>6, <2>2, <3>1
        <4>2. n < pieces[k].low \/ pieces[k].high < n
          BY <2>1, <4>1
        <4>3. pieces[k].low \in Nat /\ pieces[k].high \in Nat
          BY <4>1, WellFormedFacts
        <4>4. x # n
          BY <4>1, <4>2, <4>3 DEF In
        <4> QED BY <4>1, <4>4
      <3>2. CASE k = i \/ k = i + 1
        <4>1. x # n /\ In(pieces[i], x)
          <5>1. In(p, x) \/ In(q, x)
            BY <1>5, <1>6, <2>2, <3>2
          <5> QED BY <1>1, <1>2, <1>3, <5>1 DEF In
        <4> QED BY <4>1
      <3>3. CASE k > i + 1
        <4>1. k - 1 \in 1 .. Len(pieces) /\ k - 1 # i /\ In(pieces[k - 1], x)
          <5>1. k \in 1 .. Len(t) /\ k - 1 # i /\ ~(k < i) /\ k # i /\ k # i + 1
            BY <1>1, <1>5, <3>3
          <5> QED BY <1>6, <2>2, <5>1
        <4>2. n < pieces[k - 1].low \/ pieces[k - 1].high < n
          BY <2>1, <4>1
        <4>3. pieces[k - 1].low \in Nat /\ pieces[k - 1].high \in Nat
          BY <4>1, WellFormedFacts
        <4>4. x # n
          BY <4>1, <4>2, <4>3 DEF In
        <4> QED BY <4>1, <4>4
      <3> QED BY <1>1, <3>1, <3>2, <3>3
    <2>3. ASSUME NEW k \in 1 .. Len(pieces), In(pieces[k], x), x # n
          PROVE  \E j \in 1 .. Len(pieces) + 1 : In(t[j], x)
      <3>1. CASE k < i
        <4>1. k \in 1 .. Len(pieces) + 1 /\ t[k] = s[k] /\ s[k] = pieces[k]
          BY <1>1, <1>4, <1>5, <3>1
        <4> QED BY <2>3, <4>1
      <3>2. CASE k = i /\ x < n
        BY <1>1, <1>2, <1>5, <1>6, <2>3, <3>2 DEF In
      <3>3. CASE k = i /\ x > n
        <4>1. i + 1 \in 1 .. Len(t) /\ t[i + 1] = q
          BY <1>1, <1>5, <1>6
        <4> QED BY <1>1, <1>3, <1>5, <2>3, <3>3, <4>1 DEF In
      <3>4. CASE k > i
        <4>1. k + 1 \in 1 .. Len(pieces) + 1 /\ (k + 1) - 1 = k /\ k + 1 > i + 1
          BY <1>1, <3>4
        <4>2. k + 1 # i /\ ~(k + 1 < i + 1) /\ k + 1 # i + 1
          BY <3>4
        <4>3. t[k + 1] = s[k + 1] /\ s[k + 1] = pieces[(k + 1) - 1]
          BY <1>4, <1>5, <4>1, <4>2
        <4> QED BY <4>1, <4>3, <2>3
      <3> QED BY <1>1, <2>3, <3>1, <3>2, <3>3, <3>4
    <2> QED BY <2>2, <2>3
  <1> QED BY <1>5, <1>7, <1>8 DEF t, s, p, q

---------------------------------------------------------------------------
(* The operations.  Each keeps the invariant and changes the set as the    *)
(* abstract operation does.                                                *)

\* The members of the set, before and after a step.
LEMMA Membership ==
  /\ \A x : x \in Numbers <=> /\ x \in 0 .. MaxNum
                              /\ \E k \in 1 .. Len(pieces) : In(pieces[k], x)
  /\ \A x : x \in Numbers' <=> /\ x \in 0 .. MaxNum
                               /\ \E k \in 1 .. Len(pieces') : In(pieces'[k], x)
  BY DEF Numbers, Holds, In

\* A step that keeps the array well formed and live keeps the invariant.
LEMMA LiveStep ==
  ASSUME IInv, WellFormed(pieces'), mem' = "live", UNCHANGED <<freed, doubleFree>>
  PROVE  IInv'
  <1>1. PiecesLive'
    BY DEF PiecesLive
  <1>2. freed \in BOOLEAN /\ doubleFree \in BOOLEAN
    BY DEF IInv, TypeOK
  <1> QED BY <1>1, <1>2 DEF IInv, TypeOK, Ordered, Bounded, WellFormed

\* The members of Nums are naturals below the largest uint64, and so + 1 does
\* not wrap for them nor for any bound.
LEMMA NoWrap ==
  ASSUME IInv, MaxNum \notin Nums, NEW n \in Nums
  PROVE  /\ n \in Nat /\ n < MaxNum /\ Succ(n) = n + 1 /\ n \in 0 .. MaxNum
         /\ \A i \in 1 .. Len(pieces) : Succ(pieces[i].high) = pieces[i].high + 1
         /\ \A x \in 0 .. MaxNum : x \in Nat
  <1>1. n \in Nat /\ n < MaxNum /\ n \in 0 .. MaxNum
    BY MaxNumAssumption
  <1>2. Succ(n) = n + 1
    BY <1>1, SuccFacts
  <1>3. \A i \in 1 .. Len(pieces) : pieces[i].high \in Nat /\ pieces[i].high < MaxNum
    BY InvariantOfArray, WellFormedFacts
  <1>4. \A i \in 1 .. Len(pieces) : Succ(pieces[i].high) = pieces[i].high + 1
    BY <1>3, SuccFacts
  <1> QED BY <1>1, <1>2, <1>4, MaxNumAssumption

\* Every piece leaves a gap to the ones before it.
LEMMA GapBefore ==
  ASSUME WellFormed(pieces), NEW i \in 1 .. Len(pieces)
  PROVE  \A j \in 1 .. i - 1 : pieces[j].high + 1 < pieces[i].low
  <1> TAKE j \in 1 .. i - 1
  <1>1. j \in 1 .. Len(pieces) /\ j < i
    BY WellFormedFacts
  <1> QED BY <1>1, WellFormedFacts

\* The same for the pieces behind it.
LEMMA GapBehind ==
  ASSUME WellFormed(pieces), NEW i \in 1 .. Len(pieces)
  PROVE  \A j \in i + 1 .. Len(pieces) : pieces[i].high + 1 < pieces[j].low
  <1> TAKE j \in i + 1 .. Len(pieces)
  <1>1. j \in 1 .. Len(pieces) /\ i < j
    BY WellFormedFacts
  <1> QED BY <1>1, WellFormedFacts

\* Extending a piece upwards, with or without a merge, adds num.
LEMMA AddHighStep ==
  ASSUME IInv, MaxNum \notin Nums, NEW n \in Nums, AddHigh(n)
  PROVE  IInv' /\ Numbers' = Numbers \cup {n} /\ UNCHANGED freed
  <1>1. WellFormed(pieces)
    BY InvariantOfArray
  <1>2. PICK i \in 1 .. Len(pieces) :
          /\ StopsAt(i, n) /\ ~Holds(i, n) /\ EndsBefore(i, n)
          /\ pieces' = IF i < Len(pieces) /\ pieces[i + 1].low = Succ(n)
                       THEN Joined(i, Span(pieces[i].low, pieces[i + 1].high))
                       ELSE Replaced(i, Span(pieces[i].low, n))
    BY DEF AddHigh
  <1>3. pieces[i].high + 1 = n
    BY <1>2, NoWrap DEF EndsBefore
  <1>4. mem = "live" /\ mem' = mem /\ UNCHANGED <<freed, doubleFree>>
    BY <1>1, WellFormedFacts DEF AddHigh, IInv, PiecesLive
  <1>5. /\ Len(pieces) \in Nat /\ pieces[i].low \in Nat /\ pieces[i].high \in Nat
        /\ pieces[i].low <= pieces[i].high
    BY <1>1, WellFormedFacts
  <1>6. CASE i < Len(pieces) /\ pieces[i + 1].low = n + 1
    <2>1. i \in 1 .. Len(pieces) - 1 /\ i + 1 \in 1 .. Len(pieces)
      BY <1>5, <1>6
    <2>2. pieces' = Joined(i, Span(pieces[i].low, pieces[i + 1].high))
      BY <1>2, <1>6, NoWrap
    <2>3. /\ WellFormed(pieces') /\ Len(pieces') = Len(pieces) - 1
          /\ \A x \in Nat :
               (\E k \in 1 .. Len(pieces') : In(pieces'[k], x))
                 <=> \/ pieces[i].low <= x /\ x <= pieces[i + 1].high
                     \/ \E k \in 1 .. Len(pieces) : In(pieces[k], x)
      BY <1>1, <2>1, <2>2, JoinedWellFormed
    <2>4. pieces[i + 1].high \in Nat /\ pieces[i + 1].low <= pieces[i + 1].high
      BY <1>1, <2>1, WellFormedFacts
    <2>5. ASSUME NEW x \in Nat
          PROVE  pieces[i].low <= x /\ x <= pieces[i + 1].high
                   <=> In(pieces[i], x) \/ x = n \/ In(pieces[i + 1], x)
      BY <1>3, <1>5, <1>6, <2>4, NoWrap DEF In
    <2>6. ASSUME NEW x \in Nat
          PROVE  (\E k \in 1 .. Len(pieces') : In(pieces'[k], x))
                   <=> x = n \/ \E k \in 1 .. Len(pieces) : In(pieces[k], x)
      BY <2>1, <2>3, <2>5
    <2>7. Numbers' = Numbers \cup {n}
      BY <2>6, Membership, NoWrap
    <2> QED BY <1>4, <2>3, <2>7, LiveStep
  <1>7. CASE ~(i < Len(pieces) /\ pieces[i + 1].low = n + 1)
    <2>1. pieces' = Replaced(i, Span(pieces[i].low, n))
      BY <1>2, <1>7, NoWrap
    <2>2. \A j \in 1 .. i - 1 : pieces[j].high + 1 < pieces[i].low
      BY <1>1, GapBefore
    <2>3. ASSUME NEW j \in i + 1 .. Len(pieces)
          PROVE  n + 1 < pieces[j].low
      <3>1. /\ i + 1 \in 1 .. Len(pieces) /\ j \in 1 .. Len(pieces) /\ i < i + 1
            /\ i < Len(pieces)
        BY <1>5
      <3>2. /\ pieces[i + 1].low \in Nat /\ pieces[i + 1].high \in Nat /\ pieces[j].low \in Nat
            /\ pieces[i + 1].low <= pieces[i + 1].high
            /\ pieces[i].high + 1 < pieces[i + 1].low
        BY <1>1, <3>1, WellFormedFacts
      <3>3. n + 1 < pieces[i + 1].low
        BY <1>3, <1>5, <1>7, <3>1, <3>2, NoWrap
      <3>4. CASE j = i + 1
        BY <3>3, <3>4
      <3>5. CASE i + 1 < j
        <4>1. pieces[i + 1].high + 1 < pieces[j].low
          BY <1>1, <3>1, <3>5, WellFormedFacts
        <4> QED BY <3>2, <3>3, <4>1, NoWrap
      <3> QED BY <1>5, <3>4, <3>5
    <2>4. n \in Nat /\ n < MaxNum /\ pieces[i].low <= n
      BY <1>3, <1>5, NoWrap
    <2>5. /\ WellFormed(pieces') /\ Len(pieces') = Len(pieces)
          /\ \A x \in Nat :
               (\E k \in 1 .. Len(pieces') : In(pieces'[k], x))
                 <=> \/ pieces[i].low <= x /\ x <= n
                     \/ \E k \in 1 .. Len(pieces) : k # i /\ In(pieces[k], x)
      BY <1>1, <1>5, <2>1, <2>2, <2>3, <2>4, ReplacedWellFormed
    <2>6. ASSUME NEW x \in Nat
          PROVE  pieces[i].low <= x /\ x <= n <=> In(pieces[i], x) \/ x = n
      BY <1>3, <1>5, <2>4 DEF In
    <2>7. ASSUME NEW x \in Nat
          PROVE  (\E k \in 1 .. Len(pieces') : In(pieces'[k], x))
                   <=> x = n \/ \E k \in 1 .. Len(pieces) : In(pieces[k], x)
      BY <2>5, <2>6
    <2>8. Numbers' = Numbers \cup {n}
      BY <2>7, Membership, NoWrap
    <2> QED BY <1>4, <2>5, <2>8, LiveStep
  <1> QED BY <1>6, <1>7

\* Extending a piece downwards adds num.  The merge with the piece before is
\* never reached: that piece would have been extended upwards.
LEMMA AddLowStep ==
  ASSUME IInv, MaxNum \notin Nums, NEW n \in Nums, AddLow(n)
  PROVE  IInv' /\ Numbers' = Numbers \cup {n} /\ UNCHANGED freed
  <1>1. WellFormed(pieces)
    BY InvariantOfArray
  <1>2. PICK i \in 1 .. Len(pieces) :
          /\ StopsAt(i, n) /\ ~Holds(i, n) /\ ~EndsBefore(i, n) /\ StartsAfter(i, n)
          /\ pieces' = IF i > 1 /\ Succ(pieces[i - 1].high) = n
                       THEN Joined(i - 1, Span(pieces[i - 1].low, pieces[i].high))
                       ELSE Replaced(i, Span(n, pieces[i].high))
    BY DEF AddLow
  <1>3. pieces[i].low = n + 1
    BY <1>1, <1>2, WellFormedFacts, NoWrap DEF StartsAfter
  <1>4. mem = "live" /\ mem' = mem /\ UNCHANGED <<freed, doubleFree>>
    BY <1>1, WellFormedFacts DEF AddLow, IInv, PiecesLive
  <1>5. /\ Len(pieces) \in Nat /\ pieces[i].low \in Nat /\ pieces[i].high \in Nat
        /\ pieces[i].low <= pieces[i].high /\ pieces[i].high < MaxNum
        /\ n \in Nat /\ n <= pieces[i].high
    BY <1>1, <1>3, WellFormedFacts, NoWrap
  <1>6. ASSUME NEW j \in 1 .. i - 1
        PROVE  pieces[j].high + 1 # n /\ pieces[j].high + 1 < n
    <2>1. j \in 1 .. Len(pieces)
      BY <1>5
    <2>2. ~EndsBefore(j, n)
      BY <1>2 DEF StopsAt, Touches
    <2>3. pieces[j].high + 1 # n
      BY <2>1, <2>2, NoWrap DEF EndsBefore
    <2>4. pieces[j].high + 1 < pieces[i].low /\ pieces[j].high \in Nat
      BY <1>1, <2>1, GapBefore, WellFormedFacts
    <2> QED BY <1>3, <1>5, <2>3, <2>4
  <1>7. ~(i > 1 /\ Succ(pieces[i - 1].high) = n)
    <2> SUFFICES ASSUME i > 1 PROVE Succ(pieces[i - 1].high) # n
      OBVIOUS
    <2>1. i - 1 \in 1 .. i - 1 /\ i - 1 \in 1 .. Len(pieces)
      BY <1>5
    <2> QED BY <1>6, <2>1, NoWrap
  <1>8. pieces' = Replaced(i, Span(n, pieces[i].high))
    BY <1>2, <1>7
  <1>9. \A j \in i + 1 .. Len(pieces) : pieces[i].high + 1 < pieces[j].low
    BY <1>1, GapBehind
  <1>10. /\ WellFormed(pieces') /\ Len(pieces') = Len(pieces)
         /\ \A x \in Nat :
              (\E k \in 1 .. Len(pieces') : In(pieces'[k], x))
                <=> \/ n <= x /\ x <= pieces[i].high
                    \/ \E k \in 1 .. Len(pieces) : k # i /\ In(pieces[k], x)
    BY <1>1, <1>5, <1>6, <1>8, <1>9, ReplacedWellFormed
  <1>11. ASSUME NEW x \in Nat
         PROVE  n <= x /\ x <= pieces[i].high <=> In(pieces[i], x) \/ x = n
    BY <1>3, <1>5 DEF In
  <1>12. ASSUME NEW x \in Nat
         PROVE  (\E k \in 1 .. Len(pieces') : In(pieces'[k], x))
                  <=> x = n \/ \E k \in 1 .. Len(pieces) : In(pieces[k], x)
    BY <1>10, <1>11
  <1>13. Numbers' = Numbers \cup {n}
    BY <1>12, Membership, NoWrap
  <1> QED BY <1>4, <1>10, <1>13, LiveStep

\* A new piece adds num, behind the pieces below it.
LEMMA AddNewStep ==
  ASSUME IInv, MaxNum \notin Nums, NEW n \in Nums, AddNew(n)
  PROVE  IInv' /\ Numbers' = Numbers \cup {n} /\ UNCHANGED freed
  <1> DEFINE c == Cardinality(Below(n))
  <1>1. WellFormed(pieces)
    BY InvariantOfArray
  <1>2. /\ n \in Nat /\ n < MaxNum
        /\ c \in 0 .. Len(pieces)
        /\ \A j \in 1 .. Len(pieces) : pieces[j].high < n <=> j <= c
    BY BelowIsPrefix, NoWrap
  <1>3. /\ pieces' = Inserted(c + 1, Span(n, n))
        /\ mem' = "live" /\ UNCHANGED <<freed, doubleFree>>
        /\ \A i \in 1 .. Len(pieces) : ~Touches(i, n)
    BY DEF AddNew
  <1> HIDE DEF c
  <1>4. ASSUME NEW j \in 1 .. Len(pieces)
        PROVE  /\ j <= c => pieces[j].high + 1 < n
               /\ j > c => n + 1 < pieces[j].low
    <2>1. ~Holds(j, n) /\ ~EndsBefore(j, n) /\ ~StartsAfter(j, n)
      BY <1>3 DEF Touches
    <2>2. pieces[j].high + 1 # n
      BY <2>1, NoWrap DEF EndsBefore
    <2>3. pieces[j].low \in Nat /\ pieces[j].high \in Nat
      BY <1>1, WellFormedFacts
    <2>4. pieces[j].high >= n => pieces[j].low > n /\ pieces[j].low # n + 1
      BY <1>2, <2>1, <2>3 DEF Holds, StartsAfter
    <2> QED BY <1>2, <2>2, <2>3, <2>4
  <1>5. /\ c + 1 \in 1 .. Len(pieces) + 1 /\ Len(pieces) \in Nat
        /\ \A j \in 1 .. (c + 1) - 1 : pieces[j].high + 1 < n
        /\ \A j \in c + 1 .. Len(pieces) : n + 1 < pieces[j].low
    <2>1. c + 1 \in 1 .. Len(pieces) + 1 /\ Len(pieces) \in Nat /\ c \in Nat
      BY <1>1, <1>2, WellFormedFacts
    <2>2. ASSUME NEW j \in 1 .. (c + 1) - 1 PROVE pieces[j].high + 1 < n
      BY <1>2, <1>4, <2>1
    <2>3. ASSUME NEW j \in c + 1 .. Len(pieces) PROVE n + 1 < pieces[j].low
      BY <1>4, <2>1
    <2> QED BY <2>1, <2>2, <2>3
  <1>6. /\ WellFormed(pieces') /\ Len(pieces') = Len(pieces) + 1
        /\ \A x \in Nat :
             (\E k \in 1 .. Len(pieces') : In(pieces'[k], x))
               <=> \/ n <= x /\ x <= n
                   \/ \E k \in 1 .. Len(pieces) : In(pieces[k], x)
    <2>1. n <= n
      BY <1>2
    <2> DEFINE m == c + 1
    <2>2. /\ m \in 1 .. Len(pieces) + 1 /\ pieces' = Inserted(m, Span(n, n))
          /\ \A j \in 1 .. m - 1 : pieces[j].high + 1 < n
          /\ \A j \in m .. Len(pieces) : n + 1 < pieces[j].low
      BY <1>3, <1>5
    <2> HIDE DEF m
    <2> QED BY <1>1, <1>2, <2>1, <2>2, InsertedWellFormed
  <1>7. ASSUME NEW x \in Nat
        PROVE  (\E k \in 1 .. Len(pieces') : In(pieces'[k], x))
                 <=> x = n \/ \E k \in 1 .. Len(pieces) : In(pieces[k], x)
    <2>1. n <= x /\ x <= n <=> x = n
      BY <1>2
    <2> QED BY <1>6, <2>1
  <1>8. Numbers' = Numbers \cup {n}
    BY <1>7, Membership, NoWrap
  <1> QED BY <1>3, <1>6, <1>8, LiveStep

\* A number is in at most one piece.
LEMMA OnePiece ==
  ASSUME WellFormed(pieces), NEW n \in Nat,
         NEW i \in 1 .. Len(pieces), In(pieces[i], n)
  PROVE  \A k \in 1 .. Len(pieces) : In(pieces[k], n) => k = i
  <1> SUFFICES ASSUME NEW k \in 1 .. Len(pieces), In(pieces[k], n), k # i
               PROVE  FALSE
    OBVIOUS
  <1>1. /\ pieces[i].low \in Nat /\ pieces[i].high \in Nat
        /\ pieces[k].low \in Nat /\ pieces[k].high \in Nat
        /\ pieces[i].high + 1 < pieces[k].low \/ pieces[k].high + 1 < pieces[i].low
    BY WellFormedFacts
  <1> QED BY <1>1 DEF In

\* Splitting the piece around num deletes num.
LEMMA DeleteSplitStep ==
  ASSUME IInv, MaxNum \notin Nums, NEW n \in Nums, DeleteSplit(n)
  PROVE  IInv' /\ Numbers' = Numbers \ {n} /\ UNCHANGED freed
  <1>1. WellFormed(pieces) /\ n \in Nat
    BY InvariantOfArray, NoWrap
  <1>2. PICK i \in 1 .. Len(pieces) :
          /\ FirstHolding(i, n) /\ pieces[i].low < n /\ n < pieces[i].high
          /\ pieces' = [Inserted(i + 1, Span(n + 1, pieces[i].high))
                          EXCEPT ![i] = Span(pieces[i].low, n - 1)]
    BY DEF DeleteSplit
  <1>3. mem = "live" /\ mem' = mem /\ UNCHANGED <<freed, doubleFree>>
    BY <1>1, WellFormedFacts DEF DeleteSplit, IInv, PiecesLive
  <1>4. /\ WellFormed(pieces') /\ Len(pieces') = Len(pieces) + 1
        /\ \A x \in Nat :
             (\E k \in 1 .. Len(pieces') : In(pieces'[k], x))
               <=> x # n /\ \E k \in 1 .. Len(pieces) : In(pieces[k], x)
    BY <1>1, <1>2, SplitWellFormed
  <1>5. Numbers' = Numbers \ {n}
    BY <1>4, Membership, NoWrap
  <1> QED BY <1>3, <1>4, <1>5, LiveStep

\* Moving the bound of a longer piece past num deletes num.
LEMMA DeleteEndStep ==
  ASSUME IInv, MaxNum \notin Nums, NEW n \in Nums, DeleteEnd(n)
  PROVE  IInv' /\ Numbers' = Numbers \ {n} /\ UNCHANGED freed
  <1>1. WellFormed(pieces) /\ n \in Nat
    BY InvariantOfArray, NoWrap
  <1>2. PICK i \in 1 .. Len(pieces) :
          /\ FirstHolding(i, n)
          /\ \/ /\ pieces[i].low = n /\ n < pieces[i].high
                /\ pieces' = Replaced(i, Span(n + 1, pieces[i].high))
             \/ /\ pieces[i].low < n /\ n = pieces[i].high
                /\ pieces' = Replaced(i, Span(pieces[i].low, n - 1))
    BY DEF DeleteEnd
  <1>3. mem = "live" /\ mem' = mem /\ UNCHANGED <<freed, doubleFree>>
    BY <1>1, WellFormedFacts DEF DeleteEnd, IInv, PiecesLive
  <1>4. /\ pieces[i].low \in Nat /\ pieces[i].high \in Nat /\ pieces[i].high < MaxNum
        /\ In(pieces[i], n) /\ MaxNum \in Nat
    BY <1>1, <1>2, WellFormedFacts, MaxNumAssumption DEF In, FirstHolding, Holds
  <1>5. PICK l \in Nat, h \in Nat :
          /\ pieces' = Replaced(i, Span(l, h))
          /\ l <= h /\ h < MaxNum /\ pieces[i].low <= l /\ h <= pieces[i].high
          /\ \A x \in Nat : l <= x /\ x <= h <=> In(pieces[i], x) /\ x # n
    <2>1. CASE pieces[i].low = n /\ n < pieces[i].high
      <3>1. /\ pieces' = Replaced(i, Span(n + 1, pieces[i].high))
            /\ n + 1 \in Nat /\ n + 1 <= pieces[i].high /\ pieces[i].low <= n + 1
        BY <1>1, <1>2, <1>4, <2>1
      <3>2. \A x \in Nat : n + 1 <= x /\ x <= pieces[i].high <=> In(pieces[i], x) /\ x # n
        BY <1>1, <1>4, <2>1 DEF In
      <3> QED BY <1>4, <3>1, <3>2
    <2>2. CASE pieces[i].low < n /\ n = pieces[i].high
      <3>1. /\ pieces' = Replaced(i, Span(pieces[i].low, n - 1))
            /\ n - 1 \in Nat /\ pieces[i].low <= n - 1 /\ n - 1 <= pieces[i].high
            /\ n - 1 < MaxNum
        BY <1>1, <1>2, <1>4, <2>2
      <3>2. \A x \in Nat : pieces[i].low <= x /\ x <= n - 1 <=> In(pieces[i], x) /\ x # n
        BY <1>1, <1>4, <2>2 DEF In
      <3> QED BY <1>4, <3>1, <3>2
    <2> QED BY <1>2, <2>1, <2>2
  <1>6. ASSUME NEW j \in 1 .. i - 1 PROVE pieces[j].high + 1 < l
    <2>1. pieces[j].high + 1 < pieces[i].low /\ pieces[j].high \in Nat
      BY <1>1, GapBefore, WellFormedFacts, j \in 1 .. Len(pieces)
    <2>2. pieces[i].low <= l /\ pieces[i].low \in Nat
      BY <1>4, <1>5
    <2> QED BY <2>1, <2>2, Between
  <1>7. ASSUME NEW j \in i + 1 .. Len(pieces) PROVE h + 1 < pieces[j].low
    <2>1. pieces[i].high + 1 < pieces[j].low /\ pieces[j].low \in Nat
      BY <1>1, GapBehind, WellFormedFacts, j \in 1 .. Len(pieces)
    <2> QED BY <1>4, <1>5, <2>1
  <1>8. /\ WellFormed(pieces') /\ Len(pieces') = Len(pieces)
        /\ \A x \in Nat :
             (\E k \in 1 .. Len(pieces') : In(pieces'[k], x))
               <=> \/ l <= x /\ x <= h
                   \/ \E k \in 1 .. Len(pieces) : k # i /\ In(pieces[k], x)
    BY <1>1, <1>5, <1>6, <1>7, ReplacedWellFormed
  <1>9. \A k \in 1 .. Len(pieces) : In(pieces[k], n) => k = i
    BY <1>1, <1>4, OnePiece
  <1>10. ASSUME NEW x \in Nat
         PROVE  (\E k \in 1 .. Len(pieces') : In(pieces'[k], x))
                  <=> x # n /\ \E k \in 1 .. Len(pieces) : In(pieces[k], x)
    BY <1>5, <1>8, <1>9
  <1>11. Numbers' = Numbers \ {n}
    BY <1>10, Membership, NoWrap
  <1> QED BY <1>3, <1>8, <1>11, LiveStep

\* Removing the piece that is num alone deletes num; a dangling array is left
\* only when no piece is.
LEMMA DeletePieceStep ==
  ASSUME IInv, MaxNum \notin Nums, NEW n \in Nums, DeletePiece(n)
  PROVE  IInv' /\ Numbers' = Numbers \ {n} /\ UNCHANGED freed
  <1>1. WellFormed(pieces) /\ n \in Nat
    BY InvariantOfArray, NoWrap
  <1>2. PICK i \in 1 .. Len(pieces) :
          /\ pieces[i].low = n /\ n = pieces[i].high
          /\ pieces' = Removed(i)
    BY DEF DeletePiece
  <1>3. /\ WellFormed(pieces') /\ Len(pieces') = Len(pieces) - 1
        /\ \A x \in Nat :
             (\E k \in 1 .. Len(pieces') : In(pieces'[k], x))
               <=> \E k \in 1 .. Len(pieces) : k # i /\ In(pieces[k], x)
    BY <1>1, <1>2, RemovedWellFormed
  <1>4. IInv'
    <2>1. mem' \in {"null", "live", "dangling"} /\ UNCHANGED <<freed, doubleFree>>
      BY DEF DeletePiece
    <2>2. freed \in BOOLEAN /\ doubleFree \in BOOLEAN
      BY DEF IInv, TypeOK
    <2>3. ASSUME pieces' # << >> PROVE mem' = "live"
      <3>1. Len(pieces') # 0
        BY <1>3, <2>3 DEF WellFormed
      <3>2. Len(pieces) > 1
        BY <1>1, <1>3, <3>1, WellFormedFacts
      <3> QED BY <3>2 DEF DeletePiece
    <2>4. PiecesLive'
      BY <2>3 DEF PiecesLive
    <2> QED BY <1>3, <2>1, <2>2, <2>4 DEF IInv, TypeOK, Ordered, Bounded, WellFormed
  <1>5. \A x \in Nat : In(pieces[i], x) <=> x = n
    BY <1>1, <1>2 DEF In
  <1>6. \A k \in 1 .. Len(pieces) : In(pieces[k], n) => k = i
    BY <1>1, <1>5, OnePiece
  <1>7. ASSUME NEW x \in Nat
        PROVE  (\E k \in 1 .. Len(pieces') : In(pieces'[k], x))
                 <=> x # n /\ \E k \in 1 .. Len(pieces) : In(pieces[k], x)
    BY <1>3, <1>5, <1>6
  <1>8. Numbers' = Numbers \ {n}
    BY <1>7, Membership, NoWrap
  <1> QED BY <1>4, <1>8 DEF DeletePiece

---------------------------------------------------------------------------
\* create_section (section.c:170-175) establishes the invariant.
LEMMA InitIInv == Init => IInv
  <1> SUFFICES ASSUME Init PROVE IInv
    OBVIOUS
  <1>1. pieces \in Seq(Piece) /\ Len(pieces) = 0
    BY DEF Init
  <1>2. Ordered /\ Bounded
    BY <1>1 DEF Ordered, Bounded
  <1> QED BY <1>1, <1>2 DEF Init, IInv, TypeOK, PiecesLive

\* Every call keeps the invariant and is a call of the abstract set.
LEMMA StepIInv ==
  ASSUME IInv, MaxNum \notin Nums, Next
  PROVE  IInv' /\ NumberSetOf!Next
  <1>1. ASSUME NEW n \in Nums, AddPresent(n) PROVE IInv' /\ NumberSetOf!Add(n)
    <2>1. \E i \in 1 .. Len(pieces) : In(pieces[i], n)
      BY <1>1 DEF AddPresent, Holds, In
    <2>2. n \in Numbers
      BY <2>1, Membership, NoWrap
    <2>3. ~freed /\ UNCHANGED vars
      BY <1>1 DEF AddPresent
    <2>4. IInv'
      BY <2>3 DEF vars, IInv, TypeOK, Ordered, Bounded, PiecesLive
    <2>5. Numbers' = Numbers
      BY <2>3, Membership DEF vars
    <2> QED BY <2>2, <2>3, <2>4, <2>5 DEF vars, NumberSetOf!Add
  <1>2. ASSUME NEW n \in Nums, AddHigh(n) \/ AddLow(n) \/ AddNew(n)
        PROVE  IInv' /\ NumberSetOf!Add(n)
    <2>1. ~freed
      BY <1>2 DEF AddHigh, AddLow, AddNew
    <2>2. IInv' /\ Numbers' = Numbers \cup {n} /\ UNCHANGED freed
      BY <1>2, AddHighStep, AddLowStep, AddNewStep
    <2> QED BY <2>1, <2>2 DEF NumberSetOf!Add
  <1>3. ASSUME NEW n \in Nums, DeleteAbsent(n) PROVE IInv' /\ NumberSetOf!Delete(n)
    <2>1. \A i \in 1 .. Len(pieces) : ~In(pieces[i], n)
      BY <1>3 DEF DeleteAbsent, Holds, In
    <2>2. n \notin Numbers
      BY <2>1, Membership
    <2>3. ~freed /\ UNCHANGED vars
      BY <1>3 DEF DeleteAbsent
    <2>4. IInv'
      BY <2>3 DEF vars, IInv, TypeOK, Ordered, Bounded, PiecesLive
    <2>5. Numbers' = Numbers
      BY <2>3, Membership DEF vars
    <2> QED BY <2>2, <2>3, <2>4, <2>5 DEF vars, NumberSetOf!Delete
  <1>4. ASSUME NEW n \in Nums, DeleteSplit(n) \/ DeleteEnd(n) \/ DeletePiece(n)
        PROVE  IInv' /\ NumberSetOf!Delete(n)
    <2>1. ~freed
      BY <1>4 DEF DeleteSplit, DeleteEnd, DeletePiece
    <2>2. IInv' /\ Numbers' = Numbers \ {n} /\ UNCHANGED freed
      BY <1>4, DeleteSplitStep, DeleteEndStep, DeletePieceStep
    <2> QED BY <2>1, <2>2 DEF NumberSetOf!Delete
  <1>5. ASSUME free_section PROVE IInv' /\ NumberSetOf!Free
    <2>1. ~freed /\ freed' = TRUE /\ doubleFree' \in BOOLEAN /\ UNCHANGED <<pieces, mem>>
      BY <1>5 DEF free_section
    <2>2. IInv'
      BY <2>1 DEF IInv, TypeOK, Ordered, Bounded, PiecesLive
    <2>3. Numbers' = Numbers
      BY <2>1, Membership
    <2> QED BY <2>1, <2>2, <2>3 DEF NumberSetOf!Free
  <1> QED BY <1>1, <1>2, <1>3, <1>4, <1>5
          DEF Next, add_to_section, delete_from_section, NumberSetOf!Next

\* A step that leaves the section alone leaves the set alone.
LEMMA Stutter ==
  ASSUME IInv, UNCHANGED vars
  PROVE  IInv' /\ UNCHANGED <<Numbers, freed>>
  <1>1. IInv'
    BY DEF vars, IInv, TypeOK, Ordered, Bounded, PiecesLive
  <1>2. Numbers' = Numbers
    BY Membership DEF vars
  <1> QED BY <1>1, <1>2 DEF vars

\* Every reachable state satisfies the invariant.
THEOREM Invariance == ASSUME MaxNum \notin Nums PROVE Spec => []IInv
  <1>1. Init => IInv
    BY InitIInv
  <1>2. IInv /\ [Next]_vars => IInv'
    BY StepIInv, Stutter
  <1> QED BY <1>1, <1>2, PTL DEF Spec

\* The bounds stay uint64 values and the pointer one of its three states.
THEOREM TypeCorrect == ASSUME MaxNum \notin Nums PROVE Spec => []TypeOK
  <1>1. IInv => TypeOK
    BY DEF IInv
  <1> QED BY <1>1, Invariance, PTL

\* Whatever is added and deleted in whatever order, add_to_section and
\* delete_from_section keep the pieces ordered, non-empty and apart.
THEOREM AlwaysOrdered == ASSUME MaxNum \notin Nums PROVE Spec => []Ordered
  <1>1. IInv => Ordered
    BY DEF IInv
  <1> QED BY <1>1, Invariance, PTL

\* No piece is reached through a freed or null array.
THEOREM AlwaysLive == ASSUME MaxNum \notin Nums PROVE Spec => []PiecesLive
  <1>1. IInv => PiecesLive
    BY DEF IInv
  <1> QED BY <1>1, Invariance, PTL

\* The array of ranges implements a set of numbers: every extension, merge,
\* split and removal is one Add or one Delete of the set.
THEOREM Refinement == ASSUME MaxNum \notin Nums PROVE Spec => RefinesSet
  <1>1. Init => NumberSetOf!Init
    <2> SUFFICES ASSUME Init PROVE NumberSetOf!Init
      OBVIOUS
    <2>1. Numbers = {}
      BY DEF Init, Numbers
    <2> QED BY <2>1 DEF Init, NumberSetOf!Init
  <1>2. IInv /\ [Next]_vars => [NumberSetOf!Next]_<<Numbers, freed>>
    BY StepIInv, Stutter
  <1> QED BY <1>1, <1>2, Invariance, PTL DEF Spec, RefinesSet, NumberSetOf!Spec

\* The first piece answers both queries (section.c:140-147) for the set.
THEOREM QueriesCorrect == ASSUME MaxNum \notin Nums PROVE Spec => []QueriesAnswerForSet
  <1>1. ASSUME IInv PROVE QueriesAnswerForSet
    <2>1. WellFormed(pieces) /\ MaxNum \in Nat
      BY <1>1, InvariantOfArray, MaxNumAssumption
    <2>2. pieces = << >> <=> Len(pieces) = 0
      BY <2>1 DEF WellFormed
    <2>3. CASE pieces = << >>
      <3>1. Numbers = {}
        BY <2>3 DEF Numbers
      <3> QED BY <2>3, <3>1
              DEF QueriesAnswerForSet, first_low_in_section, last_continual_high_in_section
    <2>4. CASE pieces # << >>
      <3> DEFINE l == pieces[1].low
                 h == pieces[1].high
      <3>1. /\ 1 \in 1 .. Len(pieces) /\ l \in Nat /\ h \in Nat /\ l <= h /\ h < MaxNum
            /\ first_low_in_section = l /\ last_continual_high_in_section = h
        BY <2>1, <2>2, <2>4, WellFormedFacts
           DEF first_low_in_section, last_continual_high_in_section
      <3>2. ASSUME NEW x \in l .. h PROVE x \in Numbers
        BY <2>1, <3>1, Membership DEF In
      <3>3. ASSUME NEW x \in Nat, NEW k \in 1 .. Len(pieces), In(pieces[k], x)
            PROVE  l <= x /\ x # h + 1
        <4>1. CASE k = 1
          BY <3>1, <3>3, <4>1 DEF In
        <4>2. CASE k > 1
          <5>1. h + 1 < pieces[k].low /\ pieces[k].low \in Nat
            BY <2>1, <3>1, <4>2, WellFormedFacts
          <5> QED BY <3>1, <3>3, <5>1 DEF In
        <4> QED BY <4>1, <4>2
      <3>4. \A x \in Numbers : l <= x /\ x # h + 1
        BY <2>1, <3>3, Membership
      <3>5. Numbers # {}
        BY <3>1, <3>2
      <3> HIDE DEF l, h
      <3> QED BY <3>1, <3>2, <3>4, <3>5 DEF QueriesAnswerForSet
    <2> QED BY <2>3, <2>4
  <1> QED BY <1>1, Invariance, PTL
===========================================================================
