------------------------- MODULE ReplayWindowProofs -------------------------
(***************************************************************************)
(* What the replay window computes, for every window size: it represents   *)
(* the set of indices received, and admits an index only if it is not in   *)
(* that set.  And the arithmetic of numbers that roll over, which the      *)
(* proofs about rollover counters and extended sequence numbers share.     *)
(***************************************************************************)
EXTENDS ReplayWindow, TLAPS

\* A window without history represents the empty set.
LEMMA EmptyRepresents == EmptyWindow \in Window /\ Represents(EmptyWindow, {})
BY DEF EmptyWindow, Window, Represents

\* accept keeps a window a window: no offset leaves the map's range.
LEMMA AcceptType ==
    ASSUME NEW w \in Window, NEW i \in Nat, admits(w, i)
    PROVE  accept(w, i) \in Window
<1> USE WindowAssumption, NoneAssumption DEF Window, Offset
<1>1. CASE w.highest = None
  BY <1>1 DEF accept
<1>2. CASE w.highest # None /\ i <= w.highest
  BY <1>2 DEF accept, admits
<1>3. CASE w.highest # None /\ i > w.highest
  BY <1>3 DEF accept
<1> QED BY <1>1, <1>2, <1>3

\* admits refuses every index already received.
LEMMA AdmitsOnlyNew ==
    ASSUME NEW w \in Window, NEW A \in SUBSET Nat, Represents(w, A),
           NEW i \in Nat, admits(w, i)
    PROVE  i \notin A
<1> USE WindowAssumption, NoneAssumption DEF Window, Offset, Represents, admits
<1>1. CASE w.highest = None
  BY <1>1
<1>2. CASE w.highest # None /\ i > w.highest
  BY <1>2
<1>3. CASE w.highest # None /\ ~(i > w.highest)
  <2> DEFINE o == w.highest - i
  <2>1. o \in Offset /\ o \notin w.seen
    BY <1>3
  <2>2. w.highest - o = i
    BY <1>3
  <2> QED BY <1>3, <2>1, <2>2
<1> QED BY <1>1, <1>2, <1>3

\* What admits refuses was received, or is behind the window's reach.
LEMMA RefusesOnlyOld ==
    ASSUME NEW w \in Window, NEW A \in SUBSET Nat, Represents(w, A),
           NEW i \in Nat, ~admits(w, i)
    PROVE  /\ w.highest \in Nat
           /\ i \in A \/ w.highest - i >= WindowSize
<1> USE WindowAssumption, NoneAssumption DEF Window, Offset, Represents, admits
<1>1. w.highest \in Nat /\ i <= w.highest
  OBVIOUS
<1> DEFINE o == w.highest - i
<1>2. CASE o \in w.seen
  <2>1. o \in Offset /\ w.highest - o = i
    BY <1>1, <1>2
  <2> QED BY <1>1, <1>2, <2>1
<1>3. CASE o \notin w.seen
  BY <1>1, <1>3
<1> QED BY <1>2, <1>3

\* accept adds exactly the new index to the set a window represents.
LEMMA AcceptRepresents ==
    ASSUME NEW w \in Window, NEW A \in SUBSET Nat, Represents(w, A),
           NEW i \in Nat, admits(w, i)
    PROVE  Represents(accept(w, i), A \cup {i})
<1> USE WindowAssumption, NoneAssumption DEF Window, Offset
<1> DEFINE v == accept(w, i)
           B == A \cup {i}
<1>1. CASE w.highest = None
  <2>1. A = {} /\ v.highest = i /\ v.seen = {0}
    BY <1>1 DEF Represents, accept
  <2>2. \A o \in Offset : o \in v.seen <=> i - o \in B
    BY <2>1
  <2> QED BY <2>1, <2>2 DEF Represents
<1>2. CASE w.highest # None /\ i <= w.highest
  <2>1. v.highest = w.highest /\ v.seen = w.seen \cup {w.highest - i}
    BY <1>2 DEF accept
  <2>2. \A o \in Offset : o \in v.seen <=> w.highest - o \in B
    BY <1>2, <2>1 DEF Represents
  <2> QED BY <1>2, <2>1, <2>2 DEF Represents
<1>3. CASE w.highest # None /\ i > w.highest
  <2> DEFINE ahead == i - w.highest
  <2>1. /\ v.highest = i
        /\ v.seen = {o \in Offset : o - ahead \in w.seen} \cup {0}
    BY <1>3 DEF accept
  <2>2. \A j \in B : j <= i
    BY <1>3 DEF Represents
  <2>3. ASSUME NEW o \in Offset
        PROVE  o \in v.seen <=> i - o \in B
    <3>1. CASE o = 0
      BY <3>1, <2>1
    <3>2. CASE o # 0 /\ o < ahead
      <4>1. o - ahead \notin w.seen
        BY <3>2, <1>3
      <4>2. i - o > w.highest /\ i - o # i
        BY <3>2, <1>3
      <4>3. i - o \notin A
        BY <4>2, <1>3 DEF Represents
      <4> QED BY <3>2, <4>1, <4>2, <4>3, <2>1
    <3>3. CASE o >= ahead
      <4>1. o - ahead \in Offset
        BY <3>3, <1>3
      <4>2. o - ahead \in w.seen <=> w.highest - (o - ahead) \in A
        BY <4>1, <1>3 DEF Represents
      <4>3. w.highest - (o - ahead) = i - o /\ o # 0 /\ i - o # i
        BY <3>3, <1>3
      <4> QED BY <4>2, <4>3, <2>1
    <3> QED BY <3>1, <3>2, <3>3, <1>3
  <2> QED BY <2>1, <2>2, <2>3, <1>3 DEF Represents
<1> QED BY <1>1, <1>2, <1>3

-----------------------------------------------------------------------------
(* Numbers that roll over *)

\* The quotient and the remainder of a number.
LEMMA Division ==
    ASSUME NEW space \in Nat \ {0}, NEW x \in Nat,
           NEW q, NEW r, q = x \div space, r = x % space
    PROVE  q \in Nat /\ r \in Nat /\ r < space /\ x = q * space + r
<1>1. q \in Nat /\ r \in 0 .. space - 1
  OBVIOUS
<1>2. x = q * space + r
  BY SMTT(30)
<1> QED BY <1>1, <1>2

\* A number that fits in a word has a quotient that fits above the remainder.
LEMMA QuotientFits ==
    ASSUME NEW space \in Nat \ {0}, NEW width \in Nat \ {0},
           NEW x \in Nat, x < space * width
    PROVE  x \div space \in 0 .. width - 1
<1> DEFINE q == x \div space
           r == x % space
<1>1. q \in Nat /\ r \in Nat /\ x = q * space + r
  BY Division
<1> HIDE DEF q, r
<1>2. ASSUME q >= width PROVE FALSE
  <2>1. q * space >= width * space
    BY ONLY <1>1, <1>2, space \in Nat \ {0}, width \in Nat \ {0}, SMTT(30)
  <2>2. q * space \in Nat /\ width * space = space * width /\ space * width \in Nat
    BY ONLY <1>1, space \in Nat \ {0}, width \in Nat \ {0}, SMTT(30)
  <2> QED BY <1>1, <2>1, <2>2
<1> QED BY <1>1, <1>2 DEF q

\* Less than half the sequence numbers further, the sequence has not rolled
\* over and moved on by as much, or it has, once, and fell back by the rest.
LEMMA OneRollover ==
    ASSUME NEW space \in Nat \ {0}, NEW a \in Nat, NEW b \in Nat,
           a <= b, b - a < space \div 2
    PROVE  \/ /\ b \div space = a \div space
              /\ (b % space) - (a % space) = b - a
           \/ /\ b \div space = (a \div space) + 1
              /\ (a % space) - (b % space) > space \div 2
              /\ b = a + 1 => a % space = space - 1 /\ b % space = 0
<1> DEFINE s == space
           qa == a \div s
           ra == a % s
           qb == b \div s
           rb == b % s
           h == s \div 2
           m == qb - qa
<1>1. s \in Nat \ {0} /\ h \in Nat /\ h + h <= s
  OBVIOUS
<1>2. /\ qa \in Nat /\ ra \in Nat /\ ra < s /\ a = qa * s + ra
      /\ qb \in Nat /\ rb \in Nat /\ rb < s /\ b = qb * s + rb
  BY Division
<1>3. b - a < h
  OBVIOUS
<1> SUFFICES \/ qb = qa /\ rb - ra = b - a
             \/ qb = qa + 1 /\ ra - rb > h /\ (b = a + 1 => ra = s - 1 /\ rb = 0)
  OBVIOUS
<1> HIDE DEF s, qa, ra, qb, rb, h
<1>4. m \in Int /\ m * s = (b - a) - (rb - ra)
  BY ONLY <1>1, <1>2, SMTT(30)
<1>5. m * s > -s /\ m * s < s + s
  BY <1>1, <1>2, <1>4, <1>3
<1>6. m = 0 \/ m = 1
  <2>0. s \in Int /\ s > 0 /\ m \in Int
    BY <1>1, <1>4
  <2> HIDE DEF m
  <2>1. m <= -1 => m * s <= -s
    BY ONLY <2>0, SMTT(30)
  <2>2. m >= 2 => m * s >= s + s
    BY ONLY <2>0, SMTT(30)
  <2>3. m * s \in Int
    BY ONLY <2>0
  <2>4. ~(m <= -1)
    BY ONLY <2>0, <2>1, <2>3, <1>5
  <2>5. ~(m >= 2)
    BY ONLY <2>0, <2>2, <2>3, <1>5
  <2> QED BY ONLY <2>0, <2>4, <2>5
<1>7. CASE m = 0
  <2>1. m * s = 0
    BY <1>1, <1>7
  <2> QED BY <1>2, <1>4, <1>7, <2>1
<1>8. CASE m = 1
  <2>1. qb = qa + 1 /\ s = (b - a) - (rb - ra)
    BY <1>1, <1>2, <1>4, <1>8
  <2>2. ra - rb > h
    BY <1>1, <1>2, <1>3, <2>1
  <2>3. ASSUME b = a + 1 PROVE ra = s - 1 /\ rb = 0
    <3>1. b - a = 1
      BY <2>3
    <3>2. s \in Nat /\ ra \in Nat /\ rb \in Nat /\ ra < s /\ s = 1 - (rb - ra)
      BY <1>1, <1>2, <2>1, <3>1
    <3> QED BY ONLY <3>2
  <2> QED BY <2>1, <2>2, <2>3
<1> QED BY <1>6, <1>7, <1>8
=============================================================================
