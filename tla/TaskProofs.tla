----------------------------- MODULE TaskProofs -----------------------------
(* What a task may touch, and what it earned: the preservation engines for any *)
(* row of pixels, and the specification layer for any blueprint and inputs,  *)
(* alone and beside the other parts of Labs.                                 *)
EXTENDS Labs, FiniteSetTheorems, SequenceTheorems, TLAPS

-----------------------------------------------------------------------------
(* Pixels: weights and blends.                                               *)

\* What a quotient is bounded by.
LEMMA Quotient ==
    ASSUME NEW n \in Int, NEW d \in Nat \ {0}
    PROVE  /\ n \div d \in Int
           /\ d * (n \div d) <= n /\ n < d * (n \div d) + d
OBVIOUS

\* So a quotient lies between two multiples of the divisor.
LEMMA QuotientBetween ==
    ASSUME NEW n \in Int, NEW d \in Nat \ {0}, NEW low \in Int, NEW high \in Int,
           low * d <= n, n < (high + 1) * d
    PROVE  n \div d \in low..high
<1> DEFINE q == n \div d
<1>1. q \in Int /\ d * q <= n /\ n < d * q + d
  BY Quotient
<1> HIDE DEF q
<1>2. low < q + 1
  <2>1. low * d < (q + 1) * d
    BY <1>1
  <2> QED BY <1>1, <2>1
<1>3. q < high + 1
  <2>1. q * d < (high + 1) * d
    BY <1>1
  <2> QED BY <1>1, <2>1
<1> QED BY <1>1, <1>2, <1>3 DEF q

\* A smaller factor makes a smaller product.
LEMMA NotMore == ASSUME NEW a \in Int, NEW b \in Int, NEW w \in Nat, a <= b PROVE a * w <= b * w
OBVIOUS

\* A blend of two values leaves the range of neither.
LEMMA BlendBetween ==
    ASSUME NEW s \in Int, NEW r \in Int, NEW w, w[1] \in Nat, w[2] \in Nat \ {0}, w[1] <= w[2]
    PROVE  Pixels!Blend(s, r, w) \in (s..r) \cup (r..s)
<1> DEFINE a == w[2] - w[1]
           b == w[1]
           n == 2 * (s * a + r * b) + w[2]
<1>1. a \in Nat /\ b \in Nat /\ a + b = w[2] /\ Pixels!Blend(s, r, w) = n \div (2 * w[2])
  BY DEF Pixels!Blend
<1> HIDE DEF a, b
<1>2. ASSUME NEW low \in Int, NEW high \in Int, low <= s, low <= r, s <= high, r <= high
      PROVE  n \div (2 * w[2]) \in low..high
  <2>1. low * a <= s * a /\ s * a <= high * a /\ low * b <= r * b /\ r * b <= high * b
    BY <1>1, <1>2, NotMore
  <2>2. /\ low * a \in Int /\ low * b \in Int /\ high * a \in Int /\ high * b \in Int
        /\ s * a \in Int /\ r * b \in Int
    BY <1>1
  <2>3. low * a + low * b = low * w[2] /\ high * a + high * b = high * w[2]
    BY <1>1
  <2>4. low * (2 * w[2]) = 2 * (low * w[2]) /\ (high + 1) * (2 * w[2]) = 2 * (high * w[2]) + 2 * w[2]
    OBVIOUS
  <2>5. low * w[2] <= s * a + r * b /\ s * a + r * b <= high * w[2]
    BY <2>1, <2>2, <2>3
  <2>6. low * (2 * w[2]) <= n /\ n < (high + 1) * (2 * w[2])
    <3>1. low * w[2] \in Int /\ high * w[2] \in Int /\ s * a + r * b \in Int
      BY <2>2
    <3> QED BY <2>4, <2>5, <3>1
  <2>7. n \in Int /\ 2 * w[2] \in Nat \ {0}
    BY <2>2
  <2> QED BY <2>6, <2>7, QuotientBetween
<1>3. CASE s <= r
  BY <1>1, <1>2, <1>3
<1>4. CASE r < s
  BY <1>1, <1>2, <1>4
<1> QED BY <1>3, <1>4

\* The weights of the ladder at its ends.
LEMMA BlendWhole ==
    ASSUME NEW s \in Int, NEW r \in Int
    PROVE  Pixels!Blend(s, r, <<1, 1>>) = r /\ Pixels!Blend(s, r, <<0, 100>>) = s
BY DEF Pixels!Blend

\* The coupled weight is a fraction.
LEMMA Cubes ==
    ASSUME NEW b \in Nat, NEW n \in Nat, n <= b
    PROVE  b * b * b - n * n * (3 * b - 2 * n) \in 0..b * b * b
<1> PICK d \in Nat : b = n + d
  <2> WITNESS b - n \in Nat
  <2> QED OBVIOUS
<1>1. n * n * (3 * b - 2 * n) = n * n * n + 3 * (n * n * d)
  OBVIOUS
<1>2. b * b * b = n * n * n + 3 * (n * n * d) + 3 * (n * d * d) + d * d * d
  OBVIOUS
<1>3. n * n * n \in Nat /\ n * n * d \in Nat /\ n * d * d \in Nat /\ d * d * d \in Nat
  OBVIOUS
<1> QED BY <1>1, <1>2, <1>3

-----------------------------------------------------------------------------
(* Pixels: zones.                                                            *)

\* The metrics count with the operator the theorems of the library are about.
LEMMA PixelsCardinality == ASSUME NEW S PROVE Pixels!Cardinality(S) = Cardinality(S)
BY DEF Pixels!Cardinality, Cardinality, Pixels!IsFiniteSet, IsFiniteSet

\* Where the core and the zone around it begin and end.
LEMMA Bounds ==
    ASSUME NEW p \in Pixels!Policies
    PROVE  LET core == Pixels!Core(p)
               around == Pixels!Expanded(p) IN
           /\ core.x0 \in 0..Width /\ core.x1 \in 0..Width
           /\ around.x0 \in 0..Width /\ around.x1 \in 0..Width
           /\ around.x0 <= core.x0 /\ core.x1 <= around.x1
           /\ Pixels!BandPixels(p) \in Nat
<1>1. Width \in Nat \ {0} /\ p.x \in 0..7 /\ p.width \in 1..8 /\ p.band \in 0..3
  BY PixelConstants DEF Pixels!Policies
<1>2. p.x * Width \in Nat /\ (p.x + p.width) * Width \in Nat /\ p.band * Width \in Nat
  BY <1>1
<1>3. Pixels!BandPixels(p) \in Nat
  BY <1>2 DEF Pixels!BandPixels, Pixels!Ceil, Pixels!Eighths
<1>4. \A n \in Int : Pixels!Clamp(n) \in 0..Width
  BY <1>1 DEF Pixels!Clamp, Pixels!Least
<1>5. Pixels!Core(p).x0 \in 0..Width /\ Pixels!Core(p).x1 \in 0..Width
  BY <1>2, <1>4 DEF Pixels!Core, Pixels!Ceil, Pixels!Eighths
<1>6. /\ Pixels!Expanded(p).x0 = Pixels!Clamp(Pixels!Core(p).x0 - Pixels!BandPixels(p))
      /\ Pixels!Expanded(p).x1 = Pixels!Clamp(Pixels!Core(p).x1 + Pixels!BandPixels(p))
  BY DEF Pixels!Expanded
<1>7. \A n \in 0..Width, b \in Nat :
         /\ Pixels!Clamp(n - b) \in 0..n /\ Pixels!Clamp(n + b) \in n..Width
  BY <1>1 DEF Pixels!Clamp, Pixels!Least
<1>8. /\ Pixels!Expanded(p).x0 \in 0..Pixels!Core(p).x0
      /\ Pixels!Expanded(p).x1 \in Pixels!Core(p).x1..Width
  BY <1>3, <1>5, <1>6, <1>7
<1> QED BY <1>1, <1>3, <1>5, <1>8

\* A valid policy has a core, and the older rounding stays within it.
LEMMA CoreThere ==
    ASSUME NEW p \in Pixels!Policies, Pixels!ValidPolicy(p)
    PROVE  /\ Pixels!Core(p).x0 < Pixels!Core(p).x1
           /\ Pixels!Core(p).x0 = (p.x * Width) \div 8
           /\ (p.x * Width) \div 8 + (p.width * Width) \div 8 <= Pixels!Core(p).x1
<1> DEFINE a == p.x * Width
           b == p.width * Width
<1>1. Width \in Nat \ {0} /\ p.x \in 0..7 /\ p.width \in 1..8 /\ p.x + p.width <= 8
  BY PixelConstants DEF Pixels!Policies, Pixels!ValidPolicy, Pixels!Eighths
<1>2. (p.x + p.width) * Width = a + b /\ a \in Nat /\ b \in Nat
  BY <1>1
<1>3. Width <= b /\ a + b <= 8 * Width
  <2>1. 1 * Width <= p.width * Width /\ (p.x + p.width) * Width <= 8 * Width
    BY <1>1, NotMore
  <2> QED BY <1>1, <1>2, <2>1
<1>4. /\ Pixels!Core(p).x0 = Pixels!Clamp(a \div 8)
      /\ Pixels!Core(p).x1 = Pixels!Clamp((a + b + 7) \div 8)
  BY <1>1, <1>2 DEF Pixels!Core, Pixels!Ceil, Pixels!Eighths
<1> HIDE DEF a, b
<1>5. /\ a \div 8 \in 0..Width /\ (a + b + 7) \div 8 \in 0..Width
      /\ a \div 8 < (a + b + 7) \div 8 /\ a \div 8 + b \div 8 <= (a + b + 7) \div 8
  BY <1>1, <1>2, <1>3
<1>6. \A n \in 0..Width : Pixels!Clamp(n) = n
  BY <1>1 DEF Pixels!Clamp, Pixels!Least
<1> QED BY <1>4, <1>5, <1>6 DEF a, b

\* How many columns there are between two,
LEMMA IntervalLength ==
    ASSUME NEW a \in Int, NEW b \in Int, a <= b
    PROVE  IsFiniteSet(a .. b - 1) /\ Cardinality(a .. b - 1) = b - a
<1>1. b - 1 \in Int
  OBVIOUS
<1>2. IsFiniteSet(a .. b - 1) /\ Cardinality(a .. b - 1) = IF a > b - 1 THEN 0 ELSE b - 1 - a + 1
  BY <1>1, FS_Interval
<1> QED BY <1>2

Pieces(a, b, c, d) == (a .. b - 1) \cup (c .. d - 1)

\* and in two such pieces of the row.
LEMMA TwoPieces ==
    ASSUME NEW a \in Int, NEW b \in Int, NEW c \in Int, NEW d \in Int, a <= b, b <= c, c <= d
    PROVE  Cardinality(Pieces(a, b, c, d)) = (d - a) - (c - b)
<1> DEFINE S == a .. b - 1
           T == c .. d - 1
<1>1. IsFiniteSet(S) /\ IsFiniteSet(T) /\ Cardinality(S) = b - a /\ Cardinality(T) = d - c
  BY IntervalLength
<1>2. S \cap T = {} /\ Pieces(a, b, c, d) = S \cup T
  BY DEF Pieces
<1> HIDE DEF S, T
<1>3. Cardinality(S \cup T) = Cardinality(S) + Cardinality(T) - Cardinality(S \cap T)
  BY <1>1, FS_Union, Zenon
<1>4. Cardinality(Pieces(a, b, c, d)) = Cardinality(S) + Cardinality(T) - Cardinality({})
  BY <1>2, <1>3, Zenon
<1> QED BY <1>1, <1>4, FS_EmptySet

\* The zones partition the row as their counts say.
LEMMA Zones ==
    ASSUME policy \in Pixels!Policies, Pixels!ValidPolicy(policy)
    PROVE  Pixels!ZonesAgree
<1> DEFINE k0 == Pixels!Core(policy).x0
           k1 == Pixels!Core(policy).x1
           e0 == Pixels!Expanded(policy).x0
           e1 == Pixels!Expanded(policy).x1
<1>1. /\ k0 \in 0..Width /\ k1 \in 0..Width /\ e0 \in 0..Width /\ e1 \in 0..Width
      /\ e0 <= k0 /\ k0 < k1 /\ k1 <= e1 /\ Width \in Nat
  BY Bounds, CoreThere, PixelConstants
<1>2. /\ Pixels!Counts(policy).core = k1 - k0
      /\ Pixels!Counts(policy).coupled = (e1 - e0) - (k1 - k0)
      /\ Pixels!Counts(policy).lockedOutside = Width - (e1 - e0)
  BY DEF Pixels!Counts, Pixels!Area
<1>3. \A c \in Pixels!Columns :
        Pixels!Classify(c, policy) = IF c >= k0 /\ c < k1 THEN "CORE"
                                     ELSE IF c >= e0 /\ c < e1 THEN "COUPLED" ELSE "LOCKED_OUTSIDE"
  BY DEF Pixels!Classify, Pixels!InBounds
<1>4. Pixels!Columns = 0 .. Width - 1
  BY DEF Pixels!Columns
<1>5. Pixels!DiffRegion \subseteq {c \in Pixels!Columns : c >= k0 /\ c < k1}
  <2>1. /\ (policy.x * Width) \div 8 = k0
        /\ (policy.x * Width) \div 8 + (policy.width * Width) \div 8 <= k1
    BY CoreThere
  <2>2. (policy.width * Width) \div 8 \in Int
    BY PixelConstants DEF Pixels!Policies
  <2> HIDE DEF k0, k1
  <2> QED BY <1>1, <1>4, <2>1, <2>2 DEF Pixels!DiffRegion, Pixels!Eighths
<1> HIDE DEF k0, k1, e0, e1
<1>6. Pixels!Zone("CORE", policy) = k0 .. k1 - 1
  BY <1>1, <1>3, <1>4 DEF Pixels!Zone
<1>7. Pixels!Zone("COUPLED", policy) = Pieces(e0, k0, k1, e1)
  BY <1>1, <1>3, <1>4 DEF Pixels!Zone, Pieces
<1>8. Pixels!Zone("LOCKED_OUTSIDE", policy) = Pieces(0, e0, e1, Width)
  BY <1>1, <1>3, <1>4 DEF Pixels!Zone, Pieces
<1>9. Cardinality(Pixels!Zone("CORE", policy)) = k1 - k0
  BY <1>1, <1>6, IntervalLength
<1>10. Cardinality(Pixels!Zone("COUPLED", policy)) = (e1 - e0) - (k1 - k0)
  BY <1>1, <1>7, TwoPieces
<1>11. Cardinality(Pixels!Zone("LOCKED_OUTSIDE", policy)) = (Width - 0) - (e1 - e0)
  BY <1>1, <1>8, TwoPieces
<1>12. Pixels!DiffRegion \subseteq Pixels!Zone("CORE", policy)
  BY <1>1, <1>4, <1>5, <1>6
<1>13. Pixels!Counts(policy).core > 0 /\ Width - 0 = Width
  BY <1>1, <1>2
<1> QED
  BY <1>2, <1>9, <1>10, <1>11, <1>12, <1>13, PixelsCardinality, Zenon DEF Pixels!ZonesAgree

\* coupledCandidateWeight is a fraction, for any column and band.
LEMMA WeightFraction ==
    ASSUME NEW p \in Pixels!Policies, NEW c \in Pixels!Columns
    PROVE  LET w == Pixels!Weight(c, p) IN
           w[1] \in Nat /\ w[2] \in Nat \ {0} /\ w[1] <= w[2]
<1> DEFINE b == 2 * Pixels!BandPixels(p)
           n == Pixels!Least(Pixels!Distance(c, Pixels!Core(p)), b)
<1>1. b \in Nat /\ Pixels!Core(p).x0 \in Int /\ Pixels!Core(p).x1 \in Int /\ c \in Int
  BY Bounds, PixelConstants DEF Pixels!Columns
<1>2. Pixels!Distance(c, Pixels!Core(p)) \in Nat
  BY <1>1 DEF Pixels!Distance
<1>3. n \in Nat /\ n <= b
  BY <1>1, <1>2 DEF Pixels!Least
<1>4. Pixels!Weight(c, p) =
        IF b = 0 THEN <<0, 1>> ELSE <<b * b * b - n * n * (3 * b - 2 * n), b * b * b>>
  BY DEF Pixels!Weight
<1> HIDE DEF b, n
<1>5. b * b * b - n * n * (3 * b - 2 * n) \in 0..b * b * b
  BY <1>1, <1>3, Cubes
<1>6. b # 0 => b * b * b \in Nat \ {0}
  BY <1>1
<1> QED BY <1>4, <1>5, <1>6

-----------------------------------------------------------------------------
(* Pixels: the preservation engines.                                         *)

\* A candidate is what one of the two engines made of the row, by a valid
\* policy, and a verification that passed saw it as it still is.
PixelsInv ==
    /\ phase = "PRESERVED" =>
        /\ Pixels!ValidPolicy(policy)
        /\ \/ candidate = [by |-> "ENGINE", pixels |-> Pixels!Composite]
           \/ \E s \in Pixels!Strategies : candidate = [by |-> s, pixels |-> Pixels!Ladder(s)]
    /\ verdict # "NONE" => phase = "PRESERVED"
    /\ verdict = "PASSED" =>
        /\ Pixels!LockedOutsideEqualsSource
        /\ 1000 * Pixels!Evidence("CORE", candidate.pixels) > Pixels!Counts(policy).core

\* What the pixels of a candidate are.
LEMMA Made ==
    ASSUME Pixels!TypeOK, NEW c \in Pixels!Columns
    PROVE  LET between == (source[c]..raw[c]) \cup (raw[c]..source[c])
               core == Pixels!Classify(c, policy) = "CORE" IN
           /\ source[c] \in 0..255 /\ raw[c] \in 0..255 /\ between \subseteq 0..255
           /\ Pixels!Composite[c] \in between /\ (core => Pixels!Composite[c] = raw[c])
           /\ \A s \in Pixels!Strategies :
                 Pixels!Ladder(s)[c] \in between /\ (core => Pixels!Ladder(s)[c] = raw[c])
           /\ Pixels!Ladder("P3")[c] = Pixels!Composite[c]
<1> DEFINE so == source[c]
           ra == raw[c]
           between == (so..ra) \cup (ra..so)
           core == Pixels!Classify(c, policy) = "CORE"
           w == Pixels!Weight(c, policy)
<1>1. so \in 0..255 /\ ra \in 0..255
  <2>1. source[c] \in Greys \cup SourceGreys /\ raw[c] \in Greys \cup SourceGreys
    BY DEF Pixels!TypeOK, Pixels!Images
  <2> QED BY <2>1, PixelConstants
<1> HIDE DEF so, ra
<1>2. between \subseteq 0..255 /\ so \in between /\ ra \in between
  BY <1>1
<1>3. Pixels!Blend(so, ra, w) \in between
  BY <1>1, WeightFraction, BlendBetween DEF Pixels!TypeOK
<1>4. \A s \in Pixels!Strategies : Pixels!Blend(so, ra, Pixels!OutsideWeight(s)) \in between
  <2> TAKE s \in Pixels!Strategies
  <2>1. /\ Pixels!OutsideWeight(s)[1] \in Nat /\ Pixels!OutsideWeight(s)[2] \in Nat \ {0}
        /\ Pixels!OutsideWeight(s)[1] <= Pixels!OutsideWeight(s)[2]
    BY DEF Pixels!OutsideWeight, Pixels!Strategies
  <2> QED BY <1>1, <2>1, BlendBetween
<1>5. Pixels!Composite[c] =
        IF core THEN ra
        ELSE IF Pixels!Classify(c, policy) = "LOCKED_OUTSIDE" THEN so
        ELSE Pixels!Blend(so, ra, w)
  BY DEF Pixels!Composite, so, ra
<1>6. \A s : Pixels!Ladder(s)[c] =
        IF core THEN ra
        ELSE IF Pixels!Classify(c, policy) = "LOCKED_OUTSIDE"
             THEN Pixels!Blend(so, ra, Pixels!OutsideWeight(s))
        ELSE Pixels!Blend(so, ra, w)
  <2> TAKE s
  <2>1. Pixels!Ladder(s)[c] = Pixels!Blend(so, ra, Pixels!LadderWeight(s, c))
    BY DEF Pixels!Ladder, so, ra
  <2>2. Pixels!LadderWeight(s, c) =
          IF core THEN <<1, 1>>
          ELSE IF Pixels!Classify(c, policy) = "LOCKED_OUTSIDE" THEN Pixels!OutsideWeight(s) ELSE w
    BY DEF Pixels!LadderWeight, Pixels!Classify, Pixels!InBounds
  <2>3. Pixels!Blend(so, ra, <<1, 1>>) = ra
    BY <1>1, BlendWhole
  <2> QED BY <2>1, <2>2, <2>3
<1>7. Pixels!Blend(so, ra, Pixels!OutsideWeight("P3")) = so
  <2>1. Pixels!OutsideWeight("P3") = <<0, 100>>
    BY DEF Pixels!OutsideWeight
  <2> QED BY <1>1, <2>1, BlendWhole
<1> HIDE DEF between, core, w
<1>8. /\ Pixels!Composite[c] \in between /\ (core => Pixels!Composite[c] = ra)
      /\ \A s \in Pixels!Strategies :
            Pixels!Ladder(s)[c] \in between /\ (core => Pixels!Ladder(s)[c] = ra)
      /\ Pixels!Ladder("P3")[c] = Pixels!Composite[c]
  BY <1>2, <1>3, <1>4, <1>5, <1>6, <1>7
<1> QED BY <1>1, <1>2, <1>8 DEF between, core, so, ra

\* Images the engines make.
LEMMA MadeImages ==
    ASSUME Pixels!TypeOK
    PROVE  /\ Pixels!Composite \in [Pixels!Columns -> 0..255]
           /\ \A s \in Pixels!Strategies : Pixels!Ladder(s) \in [Pixels!Columns -> 0..255]
           /\ Pixels!Ladder("P3") = Pixels!Composite
<1>1. \A c \in Pixels!Columns :
        /\ Pixels!Composite[c] \in 0..255
        /\ \A s \in Pixels!Strategies : Pixels!Ladder(s)[c] \in 0..255
        /\ Pixels!Ladder("P3")[c] = Pixels!Composite[c]
  BY Made
<1>2. Pixels!Composite = [c \in Pixels!Columns |-> Pixels!Composite[c]]
  BY DEF Pixels!Composite
<1>3. \A s : Pixels!Ladder(s) = [c \in Pixels!Columns |-> Pixels!Ladder(s)[c]]
  BY DEF Pixels!Ladder
<1>4. Pixels!Ladder("P3") = [c \in Pixels!Columns |-> Pixels!Composite[c]]
  BY <1>1, <1>3
<1>5. Pixels!Composite \in [Pixels!Columns -> 0..255]
  BY <1>1, <1>2
<1>6. \A s \in Pixels!Strategies : Pixels!Ladder(s) \in [Pixels!Columns -> 0..255]
  BY <1>1, <1>3
<1> QED BY <1>2, <1>4, <1>5, <1>6

\* Nothing is made yet at the start.
LEMMA PixelsInit == ASSUME Pixels!Init PROVE Pixels!TypeOK /\ PixelsInv
BY PixelConstants DEF Pixels!Init, Pixels!TypeOK, Pixels!Images, PixelsInv

\* What a step that makes a candidate leaves as it was.
LEMMA Unmoved ==
    ASSUME UNCHANGED <<policy, source, raw>>
    PROVE  /\ Pixels!Composite' = Pixels!Composite
           /\ \A s : Pixels!Ladder(s)' = Pixels!Ladder(s)
           /\ Pixels!ValidPolicy(policy)' = Pixels!ValidPolicy(policy)
           /\ Pixels!Counts(policy)' = Pixels!Counts(policy)
           /\ UNCHANGED candidate =>
                /\ Pixels!LockedOutsideEqualsSource' = Pixels!LockedOutsideEqualsSource
                /\ Pixels!Evidence("CORE", candidate.pixels)'
                     = Pixels!Evidence("CORE", candidate.pixels)
BY DEF Pixels!Composite, Pixels!Ladder, Pixels!LadderWeight, Pixels!LockedOutsideEqualsSource,
       Pixels!Evidence

\* Every step of an experiment keeps the invariant,
LEMMA PixelsStep ==
    ASSUME Pixels!TypeOK, PixelsInv, [Pixels!Next]_(Pixels!vars)
    PROVE  Pixels!TypeOK' /\ PixelsInv'
<1>1. CASE Pixels!Preflight
  BY <1>1 DEF Pixels!Preflight, Pixels!TypeOK, PixelsInv
<1>2. CASE Pixels!Execute
  <2>1. \A image : image \in [Pixels!Columns -> Greys] => image \in Pixels!Images
    BY DEF Pixels!Images
  <2> QED BY <1>2, <2>1 DEF Pixels!Execute, Pixels!TypeOK, PixelsInv
<1>3. CASE Pixels!Preserve
  <2>1. [by |-> "ENGINE", pixels |-> Pixels!Composite] \in Pixels!Candidates
    BY MadeImages DEF Pixels!Candidates
  <2>2. Pixels!TypeOK'
    BY <1>3, <2>1 DEF Pixels!Preserve, Pixels!TypeOK
  <2>3. verdict = "NONE" /\ UNCHANGED <<policy, source, raw, verdict>>
    BY <1>3 DEF Pixels!Preserve, PixelsInv
  <2> QED BY <1>3, <2>2, <2>3, Unmoved DEF Pixels!Preserve, PixelsInv
<1>4. ASSUME NEW s \in Pixels!Strategies, Pixels!Derive(s) PROVE Pixels!TypeOK' /\ PixelsInv'
  <2>1. [by |-> s, pixels |-> Pixels!Ladder(s)] \in Pixels!Candidates
    BY MadeImages DEF Pixels!Candidates
  <2>2. Pixels!TypeOK'
    BY <1>4, <2>1 DEF Pixels!Derive, Pixels!TypeOK
  <2>3. verdict = "NONE" /\ UNCHANGED <<policy, source, raw, verdict>>
    BY <1>4 DEF Pixels!Derive, PixelsInv
  <2> QED BY <1>4, <2>2, <2>3, Unmoved DEF Pixels!Derive, PixelsInv
<1>5. CASE Pixels!Verify
  <2>1. Pixels!TypeOK'
    BY <1>5 DEF Pixels!Verify, Pixels!TypeOK
  <2> QED BY <1>5, <2>1, Unmoved DEF Pixels!Verify, PixelsInv
<1>6. CASE UNCHANGED Pixels!vars
  <2>1. UNCHANGED <<phase, geometry, policy, source, raw, candidate, verdict>>
    BY <1>6 DEF Pixels!vars
  <2>2. Pixels!TypeOK'
    BY <2>1 DEF Pixels!TypeOK
  <2> QED BY <2>1, <2>2, Unmoved DEF PixelsInv
<1> QED BY <1>1, <1>2, <1>3, <1>4, <1>5, <1>6 DEF Pixels!Next

\* which gives the promise of the engines.
LEMMA PixelsKept ==
    ASSUME Pixels!TypeOK, PixelsInv PROVE Pixels!PreservationKept
<1> SUFFICES ASSUME phase = "PRESERVED" PROVE Pixels!PreservationKept
  BY DEF Pixels!PreservationKept
<1>1. Pixels!ZonesAgree
  BY Zones DEF Pixels!TypeOK, PixelsInv
<1>2. candidate.by \in {"ENGINE", "P3"} =>
         candidate.pixels = Pixels!Composite /\ Pixels!Ladder("P3") = Pixels!Composite
  <2>1. Pixels!Ladder("P3") = Pixels!Composite
    BY MadeImages
  <2>2. CASE candidate = [by |-> "ENGINE", pixels |-> Pixels!Composite]
    BY <2>1, <2>2
  <2>3. ASSUME NEW s \in Pixels!Strategies, candidate = [by |-> s, pixels |-> Pixels!Ladder(s)],
               candidate.by \in {"ENGINE", "P3"}
        PROVE  candidate.pixels = Pixels!Ladder("P3")
    BY <2>3 DEF Pixels!Strategies
  <2> QED BY <2>1, <2>2, <2>3 DEF PixelsInv
<1>3. ASSUME NEW c \in Pixels!Columns
      PROVE  /\ candidate.pixels[c] \in (source[c]..raw[c]) \cup (raw[c]..source[c])
             /\ Pixels!Classify(c, policy) = "CORE" => candidate.pixels[c] = raw[c]
  BY Made DEF PixelsInv
<1>4. ASSUME verdict = "PASSED"
      PROVE  /\ \A c \in Pixels!Columns : candidate.pixels[c] # source[c]
                    => c \notin Pixels!Zone("LOCKED_OUTSIDE", policy)
             /\ \/ Pixels!ChangedInside # {}
                \/ \E c \in Pixels!Zone("CORE", policy) \ Pixels!DiffRegion :
                      Pixels!Changed(source[c], raw[c])
  <2>1. \A c \in Pixels!Columns : candidate.pixels[c] # source[c]
                    => c \notin Pixels!Zone("LOCKED_OUTSIDE", policy)
    BY <1>4 DEF PixelsInv, Pixels!LockedOutsideEqualsSource
  <2>2. {c \in Pixels!Zone("CORE", policy) :
           Pixels!Changed(source[c], candidate.pixels[c])} # {}
    <3>1. /\ 1000 * Pixels!Evidence("CORE", candidate.pixels) > Pixels!Counts(policy).core
          /\ Pixels!Counts(policy).core > 0
      BY <1>1, <1>4 DEF PixelsInv, Pixels!ZonesAgree
    <3>2. ASSUME {c \in Pixels!Zone("CORE", policy) :
                    Pixels!Changed(source[c], candidate.pixels[c])} = {}
          PROVE  Pixels!Evidence("CORE", candidate.pixels) = 0
      BY <3>2, PixelsCardinality, FS_EmptySet DEF Pixels!Evidence
    <3>3. Pixels!Counts(policy).core \in Int
      BY Bounds DEF Pixels!Counts, Pixels!Area, Pixels!TypeOK
    <3> QED BY <3>1, <3>2, <3>3
  <2>3. PICK c \in Pixels!Zone("CORE", policy) : Pixels!Changed(source[c], candidate.pixels[c])
    BY <2>2
  <2>4. c \in Pixels!Columns /\ candidate.pixels[c] = raw[c]
    BY <1>3 DEF Pixels!Zone
  <2>5. c \in Pixels!DiffRegion => c \in Pixels!ChangedInside
    BY <2>3, <2>4 DEF Pixels!ChangedInside
  <2> QED BY <2>1, <2>3, <2>4, <2>5
<1> QED BY <1>1, <1>2, <1>3, <1>4 DEF Pixels!PreservationKept

\* Whatever the width, the region, the band and the colours, preservation keeps its
\* promise on every pixel (compositing engine, ladder engine, creative assertions).
THEOREM PixelsKeep ==
    Pixels!Spec => [](Pixels!TypeOK /\ Pixels!PreservationKept)
<1>1. Pixels!Spec => [](Pixels!TypeOK /\ PixelsInv)
  BY PixelsInit, PixelsStep, PTL DEF Pixels!Spec
<1>2. Pixels!TypeOK /\ PixelsInv => Pixels!TypeOK /\ Pixels!PreservationKept
  BY PixelsKept
<1> QED BY <1>1, <1>2, PTL

-----------------------------------------------------------------------------
(* The specification layer.                                                  *)

\* What a sequence holds.
Elements(s) == {s[i] : i \in DOMAIN s}

\* A sequence is one of its own elements.
LEMMA OfElements ==
    ASSUME NEW S, NEW s \in Seq(S)
    PROVE  Len(s) \in Nat /\ DOMAIN s = 1..Len(s) /\ s \in Seq(Elements(s))
<1>1. Len(s) \in Nat /\ DOMAIN s = 1..Len(s) /\ s = [i \in 1..Len(s) |-> s[i]]
  OBVIOUS
<1>2. s \in [1..Len(s) -> Elements(s)]
  BY <1>1 DEF Elements
<1>3. s \in Seq(Elements(s))
  BY <1>1, <1>2, SeqDef
<1> QED BY <1>1, <1>3

\* An index of a sequence that grew is an old one or the last.
LEMMA LastIndex ==
    ASSUME NEW n \in Nat, NEW i \in 1..n + 1
    PROVE  i \in 1..n \/ i = n + 1
  OBVIOUS

\* Compiling appends to the task specs, and only there.
LEMMA Appended ==
    ASSUME NEW s, s \in Seq(Elements(s)), NEW e
    PROVE  LET t == Append(s, e) IN
           /\ t \in Seq(Elements(t))
           /\ Len(s) \in Nat /\ DOMAIN s = 1..Len(s)
           /\ Len(t) = Len(s) + 1 /\ DOMAIN t = 1..Len(t)
           /\ t[Len(s) + 1] = e /\ \A i \in 1..Len(s) : t[i] = s[i]
<1> DEFINE t == Append(s, e)
<1> DEFINE S == Elements(s) \cup {e}
<1>1. Len(s) \in Nat /\ DOMAIN s = 1..Len(s)
  BY OfElements
<1>2. s \in Seq(S)
  <2>1. s = [i \in 1..Len(s) |-> s[i]]
    OBVIOUS
  <2>2. \A i \in 1..Len(s) : s[i] \in S
    BY <1>1 DEF Elements
  <2>3. s \in [1..Len(s) -> S]
    BY <2>1, <2>2
  <2> QED BY <1>1, <2>3, SeqDef
<1> HIDE DEF S
<1>3. e \in S
  BY DEF S
<1>4. /\ t \in Seq(S) /\ Len(t) = Len(s) + 1 /\ t[Len(s) + 1] = e
      /\ \A i \in 1..Len(s) : t[i] = s[i]
  BY <1>2, <1>3, AppendProperties
<1> HIDE DEF t
<1>5. t \in Seq(Elements(t)) /\ DOMAIN t = 1..Len(t)
  BY <1>4, OfElements
<1> QED BY <1>1, <1>4, <1>5 DEF t

\* What a READY spec is worth, whoever reads it later.
Worthy(spec) ==
    /\ \A v \in Variables : /\ Specification!Fits(v, spec.values[v.id].value)
                            /\ v.critical => Specification!Known(spec.values[v.id])
    /\ \A c \in Conditionals :
          spec.values[c.when].value = c.equals /\ c.required
            => Specification!Known(spec.values[c.target])
    /\ Policy.required \subseteq spec.grant /\ spec.grant \cap Policy.denied = {}

\* What a verification found of a criterion is what is so, and what it stored of
\* one was judged.
Honest(run) ==
    /\ run.stored \subseteq Specification!MachineCriteria
    /\ \A c \in Specification!Criteria :
        /\ run.criteria[c] = "PASS" => Specification!Passed(run.facts)[c]
        /\ c \in run.stored /\ Specification!Passed(run.facts)[c] => run.criteria[c] = "PASS"

SpecificationInv ==
    /\ specs \in Seq(Elements(specs))
    /\ \A i \in DOMAIN specs : specs[i].status = "READY" => Worthy(specs[i])
    /\ verification # Specification!NoRun => bound # 0 /\ Honest(verification)
    /\ \A run \in authorized :
        /\ run # Specification!NoRun /\ run.spec \in DOMAIN specs
        /\ specs[run.spec].status = "READY"
        /\ \A c \in Specification!Criteria : run.criteria[c] = "PASS"

\* The value of a variable is what was given for it, or the default of a
\* conditional that nothing was given for.
LEMMA OneVariable ==
    ASSUME NEW v \in Variables
    PROVE  (CHOOSE w \in Variables : w.id = v.id) = v
BY BlueprintConstants

\* Either nothing defaults a variable, or what defaults it gives its value.
LEMMA ValueOf ==
    ASSUME NEW v \in Variables, NEW input
    PROVE  LET all == Specification!AllGiven(input)
               Defaulting(c) == c \in Specification!Pending(all) /\ c.target = v.id
                                /\ c.default # Specification!None IN
           /\ all[v.id] = Specification!Given(v, input)
           /\ \/ /\ \A c : ~Defaulting(c)
                 /\ Specification!Values(input)[v.id] = all[v.id]
              \/ \E c : Defaulting(c) /\ Specification!Values(input)[v.id].value = c.default
<1> DEFINE all == Specification!AllGiven(input)
           Defaulting(c) == c \in Specification!Pending(all) /\ c.target = v.id
                            /\ c.default # Specification!None
<1>1. DOMAIN all = {w.id : w \in Variables} /\ all[v.id] = Specification!Given(v, input)
  BY OneVariable DEF Specification!AllGiven
<1>2. Specification!Values(input)[v.id] =
        IF \E c \in Specification!Pending(all) : c.target = v.id /\ c.default # Specification!None
        THEN [provenance |-> "APPROVED",
              value |-> (CHOOSE c \in Specification!Pending(all) :
                            c.target = v.id /\ c.default # Specification!None).default]
        ELSE all[v.id]
  BY <1>1 DEF Specification!Values
<1> HIDE DEF all
<1>3. CASE \E c \in Specification!Pending(all) : c.target = v.id /\ c.default # Specification!None
  <2> DEFINE c == CHOOSE c \in Specification!Pending(all) :
                            c.target = v.id /\ c.default # Specification!None
  <2>1. Defaulting(c)
    BY <1>3
  <2>2. Specification!Values(input)[v.id] = [provenance |-> "APPROVED", value |-> c.default]
    BY <1>2, <1>3
  <2> HIDE DEF c
  <2>3. Specification!Values(input)[v.id].value = c.default
    BY <2>2
  <2> QED BY <1>1, <2>1, <2>3 DEF all
<1>4. CASE ~\E c \in Specification!Pending(all) : c.target = v.id /\ c.default # Specification!None
  BY <1>1, <1>2, <1>4 DEF all
<1> QED BY <1>3, <1>4

\* A compilation without a reason against it that asks for nothing is worthy.
LEMMA CompiledWorthy ==
    ASSUME NEW input \in Inputs, NEW previous,
           Specification!Compiled(input, previous).status = "READY",
           Specification!WellFormed(Specification!Compiled(input, previous))
    PROVE  Worthy(Specification!Compiled(input, previous))
<1> DEFINE spec == Specification!Compiled(input, previous)
           all == Specification!AllGiven(input)
<1>1. Specification!Reasons(input) = {} /\ Specification!Requirements(input) = {}
  BY DEF Specification!Compiled
<1>2. spec.values = Specification!Values(input)
  BY DEF Specification!Compiled
<1>3. \A v \in Variables : Specification!Fits(v, Specification!Given(v, input).value)
  <2> TAKE v \in Variables
  <2>1. CASE v.kind = "FIXED"
    BY <2>1 DEF Specification!Given, Specification!Fits
  <2>2. CASE v.kind # "FIXED"
    BY <1>1, <2>2 DEF Specification!Reasons
  <2> QED BY <2>1, <2>2
<1>4. ASSUME NEW v \in Variables PROVE Specification!Fits(v, spec.values[v.id].value)
  <2>1. CASE spec.values[v.id] = all[v.id]
    BY <1>3, <2>1, ValueOf
  <2>2. ASSUME NEW c, c \in Specification!Pending(all), c.target = v.id,
               spec.values[v.id].value = c.default
        PROVE  Specification!Fits(v, spec.values[v.id].value)
    <3>1. c \in Conditionals /\ ~Specification!Known(Specification!Given(v, input))
      BY <2>2, ValueOf DEF Specification!Pending
    <3>2. v.kind # "FIXED"
      BY <3>1, BlueprintConstants DEF Specification!Known, Specification!Given
    <3> QED BY <2>2, <3>1, <3>2, BlueprintConstants
  <2> QED BY <1>2, <2>1, <2>2, ValueOf
<1>5. \A v \in Variables : v.critical => Specification!Known(spec.values[v.id])
  BY DEF Specification!WellFormed
<1>6. ASSUME NEW c \in Conditionals, spec.values[c.when].value = c.equals, c.required
      PROVE  Specification!Known(spec.values[c.target])
  <2>1. PICK w \in Variables, v \in Variables : w.id = c.when /\ v.id = c.target
    BY BlueprintConstants
  <2>2. spec.values[w.id] = all[w.id]
    <3>1. \A d \in Conditionals : d.target # w.id
      BY <2>1, BlueprintConstants
    <3> QED BY <1>2, <3>1, ValueOf DEF Specification!Pending
  <2>3. ASSUME ~Specification!Known(spec.values[v.id]) PROVE FALSE
    <3>1. CASE spec.values[v.id] = all[v.id] /\
               \A d : ~(d \in Specification!Pending(all) /\ d.target = v.id
                        /\ d.default # Specification!None)
      <4>1. c \in Specification!Pending(all)
        BY <1>6, <2>1, <2>2, <2>3, <3>1 DEF Specification!Pending
      <4>2. c.default = Specification!None
        BY <2>1, <3>1, <4>1
      <4> QED BY <1>1, <1>6, <4>1, <4>2 DEF Specification!Requirements
    <3>2. CASE \E d : d.default # Specification!None /\ spec.values[v.id].value = d.default
      BY <2>3, <3>2 DEF Specification!Known
    <3> QED BY <1>2, <3>1, <3>2, ValueOf
  <2> QED BY <2>1, <2>3
<1>7. Policy.required \subseteq spec.grant /\ spec.grant \cap Policy.denied = {}
  <2>1. spec.grant = (Policy.required \cup input.requested)
                     \cap (Policy.required \cup Policy.optional) \cap input.runtime
    BY DEF Specification!Compiled
  <2>2. Policy.required \subseteq input.runtime
    BY <1>1 DEF Specification!Reasons
  <2> QED BY <2>1, <2>2, BlueprintConstants
<1> QED BY <1>4, <1>5, <1>6, <1>7 DEF Worthy

\* Nothing is compiled at the start.
LEMMA SpecificationInit ==
    ASSUME Specification!Init PROVE Specification!TypeOK /\ SpecificationInv
<1>1. specs = <<>> /\ specHead = 0 /\ bound = 0 /\ verification = Specification!NoRun
      /\ authorized = {}
  BY DEF Specification!Init
<1>2. specs \in Seq(Elements(specs)) /\ DOMAIN specs = {} /\ Len(specs) = 0
  BY <1>1
<1> QED BY <1>1, <1>2, BlueprintConstants DEF Specification!TypeOK, SpecificationInv

\* A verification of the gate is honest: a claim of the executor is no evidence.
LEMMA VerifyStep ==
    ASSUME Specification!TypeOK, SpecificationInv, Specification!Verify
    PROVE  Specification!TypeOK' /\ SpecificationInv'
<1>1. PICK facts \in Specification!Facts,
           kinds \in [Specification!Criteria -> Specification!Kinds],
           withinAuthority \in {({c} \subseteq Specification!Lens(specs[bound], role)) :
                c \in specs[bound].grant, role \in DOMAIN Specification!RoleCapabilities} :
        LET criteria == [c \in Specification!Criteria |->
                          Specification!Status(c, Specification!Row(c, kinds[c], facts))] IN
        verification' = [spec |-> bound, criteria |-> criteria, facts |-> facts,
                         status |-> Specification!Judged(criteria, withinAuthority),
                         stored |-> {c \in Specification!MachineCriteria : kinds[c] = "judged"}]
  BY PTL DEF Specification!Verify
<1> DEFINE criteria == [c \in Specification!Criteria |->
                          Specification!Status(c, Specification!Row(c, kinds[c], facts))]
<1>2. /\ verification'.spec = bound /\ verification'.criteria = criteria
      /\ verification'.facts = facts
      /\ verification'.status = Specification!Judged(criteria, withinAuthority)
      /\ verification'.stored = {c \in Specification!MachineCriteria : kinds[c] = "judged"}
  BY <1>1
<1>3. ASSUME NEW c \in Specification!Criteria
      PROVE  /\ criteria[c] \in {"PASS", "FAIL", "UNKNOWN"}
             /\ criteria[c] = "PASS" => Specification!Passed(facts)[c]
             /\ kinds[c] = "judged" /\ Specification!Passed(facts)[c] => criteria[c] = "PASS"
  <2>1. kinds[c] \in {"judged", "claimed", "missing"}
    BY DEF Specification!Kinds
  <2>2. Specification!Issuer[c] # "IMAGE_EXECUTOR"
    BY DEF Specification!Issuer, Specification!Criteria, Specification!EvidenceType
  <2> QED BY <2>1, <2>2 DEF Specification!Status, Specification!Row, Specification!Criteria,
                            Specification!EvidenceType
<1>4. Honest(verification)'
  <2> HIDE DEF criteria
  <2> QED BY <1>2, <1>3 DEF Honest, Specification!MachineCriteria
<1>5. /\ criteria \in [Specification!Criteria -> {"PASS", "FAIL", "UNKNOWN"}]
      /\ Specification!Judged(criteria, withinAuthority) \in {"PASSED", "FAILED", "BLOCKED"}
  BY <1>3 DEF Specification!Judged
<1>6. bound # 0 /\ authorized = {} /\ UNCHANGED <<specs, specHead, bound, authorized>>
  BY DEF Specification!Verify, Specification!TypeOK, SpecificationInv
<1> HIDE DEF criteria
<1>7. Specification!TypeOK'
  BY <1>2, <1>5, <1>6 DEF Specification!TypeOK
<1> QED BY <1>4, <1>6, <1>7 DEF SpecificationInv

\* Compiling again leaves the specs compiled before as they were.
LEMMA CompileStep ==
    ASSUME Specification!TypeOK, SpecificationInv, NEW input \in Inputs,
           Specification!Compile(input)
    PROVE  Specification!TypeOK' /\ SpecificationInv'
<1>1. PICK previous \in {<<>>} \cup {<<specs[i]>> : i \in 1..Len(specs)} :
        /\ Specification!WellFormed(Specification!Compiled(input, previous))
        /\ specs' = Append(specs, Specification!Compiled(input, previous))
  BY DEF Specification!Compile
<1> DEFINE spec == Specification!Compiled(input, previous)
<1>2. /\ specs' \in Seq(Elements(specs'))
      /\ Len(specs) \in Nat /\ DOMAIN specs = 1..Len(specs)
      /\ Len(specs') = Len(specs) + 1 /\ DOMAIN specs' = 1..Len(specs')
      /\ specs'[Len(specs) + 1] = spec /\ \A i \in 1..Len(specs) : specs'[i] = specs[i]
  <2>1. specs \in Seq(Elements(specs))
    BY DEF SpecificationInv
  <2> HIDE DEF spec
  <2>2. specs' = Append(specs, spec)
    BY <1>1 DEF spec
  <2> DEFINE t == Append(specs, spec)
  <2>3. /\ t \in Seq(Elements(t))
        /\ Len(specs) \in Nat /\ DOMAIN specs = 1..Len(specs)
        /\ Len(t) = Len(specs) + 1 /\ DOMAIN t = 1..Len(t)
        /\ t[Len(specs) + 1] = spec /\ \A i \in 1..Len(specs) : t[i] = specs[i]
    BY <2>1, Appended
  <2> HIDE DEF t
  <2>4. specs' = t
    BY <2>2 DEF t
  <2> QED BY <2>3, <2>4
<1>3. spec.status = "READY" => Worthy(spec)
  BY <1>1, CompiledWorthy
<1>4. /\ spec.version \in 1..Len(specs) + 1 /\ spec.source \in {0, 1}
      /\ spec.status \in {"READY", "INPUT_REQUIRED", "REJECTED"}
      /\ spec.grant \subseteq Policy.required \cup Policy.optional
  <2>1. spec.version = IF previous = <<>> THEN 1 ELSE previous[1].version + 1
    BY DEF Specification!Compiled
  <2>2. \A i \in 1..Len(specs) : specs[i].version \in 1..i /\ <<specs[i]>> # <<>>
    BY <1>2 DEF Specification!TypeOK
  <2>3. spec.version \in 1..Len(specs) + 1
    <3> HIDE DEF spec
    <3>0. Len(specs) \in Nat
      BY <1>2
    <3>1. CASE previous = <<>>
      BY <2>1, <3>0, <3>1
    <3>2. CASE \E i \in 1..Len(specs) : previous = <<specs[i]>>
      <4> PICK i \in 1..Len(specs) : previous = <<specs[i]>>
        BY <3>2
      <4>1. previous # <<>> /\ previous[1] = specs[i]
        OBVIOUS
      <4>2. specs[i].version \in 1..i
        BY <2>2
      <4>3. spec.version = specs[i].version + 1
        BY <2>1, <4>1
      <4> QED BY <3>0, <4>2, <4>3
    <3> QED BY <1>1, <3>1, <3>2
  <2> QED BY <2>3 DEF Specification!Compiled, Specification!TypeOK
<1> HIDE DEF spec
<1>5. Len(specs) < MaxSpecs /\ MaxSpecs \in Nat
      /\ UNCHANGED <<specHead, bound, verification, authorized>>
  BY BlueprintConstants DEF Specification!Compile
<1>6. \A i \in DOMAIN specs' : \/ i \in DOMAIN specs /\ specs'[i] = specs[i]
                               \/ i = Len(specs) + 1 /\ specs'[i] = spec
  <2>1. Len(specs) \in Nat /\ DOMAIN specs' = 1..Len(specs) + 1
    BY <1>2
  <2>2. TAKE i \in DOMAIN specs'
  <2>3. i \in 1..Len(specs) \/ i = Len(specs) + 1
    BY <2>1, LastIndex
  <2> QED BY <1>2, <2>3
<1>7. Specification!TypeOK'
  <2>1. Len(specs') <= MaxSpecs /\ bound \in 0..Len(specs')
    BY <1>2, <1>5 DEF Specification!TypeOK
  <2>2. ASSUME NEW i \in DOMAIN specs'
        PROVE  /\ specs'[i].version \in 1..i /\ specs'[i].source \in {0, 1}
               /\ specs'[i].status \in {"READY", "INPUT_REQUIRED", "REJECTED"}
               /\ specs'[i].grant \subseteq Policy.required \cup Policy.optional
    <3>1. CASE i \in DOMAIN specs /\ specs'[i] = specs[i]
      BY <3>1 DEF Specification!TypeOK
    <3>2. CASE i = Len(specs) + 1 /\ specs'[i] = spec
      BY <1>4, <3>2
    <3> QED BY <1>6, <3>1, <3>2
  <2> QED BY <1>5, <2>1, <2>2 DEF Specification!TypeOK
<1>8. \A run \in authorized : run.spec \in DOMAIN specs' /\ specs'[run.spec] = specs[run.spec]
  BY <1>2 DEF SpecificationInv
<1>9. \A i \in DOMAIN specs' : specs'[i].status = "READY" => Worthy(specs'[i])
  BY <1>3, <1>6 DEF SpecificationInv
<1>10. (verification # Specification!NoRun => bound # 0 /\ Honest(verification))'
  BY <1>5 DEF SpecificationInv
<1>11. \A run \in authorized' :
          /\ run # Specification!NoRun /\ run.spec \in DOMAIN specs'
          /\ specs'[run.spec].status = "READY"
          /\ \A c \in Specification!Criteria : run.criteria[c] = "PASS"
  BY <1>5, <1>8 DEF SpecificationInv
<1> QED BY <1>2, <1>7, <1>9, <1>10, <1>11 DEF SpecificationInv

\* Every step of the layer keeps the invariant,
LEMMA SpecificationStep ==
    ASSUME Specification!TypeOK, SpecificationInv, [Specification!Next]_(Specification!vars)
    PROVE  Specification!TypeOK' /\ SpecificationInv'
<1>1. CASE \E input \in Inputs : Specification!Compile(input)
  BY <1>1, CompileStep
<1>2. CASE Specification!MoveHead
  BY <1>2 DEF Specification!MoveHead, Specification!TypeOK, SpecificationInv
<1>3. CASE Specification!Bind
  <2>1. Len(specs) \in Nat /\ verification = Specification!NoRun
    BY <1>3, OfElements DEF Specification!Bind, Specification!TypeOK, SpecificationInv
  <2> QED BY <1>3, <2>1 DEF Specification!Bind, Specification!TypeOK, SpecificationInv
<1>4. CASE Specification!Verify
  BY <1>4, VerifyStep
<1>5. ASSUME NEW id \in 1..MaxSpecs, Specification!Authorize(id)
      PROVE  Specification!TypeOK' /\ SpecificationInv'
  <2>1. Len(specs) \in Nat /\ DOMAIN specs = 1..Len(specs)
    BY OfElements DEF SpecificationInv
  <2> QED BY <1>5, <2>1 DEF Specification!Authorize, Specification!TypeOK, SpecificationInv
<1>6. CASE UNCHANGED Specification!vars
  BY <1>6 DEF Specification!vars, Specification!TypeOK, SpecificationInv
<1> QED BY <1>1, <1>2, <1>3, <1>4, <1>5, <1>6 DEF Specification!Next

\* which says that an authorization was earned.
LEMMA SpecificationEarned ==
    ASSUME Specification!TypeOK, SpecificationInv PROVE Specification!AuthorizationEarned
<1>1. ASSUME NEW run \in authorized
      PROVE  /\ Worthy(specs[run.spec])
             /\ run.facts.edit /\ run.facts.source /\ run.facts.human
  <2>1. run = verification /\ verification # Specification!NoRun
    BY DEF Specification!TypeOK, SpecificationInv
  <2>2. \A c \in Specification!Criteria : Specification!Passed(run.facts)[c]
    BY <2>1 DEF SpecificationInv, Honest
  <2> QED BY <2>2 DEF SpecificationInv, Specification!Passed, Specification!Criteria,
                      Specification!EvidenceType
<1>2. ASSUME verification # Specification!NoRun, Specification!DurableVerdict = "PASSED"
      PROVE  \A c \in Specification!MachineCriteria : verification.criteria[c] = "PASS"
  <2>1. /\ verification.stored = Specification!MachineCriteria
        /\ verification.facts.edit /\ verification.facts.source
    BY <1>2 DEF Specification!DurableVerdict
  <2>2. \A c \in Specification!MachineCriteria :
           c \in Specification!Criteria /\ Specification!Passed(verification.facts)[c]
    BY <2>1 DEF Specification!Passed, Specification!MachineCriteria, Specification!Criteria,
                Specification!EvidenceType
  <2> QED BY <1>2, <2>1, <2>2 DEF SpecificationInv, Honest
<1> QED BY <1>1, <1>2 DEF Specification!AuthorizationEarned, Worthy

\* Whatever the blueprint and the inputs, an authorized verification was earned at
\* every step before it (compiler, same-spec gate, criterion evidence).
THEOREM SpecificationEarns ==
    Specification!Spec => [](Specification!TypeOK /\ Specification!AuthorizationEarned)
<1>1. Specification!Spec => [](Specification!TypeOK /\ SpecificationInv)
  BY SpecificationInit, SpecificationStep, PTL DEF Specification!Spec
<1>2. Specification!TypeOK /\ SpecificationInv
        => Specification!TypeOK /\ Specification!AuthorizationEarned
  BY SpecificationEarned
<1> QED BY <1>1, <1>2, PTL

-----------------------------------------------------------------------------
(* Pixels beside the other parts.                                            *)

\* A behaviour of Labs is one of Pixels, which stutters while another part runs.
LEMMA PixelsRuns == Spec => Pixels!Spec
<1>1. Init => Pixels!Init
  BY DEF Init
<1>2. [Next]_vars => [Pixels!Next]_(Pixels!vars)
  BY DEF Next, vars, reviewVars, kernelVars, studyVars, pixelVars, catalogVars, specVars,
         Pixels!vars
<1> QED BY <1>1, <1>2, PTL DEF Spec, Pixels!Spec

\* PreservationKept of Labs: for every row, region, band and answer of the
\* provider, locked pixels are the source's and blends stay in range.
THEOREM LockedPixelsKept == Spec => []PreservationKept
BY PixelsRuns, PixelsKeep, PTL DEF PreservationKept

-----------------------------------------------------------------------------
(* Specification beside the other parts.                                     *)

\* A behaviour of Labs is one of Specification, which stutters while another part runs.
LEMMA SpecificationRuns == Spec => Specification!Spec
<1>1. Init => Specification!Init
  BY DEF Init
<1>2. [Next]_vars => [Specification!Next]_(Specification!vars)
  BY DEF Next, vars, reviewVars, kernelVars, studyVars, pixelVars, catalogVars, specVars,
         Specification!vars
<1> QED BY <1>1, <1>2, PTL DEF Spec, Specification!Spec

\* AuthorizationEarned of Labs: for every blueprint that satisfies
\* BlueprintConstants and every input, no authority without what it stands on.
THEOREM AuthorityEarned == Spec => []AuthorizationEarned
BY SpecificationRuns, SpecificationEarns, PTL DEF AuthorizationEarned

=============================================================================
