-------------------------- MODULE AlgorithmsProofs --------------------------
(***************************************************************************)
(* What the algorithms compute is right for every input: a theorem about   *)
(* each of them, and from it the invariant of MCAlgorithms that TLC checks *)
(* on short inputs.  Recursive definitions are unfolded by RecursionExists *)
(* and argued about by NumberInduction.                                    *)
(***************************************************************************)
EXTENDS MCAlgorithms, WellFoundedInduction, FiniteSetTheorems, TLAPS

-----------------------------------------------------------------------------
\* Numbers and recursion: an argument by induction takes the least number at which
\* it fails, and a recursive function is the one its equation describes.

\* Of a set of numbers that is not empty one is the least.
LEMMA LeastNumber ==
  ASSUME NEW T, T \subseteq Nat, T # {}
  PROVE  \E m \in T : \A n \in T : m <= n
<1>1. \E m \in T : \A n \in T : ~(n < m)
  <2>1. PICK R : R = OpToRel(<, Nat)
    BY Zenon
  <2>2. IsWellFoundedOn(R, Nat)
    BY <2>1, NatLessThanWellFounded, Zenon
  <2>3. PICK m \in T : \A n \in T : <<n, m>> \notin R
    BY <2>2, WFMin, Zenon
  <2>4. \A n \in Nat : n < m => <<n, m>> \in R
    BY <2>1 DEF OpToRel
  <2>5. QED
    BY <2>3, <2>4, Zenon
<1>2. QED
  BY <1>1

\* Induction over the numbers, on a set of them.
LEMMA NumberInduction ==
  ASSUME NEW T, 0 \in T, \A n \in Nat : n \in T => n + 1 \in T
  PROVE  Nat \subseteq T
<1> SUFFICES ASSUME ~(Nat \subseteq T) PROVE FALSE
  OBVIOUS
<1>1. PICK m \in Nat \ T : \A n \in Nat \ T : m <= n
  BY LeastNumber, Zenon
<1>2. m # 0 /\ m - 1 \in Nat /\ m - 1 \in T
  BY <1>1
<1>3. QED
  BY <1>1, <1>2

Run(h, N, base, next) == h = [i \in 0..N |-> IF i = 0 THEN base ELSE next[i][h[i - 1]]]

\* A recursion over 1..N whose steps stay in V is a function.
LEMMA RecursionExists ==
  ASSUME NEW V, NEW N \in Nat, NEW base \in V, NEW next \in [1..N -> [V -> V]]
  PROVE  \E h \in [0..N -> V] : Run(h, N, base, next)
<1> DEFINE Good(n, h) == h[0] = base /\ \A i \in 1..n : h[i] = next[i][h[i - 1]]
           T == {n \in Nat : n <= N => \E h \in [0..n -> V] : Good(n, h)}
<1>1. 0 \in T
  <2> PICK g : g = [i \in 0..0 |-> base]
    BY Zenon
  <2> g \in [0..0 -> V] /\ Good(0, g)
    OBVIOUS
  <2> QED
    OBVIOUS
<1>2. ASSUME NEW n \in Nat, n \in T PROVE n + 1 \in T
  <2> SUFFICES ASSUME n + 1 <= N PROVE \E h \in [0..n + 1 -> V] : Good(n + 1, h)
    OBVIOUS
  <2>1. PICK h \in [0..n -> V] : Good(n, h)
    BY <1>2
  <2>2. PICK g : g = [i \in 0..n + 1 |-> IF i <= n THEN h[i] ELSE next[n + 1][h[n]]]
    BY Zenon
  <2>3. h[n] \in V /\ next[n + 1] \in [V -> V]
    OBVIOUS
  <2>4. next[n + 1][h[n]] \in V
    BY <2>3
  <2>5. g \in [0..n + 1 -> V]
    BY <2>2, <2>4
  <2>6. \A i \in 0..n : g[i] = h[i]
    BY <2>2
  <2>7. g[n + 1] = next[n + 1][g[n]]
    BY <2>2
  <2>8. Good(n + 1, g)
    BY <2>1, <2>6, <2>7
  <2>9. QED
    BY <2>5, <2>8, Zenon
<1>3. N \in T
  BY <1>1, <1>2, NumberInduction, Zenon
<1>4. PICK h \in [0..N -> V] : Good(N, h)
  BY <1>3
<1>5. h = [i \in 0..N |-> IF i = 0 THEN base ELSE next[i][h[i - 1]]]
  BY <1>4
<1>6. QED
  BY <1>5 DEF Run

-----------------------------------------------------------------------------
\* osd_parser.GpsVoter: medians, and what update keeps true of a voter.

\* A part of a finite set has no more members.
LEMMA SameOrLess ==
  ASSUME NEW T, IsFiniteSet(T), NEW U \in SUBSET T
  PROVE  /\ IsFiniteSet(U) /\ Cardinality(U) \in Nat /\ Cardinality(T) \in Nat
         /\ Cardinality(U) <= Cardinality(T)
         /\ U # T => Cardinality(U) < Cardinality(T)
<1>1. IsFiniteSet(U) /\ Cardinality(U) <= Cardinality(T) /\ (Cardinality(U) = Cardinality(T) => U = T)
  BY FS_Subset
<1>2. Cardinality(U) \in Nat /\ Cardinality(T) \in Nat
  BY <1>1, FS_CardinalityType
<1> QED
  BY <1>1, <1>2

\* The first n numbers are n.
LEMMA IntervalCount ==
  ASSUME NEW n \in Nat
  PROVE  IsFiniteSet(1..n) /\ Cardinality(1..n) = n
<1>1. 1 \in Int /\ n \in Int
  OBVIOUS
<1>2. IsFiniteSet(1..n) /\ Cardinality(1..n) = IF 1 > n THEN 0 ELSE n - 1 + 1
  BY <1>1, FS_Interval
<1> QED
  BY <1>2

\* The greater a value, the more positions hold at most that.
LEMMA UpToGrows ==
  ASSUME NEW n \in Nat, NEW f \in [1..n -> Int], NEW i \in 1..n, NEW j \in 1..n, f[j] < f[i]
  PROVE  Cardinality(UpTo(f, f[j])) < Cardinality(UpTo(f, f[i]))
<1>1. UpTo(f, f[i]) \in SUBSET (1..n) /\ UpTo(f, f[j]) \in SUBSET UpTo(f, f[i])
  BY DEF UpTo
<1>2. i \in UpTo(f, f[i]) /\ i \notin UpTo(f, f[j])
  BY DEF UpTo
<1>3. IsFiniteSet(UpTo(f, f[i]))
  BY <1>1, IntervalCount, SameOrLess
<1> QED
  BY <1>1, <1>2, <1>3, SameOrLess

\* The positions of lesser values, and of values up to one, can be counted.
LEMMA CountsAreNumbers ==
  ASSUME NEW n \in Nat, NEW f \in [1..n -> Int], NEW v
  PROVE  /\ IsFiniteSet(UpTo(f, v)) /\ Cardinality(UpTo(f, v)) \in 0..n
         /\ IsFiniteSet(Below(f, v)) /\ Cardinality(Below(f, v)) \in 0..n
<1>1. UpTo(f, v) \in SUBSET (1..n) /\ Below(f, v) \in SUBSET (1..n)
  BY DEF UpTo, Below
<1> QED
  BY <1>1, IntervalCount, SameOrLess

\* A set of positions that is not empty has one of the greatest values.
LEMMA GreatestIsThere ==
  ASSUME NEW n \in Nat, NEW f \in [1..n -> Int], NEW T \in SUBSET (1..n), T # {}
  PROVE  \E m \in T : \A i \in T : f[i] <= f[m]
<1> DEFINE Left(i) == n - Cardinality(UpTo(f, f[i]))
<1>1. \A i \in 1..n : Left(i) \in Nat
  BY CountsAreNumbers
<1>2. {Left(i) : i \in T} \subseteq Nat /\ {Left(i) : i \in T} # {}
  BY <1>1, Zenon
<1>3. PICK m \in T : \A i \in T : Left(m) <= Left(i)
  <2> HIDE DEF Left
  <2>1. PICK l \in {Left(i) : i \in T} : \A k \in {Left(i) : i \in T} : l <= k
    BY <1>2, LeastNumber, Zenon
  <2> QED
    BY <2>1
<1>4. ASSUME NEW i \in T, f[m] < f[i] PROVE FALSE
  <2>1. Cardinality(UpTo(f, f[m])) < Cardinality(UpTo(f, f[i]))
    BY <1>4, UpToGrows
  <2>2. Cardinality(UpTo(f, f[m])) \in 0..n /\ Cardinality(UpTo(f, f[i])) \in 0..n
    BY CountsAreNumbers
  <2>3. Left(m) <= Left(i)
    BY <1>3
  <2> QED
    BY <2>1, <2>2, <2>3
<1> QED
  BY <1>4

\* There is a median, and Middle is one.
LEMMA MiddleIsOne ==
  ASSUME NEW n \in Nat \ {0}, NEW f \in [1..n -> Int]
  PROVE  /\ Middle(f) \in Int
         /\ Cardinality(Below(f, Middle(f))) <= n \div 2
         /\ Cardinality(UpTo(f, Middle(f))) > n \div 2
<1> DEFINE Upto(i) == Cardinality(UpTo(f, f[i]))
           Enough == {i \in 1..n : Upto(i) > n \div 2}
<1>1. \A i \in 1..n : Upto(i) \in 0..n
  BY CountsAreNumbers
<1>2. Enough # {}
  <2>1. PICK m \in 1..n : \A i \in 1..n : f[i] <= f[m]
    <3>1. 1..n \in SUBSET (1..n) /\ 1..n # {} /\ n \in Nat
      OBVIOUS
    <3> QED
      BY <3>1, GreatestIsThere, Zenon
  <2>2. UpTo(f, f[m]) = 1..n
    BY <2>1 DEF UpTo
  <2> QED
    BY <2>2, IntervalCount
<1>3. PICK m \in Enough : \A i \in Enough : Upto(m) <= Upto(i)
  <2> HIDE DEF Upto
  <2>1. {Upto(i) : i \in Enough} \subseteq Nat /\ {Upto(i) : i \in Enough} # {}
    BY <1>1, <1>2
  <2>2. PICK l \in {Upto(i) : i \in Enough} : \A k \in {Upto(i) : i \in Enough} : l <= k
    BY <2>1, LeastNumber, Zenon
  <2> QED
    BY <2>2
<1>4. Cardinality(Below(f, f[m])) <= n \div 2
  <2>1. CASE Below(f, f[m]) = {}
    BY <2>1, FS_EmptySet
  <2>2. CASE Below(f, f[m]) # {}
    <3>1. Below(f, f[m]) \in SUBSET (1..n)
      BY DEF Below
    <3>2. PICK k \in Below(f, f[m]) : \A i \in Below(f, f[m]) : f[i] <= f[k]
      BY <2>2, <3>1, GreatestIsThere, Zenon
    <3>3. k \in 1..n /\ f[k] < f[m]
      BY DEF Below
    <3>4. UpTo(f, f[k]) = Below(f, f[m])
      BY <3>2, <3>3 DEF UpTo, Below
    <3>5. Upto(k) < Upto(m)
      BY <3>3, UpToGrows, Zenon
    <3>6. k \notin Enough
      <4> HIDE DEF Upto
      <4> QED
        BY <1>1, <1>3, <3>3, <3>5
    <3>7. ~(Upto(k) > n \div 2) /\ Upto(k) \in 0..n
      BY <3>6, <3>3, <1>1
    <3> QED
      BY <3>4, <3>7
  <2> QED
    BY <2>1, <2>2
<1>5. Len(f) = n /\ f[m] \in ToSet(f)
  BY DEF ToSet
<1>6. \E v \in ToSet(f) : /\ Cardinality(Below(f, v)) <= Len(f) \div 2
                          /\ Cardinality(UpTo(f, v)) > Len(f) \div 2
  BY <1>3, <1>4, <1>5
<1>7. ToSet(f) \subseteq Int
  BY DEF ToSet
<1> QED
  BY <1>5, <1>6, <1>7 DEF Middle

Position == [x : Int, y : Int]
Voter == [window : Seq(Position), fix : Position, interpolated : BOOLEAN]

NoJumps(window) == \A i \in 1..Len(window) - 1 : ~Jumps(window[i], window[i + 1])

\* What update keeps true of a voter.
VoterOK(voter) ==
  /\ voter \in Voter
  /\ Len(voter.window) <= Window
  /\ NoJumps(voter.window)
  /\ voter.interpolated => voter.window # <<>> /\ voter.fix = Median(voter.window)

\* A jump is one in both directions.
LEMMA JumpsEitherWay ==
  ASSUME NEW p \in Position, NEW q \in Position
  PROVE  Jumps(p, q) <=> Jumps(q, p)
<1>1. \A m, n \in Int : Magnitude(m - n) = Magnitude(n - m)
  BY DEF Magnitude
<1> QED
  BY <1>1 DEF Jumps, Position

\* Missing has coordinates.
LEMMA MissingIsAPosition == Missing \in Position
BY DEF Missing, Position

\* A new voter is as update leaves one.
LEMMA FreshIsOK == VoterOK(Fresh)
<1>1. <<>> \in Seq(Position) /\ Len(<<>>) = 0
  OBVIOUS
<1> QED
  BY <1>1, VoterAssumption, MissingIsAPosition DEF VoterOK, Voter, Fresh, NoJumps

\* The median of a window has coordinates.
LEMMA MedianIsAPosition ==
  ASSUME NEW window \in Seq(Position), window # <<>>
  PROVE  Median(window) \in Position
<1>1. PICK n \in Nat \ {0} : n = Len(window) /\ DOMAIN window = 1..n
  OBVIOUS
<1>a. \A i \in 1..n : window[i].x \in Int /\ window[i].y \in Int
  <2>1. \A i \in 1..n : window[i] \in Position
    BY <1>1
  <2>2. \A p \in Position : p.x \in Int /\ p.y \in Int
    BY DEF Position
  <2> QED
    BY <2>1, <2>2
<1>2. [i \in DOMAIN window |-> window[i].x] \in [1..n -> Int]
  BY <1>1, <1>a
<1>3. [i \in DOMAIN window |-> window[i].y] \in [1..n -> Int]
  BY <1>1, <1>a
<1> QED
  BY <1>2, <1>3, MiddleIsOne, Zenon DEF Median, Position

\* A kept reading is the last of a window without jumps.
LEMMA KeepProperties ==
  ASSUME NEW window \in Seq(Position), Len(window) <= Window, NoJumps(window),
         NEW reading \in Position, ~Outlier(window, reading)
  PROVE  /\ Keep(window, reading) \in Seq(Position)
         /\ Len(Keep(window, reading)) \in 1..Window
         /\ Last(Keep(window, reading)) = reading
         /\ NoJumps(Keep(window, reading))
<1> USE VoterAssumption
<1>1. ASSUME NEW w \in Seq(Position), w # <<>> => window # <<>> /\ Last(w) = Last(window), NoJumps(w)
      PROVE  /\ Append(w, reading) \in Seq(Position)
             /\ Len(Append(w, reading)) = Len(w) + 1
             /\ Last(Append(w, reading)) = reading
             /\ NoJumps(Append(w, reading))
  <2>1. /\ Append(w, reading) \in Seq(Position)
        /\ Len(Append(w, reading)) = Len(w) + 1
        /\ Append(w, reading)[Len(w) + 1] = reading
        /\ \A i \in 1..Len(w) : Append(w, reading)[i] = w[i]
    OBVIOUS
  <2>2. ASSUME NEW i \in 1..Len(w)
        PROVE  ~Jumps(Append(w, reading)[i], Append(w, reading)[i + 1])
    <3>1. CASE i < Len(w)
      BY <2>1, <3>1, <1>1 DEF NoJumps
    <3>2. CASE i = Len(w)
      <4>1. w # <<>> /\ w[i] = Last(window) /\ w[i] \in Position
        BY <3>2, <1>1 DEF Last
      <4>2. ~Jumps(reading, w[i])
        BY <4>1, <1>1 DEF Outlier
      <4> QED
        BY <4>1, <4>2, <2>1, <3>2, JumpsEitherWay
    <3> QED
      BY <3>1, <3>2
  <2> QED
    BY <2>1, <2>2 DEF NoJumps, Last
<1>2. CASE Len(window) < Window
  BY <1>1, <1>2 DEF Keep
<1>3. CASE ~(Len(window) < Window)
  <2>1. window # <<>> /\ Len(window) = Window
    BY <1>3
  <2>2. /\ Tail(window) \in Seq(Position) /\ Len(Tail(window)) = Len(window) - 1
        /\ \A i \in 1..Len(window) - 1 : Tail(window)[i] = window[i + 1]
    BY <2>1
  <2>3. NoJumps(Tail(window))
    BY <2>1, <2>2 DEF NoJumps
  <2>4. Tail(window) # <<>> => Last(Tail(window)) = Last(window)
    BY <2>1, <2>2 DEF Last
  <2>5. Keep(window, reading) = Append(Tail(window), reading)
    BY <1>3 DEF Keep
  <2>6. /\ Append(Tail(window), reading) \in Seq(Position)
        /\ Len(Append(Tail(window), reading)) = Len(Tail(window)) + 1
        /\ Last(Append(Tail(window), reading)) = reading
        /\ NoJumps(Append(Tail(window), reading))
    BY <1>1, <2>1, <2>2, <2>3, <2>4, Zenon
  <2> QED
    BY <2>1, <2>2, <2>5, <2>6
<1> QED
  BY <1>2, <1>3

\* update leaves every voter as it should be.
LEMMA UpdateKeeps ==
  ASSUME NEW voter, VoterOK(voter), NEW reading \in Position
  PROVE  VoterOK(Update(voter, reading))
<1> DEFINE window == voter.window
<1>0. window \in Seq(Position) /\ Len(window) <= Window /\ NoJumps(window) /\ voter \in Voter
  BY DEF VoterOK, Voter
<1>1. CASE reading # Missing /\ ~Outlier(window, reading)
  <2>1. Update(voter, reading) = [window |-> Keep(window, reading), fix |-> reading, interpolated |-> FALSE]
    BY <1>1 DEF Update
  <2>2. /\ Keep(window, reading) \in Seq(Position) /\ Len(Keep(window, reading)) <= Window
        /\ NoJumps(Keep(window, reading))
    BY <1>0, <1>1, KeepProperties, VoterAssumption
  <2> QED
    BY <2>1, <2>2 DEF VoterOK, Voter
<1>2. CASE ~(reading # Missing /\ ~Outlier(window, reading)) /\ window # <<>>
  <2>1. Update(voter, reading) = [voter EXCEPT !.fix = Median(window), !.interpolated = TRUE]
    BY <1>2 DEF Update
  <2>2. Median(window) \in Position
    BY <1>0, <1>2, MedianIsAPosition
  <2>3. Update(voter, reading) = [window |-> window, fix |-> Median(window), interpolated |-> TRUE]
    BY <1>0, <2>1, Zenon DEF Voter
  <2> QED
    BY <1>0, <1>2, <2>2, <2>3 DEF VoterOK, Voter
<1>3. CASE ~(reading # Missing /\ ~Outlier(window, reading)) /\ window = <<>>
  BY <1>3, FreshIsOK DEF Update
<1> QED
  BY <1>1, <1>2, <1>3

\* Voters is what its recursive definition says.
LEMMA VotersFollow ==
  ASSUME NEW readings \in Seq(Position)
  PROVE  /\ Voters(readings)[0] = Fresh
         /\ \A n \in 1..Len(readings) :
              Voters(readings)[n] = Update(Voters(readings)[n - 1], readings[n])
         /\ \A n \in 0..Len(readings) : VoterOK(Voters(readings)[n])
<1> DEFINE V == {v \in Voter : VoterOK(v)}
<1>0. PICK N \in Nat : N = Len(readings)
  OBVIOUS
<1>1. Fresh \in V /\ \A v \in V, i \in 1..N : Update(v, readings[i]) \in V
  BY <1>0, FreshIsOK, UpdateKeeps DEF VoterOK
<1>2. PICK next \in [1..N -> [V -> V]] : \A i \in 1..N, v \in V : next[i][v] = Update(v, readings[i])
  <2> HIDE DEF V
  <2>1. [i \in 1..N |-> [v \in V |-> Update(v, readings[i])]] \in [1..N -> [V -> V]]
    BY <1>1
  <2> QED
    BY <2>1, Zenon
<1> HIDE DEF V
<1>3. PICK h \in [0..N -> V] : Run(h, N, Fresh, next)
  BY <1>1, RecursionExists, Zenon
<1>4. h = [n \in 0..N |-> IF n = 0 THEN Fresh ELSE Update(h[n - 1], readings[n])]
  <2>1. ASSUME NEW i \in 0..N PROVE h[i] = IF i = 0 THEN Fresh ELSE Update(h[i - 1], readings[i])
    <3>1. CASE i = 0
      BY <1>3, <3>1 DEF Run
    <3>2. CASE i # 0
      <4>1. i \in 1..N /\ h[i - 1] \in V
        BY <3>2
      <4>2. h[i] = next[i][h[i - 1]]
        BY <1>3, <3>2 DEF Run
      <4> QED
        BY <4>1, <4>2, <1>2, <3>2
    <3> QED
      BY <3>1, <3>2
  <2> QED
    BY <2>1
<1>5. Voters(readings) = [n \in 0..N |-> IF n = 0 THEN Fresh ELSE Update(Voters(readings)[n - 1], readings[n])]
  BY <1>0, <1>4, Zenon DEF Voters
<1>6. \A n \in 0..N : Voters(readings)[n] \in V
  <2> DEFINE T == {n \in Nat : n <= N => Voters(readings)[n] \in V}
  <2>1. 0 \in T
    BY <1>1, <1>5
  <2>2. ASSUME NEW n \in Nat, n \in T PROVE n + 1 \in T
    <3>1. CASE n + 1 <= N
      <4>1. Voters(readings)[n + 1] = Update(Voters(readings)[n], readings[n + 1])
        BY <1>5, <3>1
      <4> QED
        BY <2>2, <3>1, <4>1, <1>1
    <3> QED
      BY <3>1
  <2> HIDE DEF T
  <2>3. Nat \subseteq T
    BY <2>1, <2>2, NumberInduction, Zenon
  <2> QED
    BY <2>3 DEF T
<1> QED
  BY <1>0, <1>5, <1>6 DEF V

\* One coordinate of a window whose neighbours are within MaxJump.
LEMMA DriftIsBounded ==
  ASSUME NEW n \in Nat \ {0}, NEW f \in [1..n -> Int],
         \A i \in 1..n - 1 : Magnitude(f[i] - f[i + 1]) <= MaxJump
  PROVE  \A d \in 0..n - 1 : Magnitude(f[n - d] - f[n]) <= d * MaxJump
<1> DEFINE T == {d \in Nat : d <= n - 1 => Magnitude(f[n - d] - f[n]) <= d * MaxJump}
<1>1. 0 \in T
  <2>1. n - 0 = n /\ f[n] \in Int /\ 0 * MaxJump = 0
    BY VoterAssumption
  <2>2. Magnitude(f[n] - f[n]) = 0
    BY <2>1 DEF Magnitude
  <2> QED
    BY <2>1, <2>2
<1>2. ASSUME NEW d \in Nat, d \in T PROVE d + 1 \in T
  <2> SUFFICES ASSUME d + 1 <= n - 1
               PROVE  Magnitude(f[n - (d + 1)] - f[n]) <= (d + 1) * MaxJump
    OBVIOUS
  <2>1. PICK i \in 1..n - 1 : i = n - (d + 1) /\ i + 1 = n - d
    OBVIOUS
  <2>2. Magnitude(f[i] - f[i + 1]) <= MaxJump /\ Magnitude(f[i + 1] - f[n]) <= d * MaxJump
    BY <1>2, <2>1
  <2>3. PICK m \in Int : m = d * MaxJump
    BY VoterAssumption
  <2>4. (d + 1) * MaxJump = m + MaxJump
    BY <2>3, VoterAssumption
  <2>5. f[i] \in Int /\ f[i + 1] \in Int /\ f[n] \in Int
    OBVIOUS
  <2>6. Magnitude(f[i] - f[n]) <= m + MaxJump
    <3>1. PICK x \in Int, y \in Int, z \in Int : x = f[i] /\ y = f[i + 1] /\ z = f[n]
      BY <2>5
    <3>2. PICK jump \in Int : jump = MaxJump
      BY VoterAssumption
    <3>3. Magnitude(x - y) <= jump /\ Magnitude(y - z) <= m
      BY <2>2, <2>3, <3>1, <3>2
    <3>4. Magnitude(x - z) <= m + jump
      BY <3>3 DEF Magnitude
    <3> QED
      BY <3>1, <3>2, <3>4
  <2> QED
    BY <2>1, <2>4, <2>6
<1> HIDE DEF T
<1>3. Nat \subseteq T
  BY <1>1, <1>2, NumberInduction, Zenon
<1> QED
  BY <1>3 DEF T

\* More than half of the positions are the last ones, and those are near the last.
LEMMA MiddleIsNear ==
  ASSUME NEW n \in Nat \ {0}, NEW f \in [1..n -> Int],
         \A i \in 1..n - 1 : Magnitude(f[i] - f[i + 1]) <= MaxJump
  PROVE  Magnitude(Middle(f) - f[n]) <= (n \div 2) * MaxJump
<1>1. PICK k \in 0..n - 1 : k = n \div 2 /\ n <= k + k + 1
  OBVIOUS
<1>2. PICK reach \in Nat : reach = k * MaxJump
  BY VoterAssumption
<1>3. PICK v \in Int : /\ v = Middle(f)
                       /\ Cardinality(Below(f, v)) <= k /\ Cardinality(UpTo(f, v)) > k
  BY <1>1, MiddleIsOne
<1>4. \A i \in n - k..n : Magnitude(f[i] - f[n]) <= reach
  <2> SUFFICES ASSUME NEW i \in n - k..n PROVE Magnitude(f[i] - f[n]) <= reach
    OBVIOUS
  <2>1. PICK d \in 0..n - 1 : d <= k /\ i = n - d
    OBVIOUS
  <2>2. Magnitude(f[n - d] - f[n]) <= d * MaxJump
    BY DriftIsBounded, Zenon
  <2>3. d * MaxJump <= k * MaxJump
    BY <2>1, VoterAssumption
  <2>4. d * MaxJump \in Int /\ Magnitude(f[n - d] - f[n]) \in Int
    BY <2>1, VoterAssumption DEF Magnitude
  <2> QED
    BY <1>2, <2>1, <2>2, <2>3, <2>4
<1>5. Cardinality(n - k..n) = k + 1 /\ IsFiniteSet(n - k..n)
  <2>1. n - k \in Int /\ n \in Int
    OBVIOUS
  <2>2. IsFiniteSet(n - k..n) /\ Cardinality(n - k..n) = IF n - k > n THEN 0 ELSE n - (n - k) + 1
    BY <2>1, FS_Interval
  <2> QED
    BY <2>2
<1>6. ~(v > f[n] + reach)
  <2> SUFFICES ASSUME v > f[n] + reach PROVE FALSE
    OBVIOUS
  <2>1. n - k..n \in SUBSET Below(f, v)
    <3> SUFFICES ASSUME NEW i \in n - k..n PROVE f[i] < v
      BY DEF Below
    <3>1. f[i] \in Int /\ f[n] \in Int
      OBVIOUS
    <3> QED
      BY <1>4, <3>1 DEF Magnitude
  <2>2. IsFiniteSet(Below(f, v)) /\ Cardinality(Below(f, v)) \in Nat
    BY CountsAreNumbers
  <2>3. Cardinality(n - k..n) <= Cardinality(Below(f, v))
    BY <2>1, <2>2, SameOrLess
  <2> QED
    BY <1>1, <1>3, <1>5, <2>2, <2>3
<1>7. ~(v < f[n] - reach)
  <2> SUFFICES ASSUME v < f[n] - reach PROVE FALSE
    OBVIOUS
  <2>1. UpTo(f, v) \in SUBSET (1..n - k - 1)
    <3> SUFFICES ASSUME NEW i \in 1..n, f[i] <= v, ~(i \in 1..n - k - 1) PROVE FALSE
      BY DEF UpTo
    <3>1. i \in n - k..n /\ f[i] \in Int /\ f[n] \in Int
      OBVIOUS
    <3> QED
      BY <1>4, <3>1 DEF Magnitude
  <2>2. PICK m \in Nat : m = n - k - 1
    OBVIOUS
  <2>3. IsFiniteSet(1..m) /\ Cardinality(1..m) = m
    BY IntervalCount
  <2>4. Cardinality(UpTo(f, v)) <= m /\ Cardinality(UpTo(f, v)) \in Nat
    BY <2>1, <2>2, <2>3, SameOrLess
  <2> QED
    BY <1>1, <1>3, <2>2, <2>4
<1>8. f[n] \in Int
  OBVIOUS
<1> QED
  BY <1>1, <1>2, <1>3, <1>6, <1>7, <1>8 DEF Magnitude

\* The positions GpsVoter.update interpolates, for any readings.
THEOREM InterpolationIsNear ==
  ASSUME NEW readings \in Seq(Position)
  PROVE  EstimateNear(readings)
<1>1. PICK voter : voter = AfterReadings(readings)
  OBVIOUS
<1>2. VoterOK(voter)
  BY <1>1, VotersFollow DEF AfterReadings
<1> SUFFICES ASSUME voter.interpolated
             PROVE  /\ Magnitude(voter.fix.x - Last(voter.window).x) <= (Len(voter.window) \div 2) * MaxJump
                    /\ Magnitude(voter.fix.y - Last(voter.window).y) <= (Len(voter.window) \div 2) * MaxJump
  BY <1>1, Zenon DEF EstimateNear
<1>3. PICK window \in Seq(Position) : /\ window = voter.window /\ window # <<>>
                                      /\ NoJumps(window) /\ voter.fix = Median(window)
  BY <1>2 DEF VoterOK, Voter
<1>4. PICK n \in Nat \ {0} : n = Len(window) /\ DOMAIN window = 1..n
  BY <1>3
<1>5. PICK xs : xs = [i \in DOMAIN window |-> window[i].x]
  BY Zenon
<1>6. PICK ys : ys = [i \in DOMAIN window |-> window[i].y]
  BY Zenon
<1>7. \A i \in 1..n : window[i] \in Position
  BY <1>4
<1>8. \A i \in 1..n : /\ window[i].x \in Int /\ xs[i] = window[i].x
                      /\ window[i].y \in Int /\ ys[i] = window[i].y
  BY <1>4, <1>5, <1>6, <1>7 DEF Position
<1>9. xs \in [1..n -> Int] /\ ys \in [1..n -> Int]
  BY <1>4, <1>5, <1>6, <1>8
<1>10. \A i \in 1..n - 1 : Magnitude(xs[i] - xs[i + 1]) <= MaxJump /\ Magnitude(ys[i] - ys[i + 1]) <= MaxJump
  <2> SUFFICES ASSUME NEW i \in 1..n - 1
               PROVE  Magnitude(xs[i] - xs[i + 1]) <= MaxJump /\ Magnitude(ys[i] - ys[i + 1]) <= MaxJump
    OBVIOUS
  <2>1. ~Jumps(window[i], window[i + 1])
    BY <1>3, <1>4 DEF NoJumps
  <2>2. i \in 1..n /\ i + 1 \in 1..n
    OBVIOUS
  <2>3. xs[i] \in Int /\ xs[i + 1] \in Int /\ ys[i] \in Int /\ ys[i + 1] \in Int
    BY <1>8, <2>2, Zenon
  <2> QED
    BY <2>1, <2>2, <2>3, <1>8, VoterAssumption, SMTT(30) DEF Jumps, Magnitude
<1>11. /\ Magnitude(Middle(xs) - xs[n]) <= (n \div 2) * MaxJump
       /\ Magnitude(Middle(ys) - ys[n]) <= (n \div 2) * MaxJump
  BY <1>9, <1>10, MiddleIsNear, Zenon
<1>12. voter.fix.x = Middle(xs) /\ voter.fix.y = Middle(ys)
  BY <1>3, <1>5, <1>6 DEF Median
<1>13. Last(voter.window).x = xs[n] /\ Last(voter.window).y = ys[n] /\ Len(voter.window) = n
  BY <1>3, <1>4, <1>8 DEF Last
<1> QED
  BY <1>11, <1>12, <1>13

\* GpsVoter.update keeps a vehicle that is read in every frame, for any readings.
THEOREM SteadyVehicleIsKept ==
  ASSUME NEW readings \in Seq(Position)
  PROVE  SteadyIsKept(readings)
<1> SUFFICES ASSUME readings # <<>>, readings[1] # Missing, Steady(readings)
             PROVE  AfterReadings(readings).fix = Last(readings)
  BY DEF SteadyIsKept
<1>0. PICK N \in Nat \ {0} : N = Len(readings)
  OBVIOUS
<1> DEFINE Kept(n) == /\ Voters(readings)[n].window # <<>>
                      /\ Last(Voters(readings)[n].window) = readings[n]
                      /\ Voters(readings)[n].fix = readings[n]
           T == {n \in Nat : n \in 1..N => Kept(n)}
<1>1. \A n \in 1..N : readings[n] # Missing /\ readings[n] \in Position
  <2> SUFFICES ASSUME NEW n \in 1..N PROVE readings[n] # Missing
    BY <1>0
  <2>1. CASE n = 1
    BY <2>1
  <2>2. CASE n # 1
    <3>1. n - 1 \in 1..Len(readings) - 1 /\ (n - 1) + 1 = n
      BY <1>0, <2>2
    <3> QED
      BY <3>1, Zenon DEF Steady
  <2> QED
    BY <2>1, <2>2
<1>2. ASSUME NEW n \in 1..N, n # 1 => Kept(n - 1)
      PROVE  Kept(n)
  <2>1. PICK voter : voter = Voters(readings)[n - 1] /\ VoterOK(voter)
    BY <1>0, VotersFollow
  <2>2. Voters(readings)[n] = Update(voter, readings[n])
    BY <1>0, <2>1, VotersFollow
  <2>3. ~Outlier(voter.window, readings[n])
    <3>1. CASE n = 1
      BY <3>1, <2>1, VotersFollow DEF Fresh, Outlier
    <3>2. CASE n # 1
      <4>1. n - 1 \in 1..Len(readings) - 1 /\ (n - 1) + 1 = n /\ n - 1 \in 1..N
        BY <1>0, <3>2
      <4>2. ~Jumps(readings[n - 1], readings[n])
        BY <4>1 DEF Steady
      <4>3. Last(voter.window) = readings[n - 1]
        BY <1>2, <2>1, <3>2
      <4> QED
        BY <4>1, <4>2, <4>3, <1>1, JumpsEitherWay DEF Outlier
    <3> QED
      BY <3>1, <3>2
  <2>4. Update(voter, readings[n]) =
          [window |-> Keep(voter.window, readings[n]), fix |-> readings[n], interpolated |-> FALSE]
    BY <2>3, <1>1 DEF Update
  <2>5. /\ Keep(voter.window, readings[n]) \in Seq(Position)
        /\ Len(Keep(voter.window, readings[n])) \in 1..Window
        /\ Last(Keep(voter.window, readings[n])) = readings[n]
    BY <2>1, <2>3, <1>1, KeepProperties DEF VoterOK, Voter
  <2>6. Keep(voter.window, readings[n]) # <<>>
    BY <2>5
  <2> QED
    BY <2>2, <2>4, <2>5, <2>6
<1> HIDE DEF Kept
<1>3. 0 \in T
  OBVIOUS
<1>4. ASSUME NEW n \in Nat, n \in T PROVE n + 1 \in T
  BY <1>2, <1>4
<1> HIDE DEF T
<1>5. Nat \subseteq T
  BY <1>3, <1>4, NumberInduction
<1>6. Kept(N)
  BY <1>5 DEF T
<1> QED
  BY <1>0, <1>6 DEF Kept, AfterReadings, Last

-----------------------------------------------------------------------------
\* spatial.cluster_detections.

Partition(points) == Seq(SUBSET (1..Len(points)))

\* What a visit of the loop over the rows keeps true of the clusters.
ClustersOK(points, clusters, n) ==
  /\ clusters \in Partition(points)
  /\ 1..n \subseteq Used(clusters)
  /\ \A i \in 1..Len(clusters) :
       /\ Seed(clusters[i]) \in clusters[i] /\ Seed(clusters[i]) \in 1..n
       /\ \A j \in clusters[i] : Seed(clusters[i]) <= j /\ Near(points, Seed(clusters[i]), j)
       /\ \A j \in 1..Len(points) :
            j > Seed(clusters[i]) /\ Near(points, Seed(clusters[i]), j) => j \in Used(clusters)
  /\ \A i, k \in 1..Len(clusters) : i < k =>
       /\ clusters[i] \intersect clusters[k] = {}
       /\ Seed(clusters[i]) < Seed(clusters[k])
       /\ \A j \in clusters[k] : ~Near(points, Seed(clusters[i]), j)

\* The seed of a cluster is its first member.
LEMMA SeedIsLeast ==
  ASSUME NEW c \in SUBSET Nat, NEW s \in c, \A j \in c : s <= j
  PROVE  Seed(c) = s
<1>1. \A t \in c : (\A j \in c : t <= j) => t = s
  <2> SUFFICES ASSUME NEW t \in c, \A j \in c : t <= j PROVE t = s
    OBVIOUS
  <2>1. t <= s /\ s <= t /\ s \in Nat /\ t \in Nat
    OBVIOUS
  <2> QED
    BY <2>1
<1> QED
  BY <1>1, Zenon DEF Seed

\* A row is near itself.
LEMMA NearItself ==
  ASSUME NEW points \in Seq(Position), NEW i \in 1..Len(points)
  PROVE  Near(points, i, i)
<1>1. PICK p \in Position : p = points[i]
  OBVIOUS
<1>2. p.x \in Int /\ p.y \in Int
  BY DEF Position
<1>3. Distance2(p, p) = 0
  BY <1>2 DEF Distance2, Dot, Minus
<1>4. Square(Radius) >= 0
  BY RadiusAssumption DEF Square
<1> QED
  BY <1>1, <1>3, <1>4 DEF Near

\* The used rows are the members of the clusters.
LEMMA UsedIsMembers ==
  ASSUME NEW points, NEW clusters \in Partition(points)
  PROVE  /\ Used(clusters) \subseteq 1..Len(points)
         /\ \A j : j \in Used(clusters) <=> \E i \in 1..Len(clusters) : j \in clusters[i]
<1>1. DOMAIN clusters = 1..Len(clusters) /\ \A i \in 1..Len(clusters) : clusters[i] \in SUBSET (1..Len(points))
  BY DEF Partition
<1>2. ToSet(clusters) = {clusters[i] : i \in 1..Len(clusters)}
  BY <1>1 DEF ToSet
<1> QED
  BY <1>1, <1>2 DEF Used

\* The visit of a row keeps the clusters so for one row more.
LEMMA VisitKeeps ==
  ASSUME NEW points \in Seq(Position), NEW n \in 1..Len(points),
         NEW clusters, ClustersOK(points, clusters, n - 1)
  PROVE  ClustersOK(points, Visit(points, clusters, n), n)
<1>0. clusters \in Partition(points)
  BY DEF ClustersOK
<1>1. CASE n \in Used(clusters)
  <2>1. Visit(points, clusters, n) = clusters
    BY <1>1 DEF Visit
  <2>2. 1..n \subseteq Used(clusters)
    <3>1. 1..n = 1..n - 1 \union {n}
      OBVIOUS
    <3> QED
      BY <1>1, <3>1 DEF ClustersOK
  <2>3. 1..n - 1 \subseteq 1..n
    OBVIOUS
  <2> QED
    BY <2>1, <2>2, <2>3 DEF ClustersOK
<1>2. CASE n \notin Used(clusters)
  <2>1. PICK g : g = Group(points, clusters, n)
    OBVIOUS
  <2>2. PICK L \in Nat : L = Len(clusters)
    BY <1>0 DEF Partition
  <2>3. /\ g \in SUBSET (1..Len(points)) /\ n \in g
        /\ \A j \in g : n <= j /\ Near(points, n, j) /\ j \notin Used(clusters)
        /\ \A j \in 1..Len(points) : j > n /\ Near(points, n, j) /\ j \notin Used(clusters) => j \in g
    BY <1>2, <2>1, NearItself DEF Group
  <2>4. Seed(g) = n
    <3>1. g \in SUBSET Nat
      BY <2>3
    <3> QED
      BY <2>3, <3>1, SeedIsLeast
  <2>5. PICK new : new = Append(clusters, g)
    BY Zenon
  <2>6. /\ new \in Partition(points) /\ Len(new) = L + 1 /\ new[L + 1] = g
        /\ \A i \in 1..L : new[i] = clusters[i]
    BY <1>0, <2>2, <2>3, <2>5 DEF Partition
  <2>7. \A j : j \in Used(new) <=> j \in Used(clusters) \/ j \in g
    <3>1. \A j : j \in Used(new) <=> \E i \in 1..L + 1 : j \in new[i]
      BY <2>6, UsedIsMembers
    <3>2. \A j : j \in Used(clusters) <=> \E i \in 1..L : j \in clusters[i]
      BY <1>0, <2>2, UsedIsMembers
    <3>3. 1..L + 1 = 1..L \union {L + 1}
      OBVIOUS
    <3> QED
      BY <2>6, <3>1, <3>2, <3>3
  <2>8. 1..n \subseteq Used(new)
    <3>1. 1..n = 1..n - 1 \union {n}
      OBVIOUS
    <3>2. 1..n - 1 \subseteq Used(clusters)
      BY DEF ClustersOK
    <3> QED
      BY <2>3, <2>7, <3>1, <3>2
  <2>9. ASSUME NEW i \in 1..L + 1
        PROVE  /\ Seed(new[i]) \in new[i] /\ Seed(new[i]) \in 1..n
               /\ \A j \in new[i] : Seed(new[i]) <= j /\ Near(points, Seed(new[i]), j)
               /\ \A j \in 1..Len(points) :
                    j > Seed(new[i]) /\ Near(points, Seed(new[i]), j) => j \in Used(new)
    <3>1. CASE i \in 1..L
      <4>1. new[i] = clusters[i]
        BY <2>6, <3>1
      <4>2. /\ Seed(clusters[i]) \in clusters[i] /\ Seed(clusters[i]) \in 1..n - 1
            /\ \A j \in clusters[i] : Seed(clusters[i]) <= j /\ Near(points, Seed(clusters[i]), j)
            /\ \A j \in 1..Len(points) :
                 j > Seed(clusters[i]) /\ Near(points, Seed(clusters[i]), j) => j \in Used(clusters)
        BY <2>2, <3>1 DEF ClustersOK
      <4>3. 1..n - 1 \subseteq 1..n
        OBVIOUS
      <4> QED
        BY <2>7, <4>1, <4>2, <4>3
    <3>2. CASE i = L + 1
      BY <2>3, <2>4, <2>6, <2>7, <3>2
    <3> QED
      BY <3>1, <3>2
  <2>10. ASSUME NEW i \in 1..L + 1, NEW k \in 1..L + 1, i < k
         PROVE  /\ new[i] \intersect new[k] = {}
                /\ Seed(new[i]) < Seed(new[k])
                /\ \A j \in new[k] : ~Near(points, Seed(new[i]), j)
    <3>1. i \in 1..L /\ new[i] = clusters[i]
      BY <2>6, <2>10
    <3>2. CASE k \in 1..L
      <4>1. new[k] = clusters[k]
        BY <2>6, <3>2
      <4> QED
        BY <2>2, <2>10, <3>1, <3>2, <4>1 DEF ClustersOK
    <3>3. CASE k = L + 1
      <4>1. new[k] = g
        BY <2>6, <3>3
      <4>2. clusters[i] \subseteq Used(clusters)
        BY <1>0, <2>2, <3>1, UsedIsMembers
      <4>3. Seed(clusters[i]) \in 1..n - 1
        BY <2>2, <3>1 DEF ClustersOK
      <4>4. Seed(clusters[i]) < n
        BY <4>3
      <4>5. ASSUME NEW j \in g, Near(points, Seed(clusters[i]), j) PROVE FALSE
        <5>1. j \in 1..Len(points) /\ j \notin Used(clusters) /\ n <= j
          BY <2>3
        <5>2. j > Seed(clusters[i])
          BY <4>3, <5>1
        <5> QED
          BY <2>2, <3>1, <4>5, <5>1, <5>2 DEF ClustersOK
      <4> QED
        BY <2>3, <2>4, <3>1, <4>1, <4>2, <4>4, <4>5
    <3> QED
      BY <3>2, <3>3
  <2>11. Visit(points, clusters, n) = new
    BY <1>2, <2>1, <2>5 DEF Visit
  <2> QED
    BY <2>6, <2>8, <2>9, <2>10, <2>11 DEF ClustersOK
<1> QED
  BY <1>1, <1>2

\* So they are after any number of rows.
LEMMA ClustersFollow ==
  ASSUME NEW points \in Seq(Position)
  PROVE  \A n \in 0..Len(points) : ClustersOK(points, Clusters(points)[n], n)
<1> DEFINE V == Partition(points)
<1>0. PICK N \in Nat : N = Len(points)
  OBVIOUS
<1>1. <<>> \in V
  BY DEF Partition
<1>2. \A c \in V, i \in 1..N : Visit(points, c, i) \in V
  <2> SUFFICES ASSUME NEW c \in V, NEW i \in 1..N PROVE Visit(points, c, i) \in V
    OBVIOUS
  <2>1. Group(points, c, i) \in SUBSET (1..Len(points))
    BY <1>0 DEF Group
  <2> QED
    BY <2>1 DEF Visit, Partition
<1> HIDE DEF V
<1>3. PICK next \in [1..N -> [V -> V]] : \A i \in 1..N, v \in V : next[i][v] = Visit(points, v, i)
  <2>1. [i \in 1..N |-> [v \in V |-> Visit(points, v, i)]] \in [1..N -> [V -> V]]
    BY <1>2
  <2> QED
    BY <2>1, Zenon
<1>4. PICK h \in [0..N -> V] : Run(h, N, <<>>, next)
  BY <1>1, RecursionExists, Zenon
<1>5. h = [n \in 0..N |-> IF n = 0 THEN <<>> ELSE Visit(points, h[n - 1], n)]
  <2>1. ASSUME NEW i \in 0..N PROVE h[i] = IF i = 0 THEN <<>> ELSE Visit(points, h[i - 1], i)
    <3>1. CASE i = 0
      BY <1>4, <3>1 DEF Run
    <3>2. CASE i # 0
      <4>1. i \in 1..N /\ h[i - 1] \in V
        BY <3>2
      <4>2. h[i] = next[i][h[i - 1]]
        BY <1>4, <3>2 DEF Run
      <4> QED
        BY <4>1, <4>2, <1>3, <3>2
    <3> QED
      BY <3>1, <3>2
  <2> QED
    BY <2>1
<1>6. Clusters(points) = [n \in 0..N |-> IF n = 0 THEN <<>> ELSE Visit(points, Clusters(points)[n - 1], n)]
  BY <1>0, <1>5, Zenon DEF Clusters
<1> DEFINE T == {n \in Nat : n <= N => ClustersOK(points, Clusters(points)[n], n)}
<1>7. 0 \in T
  <2>1. Clusters(points)[0] = <<>>
    BY <1>6
  <2>2. ClustersOK(points, <<>>, 0)
    BY <1>1 DEF V, ClustersOK
  <2> QED
    BY <2>1, <2>2
<1>8. ASSUME NEW n \in Nat, n \in T PROVE n + 1 \in T
  <2> SUFFICES ASSUME n + 1 <= N PROVE ClustersOK(points, Clusters(points)[n + 1], n + 1)
    OBVIOUS
  <2>1. PICK m \in 1..N : m = n + 1 /\ n = m - 1
    OBVIOUS
  <2>2. Clusters(points)[m] = Visit(points, Clusters(points)[m - 1], m)
    BY <1>6
  <2>3. ClustersOK(points, Clusters(points)[m - 1], m - 1)
    BY <1>8, <2>1
  <2> QED
    BY <1>0, <2>1, <2>2, <2>3, VisitKeeps
<1> HIDE DEF T
<1>9. Nat \subseteq T
  BY <1>7, <1>8, NumberInduction, Zenon
<1> QED
  BY <1>0, <1>9 DEF T

\* Being near is mutual.
LEMMA NearIsMutual ==
  ASSUME NEW points \in Seq(Position), NEW i \in 1..Len(points), NEW j \in 1..Len(points)
  PROVE  Near(points, i, j) <=> Near(points, j, i)
<1>1. PICK p \in Position, q \in Position : p = points[i] /\ q = points[j]
  OBVIOUS
<1>2. p.x \in Int /\ p.y \in Int /\ q.x \in Int /\ q.y \in Int
  BY DEF Position
<1>3. Distance2(p, q) = Distance2(q, p)
  BY <1>2 DEF Distance2, Dot, Minus
<1> QED
  BY <1>1, <1>3 DEF Near

\* cluster_detections makes a partition into clusters that hang together, for any rows
\* and radius.
THEOREM ClusteringIsSound ==
  ASSUME NEW points \in Seq(Position)
  PROVE  Sound(points)
<1>1. PICK clusters : clusters = ClusterDetections(points) /\ ClustersOK(points, clusters, Len(points))
  BY ClustersFollow DEF ClusterDetections
<1>2. clusters \in Partition(points)
  BY <1>1 DEF ClustersOK
<1>3. DOMAIN clusters = 1..Len(clusters) /\ DOMAIN points = 1..Len(points)
  BY <1>2 DEF Partition
<1>4. \A p \in DOMAIN points : \E i \in DOMAIN clusters : p \in clusters[i]
  BY <1>1, <1>2, <1>3, UsedIsMembers, Zenon DEF ClustersOK
<1>5. ASSUME NEW i \in DOMAIN clusters, NEW k \in DOMAIN clusters, i < k
      PROVE  /\ clusters[i] \intersect clusters[k] = {}
             /\ ~Near(points, Seed(clusters[i]), Seed(clusters[k]))
  BY <1>1, <1>3, <1>5 DEF ClustersOK
<1>6. ASSUME NEW i \in DOMAIN clusters, NEW part \in (SUBSET clusters[i]) \ {{}, clusters[i]}
      PROVE  \E p \in part, q \in clusters[i] \ part : Near(points, p, q)
  <2>1. PICK s : s = Seed(clusters[i])
    OBVIOUS
  <2>2. /\ s \in clusters[i] /\ clusters[i] \subseteq 1..Len(points)
        /\ \A j \in clusters[i] : Near(points, s, j) /\ Near(points, j, s)
    <3>1. clusters[i] \subseteq 1..Len(points)
      BY <1>2, <1>3 DEF Partition
    <3>2. s \in clusters[i] /\ \A j \in clusters[i] : Near(points, s, j)
      BY <1>1, <1>3, <2>1 DEF ClustersOK
    <3> QED
      BY <3>1, <3>2, NearIsMutual
  <2>3. PICK c : c = clusters[i]
    OBVIOUS
  <2>4. part \subseteq c /\ part # {} /\ part # c
    BY <2>3, Zenon
  <2>5. s \in c /\ \A j \in c : Near(points, s, j) /\ Near(points, j, s)
    BY <2>2, <2>3
  <2>6. CASE s \in part
    <3>1. PICK q \in c : q \notin part
      BY <2>4, Zenon
    <3> QED
      BY <2>3, <2>5, <2>6, <3>1, Zenon
  <2>7. CASE s \notin part
    <3>1. PICK p \in c : p \in part
      BY <2>4, Zenon
    <3> QED
      BY <2>3, <2>5, <2>7, <3>1, Zenon
  <2> QED
    BY <2>6, <2>7
<1> QED
  BY <1>1, <1>4, <1>5, <1>6 DEF Sound

\* The square of a distance after a part q of n of a movement.
LEMMA LengthAlong ==
  ASSUME NEW x \in Int, NEW y \in Int, NEW u \in Int, NEW v \in Int, NEW n \in Int, NEW q \in Int
  PROVE  (x * n + q * u) * (x * n + q * u) + (y * n + q * v) * (y * n + q * v)
           = (n * n) * (x * x + y * y) + 2 * ((n * q) * (x * u + y * v)) + (q * q) * (u * u + v * v)
OBVIOUS

\* What two such squares differ by, where p of s is another part.
LEMMA Difference ==
  ASSUME NEW r \in Int, NEW t \in Int, NEW s \in Int, NEW n \in Int, NEW q \in Int, NEW p \in Int
  PROVE  (s * s) * ((n * n) * r + 2 * ((n * q) * t) + (q * q) * s)
           - (n * n) * ((s * s) * r + 2 * ((s * p) * t) + (p * p) * s)
         = s * ((q * s - n * p) * (q * s + n * p + 2 * (n * t)))
OBVIOUS

\* The sign of a product.
LEMMA ProductSigns ==
  ASSUME NEW a \in Int, NEW b \in Int
  PROVE  /\ a >= 0 /\ b >= 0 => a * b >= 0
         /\ a <= 0 /\ b <= 0 => a * b >= 0
         /\ a < 0 /\ b < 0 => a * b > 0
         /\ a > 0 /\ b > 0 => a * b > 0
         /\ a > 0 /\ b >= 0 => a * b >= 0
         /\ a * a >= 0
OBVIOUS

\* The difference has no sign, where p is the closest part, clamped.
LEMMA Signs ==
  ASSUME NEW s \in Nat \ {0}, NEW t \in Int, NEW n \in Nat \ {0}, NEW q \in 0..n,
         NEW p \in Int, p = Clamp(0, -t, s)
  PROVE  /\ (q * s - n * p) * (q * s + n * p + 2 * (n * t)) >= 0
         /\ q * s < n * p => (q * s - n * p) * (q * s + n * p + 2 * (n * t)) > 0
<1>1. PICK qs \in Int : qs = q * s
  OBVIOUS
<1>2. PICK np \in Int : np = n * p
  OBVIOUS
<1>3. PICK nt \in Int : nt = n * t
  OBVIOUS
<1>4. PICK ns \in Int : ns = n * s
  OBVIOUS
<1>5. qs >= 0 /\ qs <= ns
  BY <1>1, <1>4
<1>6. CASE t > 0
  <2>1. p = 0
    BY <1>6 DEF Clamp
  <2>2. np = 0 /\ nt >= 0
    BY <1>2, <1>3, <1>6, <2>1
  <2>3. qs - np >= 0 /\ qs + np + 2 * nt >= 0
    BY <1>5, <2>2
  <2> QED
    BY <1>1, <1>2, <1>3, <2>2, <2>3, <1>5, ProductSigns
<1>7. CASE t <= 0 /\ -t <= s
  <2>1. p = -t
    BY <1>7 DEF Clamp
  <2>2. np = -nt
    BY <1>2, <1>3, <2>1
  <2>3. qs + np + 2 * nt = qs - np
    BY <2>2
  <2> QED
    BY <1>1, <1>2, <1>3, <2>3, ProductSigns
<1>8. CASE t <= 0 /\ ~(-t <= s)
  <2>1. p = s
    BY <1>8 DEF Clamp
  <2>2. np = ns
    BY <1>2, <1>4, <2>1
  <2>3. nt < -ns
    <3>1. t < -s
      BY <1>8
    <3>2. n * t < n * (-s)
      BY <3>1
    <3> QED
      BY <1>3, <1>4, <3>2
  <2>4. qs - np <= 0 /\ qs + np + 2 * nt < 0
    BY <1>5, <2>2, <2>3
  <2> QED
    BY <1>1, <1>2, <1>3, <2>4, ProductSigns
<1> QED
  BY <1>6, <1>7, <1>8

Moment == [sq : Nat, s : Nat \ {0}, ttc : Int]

\* What a moment is made of.
LEMMA MomentFields ==
  ASSUME NEW rel \in Position, NEW d \in Position, NEW p \in Int, NEW n \in Nat \ {0},
         NEW from \in Int, NEW to \in Int
  PROVE  LET m == D!MomentAt(rel, d, p, n, from, to)
         IN  /\ m \in Moment
             /\ m.s = n
             /\ m.ttc = from * n + (to - from) * p
             /\ m.sq = (rel.x * n + p * d.x) * (rel.x * n + p * d.x)
                         + (rel.y * n + p * d.y) * (rel.y * n + p * d.y)
<1>0. PICK x \in Int, y \in Int, u \in Int, v \in Int : rel.x = x /\ rel.y = y /\ d.x = u /\ d.y = v
  BY DEF Position
<1>1. PICK X \in Int, Y \in Int : X = x * n + p * u /\ Y = y * n + p * v
  OBVIOUS
<1>2. D!MomentAt(rel, d, p, n, from, to) = [sq |-> X * X + Y * Y, s |-> n, ttc |-> from * n + (to - from) * p]
  BY <1>0, <1>1 DEF D!MomentAt, D!Dot
<1>3. X * X + Y * Y \in Nat
  BY ProductSigns
<1>4. from * n + (to - from) * p \in Int
  OBVIOUS
<1> QED
  BY <1>0, <1>1, <1>2, <1>3, <1>4 DEF Moment

\* Differences of positions are positions.
LEMMA MinusType ==
  ASSUME NEW p \in Position, NEW q \in Position
  PROVE  D!Minus(p, q) \in Position
BY DEF D!Minus, Position

\* m is no farther than k; and closer, if k is earlier.
FirstOf(m, k) == ~D!Closer(k, m) /\ (k.ttc * m.s < m.ttc * k.s => D!Closer(m, k))

\* Two moments of an interval that are alike but for how they are reached.
LEMMA CpaIsFirst ==
  ASSUME NEW rel \in Position, NEW d \in Position, NEW from \in Int, NEW to \in Int, from < to,
         NEW s \in Nat \ {0}, s = D!Dot(d, d), NEW p \in Int, p = D!Clamp(0, -D!Dot(rel, d), s),
         NEW n \in Nat \ {0}, NEW q \in 0..n
  PROVE  FirstOf(D!MomentAt(rel, d, p, s, from, to), D!MomentAt(rel, d, q, n, from, to))
<1>1. PICK x \in Int, y \in Int, u \in Int, v \in Int : rel.x = x /\ rel.y = y /\ d.x = u /\ d.y = v
  BY DEF Position
<1>2. PICK t \in Int : t = x * u + y * v /\ t = D!Dot(rel, d)
  BY <1>1 DEF D!Dot
<1>3. PICK r \in Int : r = x * x + y * y
  OBVIOUS
<1>4. s = u * u + v * v
  BY <1>1 DEF D!Dot
<1>5. PICK m : m = D!MomentAt(rel, d, p, s, from, to)
  OBVIOUS
<1>6. PICK k : k = D!MomentAt(rel, d, q, n, from, to)
  OBVIOUS
<1>7. /\ m.s = s /\ m.ttc = from * s + (to - from) * p
      /\ m.sq = (s * s) * r + 2 * ((s * p) * t) + (p * p) * s
  <2>1. /\ m.s = s /\ m.ttc = from * s + (to - from) * p
        /\ m.sq = (x * s + p * u) * (x * s + p * u) + (y * s + p * v) * (y * s + p * v)
    BY <1>1, <1>5, MomentFields
  <2>2. (x * s + p * u) * (x * s + p * u) + (y * s + p * v) * (y * s + p * v)
          = (s * s) * (x * x + y * y) + 2 * ((s * p) * (x * u + y * v)) + (p * p) * (u * u + v * v)
    BY LengthAlong
  <2> QED
    BY <2>1, <2>2, <1>2, <1>3, <1>4
<1>8. /\ k.s = n /\ k.ttc = from * n + (to - from) * q
      /\ k.sq = (n * n) * r + 2 * ((n * q) * t) + (q * q) * s
  BY <1>1, <1>2, <1>3, <1>4, <1>6, MomentFields, LengthAlong
<1>9. PICK g \in Int : g = (q * s - n * p) * (q * s + n * p + 2 * (n * t))
  OBVIOUS
<1>10. g >= 0 /\ (q * s < n * p => g > 0)
  <2>1. p = Clamp(0, -t, s)
    BY <1>2 DEF D!Clamp, Clamp
  <2> QED
    BY <1>9, <2>1, Signs, Zenon
<1>11. (s * s) * k.sq - (n * n) * m.sq = s * g
  BY <1>7, <1>8, <1>9, Difference
<1>12. s * g >= 0 /\ (g > 0 => s * g > 0)
  BY <1>10, ProductSigns
<1>15. k.sq \in Int /\ m.sq \in Int
  BY <1>5, <1>6, MomentFields DEF Moment
<1>13. D!Closer(k, m) <=> k.sq * (s * s) < m.sq * (n * n)
  BY <1>7, <1>8, <1>15 DEF D!Closer, D!Square
<1>14. D!Closer(m, k) <=> m.sq * (n * n) < k.sq * (s * s)
  BY <1>7, <1>8, <1>15 DEF D!Closer, D!Square
<1>16. PICK K \in Int, M \in Int : K = k.sq * (s * s) /\ M = m.sq * (n * n)
  BY <1>15
<1>17. K - M = s * g
  BY <1>11, <1>15, <1>16
<1>18. s * g \in Int
  OBVIOUS
<1>19. ~D!Closer(k, m) /\ (g > 0 => D!Closer(m, k))
  BY <1>12, <1>13, <1>14, <1>16, <1>17, <1>18
<1>20. k.ttc * m.s < m.ttc * k.s => q * s < n * p
  <2>1. k.ttc * m.s = (from * n) * s + (to - from) * (q * s)
    BY <1>7, <1>8
  <2>2. m.ttc * k.s = (from * n) * s + (to - from) * (n * p)
    BY <1>7, <1>8
  <2>3. PICK qs \in Int : qs = q * s
    OBVIOUS
  <2>4. PICK np \in Int : np = n * p
    OBVIOUS
  <2>5. PICK dt \in Nat : dt = to - from
    OBVIOUS
  <2>6. PICK fns \in Int : fns = (from * n) * s
    OBVIOUS
  <2>7. qs >= np => dt * qs >= dt * np
    OBVIOUS
  <2>8. PICK a \in Int, b \in Int : a = dt * qs /\ b = dt * np
    OBVIOUS
  <2>9. k.ttc * m.s = fns + a /\ m.ttc * k.s = fns + b
    BY <2>1, <2>2, <2>3, <2>4, <2>5, <2>6, <2>8
  <2> QED
    BY <2>3, <2>4, <2>7, <2>8, <2>9
<1> QED
  BY <1>5, <1>6, <1>10, <1>19, <1>20 DEF FirstOf

\* Where the squares sum to zero, both numbers are zero.
LEMMA ZeroSquares ==
  ASSUME NEW u \in Int, NEW v \in Int, u * u + v * v = 0
  PROVE  u = 0 /\ v = 0
<1>1. \A w \in Int : w * w >= 0 /\ (w # 0 => w * w > 0)
  OBVIOUS
<1>2. PICK a \in Nat, b \in Nat : a = u * u /\ b = v * v
  BY <1>1
<1>3. a + b = 0
  BY <1>2
<1>4. a = 0 /\ b = 0
  BY <1>3
<1> QED
  BY <1>1, <1>2, <1>4

\* _cpa_in_interval gives the first of the closest moments of an interval.
LEMMA IntervalFirst ==
  ASSUME NEW a1 \in Position, NEW a2 \in Position, NEW b1 \in Position, NEW b2 \in Position,
         NEW from \in Int, NEW to \in Int, from < to,
         NEW rel, rel = D!Minus(a1, b1), NEW d, d = D!Minus(D!Minus(a2, b2), rel),
         NEW m, m = D!CpaInInterval(a1, a2, b1, b2, from, to)
  PROVE  /\ m \in Moment
         /\ \E p \in 0..m.s : m = D!MomentAt(rel, d, p, m.s, from, to)
         /\ \A n \in Nat \ {0} : \A q \in 0..n : FirstOf(m, D!MomentAt(rel, d, q, n, from, to))
<1>1. rel \in Position /\ d \in Position
  BY MinusType
<1>2. PICK x \in Int, y \in Int, u \in Int, v \in Int : rel.x = x /\ rel.y = y /\ d.x = u /\ d.y = v
  BY <1>1 DEF Position
<1>3. PICK s \in Int : s = D!Dot(d, d) /\ s = u * u + v * v
  BY <1>2 DEF D!Dot
<1>4. s >= 0
  BY <1>3, ProductSigns
<1>5. CASE s = 0
  <2>1. m = D!MomentAt(rel, d, 0, 1, from, to)
    BY <1>3, <1>5 DEF D!CpaInInterval
  <2>2. u = 0 /\ v = 0
    BY <1>3, <1>5, ZeroSquares
  <2>3. m \in Moment /\ m.s = 1 /\ m.ttc = from * 1 + (to - from) * 0
        /\ m.sq = (x * 1 + 0 * u) * (x * 1 + 0 * u) + (y * 1 + 0 * v) * (y * 1 + 0 * v)
    BY <1>1, <1>2, <2>1, MomentFields
  <2>4. m.ttc = from /\ m.sq = x * x + y * y
    BY <2>2, <2>3
  <2>5. ASSUME NEW n \in Nat \ {0}, NEW q \in 0..n
        PROVE  FirstOf(m, D!MomentAt(rel, d, q, n, from, to))
    <3>1. PICK k : k = D!MomentAt(rel, d, q, n, from, to)
      OBVIOUS
    <3>2. k.s = n /\ k.ttc = from * n + (to - from) * q
          /\ k.sq = (x * n + q * u) * (x * n + q * u) + (y * n + q * v) * (y * n + q * v)
      BY <1>1, <1>2, <3>1, MomentFields, SMTT(30)
    <3>3. x * n + q * u = x * n /\ y * n + q * v = y * n
      BY <2>2
    <3>4. k.sq = (x * n) * (x * n) + (y * n) * (y * n)
      BY <3>2, <3>3
    <3>5. (x * n) * (x * n) + (y * n) * (y * n) = (x * x + y * y) * (n * n)
      OBVIOUS
    <3>6. k.sq * (1 * 1) = m.sq * (n * n) /\ k.sq \in Int
      BY <2>4, <3>4, <3>5
    <3>7. ~D!Closer(k, m)
      BY <2>3, <3>2, <3>6 DEF D!Closer, D!Square
    <3>8. (to - from) * q >= 0
      OBVIOUS
    <3>9. ~(k.ttc * 1 < m.ttc * n)
      BY <2>4, <3>2, <3>8
    <3> QED
      BY <3>1, <3>7, <3>9, <2>3, <3>2 DEF FirstOf
  <2> QED
    BY <2>1, <2>3, <2>5
<1>6. CASE s # 0
  <2>1. PICK p \in Int : p = D!Clamp(0, -D!Dot(rel, d), s)
    BY <1>1, <1>2, <1>3 DEF D!Clamp, D!Dot
  <2>2. p \in 0..s
    BY <1>2, <1>4, <2>1 DEF D!Clamp, D!Dot
  <2>3. m = D!MomentAt(rel, d, p, s, from, to)
    BY <1>3, <1>6, <2>1 DEF D!CpaInInterval
  <2>4. s \in Nat \ {0}
    BY <1>4, <1>6
  <2>5. m \in Moment /\ m.s = s
    BY <1>1, <2>1, <2>3, <2>4, MomentFields
  <2>6. \A n \in Nat \ {0} : \A q \in 0..n : FirstOf(m, D!MomentAt(rel, d, q, n, from, to))
    <3> SUFFICES ASSUME NEW n \in Nat \ {0}, NEW q \in 0..n
                 PROVE  FirstOf(D!MomentAt(rel, d, p, s, from, to), D!MomentAt(rel, d, q, n, from, to))
      BY <2>3
    <3>1. s = D!Dot(d, d)
      BY <1>3
    <3> QED
      BY <1>1, <2>1, <2>4, <3>1, CpaIsFirst
  <2> QED
    BY <2>2, <2>3, <2>5, <2>6
<1> QED
  BY <1>5, <1>6

\* Fractions are ordered by their cross products.
LEMMA Cross ==
  ASSUME NEW x \in Int, NEW y \in Int, NEW z \in Int,
         NEW a \in Nat \ {0}, NEW b \in Nat \ {0}, NEW c \in Nat \ {0}
  PROVE  /\ x * b < y * a /\ y * c <= z * b => x * c < z * a
         /\ x * b <= y * a /\ y * c < z * b => x * c < z * a
         /\ x * b <= y * a /\ y * c <= z * b => x * c <= z * a
<1>1. \A m, n \in Int, k \in Nat \ {0} : (m < n <=> k * m < k * n) /\ (m <= n <=> k * m <= k * n)
  OBVIOUS
<1>2. PICK xb \in Int, ya \in Int, yc \in Int, zb \in Int, xc \in Int, za \in Int :
        xb = x * b /\ ya = y * a /\ yc = y * c /\ zb = z * b /\ xc = x * c /\ za = z * a
  OBVIOUS
<1>3. b * xc = c * xb /\ c * ya = a * yc /\ a * zb = b * za
  BY <1>2
<1>4. PICK bxc \in Int, ayc \in Int, bza \in Int : bxc = b * xc /\ ayc = a * yc /\ bza = b * za
  OBVIOUS
<1>5. (xb < ya <=> bxc < ayc) /\ (xb <= ya <=> bxc <= ayc)
  BY <1>1, <1>3, <1>4
<1>6. (yc < zb <=> ayc < bza) /\ (yc <= zb <=> ayc <= bza)
  BY <1>1, <1>3, <1>4
<1>7. (xc < za <=> bxc < bza) /\ (xc <= za <=> bxc <= bza)
  BY <1>1, <1>4
<1> QED
  BY <1>2, <1>5, <1>6, <1>7

\* Closer is an order of moments.
LEMMA CloserOrder ==
  ASSUME NEW a \in Moment, NEW b \in Moment, NEW c \in Moment
  PROVE  /\ D!Closer(a, b) /\ ~D!Closer(c, b) => D!Closer(a, c)
         /\ ~D!Closer(b, a) /\ D!Closer(b, c) => D!Closer(a, c)
         /\ ~D!Closer(b, a) /\ ~D!Closer(c, b) => ~D!Closer(c, a)
         /\ ~D!Closer(a, a)
         /\ D!Closer(a, b) => ~D!Closer(b, a)
<1>1. PICK x \in Nat, y \in Nat, z \in Nat : x = a.sq /\ y = b.sq /\ z = c.sq
  BY DEF Moment
<1>2. \A n \in Nat \ {0} : n * n \in Nat \ {0}
  OBVIOUS
<1>3. PICK k \in Nat \ {0}, l \in Nat \ {0}, m \in Nat \ {0} :
        k = D!Square(a.s) /\ l = D!Square(b.s) /\ m = D!Square(c.s)
  BY <1>2 DEF Moment, D!Square
<1>4. /\ D!Closer(a, b) <=> x * l < y * k
      /\ D!Closer(b, a) <=> y * k < x * l
      /\ D!Closer(b, c) <=> y * m < z * l
      /\ D!Closer(c, b) <=> z * l < y * m
      /\ D!Closer(a, c) <=> x * m < z * k
      /\ D!Closer(c, a) <=> z * k < x * m
      /\ D!Closer(a, a) <=> x * k < x * k
  BY <1>1, <1>3 DEF D!Closer
<1>5. PICK xl \in Int, yk \in Int, ym \in Int, zl \in Int, xm \in Int, zk \in Int, xk \in Int :
        xl = x * l /\ yk = y * k /\ ym = y * m /\ zl = z * l /\ xm = x * m /\ zk = z * k /\ xk = x * k
  OBVIOUS
<1>6. /\ xl < yk /\ ym <= zl => xm < zk
      /\ xl <= yk /\ ym < zl => xm < zk
      /\ xl <= yk /\ ym <= zl => xm <= zk
  BY <1>5, Cross
<1> QED
  BY <1>4, <1>5, <1>6

\* The first of the closest moments is kept.
LEMMA BestIsFirst ==
  ASSUME NEW moments \in Seq(Moment), moments # <<>>
  PROVE  \E j \in 1..Len(moments) :
           /\ D!Best(moments) = moments[j]
           /\ \A i \in 1..Len(moments) : ~D!Closer(moments[i], moments[j])
           /\ \A i \in 1..j - 1 : D!Closer(moments[j], moments[i])
<1>0. PICK N \in Nat \ {0} : N = Len(moments)
  OBVIOUS
<1>1. moments[1] \in Moment /\ \A i \in 1..N : moments[i] \in Moment
  BY <1>0
<1>2. PICK next \in [1..N -> [Moment -> Moment]] : \A i \in 1..N, v \in Moment : next[i][v] = D!Nearer(v, moments[i])
  <2>1. \A i \in 1..N, v \in Moment : D!Nearer(v, moments[i]) \in Moment
    BY <1>1 DEF D!Nearer
  <2>2. [i \in 1..N |-> [v \in Moment |-> D!Nearer(v, moments[i])]] \in [1..N -> [Moment -> Moment]]
    BY <2>1
  <2> QED
    BY <2>2, Zenon
<1>3. PICK h \in [0..N -> Moment] : Run(h, N, moments[1], next)
  BY <1>1, RecursionExists, Zenon
<1>4. h = [n \in 0..N |-> IF n = 0 THEN moments[1] ELSE D!Nearer(h[n - 1], moments[n])]
  <2>1. ASSUME NEW i \in 0..N PROVE h[i] = IF i = 0 THEN moments[1] ELSE D!Nearer(h[i - 1], moments[i])
    <3>1. CASE i = 0
      BY <1>3, <3>1 DEF Run
    <3>2. CASE i # 0
      <4>1. i \in 1..N /\ h[i - 1] \in Moment
        BY <3>2
      <4>2. h[i] = next[i][h[i - 1]]
        BY <1>3, <3>2 DEF Run
      <4> QED
        BY <4>1, <4>2, <1>2, <3>2
    <3> QED
      BY <3>1, <3>2
  <2> QED
    BY <2>1
<1>5. D!Closest(moments) =
        [n \in 0..N |-> IF n = 0 THEN moments[1] ELSE D!Nearer(D!Closest(moments)[n - 1], moments[n])]
  BY <1>0, <1>4, Zenon DEF D!Closest
<1>10. PICK c : c = D!Closest(moments) /\ c = [n \in 0..N |-> IF n = 0 THEN moments[1] ELSE D!Nearer(c[n - 1], moments[n])]
  BY <1>5, Zenon
<1> DEFINE Good(n, j) == /\ c[n] = moments[j]
                         /\ \A i \in 1..n : ~D!Closer(moments[i], moments[j])
                         /\ \A i \in 1..j - 1 : D!Closer(moments[j], moments[i])
           T == {n \in Nat : n <= N => \E j \in 1..N : (n > 0 => j <= n) /\ (n = 0 => j = 1) /\ Good(n, j)}
<1>6. 0 \in T
  <2>1. c[0] = moments[1] /\ 1 \in 1..N
    BY <1>10
  <2>2. Good(0, 1)
    BY <2>1
  <2> QED
    BY <2>1, <2>2
<1>7. ASSUME NEW n \in Nat, n \in T PROVE n + 1 \in T
  <2> SUFFICES ASSUME n + 1 <= N
               PROVE  \E j \in 1..N : j <= n + 1 /\ Good(n + 1, j)
    OBVIOUS
  <2>1. PICK j \in 1..N : (n > 0 => j <= n) /\ (n = 0 => j = 1) /\ Good(n, j)
    BY <1>7
  <2>2. c[n + 1] = D!Nearer(moments[j], moments[n + 1])
    BY <1>10, <2>1
  <2>3. 1..n + 1 = 1..n \union {n + 1} /\ n + 1 \in 1..N /\ j <= n + 1
    <3>1. n > 0 \/ n = 0
      OBVIOUS
    <3>2. j <= n + 1
      BY <2>1, <3>1
    <3>3. 1..n + 1 = 1..n \union {n + 1}
      OBVIOUS
    <3> QED
      BY <3>2, <3>3
  <2>4. CASE D!Closer(moments[n + 1], moments[j])
    <3>1. c[n + 1] = moments[n + 1]
      BY <2>2, <2>4 DEF D!Nearer
    <3>2. \A i \in 1..n : D!Closer(moments[n + 1], moments[i])
      BY <1>1, <2>1, <2>3, <2>4, CloserOrder
    <3>3. \A i \in 1..n + 1 : ~D!Closer(moments[i], moments[n + 1])
      BY <1>1, <2>3, <3>2, CloserOrder
    <3>4. (n + 1) - 1 = n
      OBVIOUS
    <3> QED
      BY <2>3, <3>1, <3>2, <3>3, <3>4
  <2>5. CASE ~D!Closer(moments[n + 1], moments[j])
    <3>1. c[n + 1] = moments[j]
      BY <2>2, <2>5 DEF D!Nearer
    <3> QED
      BY <2>1, <2>3, <2>5, <3>1, Zenon
  <2> QED
    BY <2>4, <2>5
<1> HIDE DEF T
<1>8. Nat \subseteq T
  BY <1>6, <1>7, NumberInduction, Zenon
<1>9. PICK j \in 1..N : Good(N, j)
  BY <1>8 DEF T
<1> QED
  BY <1>0, <1>10, <1>9, Zenon DEF D!Best

\* A trajectory for the detector: at most a point for each horizon.
Predicted ==
  {t \in [points : Seq(Position), status : D!Statuses, confidence : Nat] : Len(t.points) <= Len(Horizons)}

\* The moment a part q of n through the interval from one horizon to the next.
At(a, b, i, q, n) ==
  D!MomentAt(D!Minus(a.points[i], b.points[i]),
             D!Minus(D!Minus(a.points[i + 1], b.points[i + 1]), D!Minus(a.points[i], b.points[i])),
             q, n, Horizons[i], Horizons[i + 1])

\* Both trajectories have positions at the first of the horizons.
LEMMA SharedIsPrefix ==
  ASSUME NEW a \in Predicted, NEW b \in Predicted, ~D!Unusable(a), ~D!Unusable(b)
  PROVE  \E k \in Nat \ {0} :
           /\ D!Shared(a, b) = k
           /\ k <= Len(Horizons)
           /\ \A i \in 1..k : a.points[i] \in Position /\ b.points[i] \in Position /\ Horizons[i] \in Nat
           /\ \A i, j \in 1..k : i < j => Horizons[i] < Horizons[j]
<1>1. PICK p \in Seq(Position), q \in Seq(Position) : /\ p = a.points /\ q = b.points /\ p # <<>> /\ q # <<>>
                                                      /\ Len(p) <= Len(Horizons) /\ Len(q) <= Len(Horizons)
  BY DEF Predicted, D!Unusable
<1>2. PICK k \in Nat \ {0} : k = (IF Len(p) <= Len(q) THEN Len(p) ELSE Len(q))
  BY <1>1
<1>3. D!Shared(a, b) = k
  BY <1>1, <1>2 DEF D!Shared
<1>5. k <= Len(p) /\ k <= Len(q) /\ k <= Len(Horizons)
  BY <1>1, <1>2
<1>6. \A i \in 1..k : p[i] \in Position /\ q[i] \in Position
  BY <1>5
<1>7. /\ \A i \in 1..k : Horizons[i] \in Nat
      /\ \A i, j \in 1..k : i < j => Horizons[i] < Horizons[j]
  <2>1. DOMAIN Horizons = 1..Len(Horizons) /\ 1..k \subseteq 1..Len(Horizons)
    BY <1>5, HorizonsAssumption
  <2>2. \A i \in 1..Len(Horizons) : Horizons[i] \in Nat
    BY HorizonsAssumption
  <2>3. \A i, j \in 1..Len(Horizons) : i < j => Horizons[i] < Horizons[j]
    BY <2>1, HorizonsAssumption, Zenon
  <2> QED
    BY <2>1, <2>2, <2>3
<1> QED
  BY <1>1, <1>3, <1>5, <1>6, <1>7

\* A moment after a horizon is not before one that comes up to it.
LEMMA Later ==
  ASSUME NEW n \in Moment, NEW m \in Moment, NEW h \in Int, NEW g \in Int,
         h * n.s <= n.ttc, m.ttc <= g * m.s, g <= h
  PROVE  ~(n.ttc * m.s < m.ttc * n.s)
<1>1. PICK s \in Nat \ {0}, t \in Nat \ {0}, x \in Int, y \in Int :
        s = n.s /\ t = m.s /\ x = n.ttc /\ y = m.ttc
  BY DEF Moment
<1>2. (h * s) * t <= x * t
  <2>1. PICK hs \in Int : hs = h * s /\ hs <= x
    BY <1>1
  <2> QED
    BY <2>1
<1>3. y * s <= (g * t) * s
  <2>1. PICK gt \in Int : gt = g * t /\ y <= gt
    BY <1>1
  <2> QED
    BY <2>1
<1>4. (g * t) * s <= (h * s) * t
  <2>1. PICK st \in Nat : st = s * t
    OBVIOUS
  <2>2. g * st <= h * st
    OBVIOUS
  <2> QED
    BY <2>1, <2>2
<1>5. PICK a \in Int, b \in Int, c \in Int, d \in Int :
        a = (h * s) * t /\ b = x * t /\ c = y * s /\ d = (g * t) * s
  OBVIOUS
<1> QED
  BY <1>1, <1>2, <1>3, <1>4, <1>5

\* Both trajectories have k positions, at rising horizons.
Sampled(a, b, k) ==
  /\ D!Shared(a, b) = k
  /\ \A i \in 1..k : a.points[i] \in Position /\ b.points[i] \in Position /\ Horizons[i] \in Nat
  /\ \A i, j \in 1..k : i < j => Horizons[i] < Horizons[j]

\* Of all moments they share m is the first of the closest ones.
FirstOfAll(a, b, k, m) ==
  /\ m \in Moment
  /\ \E j \in 1..k - 1 : \E p \in 0..m.s : m = At(a, b, j, p, m.s)
  /\ \A i \in 1..k - 1, n \in Nat \ {0} : \A q \in 0..n :
       At(a, b, i, q, n) \in Moment /\ FirstOf(m, At(a, b, i, q, n))

\* The closest moment of each interval, and the reported one, are the first of the
\* closest ones at any part of an interval.
LEMMA ReportedIsFirst ==
  ASSUME NEW a \in Predicted, NEW b \in Predicted, ~D!Unusable(a), ~D!Unusable(b),
         NEW k \in Nat, k > 1, Sampled(a, b, k), NEW m, m = D!Best(D!Moments(a, b))
  PROVE  FirstOfAll(a, b, k, m)
<1> /\ D!Shared(a, b) = k
    /\ \A i \in 1..k : a.points[i] \in Position /\ b.points[i] \in Position /\ Horizons[i] \in Nat
    /\ \A i, j \in 1..k : i < j => Horizons[i] < Horizons[j]
  BY DEF Sampled
<1>1. PICK moments : moments = D!Moments(a, b)
  OBVIOUS
<1>2. moments = [i \in 1..k - 1 |->
          D!CpaInInterval(a.points[i], a.points[i + 1], b.points[i], b.points[i + 1],
                          Horizons[i], Horizons[i + 1])]
  <2>1. D!Shared(a, b) # 1
    OBVIOUS
  <2>2. D!Moments(a, b) = [i \in 1..D!Shared(a, b) - 1 |->
          D!CpaInInterval(a.points[i], a.points[i + 1], b.points[i], b.points[i + 1],
                          Horizons[i], Horizons[i + 1])]
    BY <2>1, Zenon DEF D!Moments
  <2> QED
    BY <1>1, <2>2, Zenon
<1>3. \A i \in 1..k - 1 : i \in 1..k /\ i + 1 \in 1..k /\ i < i + 1
  OBVIOUS
<1>4. ASSUME NEW i \in 1..k - 1
      PROVE  /\ moments[i] \in Moment
             /\ \E p \in 0..moments[i].s : moments[i] = At(a, b, i, p, moments[i].s)
             /\ \A n \in Nat \ {0} : \A q \in 0..n : FirstOf(moments[i], At(a, b, i, q, n))
  <2>1. moments[i] = D!CpaInInterval(a.points[i], a.points[i + 1], b.points[i], b.points[i + 1],
                                     Horizons[i], Horizons[i + 1])
    BY <1>2
  <2>2. Horizons[i] \in Int /\ Horizons[i + 1] \in Int /\ Horizons[i] < Horizons[i + 1]
    BY <1>3
  <2>3. /\ a.points[i] \in Position /\ a.points[i + 1] \in Position
        /\ b.points[i] \in Position /\ b.points[i + 1] \in Position
    BY <1>3
  <2> QED
    <3>0. PICK a1 \in Position, a2 \in Position, b1 \in Position, b2 \in Position :
            a1 = a.points[i] /\ a2 = a.points[i + 1] /\ b1 = b.points[i] /\ b2 = b.points[i + 1]
      BY <2>3
    <3>1. PICK rel : rel = D!Minus(a1, b1)
      OBVIOUS
    <3>2. PICK d : d = D!Minus(D!Minus(a2, b2), rel)
      OBVIOUS
    <3>3. PICK from \in Int, to \in Int : from = Horizons[i] /\ to = Horizons[i + 1] /\ from < to
      BY <2>2
    <3>4. \A q, n : At(a, b, i, q, n) = D!MomentAt(rel, d, q, n, from, to)
      BY <3>0, <3>1, <3>2, <3>3 DEF At
    <3>5. PICK c : c = moments[i] /\ c = D!CpaInInterval(a1, a2, b1, b2, from, to)
      BY <2>1, <3>0, <3>3
    <3>6. /\ c \in Moment
          /\ \E p \in 0..c.s : c = D!MomentAt(rel, d, p, c.s, from, to)
          /\ \A n \in Nat \ {0} : \A q \in 0..n : FirstOf(c, D!MomentAt(rel, d, q, n, from, to))
      BY <3>1, <3>2, <3>3, <3>5, IntervalFirst
    <3> QED
      BY <3>4, <3>5, <3>6
<1>5. moments \in Seq(Moment) /\ Len(moments) = k - 1 /\ moments # <<>>
  <2>1. PICK l \in Nat \ {0} : l = k - 1
    OBVIOUS
  <2>2. moments \in [1..l -> Moment]
    <3>1. DOMAIN moments = 1..l /\ moments = [i \in DOMAIN moments |-> moments[i]]
      BY <1>2, <2>1
    <3>2. \A i \in 1..l : moments[i] \in Moment
      BY <1>4, <2>1
    <3> QED
      BY <3>1, <3>2
  <2> QED
    BY <2>1, <2>2
<1>6. PICK j \in 1..k - 1 :
        /\ m = moments[j]
        /\ \A i \in 1..k - 1 : ~D!Closer(moments[i], m)
        /\ \A i \in 1..j - 1 : D!Closer(m, moments[i])
  BY <1>1, <1>5, BestIsFirst
<1>7. m \in Moment /\ \E p \in 0..m.s : m = At(a, b, j, p, m.s)
  BY <1>4, <1>6
<1>8. ASSUME NEW i \in 1..k - 1, NEW n \in Nat \ {0}, NEW q \in 0..n
      PROVE  /\ At(a, b, i, q, n) \in Moment
             /\ At(a, b, i, q, n).s = n
             /\ At(a, b, i, q, n).ttc = Horizons[i] * n + (Horizons[i + 1] - Horizons[i]) * q
             /\ Horizons[i] * n <= At(a, b, i, q, n).ttc
             /\ At(a, b, i, q, n).ttc <= Horizons[i + 1] * n
  <2>1. PICK from \in Int, to \in Int : from = Horizons[i] /\ to = Horizons[i + 1] /\ from < to
    BY <1>3
  <2>2. PICK rel \in Position : rel = D!Minus(a.points[i], b.points[i])
    BY <1>3, MinusType
  <2>3. PICK d \in Position : d = D!Minus(D!Minus(a.points[i + 1], b.points[i + 1]), rel)
    BY <1>3, <2>2, MinusType
  <2>4. At(a, b, i, q, n) = D!MomentAt(rel, d, q, n, from, to)
    BY <2>1, <2>2, <2>3 DEF At
  <2>5. /\ At(a, b, i, q, n) \in Moment /\ At(a, b, i, q, n).s = n
        /\ At(a, b, i, q, n).ttc = from * n + (to - from) * q
    BY <2>4, MomentFields
  <2>6. 0 <= (to - from) * q /\ (to - from) * q <= (to - from) * n
    <3>1. PICK dt \in Nat : dt = to - from
      BY <2>1
    <3>2. 0 <= dt * q /\ dt * q <= dt * n
      OBVIOUS
    <3> QED
      BY <3>1, <3>2
  <2>7. from * n + (to - from) * n = to * n
    OBVIOUS
  <2>8. PICK x \in Int, y \in Int, z \in Int : x = (to - from) * q /\ y = from * n /\ z = (to - from) * n
    OBVIOUS
  <2>9. from * n <= from * n + (to - from) * q /\ from * n + (to - from) * q <= to * n
    BY <2>6, <2>7, <2>8
  <2> QED
    BY <2>1, <2>5, <2>9
<1>9. ASSUME NEW i \in 1..k - 1, NEW n \in Nat \ {0}, NEW q \in 0..n
      PROVE  FirstOf(m, At(a, b, i, q, n))
  <2>1. PICK t \in Moment : t = At(a, b, i, q, n)
    BY <1>8
  <2>2. FirstOf(moments[i], t)
    BY <1>4, <2>1
  <2>3. ~D!Closer(t, m)
    BY <1>4, <1>6, <1>7, <2>1, <2>2, CloserOrder DEF FirstOf
  <2>4. ASSUME t.ttc * m.s < m.ttc * t.s PROVE D!Closer(m, t)
    <3>1. CASE i = j
      BY <1>6, <2>2, <2>4, <3>1 DEF FirstOf
    <3>2. CASE i < j
      <4>1. i \in 1..j - 1
        BY <3>2
      <4>2. D!Closer(m, moments[i])
        BY <1>6, <4>1
      <4> QED
        BY <1>4, <1>7, <2>1, <2>2, <4>2, CloserOrder DEF FirstOf
    <3>3. CASE i > j
      <4>1. PICK h \in Int, g \in Int : h = Horizons[i] /\ g = Horizons[j + 1] /\ g <= h
        <5>1. j + 1 = i \/ j + 1 < i
          BY <3>3
        <5>2. Horizons[i] \in Int /\ Horizons[j + 1] \in Int /\ Horizons[j + 1] <= Horizons[i]
          BY <1>3, <5>1
        <5> QED
          BY <5>2
      <4>2. h * t.s <= t.ttc
        BY <1>8, <2>1, <4>1
      <4>3. m.ttc <= g * m.s
        <5>1. PICK p \in 0..m.s : m = At(a, b, j, p, m.s)
          BY <1>7
        <5>2. m.s \in Nat \ {0}
          BY <1>7 DEF Moment
        <5>3. At(a, b, j, p, m.s).ttc <= Horizons[j + 1] * m.s
          BY <1>8, <5>1, <5>2
        <5> QED
          BY <5>1, <5>3, <4>1
      <4> QED
        BY <2>1, <1>7, <2>4, <4>1, <4>2, <4>3, Later
    <3> QED
      BY <3>1, <3>2, <3>3
  <2> QED
    BY <2>1, <2>3, <2>4 DEF FirstOf
<1> QED
  BY <1>7, <1>8, <1>9 DEF FirstOfAll

\* A conflict that is assessed is of usable trajectories, at the best of their moments.
LEMMA Assessed ==
  ASSUME NEW a \in Predicted, NEW b \in Predicted,
         D!AssessConflict(a, b).status # "UNAVAILABLE"
  PROVE  /\ ~D!Unusable(a) /\ ~D!Unusable(b)
         /\ D!AssessConflict(a, b).at = D!Best(D!Moments(a, b))
<1>1. PICK m : m = D!Best(D!Moments(a, b))
  OBVIOUS
<1>2. D!Unavailable.status = "UNAVAILABLE"
  BY DEF D!Unavailable
<1>3. /\ ~D!Unusable(a) /\ ~D!Unusable(b)
      /\ \E risk, confidence, status :
           D!AssessConflict(a, b) = [risk |-> risk, confidence |-> confidence, at |-> m, status |-> status]
  BY <1>1, <1>2, Zenon DEF D!AssessConflict
<1> QED
  BY <1>1, <1>3

\* The only moment there is, when the trajectories share one horizon.
LEMMA OnlyMoment ==
  ASSUME NEW a \in Predicted, NEW b \in Predicted, D!Shared(a, b) = 1,
         a.points[1] \in Position, b.points[1] \in Position, Horizons[1] \in Nat,
         NEW m, m = D!Best(D!Moments(a, b)),
         NEW rel \in Position, rel = D!Minus(a.points[1], b.points[1])
  PROVE  /\ m = [sq |-> D!Dot(rel, rel), s |-> 1, ttc |-> Horizons[1]]
         /\ m \in Moment
<1>1. D!Moments(a, b) = <<[sq |-> D!Dot(rel, rel), s |-> 1, ttc |-> Horizons[1]]>>
  BY DEF D!Moments, D!Distance2
<1>2. PICK x \in Int, y \in Int : x = rel.x /\ y = rel.y
  BY DEF Position
<1>3. D!Dot(rel, rel) = x * x + y * y
  BY <1>2 DEF D!Dot
<1>4. D!Dot(rel, rel) \in Nat
  BY <1>3, ProductSigns
<1>5. PICK c \in Moment : c = [sq |-> D!Dot(rel, rel), s |-> 1, ttc |-> Horizons[1]]
  <2>1. PICK sq \in Nat, h \in Int : sq = D!Dot(rel, rel) /\ h = Horizons[1]
    BY <1>4
  <2>2. [sq |-> sq, s |-> 1, ttc |-> h] \in Moment
    BY DEF Moment
  <2> QED
    BY <2>1, <2>2
<1>6. PICK ms \in Seq(Moment) : ms = <<c>> /\ ms # <<>> /\ Len(ms) = 1 /\ ms[1] = c
  <2>1. <<c>> \in Seq(Moment)
    OBVIOUS
  <2>2. <<c>> # <<>> /\ Len(<<c>>) = 1 /\ <<c>>[1] = c
    OBVIOUS
  <2> QED
    BY <2>1, <2>2, Zenon
<1>7. D!Best(<<c>>) = c
  <2>1. PICK j \in 1..Len(ms) : D!Best(ms) = ms[j]
    BY <1>6, BestIsFirst, Zenon
  <2>2. j = 1
    BY <1>6, <2>1
  <2> QED
    BY <1>6, <2>1, <2>2
<1> QED
  BY <1>1, <1>5, <1>7

\* The moment at which an interval begins.
LEMMA ZeroMoment ==
  ASSUME NEW rel \in Position, NEW d \in Position, NEW from \in Int, NEW to \in Int
  PROVE  D!MomentAt(rel, d, 0, 1, from, to) = [sq |-> D!Dot(rel, rel), s |-> 1, ttc |-> from]
<1>1. PICK x \in Int, y \in Int, u \in Int, v \in Int : rel.x = x /\ rel.y = y /\ d.x = u /\ d.y = v
  BY DEF Position
<1>2. x * 1 + 0 * u = x /\ y * 1 + 0 * v = y /\ from * 1 + (to - from) * 0 = from
  OBVIOUS
<1>3. D!MomentAt(rel, d, 0, 1, from, to) =
        [sq |-> D!Dot([x |-> x, y |-> y], [x |-> x, y |-> y]), s |-> 1, ttc |-> from]
  BY <1>1, <1>2 DEF D!MomentAt
<1>4. D!Dot([x |-> x, y |-> y], [x |-> x, y |-> y]) = D!Dot(rel, rel)
  BY <1>1 DEF D!Dot
<1> QED
  BY <1>3, <1>4

\* The moments of the reference are parts of the intervals.
LEMMA QuartersAreParts ==
  ASSUME NEW a \in Predicted, NEW b \in Predicted, NEW k \in Nat, k > 1, D!Shared(a, b) = k,
         \A i \in 1..k : a.points[i] \in Position /\ b.points[i] \in Position /\ Horizons[i] \in Nat,
         NEW n \in D!Quarters(a, b)
  PROVE  \E i \in 1..k - 1, s \in Nat \ {0} : \E q \in 0..s : n = At(a, b, i, q, s)
<1> DEFINE rel(i) == D!Minus(a.points[i], b.points[i])
           d(i) == D!Minus(D!Minus(a.points[i + 1], b.points[i + 1]), rel(i))
<1>1. CASE n = D!MomentAt(rel(1), [x |-> 0, y |-> 0], 0, 1, Horizons[1], Horizons[1])
  <2>1. /\ a.points[1] \in Position /\ b.points[1] \in Position
        /\ a.points[2] \in Position /\ b.points[2] \in Position
        /\ Horizons[1] \in Int /\ Horizons[2] \in Int
    OBVIOUS
  <2>2. rel(1) \in Position /\ d(1) \in Position /\ [x |-> 0, y |-> 0] \in Position
    <3>1. 1 + 1 = 2
      OBVIOUS
    <3>2. rel(1) \in Position
      BY <2>1, MinusType
    <3>3. D!Minus(a.points[2], b.points[2]) \in Position
      BY <2>1, MinusType
    <3>4. d(1) \in Position
      BY <3>1, <3>2, <3>3, MinusType
    <3> QED
      BY <3>2, <3>4 DEF Position
  <2> HIDE DEF rel, d
  <2>3. n = D!MomentAt(rel(1), d(1), 0, 1, Horizons[1], Horizons[2])
    <3>0. PICK r \in Position, v \in Position, z \in Position :
            r = rel(1) /\ v = d(1) /\ z = [x |-> 0, y |-> 0]
      BY <2>2
    <3>1. PICK h \in Int, g \in Int : h = Horizons[1] /\ g = Horizons[2]
      BY <2>1
    <3>2. D!MomentAt(r, z, 0, 1, h, h) = [sq |-> D!Dot(r, r), s |-> 1, ttc |-> h]
      BY ZeroMoment
    <3>3. D!MomentAt(r, v, 0, 1, h, g) = [sq |-> D!Dot(r, r), s |-> 1, ttc |-> h]
      BY ZeroMoment
    <3> QED
      BY <1>1, <3>0, <3>1, <3>2, <3>3
  <2>4. At(a, b, 1, 0, 1) = D!MomentAt(rel(1), d(1), 0, 1, Horizons[1], Horizons[2])
    BY DEF At, rel, d
  <2>5. 1 \in 1..k - 1 /\ 1 \in Nat \ {0} /\ 0 \in 0..1
    OBVIOUS
  <2> QED
    BY <2>3, <2>4, <2>5
<1>2. CASE n \in {D!MomentAt(rel(i), d(i), q, 4, Horizons[i], Horizons[i + 1]) : q \in 0..4, i \in 1..D!Shared(a, b) - 1}
  <2>1. PICK q \in 0..4, i \in 1..k - 1 : n = D!MomentAt(rel(i), d(i), q, 4, Horizons[i], Horizons[i + 1])
    BY <1>2
  <2>2. n = At(a, b, i, q, 4) /\ 4 \in Nat \ {0}
    BY <2>1 DEF At
  <2> QED
    BY <2>2, Zenon
<1> QED
  BY <1>1, <1>2 DEF D!Quarters

\* assess_conflict reports the first of the closest moments, for any trajectories.
THEOREM ApproachIsFirst ==
  ASSUME NEW a \in Predicted, NEW b \in Predicted
  PROVE  D!FirstClosest(a, b)
<1> SUFFICES ASSUME D!AssessConflict(a, b).status # "UNAVAILABLE"
             PROVE  LET m == D!AssessConflict(a, b).at
                    IN  /\ D!Attained(a, b, m)
                        /\ \A n \in D!Quarters(a, b) :
                             ~D!Closer(n, m) /\ (n.ttc * m.s < m.ttc * n.s => D!Closer(m, n))
  BY DEF D!FirstClosest
<1>1. PICK m : m = D!AssessConflict(a, b).at /\ m = D!Best(D!Moments(a, b))
  BY Assessed
<1>2. ~D!Unusable(a) /\ ~D!Unusable(b)
  BY Assessed
<1>3. PICK k \in Nat \ {0} :
        /\ D!Shared(a, b) = k
        /\ \A i \in 1..k : a.points[i] \in Position /\ b.points[i] \in Position /\ Horizons[i] \in Nat
        /\ \A i, j \in 1..k : i < j => Horizons[i] < Horizons[j]
  BY <1>2, SharedIsPrefix, Zenon
<1>4. CASE k = 1
  <2>1. /\ a.points[1] \in Position /\ b.points[1] \in Position /\ Horizons[1] \in Nat
    BY <1>3, <1>4
  <2>2. PICK rel \in Position : rel = D!Minus(a.points[1], b.points[1])
    BY <2>1, MinusType
  <2>3. m = [sq |-> D!Dot(rel, rel), s |-> 1, ttc |-> Horizons[1]] /\ m \in Moment
    BY <1>1, <1>3, <1>4, <2>1, <2>2, OnlyMoment
  <2>4. PICK zero \in Position : zero = [x |-> 0, y |-> 0]
    <3>1. [x |-> 0, y |-> 0] \in Position
      BY DEF Position
    <3> QED
      BY <3>1
  <2>5. D!Quarters(a, b) = {m}
    <3>1. 1..D!Shared(a, b) - 1 = {}
      BY <1>3, <1>4
    <3>2. D!MomentAt(rel, zero, 0, 1, Horizons[1], Horizons[1]) = m
      BY <2>1, <2>3, ZeroMoment
    <3> QED
      BY <2>2, <2>4, <3>1, <3>2 DEF D!Quarters
  <2>6. \A n \in D!Quarters(a, b) : ~D!Closer(n, m) /\ (n.ttc * m.s < m.ttc * n.s => D!Closer(m, n))
    <3>1. ~D!Closer(m, m)
      BY <2>3, CloserOrder
    <3>2. m.ttc * m.s \in Int /\ ~(m.ttc * m.s < m.ttc * m.s)
      BY <2>3 DEF Moment
    <3> QED
      BY <2>5, <3>1, <3>2
  <2>7. D!Attained(a, b, m)
    <3>1. PICK x \in Int, y \in Int : rel.x = x /\ rel.y = y
      BY DEF Position
    <3>2. D!Minus(rel, rel) = zero
      BY <2>4, <3>1 DEF D!Minus
    <3>3. m.ttc - Horizons[1] * m.s = 0 /\ m.s = 1 /\ m.sq = D!Dot(rel, rel) /\ m.sq \in Int
      BY <2>1, <2>3 DEF Moment
    <3>4. D!MomentAt(rel, zero, 0, 1, 0, 0).sq = D!Dot(rel, rel)
      BY ZeroMoment
    <3>5. m.sq * D!Square(1) = m.sq
      BY <3>3 DEF D!Square
    <3>6. LET p == m.ttc - Horizons[1] * m.s
          IN  p \in 0..(1 * m.s) /\ D!MomentAt(rel, zero, p, 1 * m.s, 0, 0).sq = m.sq * D!Square(1)
      BY <3>3, <3>4, <3>5
    <3>7. D!Minus(D!Minus(a.points[1], b.points[1]), D!Minus(a.points[1], b.points[1])) = zero
      BY <2>2, <3>2
    <3> QED
      BY <1>3, <1>4, <2>2, <3>6, <3>7 DEF D!Attained
  <2> QED
    BY <1>1, <2>6, <2>7
<1>5. CASE k # 1
  <2>1. k > 1
    BY <1>5
  <2>0. /\ k \in Nat /\ D!Shared(a, b) = k
        /\ \A i \in 1..k : a.points[i] \in Position /\ b.points[i] \in Position /\ Horizons[i] \in Nat
        /\ \A i, j \in 1..k : i < j => Horizons[i] < Horizons[j]
    BY <1>3
  <2>2. /\ m \in Moment
        /\ \E j \in 1..k - 1 : \E p \in 0..m.s : m = At(a, b, j, p, m.s)
        /\ \A i \in 1..k - 1, n \in Nat \ {0} : \A q \in 0..n : FirstOf(m, At(a, b, i, q, n))
    <3>1. PICK l \in Nat : l = k /\ l > 1
      BY <2>1
    <3>2. /\ D!Shared(a, b) = l /\ m = D!Best(D!Moments(a, b))
          /\ \A i \in 1..l : a.points[i] \in Position /\ b.points[i] \in Position /\ Horizons[i] \in Nat
          /\ \A i, j \in 1..l : i < j => Horizons[i] < Horizons[j]
      BY <1>1, <2>0, <3>1
    <3>3. Sampled(a, b, l)
      BY <3>2 DEF Sampled
    <3>4. FirstOfAll(a, b, l, m)
      BY <1>2, <3>1, <3>2, <3>3, ReportedIsFirst
    <3> QED
      BY <3>1, <3>4 DEF FirstOfAll
  <2>3. \A n \in D!Quarters(a, b) : ~D!Closer(n, m) /\ (n.ttc * m.s < m.ttc * n.s => D!Closer(m, n))
    <3> SUFFICES ASSUME NEW n \in D!Quarters(a, b) PROVE FirstOf(m, n)
      BY DEF FirstOf
    <3>1. \E i \in 1..k - 1, s \in Nat \ {0} : \E q \in 0..s : n = At(a, b, i, q, s)
      BY <1>3, <2>1, QuartersAreParts
    <3> QED
      BY <2>2, <3>1
  <2>4. D!Attained(a, b, m)
    <3>1. PICK j \in 1..k - 1, p \in 0..m.s : m = At(a, b, j, p, m.s)
      BY <2>2
    <3>2. /\ j \in 1..k /\ j + 1 \in 1..k /\ j < k
      OBVIOUS
    <3>3. PICK from \in Int, to \in Int : from = Horizons[j] /\ to = Horizons[j + 1] /\ from < to
      BY <1>3, <3>2
    <3>4. PICK rel \in Position : rel = D!Minus(a.points[j], b.points[j])
      BY <1>3, <3>2, MinusType
    <3>5. PICK d \in Position : d = D!Minus(D!Minus(a.points[j + 1], b.points[j + 1]), rel)
      BY <1>3, <3>2, <3>4, MinusType
    <3>6. PICK s \in Nat \ {0} : s = m.s
      BY <2>2 DEF Moment
    <3>7. PICK dt \in Nat \ {0} : dt = to - from
      BY <3>3
    <3>8. m = D!MomentAt(rel, d, p, s, from, to)
      BY <3>1, <3>3, <3>4, <3>5, <3>6 DEF At
    <3>9. PICK x \in Int, y \in Int, u \in Int, v \in Int : rel.x = x /\ rel.y = y /\ d.x = u /\ d.y = v
      BY DEF Position
    <3>10. /\ m.ttc = from * s + (to - from) * p
           /\ m.sq = (x * s + p * u) * (x * s + p * u) + (y * s + p * v) * (y * s + p * v)
      <4>1. p \in Int
        BY <3>6
      <4> QED
        BY <3>8, <3>9, <4>1, MomentFields
    <3>11. m.ttc - from * s = dt * p
      BY <3>7, <3>10
    <3>12. dt * p \in 0..dt * s
      <4>1. 0 <= dt * p /\ dt * p <= dt * s
        BY <3>6
      <4> QED
        BY <4>1
    <3>13. dt * s \in Nat \ {0}
      OBVIOUS
    <3>14. D!MomentAt(rel, d, dt * p, dt * s, 0, 0).sq = m.sq * D!Square(dt)
      <4>1. D!MomentAt(rel, d, dt * p, dt * s, 0, 0).sq
              = (x * (dt * s) + (dt * p) * u) * (x * (dt * s) + (dt * p) * u)
                + (y * (dt * s) + (dt * p) * v) * (y * (dt * s) + (dt * p) * v)
        BY <3>9, <3>13, MomentFields
      <4>2. PICK X \in Int, Y \in Int : X = x * s + p * u /\ Y = y * s + p * v
        OBVIOUS
      <4>3. x * (dt * s) + (dt * p) * u = dt * X /\ y * (dt * s) + (dt * p) * v = dt * Y
        BY <4>2
      <4>4. (dt * X) * (dt * X) + (dt * Y) * (dt * Y) = (X * X + Y * Y) * (dt * dt)
        OBVIOUS
      <4>5. m.sq = X * X + Y * Y
        BY <3>10, <4>2
      <4> QED
        BY <4>1, <4>3, <4>4, <4>5 DEF D!Square
    <3>15. (IF j < k THEN j + 1 ELSE j) = j + 1 /\ j + 1 # j
      BY <3>2
    <3> QED
      BY <1>3, <3>2, <3>3, <3>4, <3>5, <3>6, <3>7, <3>11, <3>12, <3>14, <3>15 DEF D!Attained
  <2> QED
    BY <1>1, <2>3, <2>4
<1> QED
  BY <1>4, <1>5

\* And it is so at every part q of n through every interval both trajectories
\* share, not only at quarters: no moment is closer, and none as close is earlier.
THEOREM NoMomentIsCloser ==
  ASSUME NEW a \in Predicted, NEW b \in Predicted, D!AssessConflict(a, b).status # "UNAVAILABLE",
         NEW i \in 1..D!Shared(a, b) - 1, NEW n \in Nat \ {0}, NEW q \in 0..n,
         NEW m, m = D!AssessConflict(a, b).at
  PROVE  /\ ~D!Closer(At(a, b, i, q, n), m)
         /\ At(a, b, i, q, n).ttc * m.s < m.ttc * At(a, b, i, q, n).s => D!Closer(m, At(a, b, i, q, n))
<1>1. m = D!Best(D!Moments(a, b)) /\ ~D!Unusable(a) /\ ~D!Unusable(b)
  BY Assessed
<1>2. PICK k \in Nat :
        /\ k # 0 /\ D!Shared(a, b) = k
        /\ \A j \in 1..k : a.points[j] \in Position /\ b.points[j] \in Position /\ Horizons[j] \in Nat
        /\ \A j, l \in 1..k : j < l => Horizons[j] < Horizons[l]
  BY <1>1, SharedIsPrefix, Zenon
<1>3. i \in 1..k - 1 /\ k > 1
  BY <1>2
<1>4. Sampled(a, b, k)
  BY <1>2 DEF Sampled
<1>5. FirstOfAll(a, b, k, m)
  BY <1>1, <1>3, <1>4, ReportedIsFirst
<1>6. FirstOf(m, At(a, b, i, q, n))
  BY <1>3, <1>5 DEF FirstOfAll
<1> QED
  BY <1>6 DEF FirstOf

\* A moment within a distance, and one that is no farther.
LEMMA NoFarther ==
  ASSUME NEW n \in Moment, NEW m \in Moment, NEW distance \in Nat, ~D!Closer(n, m), D!Within(n, distance)
  PROVE  D!Within(m, distance)
<1>1. PICK x \in Nat, s \in Nat \ {0}, y \in Nat, t \in Nat \ {0} :
        x = n.sq /\ s = n.s /\ y = m.sq /\ t = m.s
  BY DEF Moment
<1>2. PICK k \in Nat \ {0}, l \in Nat \ {0} : k = s * s /\ l = t * t
  <2>1. \A r \in Nat \ {0} : r * r > 0
    OBVIOUS
  <2>2. s * s \in Nat \ {0} /\ t * t \in Nat \ {0}
    BY <2>1
  <2> QED
    BY <2>2
<1>3. y * k <= x * l
  <2>1. ~(x * l < y * k)
    BY <1>1, <1>2 DEF D!Closer, D!Square
  <2>2. x * l \in Int /\ y * k \in Int
    OBVIOUS
  <2> QED
    BY <2>1, <2>2
<1>4. PICK e \in Nat : e = distance * distance
  OBVIOUS
<1>5. x <= e * k
  <2>1. x <= (distance * s) * (distance * s)
    BY <1>1 DEF D!Within, D!Square
  <2>2. (distance * s) * (distance * s) = (distance * distance) * (s * s)
    OBVIOUS
  <2> QED
    BY <1>2, <1>4, <2>1, <2>2
<1>6. y <= e * l
  <2>1. x * l <= (e * k) * l
    <3>1. PICK ek \in Int : ek = e * k
      OBVIOUS
    <3>2. x * l <= ek * l
      BY <1>5, <3>1
    <3> QED
      BY <3>1, <3>2
  <2>2. (e * k) * l = (e * l) * k
    OBVIOUS
  <2>3. PICK el \in Int : el = e * l
    OBVIOUS
  <2>4. y > el => y * k > el * k
    OBVIOUS
  <2>5. PICK yk \in Int, xl \in Int, elk \in Int : yk = y * k /\ xl = x * l /\ elk = el * k
    OBVIOUS
  <2> QED
    BY <1>3, <2>1, <2>2, <2>3, <2>4, <2>5
<1>7. (distance * t) * (distance * t) = e * l
  <2>1. (distance * t) * (distance * t) = (distance * distance) * (t * t)
    OBVIOUS
  <2> QED
    BY <1>2, <1>4, <2>1
<1> QED
  BY <1>1, <1>6, <1>7 DEF D!Within, D!Square

\* What is within a distance is classified so at least.
LEMMA Classified ==
  ASSUME NEW m
  PROVE  /\ D!Within(m, ModerateDistance) => D!AtLeast(D!Classify(m), "MODERATE")
         /\ D!Within(m, LowDistance) => D!AtLeast(D!Classify(m), "LOW")
<1>1. PICK risk : risk = D!Classify(m)
  OBVIOUS
<1>2. /\ risk \in {"CRITICAL", "HIGH", "MODERATE", "LOW", "NONE"}
      /\ D!Within(m, ModerateDistance) => risk \in {"CRITICAL", "HIGH", "MODERATE"}
      /\ D!Within(m, LowDistance) => risk \in {"CRITICAL", "HIGH", "MODERATE", "LOW"}
  BY <1>1, Zenon DEF D!Classify
<1>3. PICK risks : risks = D!Risks
  OBVIOUS
<1>4. /\ DOMAIN risks = 1..5
      /\ risks[2] = "LOW" /\ risks[3] = "MODERATE" /\ risks[4] = "HIGH" /\ risks[5] = "CRITICAL"
  BY <1>3 DEF D!Risks
<1>5. \A r, least : D!AtLeast(r, least) <=> \E i, j \in 1..5 : i <= j /\ risks[i] = least /\ risks[j] = r
  BY <1>3, <1>4 DEF D!AtLeast
<1>6. \A i \in 2..5 : D!AtLeast(risks[i], "LOW")
  BY <1>4, <1>5
<1>7. \A i \in 3..5 : D!AtLeast(risks[i], "MODERATE")
  BY <1>4, <1>5
<1>8. 2 \in 2..5 /\ 3 \in 2..5 /\ 4 \in 2..5 /\ 5 \in 2..5 /\ 3 \in 3..5 /\ 4 \in 3..5 /\ 5 \in 3..5
  OBVIOUS
<1> QED
  BY <1>1, <1>2, <1>4, <1>6, <1>7, <1>8

\* Any moment of the reference is no closer than the reported one.
LEMMA QuartersNoCloser ==
  ASSUME NEW a \in Predicted, NEW b \in Predicted, ~D!Unusable(a), ~D!Unusable(b),
         NEW n \in D!Quarters(a, b)
  PROVE  LET m == D!Best(D!Moments(a, b)) IN n \in Moment /\ m \in Moment /\ ~D!Closer(n, m)
<1>1. PICK m : m = D!Best(D!Moments(a, b))
  OBVIOUS
<1>3. PICK k \in Nat \ {0} :
        /\ D!Shared(a, b) = k
        /\ \A i \in 1..k : a.points[i] \in Position /\ b.points[i] \in Position /\ Horizons[i] \in Nat
        /\ \A i, j \in 1..k : i < j => Horizons[i] < Horizons[j]
  BY SharedIsPrefix, Zenon
<1>4. CASE k = 1
  <2>1. a.points[1] \in Position /\ b.points[1] \in Position /\ Horizons[1] \in Nat
    BY <1>3, <1>4
  <2>2. PICK rel \in Position : rel = D!Minus(a.points[1], b.points[1])
    BY <2>1, MinusType
  <2>3. m = [sq |-> D!Dot(rel, rel), s |-> 1, ttc |-> Horizons[1]] /\ m \in Moment
    BY <1>1, <1>3, <1>4, <2>1, <2>2, OnlyMoment
  <2>4. PICK zero \in Position : zero = [x |-> 0, y |-> 0]
    <3>1. [x |-> 0, y |-> 0] \in Position
      BY DEF Position
    <3> QED
      BY <3>1
  <2>5. n = m
    <3>1. 1..D!Shared(a, b) - 1 = {}
      BY <1>3, <1>4
    <3>2. D!MomentAt(rel, zero, 0, 1, Horizons[1], Horizons[1]) = m
      BY <2>1, <2>3, ZeroMoment
    <3> QED
      BY <2>2, <2>4, <3>1, <3>2 DEF D!Quarters
  <2> QED
    BY <1>1, <2>3, <2>5, CloserOrder
<1>5. CASE k # 1
  <2>1. PICK l \in Nat : l = k /\ l > 1
    BY <1>5
  <2>2. /\ D!Shared(a, b) = l /\ m = D!Best(D!Moments(a, b))
        /\ \A i \in 1..l : a.points[i] \in Position /\ b.points[i] \in Position /\ Horizons[i] \in Nat
        /\ \A i, j \in 1..l : i < j => Horizons[i] < Horizons[j]
    BY <1>1, <1>3, <2>1
  <2>0. Sampled(a, b, l)
    BY <2>2 DEF Sampled
  <2>5. FirstOfAll(a, b, l, m)
    BY <2>0, <2>1, <2>2, ReportedIsFirst
  <2>3. /\ m \in Moment
        /\ \A i \in 1..l - 1, s \in Nat \ {0} : \A q \in 0..s :
             At(a, b, i, q, s) \in Moment /\ FirstOf(m, At(a, b, i, q, s))
    BY <2>5 DEF FirstOfAll
  <2>4. \E i \in 1..l - 1, s \in Nat \ {0} : \E q \in 0..s : n = At(a, b, i, q, s)
    BY <2>1, <2>2, QuartersAreParts
  <2> QED
    BY <1>1, <2>3, <2>4 DEF FirstOf
<1> QED
  BY <1>4, <1>5

\* Whoever comes close is reported, for any trajectories and thresholds.
THEOREM CloseIsReportedAlways ==
  ASSUME NEW a \in Predicted, NEW b \in Predicted
  PROVE  D!CloseIsReported(a, b)
<1> SUFFICES ASSUME ~D!Unusable(a), ~D!Unusable(b), a.confidence >= MinConfidence, b.confidence >= MinConfidence
             PROVE  LET conflict == D!AssessConflict(a, b)
                    IN  /\ conflict.status = IF D!Degrading(a) \/ D!Degrading(b) THEN "DEGRADED" ELSE "ACTIVE"
                        /\ \A m \in D!Quarters(a, b) :
                             /\ D!Within(m, ModerateDistance) => D!AtLeast(conflict.risk, "MODERATE")
                             /\ D!Within(m, LowDistance) => D!AtLeast(conflict.risk, "LOW")
  BY DEF D!CloseIsReported
<1>1. PICK m : m = D!Best(D!Moments(a, b))
  OBVIOUS
<1>2. PICK p \in Nat, q \in Nat, least \in Nat : p = a.confidence /\ q = b.confidence /\ least = MinConfidence
  BY DetectorAssumption DEF Predicted
<1>3. PICK c \in Nat : c = (IF p <= q THEN p ELSE q) /\ ~(c < least)
  BY <1>2
<1>4. c = (IF a.confidence <= b.confidence THEN a.confidence ELSE b.confidence) /\ ~(c < MinConfidence)
  BY <1>2, <1>3
<1>5. PICK status : status = IF D!Degrading(a) \/ D!Degrading(b) THEN "DEGRADED" ELSE "ACTIVE"
  OBVIOUS
<1>6. D!AssessConflict(a, b) = [risk |-> D!Classify(m), confidence |-> c, at |-> m, status |-> status]
  BY <1>1, <1>4, <1>5, Zenon DEF D!AssessConflict
<1>7. D!AssessConflict(a, b).status = status /\ D!AssessConflict(a, b).risk = D!Classify(m)
  BY <1>6
<1>8. ModerateDistance \in Nat /\ LowDistance \in Nat
  BY DetectorAssumption
<1>9. ASSUME NEW n \in D!Quarters(a, b)
      PROVE  /\ D!Within(n, ModerateDistance) => D!Within(m, ModerateDistance)
             /\ D!Within(n, LowDistance) => D!Within(m, LowDistance)
  <2>1. n \in Moment /\ m \in Moment /\ ~D!Closer(n, m)
    BY <1>1, QuartersNoCloser
  <2> QED
    BY <1>8, <2>1, NoFarther
<1> QED
  BY <1>5, <1>7, <1>9, Classified

-----------------------------------------------------------------------------
\* predictor._kinematics: the sums it is the closed form of.

\* A product is divided exactly.
LEMMA ExactDivision ==
  ASSUME NEW d \in Nat \ {0}, NEW q \in Nat
  PROVE  (d * q) \div d = q
<1>1. PICK n \in Nat : n = d * q
  OBVIOUS
<1>2. PICK r \in Int : r = n \div d
  OBVIOUS
<1>3. d * r <= n /\ n < d * (r + 1)
  BY <1>1, <1>2
<1>4. r >= q + 1 => d * r >= d * (q + 1)
  OBVIOUS
<1>5. r + 1 <= q => d * (r + 1) <= d * q
  OBVIOUS
<1>6. d * (q + 1) = d * q + d
  OBVIOUS
<1>7. r = q
  <2>1. PICK a \in Int, b \in Int : a = d * r /\ b = d * (r + 1)
    OBVIOUS
  <2> QED
    BY <1>1, <1>3, <1>4, <1>5, <1>6, <2>1
<1> QED
  BY <1>1, <1>2, <1>7

\* A vehicle whose speed changes by a each second; a stop or the limit is reached
\* after a whole number of seconds.
WholeStops(v0, a) ==
  /\ a < 0 => \E q \in Nat : v0 = (-a) * q
  /\ a > 0 => \E q \in Nat : VMax - v0 = a * q

Motion(speeds, a) ==
  /\ speeds \in Seq(0..VMax) /\ speeds # <<>>
  /\ \A i \in 1..Len(speeds) - 1 : speeds[i + 1] = Clamp(0, speeds[i] + a, VMax)

\* _kinematics after n seconds, where T of them change the speed.
LEMMA KinematicsValue ==
  ASSUME NEW v \in 0..VMax, NEW a \in Int, NEW n \in Nat, NEW T \in Nat,
         a < 0 => v = (-a) * T, a > 0 => VMax - v = a * T, a = 0 => T = n
  PROVE  P!Kinematics(v, a, n) =
           IF n < T \/ a = 0 THEN [distance |-> 2 * v * n + a * (n * n), speed |-> v + a * n]
           ELSE [distance |-> 2 * v * T + a * (T * T) + 2 * (v + a * T) * (n - T), speed |-> v + a * T]
<1>0. VMax \in Nat
  BY TrajectoryAssumption
<1>1. P!Clamp(0, v, VMax) = v
  BY <1>0 DEF P!Clamp
<1>2. CASE n = 0
  <2>1. P!Kinematics(v, a, n) = [distance |-> 0, speed |-> v]
    BY <1>1, <1>2 DEF P!Kinematics
  <2>2. 2 * v * n + a * (n * n) = 0 /\ v + a * n = v
    BY <1>2
  <2>3. CASE n < T \/ a = 0
    BY <2>1, <2>2, <2>3
  <2>4. CASE ~(n < T \/ a = 0)
    <3>1. T = 0
      BY <1>2, <2>4
    <3>2. 2 * v * T + a * (T * T) + 2 * (v + a * T) * (n - T) = 0 /\ v + a * T = v
      BY <1>2, <3>1
    <3> QED
      BY <2>1, <2>4, <3>2
  <2> QED
    BY <2>3, <2>4
<1>3. CASE n # 0 /\ a = 0
  <2>1. ~P!Stopped(v, a, n) /\ ~P!Capped(v, a, n) /\ ~(n <= 0)
    BY <1>3 DEF P!Stopped, P!Capped
  <2>2. P!Kinematics(v, a, n) = [distance |-> P!Travelled(v, a, n), speed |-> v + a * n]
    BY <1>1, <2>1, Zenon DEF P!Kinematics
  <2> QED
    BY <1>3, <2>2 DEF P!Travelled, P!Square
<1>4. CASE n # 0 /\ a < 0
  <2>1. PICK d \in Nat \ {0} : d = -a
    BY <1>4
  <2>2. v \div d = T
    <3>1. v = d * T
      BY <1>4, <2>1
    <3> QED
      BY <3>1, ExactDivision
  <2>3. P!Stopped(v, a, n) <=> n >= T
    BY <1>4, <2>1, <2>2 DEF P!Stopped
  <2>4. ~P!Capped(v, a, n) /\ ~(n <= 0)
    BY <1>4 DEF P!Capped
  <2>5. v + a * T = 0
    BY <1>4
  <2>6. CASE n >= T
    <3>1. P!Kinematics(v, a, n) = [distance |-> P!Travelled(v, a, v \div (-a)), speed |-> 0]
      BY <1>1, <2>3, <2>4, <2>6, Zenon DEF P!Kinematics
    <3>2. P!Travelled(v, a, T) = 2 * v * T + a * (T * T)
      BY DEF P!Travelled, P!Square
    <3>3. 2 * (v + a * T) * (n - T) = 0
      BY <2>5
    <3>4. PICK x \in Int : x = 2 * v * T + a * (T * T)
      OBVIOUS
    <3>5. x + 2 * (v + a * T) * (n - T) = x
      BY <3>3
    <3> QED
      BY <1>4, <2>1, <2>2, <2>5, <2>6, <3>1, <3>2, <3>4, <3>5
  <2>7. CASE ~(n >= T)
    <3>1. P!Kinematics(v, a, n) = [distance |-> P!Travelled(v, a, n), speed |-> v + a * n]
      BY <1>1, <2>3, <2>4, <2>7, Zenon DEF P!Kinematics
    <3> QED
      BY <2>7, <3>1 DEF P!Travelled, P!Square
  <2> QED
    BY <2>6, <2>7
<1>5. CASE n # 0 /\ a > 0
  <2>2. (VMax - v) \div a = T
    <3>1. VMax - v = a * T /\ a \in Nat \ {0}
      BY <1>5
    <3> QED
      BY <3>1, ExactDivision
  <2>3. P!Capped(v, a, n) <=> n >= T
    BY <1>5, <2>2 DEF P!Capped
  <2>4. ~P!Stopped(v, a, n) /\ ~(n <= 0)
    BY <1>5 DEF P!Stopped
  <2>5. v + a * T = VMax
    <3>1. PICK p \in Int : p = a * T
      OBVIOUS
    <3> QED
      BY <1>0, <1>5, <3>1
  <2>6. CASE n >= T
    <3>1. P!Kinematics(v, a, n) =
            [distance |-> P!Travelled(v, a, (VMax - v) \div a) + 2 * VMax * (n - (VMax - v) \div a), speed |-> VMax]
      BY <1>1, <2>3, <2>4, <2>6, Zenon DEF P!Kinematics
    <3>2. P!Travelled(v, a, T) = 2 * v * T + a * (T * T)
      BY DEF P!Travelled, P!Square
    <3> QED
      BY <1>5, <2>2, <2>5, <2>6, <3>1, <3>2
  <2>7. CASE ~(n >= T)
    <3>1. P!Kinematics(v, a, n) = [distance |-> P!Travelled(v, a, n), speed |-> v + a * n]
      BY <1>1, <2>3, <2>4, <2>7, Zenon DEF P!Kinematics
    <3> QED
      BY <2>7, <3>1 DEF P!Travelled, P!Square
  <2> QED
    BY <2>6, <2>7
<1> QED
  BY <1>2, <1>3, <1>4, <1>5

\* DistanceOf is the recursion it is written as.
LEMMA DistanceEquation ==
  ASSUME NEW speeds \in Seq(Int), NEW N \in Nat, Len(speeds) = N + 1
  PROVE  \A n \in 0..N : /\ P!DistanceOf(speeds)[n] \in Int
                         /\ P!DistanceOf(speeds)[n] =
                              IF n = 0 THEN 0 ELSE P!DistanceOf(speeds)[n - 1] + speeds[n] + speeds[n + 1]
<1>0. \A i \in 1..N + 1 : speeds[i] \in Int
  OBVIOUS
<1>1. PICK step \in [1..N -> Int] : \A i \in 1..N : step[i] = speeds[i] + speeds[i + 1]
  <2>1. \A i \in 1..N : speeds[i] + speeds[i + 1] \in Int
    BY <1>0
  <2>2. [i \in 1..N |-> speeds[i] + speeds[i + 1]] \in [1..N -> Int]
    BY <2>1
  <2> QED
    BY <2>2, Zenon
<1>2. PICK V : V = Int
  OBVIOUS
<1>12. PICK next \in [1..N -> [V -> V]] : \A i \in 1..N, d \in V : next[i][d] = d + step[i]
  <2>1. \A i \in 1..N, d \in V : d + step[i] \in V
    BY <1>2
  <2>2. [i \in 1..N |-> [d \in V |-> d + step[i]]] \in [1..N -> [V -> V]]
    BY <2>1
  <2> QED
    BY <2>2, Zenon
<1>3. PICK h \in [0..N -> V] : Run(h, N, 0, next)
  <2>1. 0 \in V
    BY <1>2
  <2> QED
    BY <2>1, RecursionExists, Zenon
<1>4. h = [n \in 0..Len(speeds) - 1 |-> IF n = 0 THEN 0 ELSE h[n - 1] + speeds[n] + speeds[n + 1]]
  <2>1. ASSUME NEW i \in 0..N PROVE h[i] = IF i = 0 THEN 0 ELSE h[i - 1] + speeds[i] + speeds[i + 1]
    <3>1. CASE i = 0
      BY <1>3, <3>1 DEF Run
    <3>2. CASE i # 0
      <4>1. i \in 1..N /\ i - 1 \in 0..N
        BY <3>2
      <4>2. h[i] = next[i][h[i - 1]]
        BY <1>3, <3>2, Zenon DEF Run
      <4>3. PICK d \in V : d = h[i - 1]
        BY <4>1
      <4>4. h[i] = d + step[i]
        BY <4>1, <4>2, <4>3, <1>12
      <4>5. PICK x \in Int, y \in Int : x = speeds[i] /\ y = speeds[i + 1]
        BY <1>0, <4>1
      <4>6. step[i] = x + y
        BY <1>1, <4>1, <4>5
      <4>7. d + (x + y) = d + x + y
        BY <1>2
      <4> QED
        BY <3>2, <4>3, <4>4, <4>5, <4>6, <4>7
    <3> QED
      BY <3>1, <3>2
  <2>2. Len(speeds) - 1 = N
    OBVIOUS
  <2> QED
    BY <2>1, <2>2
<1>5. P!DistanceOf(speeds) =
        [n \in 0..Len(speeds) - 1 |->
           IF n = 0 THEN 0 ELSE P!DistanceOf(speeds)[n - 1] + speeds[n] + speeds[n + 1]]
  BY <1>4, Zenon DEF P!DistanceOf
<1>6. PICK f : f = P!DistanceOf(speeds)
  OBVIOUS
<1>7. f = [n \in 0..N |-> IF n = 0 THEN 0 ELSE f[n - 1] + speeds[n] + speeds[n + 1]]
  <2>1. Len(speeds) - 1 = N
    OBVIOUS
  <2> QED
    BY <1>5, <1>6, <2>1, Zenon
<1> DEFINE T == {n \in Nat : n <= N => f[n] \in Int}
<1>8. 0 \in T
  BY <1>7
<1>9. ASSUME NEW n \in Nat, n \in T PROVE n + 1 \in T
  <2> SUFFICES ASSUME n + 1 <= N PROVE f[n + 1] \in Int
    OBVIOUS
  <2>1. f[n] \in Int
    BY <1>9
  <2>2. f[n + 1] = f[n] + speeds[n + 1] + speeds[n + 1 + 1]
    <3>1. n + 1 \in 0..N /\ (n + 1) - 1 = n /\ n + 1 # 0
      OBVIOUS
    <3> QED
      BY <1>7, <3>1, Zenon
  <2>3. speeds[n + 1] \in Int /\ speeds[n + 1 + 1] \in Int
    BY <1>0
  <2> QED
    BY <2>1, <2>2, <2>3
<1> HIDE DEF T
<1>10. Nat \subseteq T
  BY <1>8, <1>9, NumberInduction, Zenon
<1>11. \A n \in 0..N : f[n] \in Int
  BY <1>10 DEF T
<1> QED
  BY <1>6, <1>7, <1>11, Zenon

\* _kinematics integrates the motion it stands for, whatever the acceleration and
\* the limit, where a stop or the limit is reached after a whole number of seconds.
THEOREM MotionIsIntegrated ==
  ASSUME NEW a \in Int, NEW speeds, Motion(speeds, a), WholeStops(speeds[1], a)
  PROVE  P!MotionIntegrates(speeds, a)
<1>0. PICK N \in Nat : N = Len(speeds) - 1
  <2>1. speeds \in Seq(0..VMax) /\ speeds # <<>>
    BY DEF Motion
  <2>2. Len(speeds) \in Nat /\ Len(speeds) # 0
    BY <2>1
  <2> QED
    BY <2>2
<1>1. /\ VMax \in Nat /\ Len(speeds) = N + 1 /\ speeds \in Seq(0..VMax) /\ speeds \in Seq(Int)
      /\ \A i \in 1..N + 1 : speeds[i] \in 0..VMax
      /\ \A i \in 1..N : speeds[i + 1] = Clamp(0, speeds[i] + a, VMax)
  <2>1. VMax \in Nat /\ Len(speeds) = N + 1 /\ speeds \in Seq(0..VMax)
        /\ \A i \in 1..N : speeds[i + 1] = Clamp(0, speeds[i] + a, VMax)
    BY <1>0, TrajectoryAssumption DEF Motion
  <2>2. \A i \in 1..N + 1 : speeds[i] \in 0..VMax
    BY <2>1
  <2>3. speeds \in Seq(Int)
    BY <2>1
  <2> QED
    BY <2>1, <2>2, <2>3
<1>2. PICK v \in 0..VMax : v = speeds[1]
  BY <1>1
<1>3. PICK f : f = P!DistanceOf(speeds)
  OBVIOUS
<1>4. \A n \in 0..N : f[n] \in Int /\ f[n] = IF n = 0 THEN 0 ELSE f[n - 1] + speeds[n] + speeds[n + 1]
  BY <1>1, <1>3, DistanceEquation, Zenon
<1>5. PICK T \in Nat : (a < 0 => v = (-a) * T) /\ (a > 0 => VMax - v = a * T)
  <2>1. CASE a < 0
    BY <1>2, <2>1 DEF WholeStops
  <2>2. CASE a > 0
    BY <1>2, <2>2 DEF WholeStops
  <2>3. CASE a = 0
    BY <2>3
  <2> QED
    BY <2>1, <2>2, <2>3
<1> DEFINE Slow(n) == /\ speeds[n + 1] = v + a * n
                      /\ f[n] = 2 * v * n + a * (n * n)
           Fast(n) == /\ speeds[n + 1] = v + a * T
                      /\ f[n] = 2 * v * T + a * (T * T) + 2 * (v + a * T) * (n - T)
           S1 == {n \in Nat : n <= N => ((n <= T \/ a = 0) => Slow(n)) /\ ((n >= T /\ a # 0) => Fast(n))}
<1>6. 0 \in S1
  <2>1. speeds[1] = v /\ f[0] = 0 /\ v + a * 0 = v /\ 2 * v * 0 + a * (0 * 0) = 0
    BY <1>2, <1>4
  <2>2. Slow(0)
    BY <2>1
  <2>3. ASSUME 0 >= T PROVE Fast(0)
    <3>1. T = 0
      BY <2>3
    <3>2. v + a * T = v /\ 2 * v * T + a * (T * T) + 2 * (v + a * T) * (0 - T) = 0
      BY <3>1
    <3> QED
      BY <2>1, <3>2
  <2> QED
    BY <2>2, <2>3
<1>7. ASSUME NEW n \in Nat, n \in S1 PROVE n + 1 \in S1
  <2> SUFFICES ASSUME n + 1 <= N
               PROVE  /\ (n + 1 <= T \/ a = 0) => Slow(n + 1)
                      /\ (n + 1 >= T /\ a # 0) => Fast(n + 1)
    OBVIOUS
  <2>1. /\ f[n + 1] = f[n] + speeds[n + 1] + speeds[n + 2]
        /\ speeds[n + 2] = Clamp(0, speeds[n + 1] + a, VMax)
    <3>1. n + 1 \in 0..N /\ n + 1 \in 1..N /\ (n + 1) - 1 = n /\ (n + 1) + 1 = n + 2
      OBVIOUS
    <3> QED
      BY <1>1, <1>4, <3>1, SMTT(30)
  <2>2. (n + 1) + 1 = n + 2
    OBVIOUS
  <2>3. ASSUME n + 1 <= T \/ a = 0 PROVE Slow(n + 1)
    <3>1. Slow(n)
      BY <1>7, <2>3
    <3>2. v + a * (n + 1) \in 0..VMax
      <4>1. CASE a = 0
        BY <4>1
      <4>2. CASE a < 0 /\ n + 1 <= T
        <5>1. PICK d \in Nat \ {0} : d = -a
          BY <4>2
        <5>2. v = d * T
          BY <1>5, <4>2, <5>1
        <5>3. d * (n + 1) <= d * T /\ 0 <= d * (n + 1)
          BY <4>2
        <5>4. v + a * (n + 1) = v - d * (n + 1)
          BY <5>1
        <5>5. PICK x \in Int : x = d * (n + 1)
          OBVIOUS
        <5>6. v - x <= v /\ 0 <= v - x /\ v <= VMax
          BY <1>1, <5>2, <5>3, <5>5
        <5>7. v - x \in 0..VMax
          BY <1>1, <5>6
        <5> QED
          BY <5>4, <5>5, <5>7
      <4>3. CASE a > 0 /\ n + 1 <= T
        <5>1. a * (n + 1) <= a * T /\ 0 <= a * (n + 1)
          BY <4>3
        <5>2. PICK x \in Int, y \in Int : x = a * (n + 1) /\ y = a * T
          OBVIOUS
        <5>3. PICK top \in Nat : top = VMax
          BY <1>1
        <5>4. top - v = y /\ x <= y /\ 0 <= x /\ v \in 0..top
          BY <1>5, <4>3, <5>1, <5>2, <5>3
        <5>5. v + x \in 0..top
          BY <5>4
        <5> QED
          BY <5>2, <5>3, <5>5
      <4> QED
        BY <2>3, <4>1, <4>2, <4>3
    <3>3. v + a * n + a = v + a * (n + 1)
      OBVIOUS
    <3>4. speeds[n + 2] = v + a * (n + 1)
      <4>1. PICK w \in 0..VMax : w = v + a * (n + 1)
        BY <3>2
      <4>2. Clamp(0, w, VMax) = w
        BY <1>1 DEF Clamp
      <4> QED
        BY <2>1, <3>1, <3>3, <4>1, <4>2
    <3>5. f[n + 1] = 2 * v * (n + 1) + a * ((n + 1) * (n + 1))
      <4>1. f[n + 1] = (2 * v * n + a * (n * n)) + (v + a * n) + (v + a * (n + 1))
        BY <2>1, <3>1, <3>4
      <4>2. (2 * v * n + a * (n * n)) + (v + a * n) + (v + a * (n + 1)) = 2 * v * (n + 1) + a * ((n + 1) * (n + 1))
        OBVIOUS
      <4> QED
        BY <4>1, <4>2
    <3> QED
      BY <2>2, <3>4, <3>5
  <2>4. ASSUME n + 1 >= T, a # 0 PROVE Fast(n + 1)
    <3>1. CASE n + 1 = T
      <4>1. Slow(n + 1)
        BY <2>3, <3>1
      <4>2. 2 * v * T + a * (T * T) + 2 * (v + a * T) * ((n + 1) - T) = 2 * v * T + a * (T * T)
        BY <3>1
      <4> QED
        BY <3>1, <4>1, <4>2
    <3>2. CASE n >= T
      <4>1. Fast(n)
        BY <1>7, <2>4, <3>2
      <4>2. PICK w \in Int : w = v + a * T
        OBVIOUS
      <4>3. (a < 0 => w = 0) /\ (a > 0 => w = VMax)
        <5>1. PICK x \in Int : x = a * T /\ (-a) * T = -x
          OBVIOUS
        <5> QED
          BY <1>1, <1>5, <4>2, <5>1
      <4>4. Clamp(0, w + a, VMax) = w
        BY <1>1, <2>4, <4>3 DEF Clamp
      <4>5. speeds[n + 2] = w
        BY <2>1, <4>1, <4>2, <4>4
      <4>6. PICK y \in Int : y = 2 * v * T + a * (T * T)
        OBVIOUS
      <4>7. f[n + 1] = (y + 2 * w * (n - T)) + w + w
        BY <2>1, <4>1, <4>2, <4>5, <4>6
      <4>8. (y + 2 * w * (n - T)) + w + w = y + 2 * w * ((n + 1) - T)
        OBVIOUS
      <4> QED
        BY <2>2, <4>2, <4>5, <4>6, <4>7, <4>8
    <3> QED
      BY <2>4, <3>1, <3>2
  <2> QED
    BY <2>3, <2>4
<1> HIDE DEF S1
<1>8. Nat \subseteq S1
  BY <1>6, <1>7, NumberInduction
<1>9. ((N <= T \/ a = 0) => Slow(N)) /\ ((N >= T /\ a # 0) => Fast(N))
  BY <1>8 DEF S1
<1>10. P!Kinematics(v, a, N) = [distance |-> f[N], speed |-> speeds[N + 1]]
  <2>1. CASE a = 0
    <3>1. P!Kinematics(v, a, N) = [distance |-> 2 * v * N + a * (N * N), speed |-> v + a * N]
      <4>1. /\ a < 0 => v = (-a) * N
            /\ a > 0 => VMax - v = a * N
            /\ a = 0 => N = N
        BY <2>1
      <4>2. P!Kinematics(v, a, N) =
             IF N < N \/ a = 0 THEN [distance |-> 2 * v * N + a * (N * N), speed |-> v + a * N]
             ELSE [distance |-> 2 * v * N + a * (N * N) + 2 * (v + a * N) * (N - N), speed |-> v + a * N]
        BY <4>1, KinematicsValue, Zenon
      <4> QED
        BY <2>1, <4>2
    <3> QED
      BY <1>9, <2>1, <3>1
  <2>2. CASE a # 0
    <3>1. P!Kinematics(v, a, N) =
           IF N < T \/ a = 0 THEN [distance |-> 2 * v * N + a * (N * N), speed |-> v + a * N]
           ELSE [distance |-> 2 * v * T + a * (T * T) + 2 * (v + a * T) * (N - T), speed |-> v + a * T]
      BY <1>5, <2>2, KinematicsValue, Zenon
    <3>2. CASE N < T
      BY <1>9, <3>1, <3>2
    <3>3. CASE N >= T
      <4>1. ~(N < T \/ a = 0)
        BY <2>2, <3>3
      <4> QED
        BY <1>9, <2>2, <3>1, <3>3, <4>1
    <3> QED
      BY <3>2, <3>3
  <2> QED
    BY <2>1, <2>2
<1>11. P!Last(speeds) = speeds[N + 1]
  BY <1>1 DEF P!Last
<1> QED
  BY <1>0, <1>2, <1>3, <1>10, <1>11 DEF P!MotionIntegrates

-----------------------------------------------------------------------------
\* spatial.query_nearby and query_along_route: the distance from a segment.

\* A smaller square has a smaller root.
LEMMA SmallerRoot ==
  ASSUME NEW x \in Int, NEW y \in Nat, x * x < y * y
  PROVE  -y < x /\ x < y
<1>1. x >= y => x * x >= y * y
  <2> SUFFICES ASSUME x >= y PROVE x * x >= y * y
    OBVIOUS
  <2>1. x * x >= x * y
    OBVIOUS
  <2>2. x * y >= y * y
    OBVIOUS
  <2>3. PICK p \in Int, q \in Int, r \in Int : p = x * x /\ q = x * y /\ r = y * y
    OBVIOUS
  <2> QED
    BY <2>1, <2>2, <2>3
<1>2. -x >= y => x * x >= y * y
  <2> SUFFICES ASSUME -x >= y PROVE x * x >= y * y
    OBVIOUS
  <2>0. PICK z \in Nat : z = -x /\ z * z = x * x
    OBVIOUS
  <2>1. z * z >= z * y
    BY <2>0
  <2>2. z * y >= y * y
    BY <2>0
  <2>3. PICK p \in Int, q \in Int, r \in Int : p = z * z /\ q = z * y /\ r = y * y
    OBVIOUS
  <2> QED
    BY <2>0, <2>1, <2>2, <2>3
<1>3. PICK p \in Int, q \in Int : p = x * x /\ q = y * y
  OBVIOUS
<1> QED
  BY <1>1, <1>2, <1>3

\* The distance from a vehicle, t from where a segment d begins, to the point a
\* part k/n along it, squared and times n squared.
LEMMA ApartAlong ==
  ASSUME NEW tx \in Int, NEW ty \in Int, NEW dx \in Int, NEW dy \in Int, NEW n \in Int, NEW k \in Int,
         n = dx * dx + dy * dy
  PROVE  (n * tx - k * dx) * (n * tx - k * dx) + (n * ty - k * dy) * (n * ty - k * dy)
           = n * (n * (tx * tx + ty * ty) - 2 * (k * (tx * dx + ty * dy)) + k * k)
<1>1. PICK r \in Int, e \in Int : r = tx * tx + ty * ty /\ e = tx * dx + ty * dy
  OBVIOUS
<1>2. (n * tx - k * dx) * (n * tx - k * dx) + (n * ty - k * dy) * (n * ty - k * dy)
        = (n * n) * (tx * tx + ty * ty) - 2 * ((n * k) * (tx * dx + ty * dy)) + (k * k) * (dx * dx + dy * dy)
  OBVIOUS
<1>3. (n * n) * r - 2 * ((n * k) * e) + (k * k) * n = n * (n * r - 2 * (k * e) + k * k)
  OBVIOUS
<1> QED
  BY <1>1, <1>2, <1>3

\* A cross product, squared.
LEMMA Lagrange ==
  ASSUME NEW tx \in Int, NEW ty \in Int, NEW dx \in Int, NEW dy \in Int
  PROVE  (dx * ty - dy * tx) * (dx * ty - dy * tx)
           = (dx * dx + dy * dy) * (tx * tx + ty * ty) - (tx * dx + ty * dy) * (tx * dx + ty * dy)
OBVIOUS

\* A positive factor cancels.
LEMMA CancelFactor ==
  ASSUME NEW n \in Nat \ {0}, NEW x \in Int, NEW y \in Int
  PROVE  /\ n * x <= n * y <=> x <= y
         /\ n * x < n * y <=> x < y
<1>1. x <= y => n * x <= n * y
  OBVIOUS
<1>2. x < y => n * x < n * y
  OBVIOUS
<1>3. y <= x => n * y <= n * x
  OBVIOUS
<1>4. y < x => n * y < n * x
  OBVIOUS
<1>5. PICK p \in Int, q \in Int : p = n * x /\ q = n * y
  OBVIOUS
<1> QED
  BY <1>1, <1>2, <1>3, <1>4, <1>5

\* The squared distance to the segment's start, how far along it a row is and its
\* squared length.
Products(tx, ty, dx, dy, r, e, m) ==
  r = tx * tx + ty * ty /\ e = tx * dx + ty * dy /\ m = dx * dx + dy * dy

\* A vehicle near a point of a segment is near the segment, as _point_to_segment_m
\* finds it.
LEMMA NearAPoint ==
  ASSUME NEW tx \in Int, NEW ty \in Int, NEW dx \in Int, NEW dy \in Int,
         NEW n \in Nat \ {0}, NEW k \in 0..n, NEW w \in Nat,
         NEW r \in Int, NEW e \in Int, Products(tx, ty, dx, dy, r, e, n),
         (n * tx - k * dx) * (n * tx - k * dx) + (n * ty - k * dy) * (n * ty - k * dy) <= (n * w) * (n * w)
  PROVE  /\ e <= 0 => r <= w * w
         /\ e >= n => r - 2 * e + n <= w * w
         /\ n * r - e * e <= (w * w) * n
<1>0. PICK ww \in Nat : ww = w * w
  OBVIOUS
<1>1. PICK g \in Int : g = n * r - 2 * (k * e) + k * k
  OBVIOUS
<1>9. r = tx * tx + ty * ty /\ e = tx * dx + ty * dy /\ n = dx * dx + dy * dy
  BY DEF Products
<1>2. n * g <= (n * w) * (n * w)
  BY <1>1, <1>9, ApartAlong
<1>3. (n * w) * (n * w) = n * (n * ww)
  <2>1. (n * w) * (n * w) = n * (n * (w * w))
    OBVIOUS
  <2> QED
    BY <1>0, <2>1
<1>4. PICK nw \in Int : nw = n * ww
  OBVIOUS
<1>5. g <= nw
  BY <1>2, <1>3, <1>4, CancelFactor
<1>6. ASSUME e <= 0 PROVE r <= ww
  <2>1. k * e <= 0 /\ k * k >= 0
    BY <1>6
  <2>2. PICK ke \in Int, kk \in Int, nr \in Int : ke = k * e /\ kk = k * k /\ nr = n * r
    OBVIOUS
  <2>3. nr <= nw
    BY <1>1, <1>5, <2>1, <2>2
  <2> QED
    BY <1>4, <2>2, <2>3, CancelFactor
<1>7. ASSUME e >= n PROVE r - 2 * e + n <= ww
  <2>1. PICK r2 \in Int : r2 = r - 2 * e + n
    OBVIOUS
  <2>2. g = n * r2 + (n - k) * (2 * e - (n + k))
    <3>1. n * (r - 2 * e + n) + (n - k) * (2 * e - (n + k)) = n * r - 2 * (k * e) + k * k
      OBVIOUS
    <3> QED
      BY <1>1, <2>1, <3>1
  <2>3. (n - k) * (2 * e - (n + k)) >= 0
    <3>0. n - k \in Nat /\ 2 * e - (n + k) \in Nat
      <4>1. k \in Int /\ k <= n /\ n <= e
        BY <1>7
      <4> QED
        BY <4>1
    <3>1. PICK x \in Nat, y \in Nat : x = n - k /\ y = 2 * e - (n + k)
      BY <3>0, Zenon
    <3>2. x * y >= 0
      OBVIOUS
    <3> QED
      BY <3>1, <3>2
  <2>4. PICK nr \in Int, z \in Int : nr = n * r2 /\ z = (n - k) * (2 * e - (n + k))
    OBVIOUS
  <2>5. nr <= nw
    BY <1>5, <2>2, <2>3, <2>4
  <2> QED
    BY <1>4, <2>1, <2>4, <2>5, CancelFactor
<1>8. n * r - e * e <= ww * n
  <2>1. g = (n * r - e * e) + (k - e) * (k - e)
    BY <1>1
  <2>2. (k - e) * (k - e) >= 0
    OBVIOUS
  <2>3. PICK x \in Int, y \in Int : x = n * r - e * e /\ y = (k - e) * (k - e)
    OBVIOUS
  <2>4. x <= nw
    BY <1>5, <2>1, <2>2, <2>3
  <2>5. n * ww = ww * n
    OBVIOUS
  <2> QED
    BY <1>4, <2>3, <2>4, <2>5
<1> QED
  BY <1>0, <1>6, <1>7, <1>8

\* And the other way round: the point of the segment it finds.
LEMMA ThePointNearby ==
  ASSUME NEW tx \in Int, NEW ty \in Int, NEW dx \in Int, NEW dy \in Int,
         NEW n \in Nat \ {0}, NEW w \in Nat,
         NEW r \in Int, NEW e \in Int, Products(tx, ty, dx, dy, r, e, n),
         e <= 0 => r <= w * w,
         e >= n => r - 2 * e + n <= w * w,
         e \in 1..n - 1 => n * r - e * e <= (w * w) * n
  PROVE  \E k \in 0..n :
           (n * tx - k * dx) * (n * tx - k * dx) + (n * ty - k * dy) * (n * ty - k * dy) <= (n * w) * (n * w)
<1>0. PICK ww \in Nat : ww = w * w
  OBVIOUS
<1>1. PICK nw \in Int : nw = n * ww
  OBVIOUS
<1>2. (n * w) * (n * w) = n * nw
  <2>1. (n * w) * (n * w) = n * (n * (w * w))
    OBVIOUS
  <2> QED
    BY <1>0, <1>1, <2>1
<1>3. ASSUME NEW k \in 0..n, n * r - 2 * (k * e) + k * k <= nw
      PROVE  (n * tx - k * dx) * (n * tx - k * dx) + (n * ty - k * dy) * (n * ty - k * dy) <= (n * w) * (n * w)
  <2>1. PICK g \in Int : g = n * r - 2 * (k * e) + k * k
    OBVIOUS
  <2>2. (n * tx - k * dx) * (n * tx - k * dx) + (n * ty - k * dy) * (n * ty - k * dy) = n * g
    <3>1. r = tx * tx + ty * ty /\ e = tx * dx + ty * dy /\ n = dx * dx + dy * dy
      BY DEF Products
    <3> QED
      BY <2>1, <3>1, ApartAlong
  <2>3. n * g <= n * nw
    BY <1>3, <2>1, CancelFactor
  <2> QED
    BY <1>2, <2>2, <2>3
<1>4. CASE e <= 0
  <2>0. r <= ww
    BY <1>0, <1>4
  <2>1. n * r <= n * ww
    BY <2>0, CancelFactor
  <2>2. n * r - 2 * (0 * e) + 0 * 0 = n * r
    OBVIOUS
  <2>3. 0 \in 0..n /\ n * r - 2 * (0 * e) + 0 * 0 <= nw
    BY <1>1, <2>1, <2>2
  <2> QED
    BY <1>3, <2>3
<1>5. CASE e >= n
  <2>1. n * (r - 2 * e + n) <= n * ww
    BY <1>0, <1>5, CancelFactor
  <2>2. n * r - 2 * (n * e) + n * n = n * (r - 2 * e + n)
    OBVIOUS
  <2>3. n \in 0..n /\ n * r - 2 * (n * e) + n * n <= nw
    BY <1>1, <2>1, <2>2
  <2> QED
    BY <1>3, <2>3
<1>6. CASE e \in 1..n - 1
  <2>1. n * r - e * e <= ww * n
    BY <1>0, <1>6
  <2>2. n * r - 2 * (e * e) + e * e = n * r - e * e
    OBVIOUS
  <2>3. ww * n = n * ww
    OBVIOUS
  <2>4. e \in 0..n /\ n * r - 2 * (e * e) + e * e <= nw
    BY <1>1, <1>6, <2>1, <2>2, <2>3
  <2> QED
    BY <1>3, <2>4
<1> QED
  BY <1>4, <1>5, <1>6

\* In one coordinate: near a point between two corners is near one of them, on
\* either side.
LEMMA NearACorner ==
  ASSUME NEW t \in Int, NEW d \in Int, NEW n \in Nat \ {0}, NEW k \in 0..n, NEW w \in Nat,
         -(n * w) < n * t - k * d, n * t - k * d < n * w
  PROVE  /\ -t <= w - 1 \/ -(t - d) <= w - 1
         /\ t <= w - 1 \/ t - d <= w - 1
<1>1. PICK u \in Int : u = n * t - k * d
  OBVIOUS
<1>2. PICK kd \in Int, md \in Int : kd = k * d /\ md = (n - k) * d
  OBVIOUS
<1>3. n * t = u + kd /\ n * (t - d) = u - md
  BY <1>1, <1>2
<1>4. d >= 0 => kd >= 0 /\ md >= 0
  <2>1. PICK m \in Nat : m = n - k
    OBVIOUS
  <2>2. d >= 0 => k * d >= 0 /\ m * d >= 0
    OBVIOUS
  <2> QED
    BY <1>2, <2>1, <2>2
<1>5. d <= 0 => kd <= 0 /\ md <= 0
  <2>1. PICK m \in Nat : m = n - k
    OBVIOUS
  <2>2. d <= 0 => k * d <= 0 /\ m * d <= 0
    OBVIOUS
  <2> QED
    BY <1>2, <2>1, <2>2
<1>6. \A x \in Int : /\ n * x < n * w => x < w
                     /\ n * (-w) < n * x => -w < x
  BY CancelFactor
<1>7. n * (-w) = -(n * w)
  OBVIOUS
<1>8. PICK nw \in Int, nt \in Int, nd \in Int : nw = n * w /\ nt = n * t /\ nd = n * (t - d)
  OBVIOUS
<1>9. -nw < u /\ u < nw /\ nt = u + kd /\ nd = u - md
  BY <1>1, <1>3, <1>8
<1>10. CASE d >= 0
  <2>1. -nw < nt /\ nd < nw
    BY <1>4, <1>9, <1>10
  <2>2. -w < t /\ t - d < w
    BY <1>6, <1>7, <1>8, <2>1
  <2> QED
    BY <2>2
<1>11. CASE d <= 0
  <2>1. -nw < nd /\ nt < nw
    BY <1>5, <1>9, <1>11
  <2>2. -w < t - d /\ t < w
    BY <1>6, <1>7, <1>8, <2>1
  <2> QED
    BY <2>2
<1> QED
  BY <1>10, <1>11

\* A row at t from where a segment begins, that goes by d, and its squared length.
Along(p, a, b, tx, ty, dx, dy, n) ==
  /\ tx = p.x - a.x /\ ty = p.y - a.y /\ dx = b.x - a.x /\ dy = b.y - a.y
  /\ n = S!Steps(a, b)
  /\ a # b => n = dx * dx + dy * dy
  /\ a = b => n = 1 /\ dx = 0 /\ dy = 0
  /\ \A k \in Int : S!Apart(p, a, b, k) =
       (n * tx - k * dx) * (n * tx - k * dx) + (n * ty - k * dy) * (n * ty - k * dy)

\* The differences a segment and a position are known by.
LEMMA SegmentCoordinates ==
  ASSUME NEW p \in Position, NEW a \in Position, NEW b \in Position
  PROVE  \E tx, ty, dx, dy \in Int, n \in Nat \ {0} : Along(p, a, b, tx, ty, dx, dy, n)
<1>1. PICK px \in Int, py \in Int, ax \in Int, ay \in Int, bx \in Int, by \in Int :
        /\ p = [x |-> px, y |-> py] /\ a = [x |-> ax, y |-> ay] /\ b = [x |-> bx, y |-> by]
  <2>1. \A q \in Position : \E x \in Int, y \in Int : q = [x |-> x, y |-> y]
    BY DEF Position
  <2> QED
    BY <2>1
<1>2. PICK tx \in Int, ty \in Int, dx \in Int, dy \in Int :
        tx = px - ax /\ ty = py - ay /\ dx = bx - ax /\ dy = by - ay
  OBVIOUS
<1>3. /\ tx = p.x - a.x /\ ty = p.y - a.y /\ dx = b.x - a.x /\ dy = b.y - a.y
      /\ p.x = px /\ p.y = py /\ a.x = ax /\ a.y = ay /\ b.x = bx /\ b.y = by
  BY <1>1, <1>2
<1>4. PICK m \in Int : m = dx * dx + dy * dy
  OBVIOUS
<1>5. m >= 0 /\ (m = 0 => dx = 0 /\ dy = 0)
  <2>1. \A z \in Int : z * z >= 0 /\ (z # 0 => z * z > 0)
    OBVIOUS
  <2>2. PICK u \in Nat, v \in Nat : u = dx * dx /\ v = dy * dy
    BY <2>1
  <2>3. m = u + v
    BY <1>4, <2>2
  <2>4. m = 0 => u = 0 /\ v = 0
    BY <2>3
  <2> QED
    BY <2>1, <2>2, <2>3, <2>4
<1>6. a = b <=> dx = 0 /\ dy = 0
  BY <1>1, <1>2
<1>7. S!Distance2(a, b) = m
  <2>1. S!Distance2(a, b) = (ax - bx) * (ax - bx) + (ay - by) * (ay - by)
    BY <1>3 DEF S!Distance2, S!Dot, S!Minus
  <2>2. (ax - bx) * (ax - bx) + (ay - by) * (ay - by) = dx * dx + dy * dy
    BY <1>2
  <2> QED
    BY <1>4, <2>1, <2>2
<1>8. PICK n \in Nat \ {0} : n = S!Steps(a, b) /\ (a # b => n = m) /\ (a = b => n = 1)
  BY <1>5, <1>6, <1>7 DEF S!Steps
<1>9. ASSUME NEW k \in Int
      PROVE  S!Apart(p, a, b, k) =
                (n * tx - k * dx) * (n * tx - k * dx) + (n * ty - k * dy) * (n * ty - k * dy)
  <2>1. S!Apart(p, a, b, k) =
          (n * px - ((n - k) * ax + k * bx)) * (n * px - ((n - k) * ax + k * bx))
            + (n * py - ((n - k) * ay + k * by)) * (n * py - ((n - k) * ay + k * by))
    BY <1>3, <1>8 DEF S!Apart, S!Times, S!OnSegment, S!Distance2, S!Dot, S!Minus
  <2>2. n * px - ((n - k) * ax + k * bx) = n * tx - k * dx
    BY <1>2
  <2>3. n * py - ((n - k) * ay + k * by) = n * ty - k * dy
    BY <1>2
  <2> QED
    BY <2>1, <2>2, <2>3, Zenon
<1>10. Along(p, a, b, tx, ty, dx, dy, n)
  <2>1. a = b => n = 1 /\ dx = 0 /\ dy = 0
    BY <1>6, <1>8
  <2>2. a # b => n = dx * dx + dy * dy
    BY <1>4, <1>8
  <2> QED
    BY <1>3, <1>8, <1>9, <2>1, <2>2 DEF Along
<1> QED
  BY <1>10

\* NearSegment by its coordinates.
NearBy(r, e, m, w) ==
  IF m = 0 \/ e <= 0 THEN r <= w * w
  ELSE IF e >= m THEN r - 2 * e + m <= w * w
  ELSE m * r - e * e <= (w * w) * m

\* _point_to_segment_m in these differences.
LEMMA NearSegmentValue ==
  ASSUME NEW p \in Position, NEW a \in Position, NEW b \in Position, NEW w \in Nat,
         NEW tx \in Int, NEW ty \in Int, NEW dx \in Int, NEW dy \in Int, NEW n \in Nat \ {0},
         Along(p, a, b, tx, ty, dx, dy, n),
         NEW r \in Int, NEW e \in Int, NEW m \in Int, Products(tx, ty, dx, dy, r, e, m)
  PROVE  S!NearSegment(p, a, b, w) <=> NearBy(r, e, m, w)
<1>0. /\ tx = p.x - a.x /\ ty = p.y - a.y /\ dx = b.x - a.x /\ dy = b.y - a.y
      /\ r = tx * tx + ty * ty /\ e = tx * dx + ty * dy /\ m = dx * dx + dy * dy
  BY DEF Along, Products
<1>1. S!Within(p, a, w) <=> r <= w * w
  <2>1. S!Within(p, a, w) <=> (p.x - a.x) * (p.x - a.x) + (p.y - a.y) * (p.y - a.y) <= w * w
    BY DEF S!Within, S!Distance2, S!Dot, S!Minus, S!Square
  <2> QED
    BY <1>0, <2>1
<1>2. S!Within(p, b, w) <=> r - 2 * e + m <= w * w
  <2>1. S!Within(p, b, w) <=> (p.x - b.x) * (p.x - b.x) + (p.y - b.y) * (p.y - b.y) <= w * w
    BY DEF S!Within, S!Distance2, S!Dot, S!Minus, S!Square
  <2>2. p.x - b.x = tx - dx /\ p.y - b.y = ty - dy
    BY <1>0 DEF Position
  <2>3. (tx - dx) * (tx - dx) + (ty - dy) * (ty - dy) = r - 2 * e + m
    BY <1>0
  <2> QED
    BY <2>1, <2>2, <2>3
<1>3. S!Dot(S!Minus(b, a), S!Minus(b, a)) = m /\ S!Dot(S!Minus(p, a), S!Minus(b, a)) = e
  BY <1>0 DEF S!Dot, S!Minus
<1>4. (dx * ty - dy * tx) * (dx * ty - dy * tx) = m * r - e * e
  BY <1>0, Lagrange
<1>5. S!Square(S!Minus(b, a).x * S!Minus(p, a).y - S!Minus(b, a).y * S!Minus(p, a).x)
        = m * r - e * e
  <2>1. /\ S!Minus(b, a).x = dx /\ S!Minus(b, a).y = dy
        /\ S!Minus(p, a).x = tx /\ S!Minus(p, a).y = ty
    BY <1>0 DEF S!Minus
  <2> QED
    BY <1>4, <2>1 DEF S!Square
<1>6. S!Square(w) = w * w
  BY DEF S!Square
<1>7. PICK cross, sqw : /\ cross = S!Square(S!Minus(b, a).x * S!Minus(p, a).y - S!Minus(b, a).y * S!Minus(p, a).x)
                        /\ sqw = S!Square(w)
  OBVIOUS
<1>8. S!NearSegment(p, a, b, w) <=>
        IF m = 0 \/ e <= 0 THEN S!Within(p, a, w)
        ELSE IF e >= m THEN S!Within(p, b, w)
        ELSE cross <= sqw * m
  BY <1>3, <1>7, Zenon DEF S!NearSegment
<1> QED
  BY <1>1, <1>2, <1>5, <1>6, <1>7, <1>8 DEF NearBy

\* What is near a segment is near one of its points, and no farther.
LEMMA NearIsNotOutside ==
  ASSUME NEW p \in Position, NEW a \in Position, NEW b \in Position, NEW w \in Nat,
         S!NearSegment(p, a, b, w)
  PROVE  \E k \in 0..S!Steps(a, b) : ~(S!Apart(p, a, b, k) > S!Square(S!Steps(a, b) * w))
<1>1. PICK tx \in Int, ty \in Int, dx \in Int, dy \in Int, n \in Nat \ {0} : Along(p, a, b, tx, ty, dx, dy, n)
  BY SegmentCoordinates, Zenon
<1>7. tx = p.x - a.x /\ ty = p.y - a.y /\ dx = b.x - a.x /\ dy = b.y - a.y /\ n = S!Steps(a, b)
  BY <1>1 DEF Along
<1>2. PICK r \in Int, e \in Int, m \in Int :
        r = tx * tx + ty * ty /\ e = tx * dx + ty * dy /\ m = dx * dx + dy * dy
  OBVIOUS
<1>8. Products(tx, ty, dx, dy, r, e, m)
  BY <1>2 DEF Products
<1>9. NearBy(r, e, m, w)
  BY <1>1, <1>8, NearSegmentValue, Zenon
<1>3. IF m = 0 \/ e <= 0 THEN r <= w * w
      ELSE IF e >= m THEN r - 2 * e + m <= w * w
      ELSE m * r - e * e <= (w * w) * m
  BY <1>9 DEF NearBy
<1>4. \E k \in 0..n : (n * tx - k * dx) * (n * tx - k * dx) + (n * ty - k * dy) * (n * ty - k * dy) <= (n * w) * (n * w)
  <2>1. CASE a = b
    <3>0. n = 1 /\ dx = 0 /\ dy = 0
      BY <1>1, <2>1 DEF Along
    <3>1. m = 0 /\ n = 1 /\ dx = 0 /\ dy = 0
      BY <1>2, <3>0
    <3>2. r <= w * w
      BY <1>3, <3>1
    <3>3. (1 * tx - 0 * dx) * (1 * tx - 0 * dx) + (1 * ty - 0 * dy) * (1 * ty - 0 * dy) = r
      BY <1>2
    <3>4. (1 * w) * (1 * w) = w * w
      OBVIOUS
    <3>5. 0 \in 0..n
      OBVIOUS
    <3> QED
      BY <3>1, <3>2, <3>3, <3>4, <3>5
  <2>2. CASE a # b
    <3>1. n = m /\ n = dx * dx + dy * dy
      BY <1>1, <1>2, <2>2 DEF Along
    <3>2. /\ e <= 0 => r <= w * w
          /\ e >= n => r - 2 * e + n <= w * w
          /\ e \in 1..n - 1 => n * r - e * e <= (w * w) * n
      BY <1>3, <3>1
    <3>3. Products(tx, ty, dx, dy, r, e, n)
      BY <1>8, <3>1
    <3> QED
      BY <3>2, <3>3, ThePointNearby, Zenon
  <2> QED
    BY <2>1, <2>2
<1>5. PICK k \in 0..n : (n * tx - k * dx) * (n * tx - k * dx) + (n * ty - k * dy) * (n * ty - k * dy) <= (n * w) * (n * w)
  BY <1>4, Zenon
<1>6. ~(S!Apart(p, a, b, k) > S!Square(n * w))
  <2>1. PICK x \in Int, y \in Int :
          /\ x = (n * tx - k * dx) * (n * tx - k * dx) + (n * ty - k * dy) * (n * ty - k * dy)
          /\ y = (n * w) * (n * w)
    OBVIOUS
  <2>2. S!Apart(p, a, b, k) = x /\ S!Square(n * w) = y
    BY <1>1, <2>1 DEF S!Square, Along
  <2> QED
    BY <1>5, <2>1, <2>2
<1> QED
  BY <1>7, <1>6

Row == [at : Position, shown : BOOLEAN]

\* The padding of a box for a width is no less than inner - 1, though its degrees are
\* a thousandth too short.
Padded(inner, width) == inner <= width /\ (inner - 1) * S!BoxDegree <= width * S!SphereDegree

\* What is within the padded distance in a coordinate is in the box.
LEMMA PaddingReaches ==
  ASSUME NEW inner \in Nat, NEW width \in Nat, Padded(inner, width),
         NEW m \in Int, NEW n \in Int, n - m <= inner - 1
  PROVE  S!Reaches(m, n, width)
<1>1. PICK d \in Int : d = n - m /\ d <= inner - 1
  OBVIOUS
<1>2. d * 111320 <= (inner - 1) * 111320
  BY <1>1
<1>3. (inner - 1) * 111320 <= width * 111195
  BY DEF Padded, S!BoxDegree, S!SphereDegree
<1>4. d * 111320 <= width * 111195
  BY <1>1, <1>2, <1>3
<1> QED
  BY <1>1, <1>4 DEF S!Reaches, S!BoxDegree, S!SphereDegree

\* A row less than inner from a point of a segment: _point_to_segment_m finds it so,
\* and so does the box, in each coordinate.
LEMMA NearAPointOfIt ==
  ASSUME NEW p \in Position, NEW a \in Position, NEW b \in Position,
         NEW inner \in Nat, NEW width \in Nat, Padded(inner, width),
         NEW k \in 0..S!Steps(a, b), S!Apart(p, a, b, k) < S!Square(S!Steps(a, b) * inner)
  PROVE  /\ S!NearSegment(p, a, b, width)
         /\ S!Reaches(p.x, a.x, width) \/ S!Reaches(p.x, b.x, width)
         /\ S!Reaches(a.x, p.x, width) \/ S!Reaches(b.x, p.x, width)
         /\ S!Reaches(p.y, a.y, width) \/ S!Reaches(p.y, b.y, width)
         /\ S!Reaches(a.y, p.y, width) \/ S!Reaches(b.y, p.y, width)
<1>1. PICK tx \in Int, ty \in Int, dx \in Int, dy \in Int, n \in Nat \ {0} : Along(p, a, b, tx, ty, dx, dy, n)
  BY SegmentCoordinates, Zenon
<1>2. tx = p.x - a.x /\ ty = p.y - a.y /\ dx = b.x - a.x /\ dy = b.y - a.y /\ n = S!Steps(a, b)
  BY <1>1 DEF Along
<1>3. k \in 0..n /\ k \in Int
  BY <1>2
<1>4. (n * tx - k * dx) * (n * tx - k * dx) + (n * ty - k * dy) * (n * ty - k * dy) < (n * inner) * (n * inner)
  BY <1>1, <1>2, <1>3 DEF Along, S!Square
<1>5. PICK ux \in Int, uy \in Int, nw \in Nat : ux = n * tx - k * dx /\ uy = n * ty - k * dy /\ nw = n * inner
  BY <1>3
<1>6. ux * ux < nw * nw /\ uy * uy < nw * nw
  <2>1. \A z \in Int : z * z >= 0
    OBVIOUS
  <2>2. PICK xx \in Nat, yy \in Nat, ww \in Int : xx = ux * ux /\ yy = uy * uy /\ ww = nw * nw
    BY <2>1
  <2>3. xx + yy < ww
    BY <1>4, <1>5, <2>2
  <2>4. xx < ww /\ yy < ww
    BY <2>3
  <2> QED
    BY <2>2, <2>4
<1>7. -nw < ux /\ ux < nw /\ -nw < uy /\ uy < nw
  BY <1>6, SmallerRoot
<1>8. /\ -tx <= inner - 1 \/ -(tx - dx) <= inner - 1
      /\ tx <= inner - 1 \/ tx - dx <= inner - 1
  BY <1>3, <1>5, <1>7, NearACorner
<1>9. /\ -ty <= inner - 1 \/ -(ty - dy) <= inner - 1
      /\ ty <= inner - 1 \/ ty - dy <= inner - 1
  BY <1>3, <1>5, <1>7, NearACorner
<1>10. /\ p.x \in Int /\ p.y \in Int /\ a.x \in Int /\ a.y \in Int /\ b.x \in Int /\ b.y \in Int
       /\ -tx = a.x - p.x /\ -(tx - dx) = b.x - p.x /\ tx - dx = p.x - b.x
       /\ -ty = a.y - p.y /\ -(ty - dy) = b.y - p.y /\ ty - dy = p.y - b.y
  BY <1>2 DEF Position
<1>11. S!Reaches(p.x, a.x, width) \/ S!Reaches(p.x, b.x, width)
  BY <1>8, <1>10, PaddingReaches, Zenon
<1>12. S!Reaches(a.x, p.x, width) \/ S!Reaches(b.x, p.x, width)
  BY <1>2, <1>8, <1>10, PaddingReaches, Zenon
<1>13. S!Reaches(p.y, a.y, width) \/ S!Reaches(p.y, b.y, width)
  BY <1>9, <1>10, PaddingReaches, Zenon
<1>14. S!Reaches(a.y, p.y, width) \/ S!Reaches(b.y, p.y, width)
  BY <1>2, <1>9, <1>10, PaddingReaches, Zenon
<1>15. S!NearSegment(p, a, b, width)
  <2>1. PICK r \in Int, e \in Int, m \in Int :
          r = tx * tx + ty * ty /\ e = tx * dx + ty * dy /\ m = dx * dx + dy * dy
    OBVIOUS
  <2>2. Products(tx, ty, dx, dy, r, e, m)
    BY <2>1 DEF Products
  <2>3. PICK sq \in Nat, ssq \in Nat : sq = inner * inner /\ ssq = width * width
    OBVIOUS
  <2>4. sq <= ssq
    <3>1. inner <= width
      BY DEF Padded
    <3>2. inner * inner <= inner * width /\ inner * width <= width * width
      BY <3>1
    <3>3. PICK iw \in Int : iw = inner * width
      OBVIOUS
    <3> QED
      BY <2>3, <3>2, <3>3
  <2>5. NearBy(r, e, m, width)
    <3>1. CASE a = b
      <4>0. n = 1 /\ dx = 0 /\ dy = 0
        BY <1>1, <3>1 DEF Along
      <4>1. m = 0
        BY <2>1, <4>0
      <4>2. ux = tx /\ uy = ty /\ nw = inner
        BY <1>3, <1>5, <4>0
      <4>3. r < sq
        BY <1>4, <1>5, <2>1, <2>3, <4>2
      <4>4. r <= width * width
        BY <2>3, <2>4, <4>3
      <4> QED
        BY <4>1, <4>4 DEF NearBy
    <3>2. CASE a # b
      <4>0. m = n
        BY <1>1, <2>1, <3>2 DEF Along
      <4>1. Products(tx, ty, dx, dy, r, e, n)
        BY <2>2, <4>0
      <4>2. (n * tx - k * dx) * (n * tx - k * dx) + (n * ty - k * dy) * (n * ty - k * dy) <= (n * inner) * (n * inner)
        <5>1. PICK x \in Int, y \in Int :
                /\ x = (n * tx - k * dx) * (n * tx - k * dx) + (n * ty - k * dy) * (n * ty - k * dy)
                /\ y = (n * inner) * (n * inner)
          BY <1>3
        <5> QED
          BY <1>4, <5>1
      <4>3. /\ e <= 0 => r <= inner * inner
            /\ e >= n => r - 2 * e + n <= inner * inner
            /\ n * r - e * e <= (inner * inner) * n
        BY <1>3, <4>1, <4>2, NearAPoint, Zenon
      <4>4. sq * n <= ssq * n
        BY <2>4
      <4>5. PICK cross \in Int, sn \in Int, wn \in Int : cross = n * r - e * e /\ sn = sq * n /\ wn = ssq * n
        OBVIOUS
      <4>6. /\ e <= 0 => r <= ssq
            /\ e >= n => r - 2 * e + n <= ssq
            /\ cross <= wn
        BY <2>3, <2>4, <4>3, <4>4, <4>5
      <4>7. /\ e <= 0 => r <= width * width
            /\ e >= n => r - 2 * e + n <= width * width
            /\ n * r - e * e <= (width * width) * n
        BY <2>3, <4>5, <4>6
      <4> QED
        BY <4>0, <4>7 DEF NearBy
    <3> QED
      BY <3>1, <3>2
  <2> QED
    BY <1>1, <2>2, <2>5, NearSegmentValue, Zenon
<1> QED
  BY <1>11, <1>12, <1>13, <1>14, <1>15

\* A box reaches what two of its corners do.
LEMMA BoxOf ==
  ASSUME NEW p, NEW corners, NEW a \in corners, NEW b \in corners, NEW width,
         S!Reaches(p.x, a.x, width) \/ S!Reaches(p.x, b.x, width),
         S!Reaches(a.x, p.x, width) \/ S!Reaches(b.x, p.x, width),
         S!Reaches(p.y, a.y, width) \/ S!Reaches(p.y, b.y, width),
         S!Reaches(a.y, p.y, width) \/ S!Reaches(b.y, p.y, width)
  PROVE  S!InBox(p, corners, width)
BY Zenon DEF S!InBox, S!Beside

\* The rows inside are found: in general, those nearer by as much as the box is short.
LEMMA InnerIsFound ==
  ASSUME NEW rows, rows \subseteq Row, NEW waypoints \in Seq(Position), waypoints # <<>>,
         NEW inner \in Nat, NEW width \in Nat, Padded(inner, width), NEW r \in rows
  PROVE  /\ r.shown /\ S!Inside(r.at, <<waypoints[1], waypoints[1]>>, inner) => r \in S!QueryNearby(rows, waypoints[1], width)
         /\ S!Inside(r.at, waypoints, inner) =>
              /\ r.shown => r \in S!QueryAlongRoute(rows, waypoints, width)
              /\ r \in S!QuerySignalementsAlongRoute(rows, waypoints, width)
<1>1. PICK l \in Nat \ {0} : l = Len(waypoints)
  OBVIOUS
<1>2. PICK p \in Position : p = r.at
  BY DEF Row
<1>3. \A i \in 1..l : waypoints[i] \in Position /\ waypoints[i] \in S!ToSet(waypoints)
  BY <1>1 DEF S!ToSet
<1>4. ASSUME r.shown, S!Inside(p, <<waypoints[1], waypoints[1]>>, inner)
      PROVE  r \in S!QueryNearby(rows, waypoints[1], width)
  <2>1. PICK c \in Position : c = waypoints[1]
    BY <1>3
  <2>2. PICK circle : circle = <<c, c>> /\ Len(circle) = 2 /\ circle[1] = c /\ circle[2] = c
    <3>1. Len(<<c, c>>) = 2 /\ <<c, c>>[1] = c /\ <<c, c>>[2] = c
      OBVIOUS
    <3> QED
      BY <3>1, Zenon
  <2>3. PICK i \in 1..Len(circle) - 1 : \E k \in 0..S!Steps(circle[i], circle[i + 1]) :
          S!Apart(p, circle[i], circle[i + 1], k) < S!Square(S!Steps(circle[i], circle[i + 1]) * inner)
    BY <1>4, <2>1, <2>2 DEF S!Inside
  <2>4. i = 1 /\ circle[i] = c /\ circle[i + 1] = c
    BY <2>2, <2>3
  <2>5. PICK k \in 0..S!Steps(c, c) : S!Apart(p, c, c, k) < S!Square(S!Steps(c, c) * inner)
    BY <2>3, <2>4
  <2>6. /\ S!NearSegment(p, c, c, width)
        /\ S!Reaches(p.x, c.x, width) /\ S!Reaches(c.x, p.x, width)
        /\ S!Reaches(p.y, c.y, width) /\ S!Reaches(c.y, p.y, width)
    BY <2>5, NearAPointOfIt
  <2>7. S!InBox(p, {c}, width)
    BY <2>6, BoxOf
  <2>8. S!Within(p, c, width)
    <3>1. PICK x \in Int, y \in Int : x = c.x /\ y = c.y
      BY DEF Position
    <3>2. S!Minus(c, c) = [x |-> 0, y |-> 0]
      BY <3>1 DEF S!Minus
    <3>3. S!Dot(S!Minus(c, c), S!Minus(c, c)) = 0
      BY <3>2 DEF S!Dot
    <3> QED
      BY <2>6, <3>3, Zenon DEF S!NearSegment
  <2> QED
    BY <1>2, <1>4, <2>1, <2>7, <2>8 DEF S!QueryNearby
<1>5. ASSUME S!Inside(p, waypoints, inner)
      PROVE  r \in S!QuerySignalementsAlongRoute(rows, waypoints, width)
             /\ (r.shown => r \in S!QueryAlongRoute(rows, waypoints, width))
  <2>1. PICK i \in 1..l - 1 : \E k \in 0..S!Steps(waypoints[i], waypoints[i + 1]) :
          S!Apart(p, waypoints[i], waypoints[i + 1], k) < S!Square(S!Steps(waypoints[i], waypoints[i + 1]) * inner)
    BY <1>1, <1>5 DEF S!Inside
  <2>2. PICK a \in Position, b \in Position : a = waypoints[i] /\ b = waypoints[i + 1]
                                             /\ a \in S!ToSet(waypoints) /\ b \in S!ToSet(waypoints)
    BY <1>3
  <2>3. PICK k \in 0..S!Steps(a, b) : S!Apart(p, a, b, k) < S!Square(S!Steps(a, b) * inner)
    BY <2>1, <2>2
  <2>4. /\ S!NearSegment(p, a, b, width)
        /\ S!Reaches(p.x, a.x, width) \/ S!Reaches(p.x, b.x, width)
        /\ S!Reaches(a.x, p.x, width) \/ S!Reaches(b.x, p.x, width)
        /\ S!Reaches(p.y, a.y, width) \/ S!Reaches(p.y, b.y, width)
        /\ S!Reaches(a.y, p.y, width) \/ S!Reaches(b.y, p.y, width)
    BY <2>3, NearAPointOfIt
  <2>5. S!InBox(p, S!ToSet(waypoints), width)
    BY <2>2, <2>4, BoxOf
  <2>6. ~(Len(waypoints) < 2) /\ i \in 1..Len(waypoints) - 1
    BY <1>1, <2>1
  <2>7. \A some : r \in some => r \in S!Corridor(some, waypoints, width)
    BY <1>2, <2>2, <2>4, <2>5, <2>6, Zenon DEF S!Corridor
  <2>8. r.shown => r \in {q \in rows : q.shown}
    OBVIOUS
  <2> QED
    BY <2>7, <2>8 DEF S!QuerySignalementsAlongRoute, S!QueryAlongRoute
<1> QED
  BY <1>2, <1>4, <1>5

\* For any rows, waypoints and width no row is lost that is nearer than the edge by
\* its nine-hundredth.
THEOREM RowsWellInsideAreFound ==
  ASSUME NEW rows, rows \subseteq Row, NEW waypoints \in Seq(Position), waypoints # <<>>,
         NEW inner \in Nat, NEW width \in Nat, inner * 890 <= width * 889
  PROVE  S!InsideIsFound(rows, waypoints, inner, width)
<1>1. Padded(inner, width)
  BY DEF Padded, S!BoxDegree, S!SphereDegree
<1>2. ASSUME NEW r \in rows, r.shown
      PROVE  /\ S!Inside(r.at, <<waypoints[1], waypoints[1]>>, inner)
                  => r \in S!QueryNearby(rows, waypoints[1], width)
             /\ S!Inside(r.at, waypoints, inner)
                  => r \in S!QueryAlongRoute(rows, waypoints, width)
                            \intersect S!QuerySignalementsAlongRoute(rows, waypoints, width)
  BY <1>1, <1>2, InnerIsFound
<1> QED
  BY <1>2, Zenon DEF S!InsideIsFound

\* No row outside is in an answer, and none that is not to be shown.
THEOREM RowsOutsideAreLeft ==
  ASSUME NEW rows, rows \subseteq Row, NEW waypoints \in Seq(Position), waypoints # <<>>,
         NEW width \in Nat
  PROVE  S!OutsideIsLeft(rows, waypoints, width)
<1>1. PICK l \in Nat \ {0} : l = Len(waypoints)
  OBVIOUS
<1>2. \A i \in 1..l : waypoints[i] \in Position
  BY <1>1
<1>3. ASSUME NEW r \in S!QueryNearby(rows, waypoints[1], width)
      PROVE  r.shown /\ ~S!Outside(r.at, <<waypoints[1], waypoints[1]>>, width)
  <2>1. r \in rows /\ r.shown /\ S!Within(r.at, waypoints[1], width)
    BY <1>3 DEF S!QueryNearby
  <2>2. PICK c \in Position, p \in Position : c = waypoints[1] /\ p = r.at
    BY <1>2, <2>1 DEF Row
  <2>3. PICK circle : circle = <<c, c>> /\ Len(circle) = 2 /\ circle[1] = c /\ circle[2] = c
    <3>1. Len(<<c, c>>) = 2 /\ <<c, c>>[1] = c /\ <<c, c>>[2] = c
      OBVIOUS
    <3> QED
      BY <3>1, Zenon
  <2>4. S!NearSegment(p, c, c, width)
    <3>1. PICK x \in Int, y \in Int : x = c.x /\ y = c.y
      BY DEF Position
    <3>2. S!Minus(c, c) = [x |-> 0, y |-> 0]
      BY <3>1 DEF S!Minus
    <3>3. S!Dot(S!Minus(c, c), S!Minus(c, c)) = 0
      BY <3>2 DEF S!Dot
    <3> QED
      BY <2>1, <2>2, <3>3, Zenon DEF S!NearSegment
  <2>5. PICK k \in 0..S!Steps(c, c) : ~(S!Apart(p, c, c, k) > S!Square(S!Steps(c, c) * width))
    BY <2>4, NearIsNotOutside
  <2>6. 1 \in 1..Len(circle) - 1 /\ circle[1 + 1] = c
    BY <2>3
  <2>7. ~S!Outside(p, circle, width)
    BY <2>3, <2>5, <2>6 DEF S!Outside
  <2> QED
    BY <2>1, <2>2, <2>3, <2>7
<1>4. ASSUME NEW some, some \subseteq rows, NEW r \in S!Corridor(some, waypoints, width)
      PROVE  r \in some /\ ~S!Outside(r.at, waypoints, width)
  <2>1. ~(Len(waypoints) < 2)
    BY <1>4 DEF S!Corridor
  <2>2. /\ r \in some
        /\ \E i \in 1..Len(waypoints) - 1 : S!NearSegment(r.at, waypoints[i], waypoints[i + 1], width)
    BY <1>4, <2>1, Zenon DEF S!Corridor
  <2>3. PICK i \in 1..l - 1 : S!NearSegment(r.at, waypoints[i], waypoints[i + 1], width)
    BY <1>1, <2>2
  <2>4. PICK a \in Position, b \in Position, p \in Position : a = waypoints[i] /\ b = waypoints[i + 1] /\ p = r.at
    <3>1. i \in 1..l /\ i + 1 \in 1..l
      OBVIOUS
    <3>2. r.at \in Position
      BY <1>4, <2>2 DEF Row
    <3> QED
      BY <1>2, <3>1, <3>2
  <2>5. PICK k \in 0..S!Steps(a, b) : ~(S!Apart(p, a, b, k) > S!Square(S!Steps(a, b) * width))
    BY <2>3, <2>4, NearIsNotOutside
  <2>6. ~S!Outside(p, waypoints, width)
    BY <1>1, <2>4, <2>5 DEF S!Outside
  <2> QED
    BY <2>2, <2>4, <2>6
<1>5. PICK shown : shown = {q \in rows : q.shown}
  BY Zenon
<1>6. /\ shown \subseteq rows /\ \A q \in shown : q.shown
  BY <1>5
<1>7. /\ S!QueryAlongRoute(rows, waypoints, width) = S!Corridor(shown, waypoints, width)
      /\ S!QuerySignalementsAlongRoute(rows, waypoints, width) = S!Corridor(rows, waypoints, width)
  BY <1>5 DEF S!QueryAlongRoute, S!QuerySignalementsAlongRoute
<1> QED
  BY <1>3, <1>4, <1>6, <1>7 DEF S!OutsideIsLeft

-----------------------------------------------------------------------------
\* predictor.predict_trajectory: the path, the points on it, and their confidence.

Vertex == [at : Position, cum : Nat, segment : Nat]

\* The numbers below the first that is too large are counted.
LEMMA PrefixCount ==
  ASSUME NEW n \in Nat, NEW A, A \subseteq 1..n,
         \A i \in 1..n : \A j \in A : i <= j => i \in A
  PROVE  Cardinality(A) \in 0..n /\ \A i \in 1..n : i <= Cardinality(A) <=> i \in A
<1> DEFINE T == {j \in Nat : j \in 1..n + 1 /\ j \notin A}
<1>1. n + 1 \in T
  OBVIOUS
<1>2. T \subseteq Nat /\ T # {}
  BY <1>1
<1>3. PICK j \in T : \A i \in T : j <= i
  <2> HIDE DEF T
  <2> QED
    BY <1>2, LeastNumber, Zenon
<1>4. j \in 1..n + 1 /\ j \notin A /\ \A i \in 1..j - 1 : i \in A
  BY <1>3
<1>5. \A i \in A : i \in 1..j - 1
  <2> TAKE i \in A
  <2>1. i \in 1..n /\ i >= 1
    OBVIOUS
  <2>2. j \in 1..n /\ j <= i => j \in A
    OBVIOUS
  <2>3. ~(j <= i)
    BY <1>4, <2>1, <2>2
  <2> QED
    BY <1>4, <2>1, <2>3
<1>6. A = 1..j - 1
  BY <1>4, <1>5, Zenon
<1>7. PICK m \in Nat : m = j - 1 /\ m <= n
  BY <1>4
<1>8. Cardinality(1..m) = m
  BY FS_Interval
<1> QED
  BY <1>6, <1>7, <1>8

\* Lengths are numbers.
LEMMA LengthIsNat ==
  ASSUME NEW p \in Position, NEW q \in Position
  PROVE  P!Length(p, q) \in Nat
BY DEF P!Length, P!Magnitude, Position

\* Cumulative is the recursion it is written as, and never falls.
LEMMA CumulativeType ==
  ASSUME NEW coords \in Seq(Position), NEW N \in Nat, Len(coords) = N
  PROVE  /\ P!Cumulative(coords) \in Seq(Nat) /\ Len(P!Cumulative(coords)) = N
         /\ \A i \in 1..N : P!Cumulative(coords)[i] =
              IF i = 1 THEN 0 ELSE P!Cumulative(coords)[i - 1] + P!Length(coords[i - 1], coords[i])
         /\ \A i, j \in 1..N : i <= j => P!Cumulative(coords)[i] <= P!Cumulative(coords)[j]
<1>0. \A i \in 1..N : coords[i] \in Position
  OBVIOUS
<1>1. PICK step \in [1..N -> Nat] : \A i \in 2..N : step[i] = P!Length(coords[i - 1], coords[i])
  <2>1. \A i \in 2..N : P!Length(coords[i - 1], coords[i]) \in Nat
    <3> TAKE i \in 2..N
    <3>1. i \in 1..N /\ i - 1 \in 1..N
      OBVIOUS
    <3> QED
      BY <1>0, <3>1, LengthIsNat
  <2>2. [i \in 1..N |-> IF i = 1 THEN 0 ELSE P!Length(coords[i - 1], coords[i])] \in [1..N -> Nat]
    BY <2>1
  <2>3. PICK g : g = [i \in 1..N |-> IF i = 1 THEN 0 ELSE P!Length(coords[i - 1], coords[i])]
    BY Zenon
  <2>4. \A i \in 2..N : g[i] = P!Length(coords[i - 1], coords[i])
    BY <2>3
  <2> QED
    BY <2>2, <2>3, <2>4, Zenon
<1>2. PICK V : V = Nat
  BY Zenon
<1> DEFINE Then(i, d) == IF i = 1 THEN 0 ELSE d + step[i]
<1>21. \A i \in 1..N, d \in V : Then(i, d) \in V
  BY <1>2
<1> HIDE DEF Then
<1>3. PICK next \in [1..N -> [V -> V]] : \A i \in 1..N, d \in V : next[i][d] = Then(i, d)
  <2>2. [i \in 1..N |-> [d \in V |-> Then(i, d)]] \in [1..N -> [V -> V]]
    BY <1>21
  <2> QED
    BY <2>2, Zenon
<1>4. PICK h \in [0..N -> V] : Run(h, N, 0, next)
  <2>1. 0 \in V
    BY <1>2
  <2> QED
    BY <2>1, RecursionExists, Zenon
<1>5. PICK c : c = [i \in 1..N |-> h[i]]
  BY Zenon
<1>6. ASSUME NEW i \in 1..N
      PROVE  h[i] = IF i = 1 THEN 0 ELSE c[i - 1] + P!Length(coords[i - 1], coords[i])
  <2>1. i \in 0..N /\ i # 0 /\ i - 1 \in 0..N
    OBVIOUS
  <2>2. h[i] = next[i][h[i - 1]]
    BY <1>4, <2>1, Zenon DEF Run
  <2>3. PICK d \in V : d = h[i - 1]
    BY <2>1
  <2>4. h[i] = IF i = 1 THEN 0 ELSE d + step[i]
    BY <1>3, <2>2, <2>3 DEF Then
  <2>5. CASE i = 1
    BY <2>4, <2>5
  <2>6. CASE i # 1
    <3>1. i - 1 \in 1..N /\ i \in 2..N
      BY <2>6
    <3> QED
      BY <1>1, <1>5, <2>3, <2>4, <2>6, <3>1
  <2> QED
    BY <2>5, <2>6
<1>7. DOMAIN coords = 1..N
  OBVIOUS
<1>8. c = [i \in DOMAIN coords |-> IF i = 1 THEN 0 ELSE c[i - 1] + P!Length(coords[i - 1], coords[i])]
  BY <1>5, <1>6, <1>7
<1>9. P!Cumulative(coords) =
        [i \in DOMAIN coords |->
           IF i = 1 THEN 0 ELSE P!Cumulative(coords)[i - 1] + P!Length(coords[i - 1], coords[i])]
  BY <1>8, Zenon DEF P!Cumulative
<1>10. PICK f : f = P!Cumulative(coords)
  OBVIOUS
<1>11. f = [i \in 1..N |-> IF i = 1 THEN 0 ELSE f[i - 1] + P!Length(coords[i - 1], coords[i])]
  BY <1>7, <1>9, <1>10, Zenon
<1>12. \A i \in 2..N : f[i] = f[i - 1] + step[i]
  BY <1>1, <1>11
<1> DEFINE T == {j \in Nat : j + 1 <= N => f[j + 1] \in Nat /\ \A i \in 1..j + 1 : f[i] \in Nat /\ f[i] <= f[j + 1]}
<1>13. 0 \in T
  BY <1>11
<1>14. ASSUME NEW j \in Nat, j \in T PROVE j + 1 \in T
  <2> SUFFICES ASSUME (j + 1) + 1 <= N
               PROVE  /\ f[(j + 1) + 1] \in Nat
                      /\ \A i \in 1..(j + 1) + 1 : f[i] \in Nat /\ f[i] <= f[(j + 1) + 1]
    OBVIOUS
  <2>0. j + 1 <= N
    OBVIOUS
  <2>1. PICK k \in 2..N : k = j + 1 + 1 /\ k - 1 = j + 1 /\ k - 1 \in 1..N
    OBVIOUS
  <2>7. f[j + 1] \in Nat /\ \A i \in 1..j + 1 : f[i] \in Nat /\ f[i] <= f[j + 1]
    BY <1>14, <2>0
  <2>2. PICK x \in Nat : x = f[j + 1] /\ \A i \in 1..j + 1 : f[i] \in Nat /\ f[i] <= x
    BY <2>7
  <2>3. PICK s \in Nat : s = step[k]
    BY <2>1
  <2>4. f[k] = x + s
    BY <1>12, <2>1, <2>2, <2>3
  <2>5. \A i \in 1..j + 1 : f[i] \in Nat /\ f[i] <= x + s
    <3> TAKE i \in 1..j + 1
    <3>1. PICK y \in Nat : y = f[i] /\ y <= x
      BY <2>2, Zenon
    <3> QED
      BY <3>1
  <2>6. \A i \in 1..k : i \in 1..j + 1 \/ i = k
    BY <2>1
  <2> QED
    BY <2>1, <2>4, <2>5, <2>6
<1> HIDE DEF T
<1>15. Nat \subseteq T
  BY <1>13, <1>14, NumberInduction, Zenon
<1>16. ASSUME NEW k \in 1..N
       PROVE  f[k] \in Nat /\ \A i \in 1..k : f[i] <= f[k]
  <2>1. PICK j \in Nat : j = k - 1 /\ j + 1 = k
    OBVIOUS
  <2>2. j \in T /\ j + 1 <= N
    BY <1>15, <2>1
  <2>3. f[j + 1] \in Nat /\ \A i \in 1..j + 1 : f[i] \in Nat /\ f[i] <= f[j + 1]
    BY <2>2 DEF T
  <2> QED
    BY <2>1, <2>3
<1>17. f \in [1..N -> Nat]
  BY <1>11, <1>16
<1>18. f \in Seq(Nat) /\ Len(f) = N
  BY <1>17
<1>19. \A i, j \in 1..N : i <= j => f[i] <= f[j]
  BY <1>16
<1>20. \A i \in 1..N : f[i] = IF i = 1 THEN 0 ELSE f[i - 1] + P!Length(coords[i - 1], coords[i])
  BY <1>11
<1> QED
  BY <1>10, <1>18, <1>19, <1>20

Path == Seq(Vertex) \ {<<>>}

\* The instance counts as the module does.
LEMMA SameCardinality ==
  ASSUME NEW U
  PROVE  P!Cardinality(U) = Cardinality(U)
BY Zenon DEF P!Cardinality, Cardinality, P!IsFiniteSet, IsFiniteSet

\* bisect_right splits a sequence that never falls.
LEMMA BisectSplits ==
  ASSUME NEW n \in Nat, NEW cum \in [1..n -> Int], NEW target \in Int,
         \A i, j \in 1..n : i <= j => cum[i] <= cum[j]
  PROVE  /\ P!BisectRight(cum, target) \in 0..n
         /\ \A i \in 1..n : i <= P!BisectRight(cum, target) <=> cum[i] <= target
<1>1. PICK A : A = {i \in 1..n : cum[i] <= target}
  BY Zenon
<1>2. A \subseteq 1..n /\ \A i \in 1..n : \A j \in A : i <= j => i \in A
  <2>1. ASSUME NEW i \in 1..n, NEW j \in A, i <= j PROVE i \in A
    <3>1. PICK x \in Int, y \in Int : x = cum[i] /\ y = cum[j] /\ x <= y /\ y <= target
      BY <1>1, <2>1
    <3> QED
      BY <1>1, <3>1
  <2> QED
    BY <1>1, <2>1
<1>3. P!BisectRight(cum, target) = Cardinality(A)
  <2>1. A = {i \in DOMAIN cum : cum[i] <= target}
    BY <1>1
  <2> QED
    BY <2>1, SameCardinality DEF P!BisectRight
<1>4. Cardinality(A) \in 0..n /\ \A i \in 1..n : i <= Cardinality(A) <=> i \in A
  BY <1>2, PrefixCount, Zenon
<1> QED
  BY <1>1, <1>3, <1>4

\* A position between two positions.
LEMMA BetweenType ==
  ASSUME NEW p \in Position, NEW q \in Position, NEW part \in Int, NEW whole \in Int
  PROVE  P!Between(p, q, part, whole) \in Position
<1>1. PICK x \in Int, y \in Int, u \in Int, v \in Int : p.x = x /\ p.y = y /\ q.x = u /\ q.y = v
  BY DEF Position
<1>2. CASE whole <= 0
  BY <1>2 DEF P!Between
<1>3. CASE ~(whole <= 0)
  <2>1. PICK w \in Nat \ {0} : w = whole
    BY <1>3
  <2>2. PICK n \in Int, m \in Int : n = (u - x) * part /\ m = (v - y) * part
    OBVIOUS
  <2>3. PICK k \in Int, l \in Int : k = n \div w /\ l = m \div w
    OBVIOUS
  <2>4. P!Between(p, q, part, whole) = [x |-> x + k, y |-> y + l]
    BY <1>1, <1>3, <2>1, <2>2, <2>3 DEF P!Between
  <2> QED
    BY <2>4 DEF Position
<1> QED
  BY <1>2, <1>3

\* A path has a position at every distance.
LEMMA PointAtDistanceType ==
  ASSUME NEW n \in Nat \ {0}, NEW coords \in Seq(Position), Len(coords) = n,
         NEW cum \in Seq(Int), Len(cum) = n, NEW target \in Int,
         \A i, j \in 1..n : i <= j => cum[i] <= cum[j]
  PROVE  P!PointAtDistance(coords, cum, target) \in Position
<1>1. \A i \in 1..n : coords[i] \in Position /\ cum[i] \in Int
  OBVIOUS
<1>2. CASE n = 1 \/ target <= 0
  <2>1. P!PointAtDistance(coords, cum, target) = coords[1]
    BY <1>2, Zenon DEF P!PointAtDistance
  <2> QED
    BY <1>1, <2>1
<1>3. CASE ~(n = 1 \/ target <= 0) /\ target >= P!Last(cum)
  <2>1. P!PointAtDistance(coords, cum, target) = P!Last(coords)
    BY <1>3, Zenon DEF P!PointAtDistance
  <2>2. P!Last(coords) = coords[n]
    BY DEF P!Last
  <2> QED
    BY <1>1, <2>1, <2>2
<1>4. CASE ~(n = 1 \/ target <= 0) /\ ~(target >= P!Last(cum))
  <2>1. PICK i \in Int : i = P!Clamp(1, P!BisectRight(cum, target), Len(coords) - 1) /\ i \in 1..n - 1
    <3>1. cum \in [1..n -> Int]
      OBVIOUS
    <3>2. PICK b \in 0..n : b = P!BisectRight(cum, target)
      BY <3>1, BisectSplits, Zenon
    <3>3. P!Clamp(1, b, n - 1) \in 1..n - 1
      BY <1>4, <3>2 DEF P!Clamp
    <3> QED
      BY <3>2, <3>3
  <2>2. P!PointAtDistance(coords, cum, target)
          = P!Between(coords[i], coords[i + 1], target - cum[i], cum[i + 1] - cum[i])
    BY <1>4, <2>1, Zenon DEF P!PointAtDistance
  <2>3. i \in 1..n /\ i + 1 \in 1..n
    BY <2>1
  <2>4. target - cum[i] \in Int /\ cum[i + 1] - cum[i] \in Int
    BY <1>1, <2>3
  <2> QED
    BY <1>1, <2>2, <2>3, <2>4, BetweenType
<1> QED
  BY <1>2, <1>3, <1>4

\* The vertices of a segment that begins at an offset.
LEMMA VerticesType ==
  ASSUME NEW coords \in Seq(Position), NEW offset \in Nat, NEW segment \in Nat
  PROVE  LET path == P!Vertices(coords, offset, segment)
         IN  /\ path \in Seq(Vertex) /\ Len(path) = Len(coords)
             /\ \A i, j \in 1..Len(coords) : i <= j => path[i].cum <= path[j].cum
<1>1. PICK n \in Nat : n = Len(coords) /\ DOMAIN coords = 1..n
  OBVIOUS
<1>2. PICK cum \in Seq(Nat) : /\ cum = P!Cumulative(coords) /\ Len(cum) = n
                              /\ \A i, j \in 1..n : i <= j => cum[i] <= cum[j]
  BY <1>1, CumulativeType
<1>3. PICK path : path = P!Vertices(coords, offset, segment)
  OBVIOUS
<1>4. path = [i \in 1..n |-> [at |-> coords[i], cum |-> offset + cum[i], segment |-> segment]]
  BY <1>1, <1>2, <1>3 DEF P!Vertices, P!Vertex
<1>5. \A i \in 1..n : coords[i] \in Position /\ cum[i] \in Nat
  BY <1>1, <1>2
<1>6. \A i \in 1..n : path[i] \in Vertex /\ path[i].cum = offset + cum[i]
  BY <1>4, <1>5 DEF Vertex
<1>7. path \in [1..n -> Vertex]
  BY <1>4, <1>6
<1>8. path \in Seq(Vertex) /\ Len(path) = n
  BY <1>7
<1>9. ASSUME NEW i \in 1..n, NEW j \in 1..n, i <= j PROVE path[i].cum <= path[j].cum
  <2>1. PICK x \in Nat, y \in Nat : x = cum[i] /\ y = cum[j] /\ x <= y
    BY <1>2, <1>5, <1>9
  <2> QED
    BY <1>6, <2>1
<1> QED
  BY <1>1, <1>3, <1>8, <1>9

Rising(path) == \A i, j \in 1..Len(path) : i <= j => path[i].cum <= path[j].cum

\* The positions and the distances of a path.
LEMMA AtsAndCums ==
  ASSUME NEW path \in Path, Rising(path), NEW n \in Nat, n = Len(path)
  PROVE  /\ P!Ats(path) \in Seq(Position) /\ Len(P!Ats(path)) = n
         /\ P!Cums(path) \in Seq(Int) /\ Len(P!Cums(path)) = n
         /\ P!Cums(path) \in [1..n -> Int]
         /\ \A i \in 1..n : P!Cums(path)[i] = path[i].cum /\ P!Ats(path)[i] = path[i].at
         /\ \A i, j \in 1..n : i <= j => P!Cums(path)[i] <= P!Cums(path)[j]
<1>1. PICK cum : cum = P!Cums(path)
  OBVIOUS
<1>2. PICK ats : ats = P!Ats(path)
  OBVIOUS
<1>3. DOMAIN path = 1..n /\ \A i \in 1..n : path[i] \in Vertex
  BY DEF Path
<1>4. \A i \in 1..n : path[i].cum \in Int /\ path[i].at \in Position
  BY <1>3 DEF Vertex
<1>5. cum = [i \in 1..n |-> path[i].cum] /\ ats = [i \in 1..n |-> path[i].at]
  BY <1>1, <1>2, <1>3 DEF P!Cums, P!Ats
<1>6. cum \in [1..n -> Int] /\ ats \in [1..n -> Position]
  BY <1>4, <1>5
<1>7. cum \in Seq(Int) /\ Len(cum) = n /\ ats \in Seq(Position) /\ Len(ats) = n
  BY <1>6
<1>8. \A i, j \in 1..n : i <= j => cum[i] <= cum[j]
  BY <1>5 DEF Rising
<1> QED
  BY <1>1, <1>2, <1>5, <1>6, <1>7, <1>8

\* _slice_from: a path that begins at the point from.
LEMMA SliceType ==
  ASSUME NEW path \in Path, Rising(path), NEW from \in Nat
  PROVE  P!SliceFrom(path, from) \in Path
<1>1. PICK n \in Nat \ {0} : n = Len(path)
  BY DEF Path
<1>2. PICK ats \in Seq(Position), cum \in Seq(Int) :
        /\ ats = P!Ats(path) /\ cum = P!Cums(path) /\ Len(ats) = n /\ Len(cum) = n
        /\ cum \in [1..n -> Int]
        /\ \A i \in 1..n : cum[i] = path[i].cum
        /\ \A i, j \in 1..n : i <= j => cum[i] <= cum[j]
  BY <1>1, AtsAndCums
<1>3. PICK passed \in 0..n : /\ passed = P!BisectRight(cum, from)
                             /\ \A i \in 1..n : i <= passed <=> cum[i] <= from
  <2>1. cum \in [1..n -> Int] /\ from \in Int /\ n \in Nat
    BY <1>2
  <2>2. \A i, j \in 1..n : i <= j => cum[i] <= cum[j]
    BY <1>2
  <2>3. /\ P!BisectRight(cum, from) \in 0..n
        /\ \A i \in 1..n : i <= P!BisectRight(cum, from) <=> cum[i] <= from
    BY <2>1, <2>2, BisectSplits, Zenon
  <2> QED
    BY <2>3
<1>4. PICK at \in Position : at = P!PointAtDistance(ats, cum, from)
  BY <1>2, PointAtDistanceType
<1>5. \A i \in 1..n : path[i] \in Vertex
  BY <1>1 DEF Path
<1>6. path[1].segment \in Nat
  BY <1>5 DEF Vertex
<1>7. PICK first \in Vertex : first = [at |-> at, cum |-> 0, segment |-> path[1].segment]
  BY <1>4, <1>6, Zenon DEF Vertex
<1>8. PICK ahead : ahead = [i \in 1..n - passed |-> [path[passed + i] EXCEPT !.cum = @ - from]]
  BY Zenon
<1>9. \A i \in 1..n - passed : ahead[i] \in Vertex
  <2> TAKE i \in 1..n - passed
  <2>1. PICK k \in 1..n : k = passed + i /\ ~(k <= passed)
    OBVIOUS
  <2>2. PICK v \in Vertex : v = path[k]
    BY <1>5
  <2>3. PICK c \in Nat : c = v.cum /\ ~(c <= from)
    BY <1>2, <1>3, <2>1, <2>2, Zenon DEF Vertex
  <2>4. [v EXCEPT !.cum = c - from] \in Vertex
    <3>1. c - from \in Nat
      BY <2>3
    <3> QED
      BY <3>1, Zenon DEF Vertex
  <2> QED
    BY <1>8, <2>1, <2>2, <2>3, <2>4
<1>10. ahead \in Seq(Vertex)
  <2>1. PICK m \in Nat : m = n - passed
    OBVIOUS
  <2>2. ahead \in [1..m -> Vertex]
    BY <1>8, <1>9, <2>1
  <2> QED
    BY <2>2
<1>11. P!SliceFrom(path, from) = <<first>> \o ahead
  BY <1>1, <1>2, <1>3, <1>4, <1>7, <1>8 DEF P!SliceFrom, P!Vertex
<1>12. <<first>> \in Seq(Vertex) /\ Len(<<first>>) = 1
  OBVIOUS
<1> QED
  BY <1>10, <1>11, <1>12 DEF Path

RoadType == [geometry : Seq(Position), matched : Position, along : Nat,
             upcoming : Seq(Seq(Position)), reverse : BOOLEAN]

\* The vertices of the segment a vehicle is on.
LEMMA CurrentVertices ==
  ASSUME NEW road \in RoadType
  PROVE  LET path == P!Vertices(P!CurrentCoords(road), 0, 0) IN path \in Path /\ Rising(path)
<1>1. PICK coords \in Seq(Position) : coords = P!CurrentCoords(road) /\ coords # <<>>
  <2>1. road.geometry \in Seq(Position) /\ road.matched \in Position
    BY DEF RoadType
  <2>2. <<road.matched>> \in Seq(Position) /\ <<road.matched>> # <<>>
    BY <2>1
  <2> QED
    BY <2>1, <2>2, Zenon DEF P!CurrentCoords
<1>2. PICK path \in Seq(Vertex) :
        /\ path = P!Vertices(coords, 0, 0)
        /\ Len(path) = Len(coords)
        /\ \A i, j \in 1..Len(coords) : i <= j => path[i].cum <= path[j].cum
  BY VerticesType
<1>3. path # <<>>
  BY <1>1, <1>2
<1> QED
  BY <1>1, <1>2, <1>3 DEF Path, Rising

\* The path back to the start of the segment.
LEMMA BackwardType ==
  ASSUME NEW road \in RoadType
  PROVE  P!BuildBackwardPath(road) \in Path
<1>1. PICK path \in Path : path = P!Vertices(P!CurrentCoords(road), 0, 0) /\ Rising(path)
  BY CurrentVertices
<1>2. PICK n \in Nat \ {0} : n = Len(path) /\ DOMAIN path = 1..n
  BY DEF Path
<1>3. PICK along \in Nat : along = road.along
  BY DEF RoadType
<1>4. \A i \in 1..n : path[i] \in Vertex
  BY <1>2 DEF Path
<1>5. PICK U : U = {i \in 1..n : path[i].cum < along}
  BY Zenon
<1>6. PICK behind \in 0..n : behind = Cardinality(U) /\ \A i \in 1..n : i <= behind <=> i \in U
  <2>1. U \subseteq 1..n
    BY <1>5
  <2>2. ASSUME NEW i \in 1..n, NEW j \in U, i <= j PROVE i \in U
    <3>1. j \in 1..n
      BY <2>1
    <3>2. PICK x \in Nat, y \in Nat : x = path[i].cum /\ y = path[j].cum
      BY <1>4, <3>1 DEF Vertex
    <3>3. x <= y
      BY <1>1, <1>2, <2>2, <3>1, <3>2 DEF Rising
    <3> QED
      BY <1>5, <2>2, <3>1, <3>2, <3>3
  <2>3. /\ Cardinality(U) \in 0..n
        /\ \A i \in 1..n : i <= Cardinality(U) <=> i \in U
    BY <2>1, <2>2, PrefixCount, Zenon
  <2> QED
    BY <2>3
<1>7. PICK at \in Position : at = P!PointAtDistance(P!Ats(path), P!Cums(path), along)
  <2>1. PICK ats \in Seq(Position), cum \in Seq(Int) :
          /\ ats = P!Ats(path) /\ cum = P!Cums(path) /\ Len(ats) = n /\ Len(cum) = n
          /\ \A i, j \in 1..n : i <= j => cum[i] <= cum[j]
    BY <1>1, <1>2, AtsAndCums
  <2>2. P!PointAtDistance(ats, cum, along) \in Position
    BY <2>1, PointAtDistanceType
  <2> QED
    BY <2>1, <2>2
<1>8. PICK first \in Vertex : first = [at |-> at, cum |-> 0, segment |-> 0]
  BY Zenon DEF Vertex
<1>9. PICK back : back = [i \in 1..behind |-> [path[behind + 1 - i] EXCEPT !.cum = along - @]]
  BY Zenon
<1>10. ASSUME NEW i \in 1..behind PROVE back[i] \in Vertex
  <2>1. PICK k \in 1..n : k = behind + 1 - i /\ k <= behind
    BY <1>10
  <2>2. k \in U
    BY <1>6, <2>1
  <2>3. PICK v \in Vertex : v = path[k]
    BY <1>4
  <2>4. PICK c \in Nat : c = v.cum /\ c < along
    BY <1>5, <2>2, <2>3 DEF Vertex
  <2>5. along - c \in Nat
    BY <2>4
  <2>6. [v EXCEPT !.cum = along - c] \in Vertex
    BY <2>5 DEF Vertex
  <2> QED
    BY <1>9, <2>1, <2>3, <2>4, <2>6
<1>11. back \in Seq(Vertex)
  <2>1. PICK m \in Nat : m = behind
    OBVIOUS
  <2>2. back \in [1..m -> Vertex]
    BY <1>9, <1>10, <2>1
  <2> QED
    BY <2>2
<1>12. behind = P!Cardinality({i \in DOMAIN path : path[i].cum < road.along})
  <2>1. U = {i \in DOMAIN path : path[i].cum < road.along}
    BY <1>2, <1>3, <1>5
  <2> QED
    BY <1>6, <2>1, SameCardinality
<1>13. P!BuildBackwardPath(road) = <<first>> \o back
  BY <1>1, <1>3, <1>7, <1>8, <1>9, <1>12, Zenon DEF P!BuildBackwardPath, P!Vertex
<1>14. <<first>> \in Seq(Vertex) /\ Len(<<first>>) = 1
  OBVIOUS
<1> QED
  BY <1>11, <1>13, <1>14 DEF Path

\* A path has a length.
LEMMA LastCum ==
  ASSUME NEW path \in Path
  PROVE  P!Last(path).cum \in Nat
<1>1. path[Len(path)] \in Vertex
  BY DEF Path
<1> QED
  BY <1>1 DEF P!Last, Vertex

\* ForwardPaths is the recursion it is written as.
LEMMA ForwardEquation ==
  ASSUME NEW road \in RoadType, NEW N \in Nat, N = Len(road.upcoming)
  PROVE  /\ P!ForwardPaths(road) \in [0..N -> Path]
         /\ P!ForwardPaths(road)[0] = P!SliceFrom(P!Vertices(P!CurrentCoords(road), 0, 0), road.along)
         /\ \A i \in 1..N :
              P!ForwardPaths(road)[i] =
                P!ForwardPaths(road)[i - 1]
                  \o P!Vertices(road.upcoming[i], P!Last(P!ForwardPaths(road)[i - 1]).cum, i)
<1>1. PICK start \in Path : start = P!SliceFrom(P!Vertices(P!CurrentCoords(road), 0, 0), road.along)
  <2>1. PICK path \in Path : path = P!Vertices(P!CurrentCoords(road), 0, 0) /\ Rising(path)
    BY CurrentVertices
  <2>2. PICK along \in Nat : along = road.along
    BY DEF RoadType
  <2>3. P!SliceFrom(path, along) \in Path
    BY <2>1, SliceType
  <2> QED
    BY <2>1, <2>2, <2>3
<1>2. N = Len(road.upcoming) /\ \A i \in 1..N : road.upcoming[i] \in Seq(Position)
  BY DEF RoadType
<1>3. PICK V : V = Path
  OBVIOUS
<1> DEFINE Then(i, path) == path \o P!Vertices(road.upcoming[i], P!Last(path).cum, i)
<1>4. ASSUME NEW i \in 1..N, NEW path \in V PROVE Then(i, path) \in V
  <2>1. PICK offset \in Nat : offset = P!Last(path).cum
    BY <1>3, LastCum
  <2>2. PICK coords \in Seq(Position) : coords = road.upcoming[i]
    BY <1>2
  <2>3. PICK next \in Seq(Vertex) : next = P!Vertices(coords, offset, i)
    BY VerticesType
  <2>4. path \in Seq(Vertex) /\ Len(path) > 0
    BY <1>3 DEF Path
  <2>5. path \o next \in Seq(Vertex) /\ Len(path \o next) > 0
    BY <2>4
  <2>6. path \o next \in Path
    BY <2>5 DEF Path
  <2> QED
    BY <1>3, <2>1, <2>2, <2>3, <2>6
<1> HIDE DEF Then
<1>5. PICK next \in [1..N -> [V -> V]] : \A i \in 1..N, path \in V : next[i][path] = Then(i, path)
  <2>2. [i \in 1..N |-> [path \in V |-> Then(i, path)]] \in [1..N -> [V -> V]]
    BY <1>4
  <2> QED
    BY <2>2, Zenon
<1>6. PICK h \in [0..N -> V] : Run(h, N, start, next)
  BY <1>1, <1>3, <1>5, RecursionExists, Zenon
<1>7. ASSUME NEW i \in 0..N
      PROVE  h[i] = IF i = 0 THEN start
                    ELSE h[i - 1] \o P!Vertices(road.upcoming[i], P!Last(h[i - 1]).cum, i)
  <2>1. CASE i = 0
    BY <1>6, <2>1 DEF Run
  <2>2. CASE i # 0
    <3>1. i \in 1..N /\ h[i - 1] \in V
      BY <2>2
    <3>2. h[i] = next[i][h[i - 1]]
      BY <1>6, <2>2, Zenon DEF Run
    <3>3. h[i] = Then(i, h[i - 1])
      BY <1>5, <3>1, <3>2
    <3> QED
      BY <2>2, <3>3, Zenon DEF Then
  <2> QED
    BY <2>1, <2>2
<1>8. h = [i \in 0..N |-> IF i = 0 THEN start
                          ELSE h[i - 1] \o P!Vertices(road.upcoming[i], P!Last(h[i - 1]).cum, i)]
  BY <1>7, Zenon
<1>9. h = [i \in 0..Len(road.upcoming) |->
             IF i = 0 THEN P!SliceFrom(P!Vertices(P!CurrentCoords(road), 0, 0), road.along)
             ELSE h[i - 1] \o P!Vertices(road.upcoming[i], P!Last(h[i - 1]).cum, i)]
  BY <1>1, <1>2, <1>8
<1>10. P!ForwardPaths(road) =
         [i \in 0..Len(road.upcoming) |->
             IF i = 0 THEN P!SliceFrom(P!Vertices(P!CurrentCoords(road), 0, 0), road.along)
             ELSE P!ForwardPaths(road)[i - 1]
                    \o P!Vertices(road.upcoming[i], P!Last(P!ForwardPaths(road)[i - 1]).cum, i)]
  BY <1>9, Zenon DEF P!ForwardPaths
<1>11. PICK f : f = P!ForwardPaths(road)
  OBVIOUS
<1>12. f[0] = start /\ \A i \in 1..N : f[i] = f[i - 1] \o P!Vertices(road.upcoming[i], P!Last(f[i - 1]).cum, i)
  <2>1. f = [i \in 0..N |->
               IF i = 0 THEN start
               ELSE f[i - 1] \o P!Vertices(road.upcoming[i], P!Last(f[i - 1]).cum, i)]
    BY <1>1, <1>2, <1>10, <1>11, Zenon
  <2>2. 0 \in 0..N /\ \A i \in 1..N : i \in 0..N /\ i # 0
    OBVIOUS
  <2> QED
    BY <2>1, <2>2, Zenon
<1> DEFINE T == {i \in Nat : i <= N => f[i] \in V}
<1>13. 0 \in T
  BY <1>1, <1>3, <1>12
<1>14. ASSUME NEW i \in Nat, i \in T PROVE i + 1 \in T
  <2> SUFFICES ASSUME i + 1 <= N PROVE f[i + 1] \in V
    OBVIOUS
  <2>1. PICK k \in 1..N : k = i + 1 /\ k - 1 = i
    OBVIOUS
  <2>2. f[i] \in V
    BY <1>14
  <2>3. f[k] = Then(k, f[i])
    BY <1>12, <2>1, Zenon DEF Then
  <2> QED
    BY <1>4, <2>1, <2>2, <2>3
<1> HIDE DEF T
<1>15. Nat \subseteq T
  BY <1>13, <1>14, NumberInduction
<1>16. \A i \in 0..N : f[i] \in V
  <2> TAKE i \in 0..N
  <2>1. i \in T /\ i <= N
    BY <1>15
  <2> QED
    BY <2>1 DEF T
<1>17. DOMAIN f = 0..N /\ f = [i \in 0..N |-> f[i]]
  BY <1>2, <1>10, <1>11, Zenon
<1>18. f \in [0..N -> V]
  BY <1>16, <1>17, Zenon
<1> QED
  BY <1>1, <1>3, <1>11, <1>12, <1>18

\* The path ahead, over the segments that follow.
LEMMA ForwardType ==
  ASSUME NEW road \in RoadType
  PROVE  P!BuildForwardPath(road) \in Path
<1>1. PICK N \in Nat : N = Len(road.upcoming) /\ N \in 0..N
  BY DEF RoadType
<1>2. P!ForwardPaths(road) \in [0..N -> Path]
  BY <1>1, ForwardEquation, Zenon
<1> QED
  BY <1>1, <1>2 DEF P!BuildForwardPath

\* Every road gives a path, whose length is how far a vehicle can be followed.
LEMMA PathType ==
  ASSUME NEW road \in RoadType
  PROVE  P!PathOf(road) \in Path /\ P!Last(P!PathOf(road)).cum \in Nat
<1>1. P!PathOf(road) \in Path
  BY BackwardType, ForwardType, Zenon DEF P!PathOf
<1> QED
  BY <1>1, LastCum

\* The whole seconds a changes the speed v, which is between 0 and VMax.
Changing(v, a, T) ==
  /\ a < 0 => T = v \div (-a) /\ (-a) * T <= v
  /\ a > 0 => T = (VMax - v) \div a

Moved(v, a, T, n) ==
  IF a = 0 \/ n < T THEN 2 * v * n + a * (n * n)
  ELSE 2 * v * T + a * (T * T) + (IF a > 0 THEN 2 * VMax * (n - T) ELSE 0)

\* What a quotient is bounded by.
LEMMA DivisionBounds ==
  ASSUME NEW d \in Nat \ {0}, NEW n \in Nat
  PROVE  n \div d \in Nat /\ d * (n \div d) <= n
<1>1. PICK r \in Int : r = n \div d
  OBVIOUS
<1>2. d * r <= n /\ n < d * (r + 1)
  BY <1>1
<1>3. r < 0 => d * (r + 1) <= 0
  OBVIOUS
<1>4. r \in Nat
  <2>1. PICK b \in Int : b = d * (r + 1)
    OBVIOUS
  <2> QED
    BY <1>2, <1>3, <2>1
<1> QED
  BY <1>1, <1>2, <1>4

\* Every acceleration changes a speed for some whole number of seconds.
LEMMA ChangingExists ==
  ASSUME NEW v \in 0..VMax, NEW a \in Int
  PROVE  \E T \in Nat : Changing(v, a, T)
<1>0. VMax \in Nat
  BY TrajectoryAssumption
<1>1. CASE a < 0
  <2>1. PICK d \in Nat \ {0}, w \in Nat : d = -a /\ w = v
    BY <1>0, <1>1
  <2>2. PICK T \in Nat : T = w \div d /\ d * T <= w
    BY DivisionBounds
  <2>3. T = v \div (-a) /\ (-a) * T <= v /\ ~(a > 0)
    BY <1>1, <2>1, <2>2
  <2> QED
    BY <2>3, Zenon DEF Changing
<1>2. CASE a > 0
  <2>1. PICK d \in Nat \ {0}, u \in Nat : d = a /\ u = VMax - v
    BY <1>0, <1>2
  <2>2. PICK T \in Nat : T = u \div d
    BY DivisionBounds
  <2>3. T = (VMax - v) \div a /\ ~(a < 0)
    BY <1>2, <2>1, <2>2
  <2> QED
    BY <2>3, Zenon DEF Changing
<1>3. CASE a = 0
  BY <1>3 DEF Changing
<1> QED
  BY <1>1, <1>2, <1>3

\* _kinematics moves a vehicle that far.
LEMMA KinematicsMoves ==
  ASSUME NEW speed \in Int, NEW v \in 0..VMax, v = P!Clamp(0, speed, VMax), NEW a \in Int,
         NEW T \in Nat, Changing(v, a, T), NEW n \in Nat
  PROVE  P!Kinematics(speed, a, n).distance = Moved(v, a, T, n)
<1>0. VMax \in Nat
  BY TrajectoryAssumption
<1>1. CASE n = 0
  <2>1. P!Kinematics(speed, a, n) = [distance |-> 0, speed |-> v]
    BY <1>1 DEF P!Kinematics
  <2>2. 2 * v * n + a * (n * n) = 0
    BY <1>1
  <2>3. ~(n < T) => T = 0
    BY <1>1
  <2>4. T = 0 => 2 * v * T + a * (T * T) = 0 /\ 2 * VMax * (n - T) = 0
    BY <1>0, <1>1
  <2>5. Moved(v, a, T, n) = 0
    BY <2>2, <2>3, <2>4 DEF Moved
  <2> QED
    BY <2>1, <2>5
<1>2. CASE n # 0 /\ (a = 0 \/ n < T)
  <2>1. ~P!Stopped(v, a, n) /\ ~P!Capped(v, a, n) /\ ~(n <= 0)
    BY <1>2 DEF P!Stopped, P!Capped, Changing
  <2>2. P!Kinematics(speed, a, n) = [distance |-> P!Travelled(v, a, n), speed |-> v + a * n]
    BY <2>1, Zenon DEF P!Kinematics
  <2> QED
    BY <1>2, <2>2 DEF P!Travelled, P!Square, Moved
<1>3. CASE n # 0 /\ a < 0 /\ ~(n < T)
  <2>1. P!Stopped(v, a, n) /\ ~(n <= 0) /\ T = v \div (-a)
    BY <1>3 DEF P!Stopped, Changing
  <2>2. P!Kinematics(speed, a, n) = [distance |-> P!Travelled(v, a, T), speed |-> 0]
    BY <2>1, Zenon DEF P!Kinematics
  <2> QED
    BY <1>3, <2>2 DEF P!Travelled, P!Square, Moved
<1>4. CASE n # 0 /\ a > 0 /\ ~(n < T)
  <2>1. ~P!Stopped(v, a, n) /\ P!Capped(v, a, n) /\ ~(n <= 0) /\ T = (VMax - v) \div a
    BY <1>4 DEF P!Stopped, P!Capped, Changing
  <2>2. P!Kinematics(speed, a, n) = [distance |-> P!Travelled(v, a, T) + 2 * VMax * (n - T), speed |-> VMax]
    BY <2>1, Zenon DEF P!Kinematics
  <2> QED
    BY <1>4, <2>2 DEF P!Travelled, P!Square, Moved
<1> QED
  BY <1>1, <1>2, <1>3, <1>4

\* A second more is no step back.
LEMMA MovedRises ==
  ASSUME NEW v \in 0..VMax, NEW a \in Int, NEW T \in Nat, Changing(v, a, T), NEW n \in Nat
  PROVE  /\ Moved(v, a, T, n) \in Int /\ Moved(v, a, T, n + 1) \in Int
         /\ Moved(v, a, T, n) <= Moved(v, a, T, n + 1)
<1>0. VMax \in Nat /\ v \in Nat
  BY TrajectoryAssumption
<1>1. PICK x \in Int, y \in Int : /\ x = 2 * v * n + a * (n * n)
                                  /\ y = 2 * v * (n + 1) + a * ((n + 1) * (n + 1))
  BY <1>0
<1>2. PICK z \in Int : z = 2 * v * T + a * (T * T)
  BY <1>0
<1>3. PICK c \in Int, e \in Int, k \in Nat : /\ c = 2 * VMax * (n - T) /\ e = 2 * VMax * (n + 1 - T)
                                             /\ k = 2 * VMax
  BY <1>0
<1>4. e = c + k
  BY <1>0, <1>3
<1>5. CASE a = 0
  <2>1. x = 2 * v * n /\ y = 2 * v * n + 2 * v
    BY <1>0, <1>1, <1>5
  <2>2. PICK p \in Nat, q \in Nat : p = 2 * v * n /\ q = 2 * v
    BY <1>0
  <2> QED
    BY <1>1, <1>5, <2>1, <2>2 DEF Moved
<1>6. CASE a < 0
  <2>1. PICK d \in Nat \ {0} : d = -a
    BY <1>6
  <2>2. CASE n + 1 <= T
    <3>1. d * (n + 1) <= d * T
      BY <2>1, <2>2
    <3>2. d * T <= v
      BY <1>6, <2>1 DEF Changing
    <3>3. PICK m \in Nat, p \in Nat : m = d * (n + 1) /\ p = d * T
      BY <2>1
    <3>4. y = x + 2 * v - 2 * m + d
      BY <1>0, <1>1, <2>1, <3>3
    <3>5. x <= y
      BY <1>0, <1>1, <2>1, <3>1, <3>2, <3>3, <3>4
    <3>6. n < T /\ (n + 1 < T \/ n + 1 = T)
      BY <2>2
    <3>7. n + 1 = T => z = y
      BY <1>0, <1>1, <1>2
    <3> QED
      BY <1>1, <1>2, <1>6, <3>5, <3>6, <3>7 DEF Moved
  <2>3. CASE ~(n + 1 <= T)
    <3>1. ~(n < T) /\ ~(n + 1 < T)
      BY <2>3
    <3> QED
      BY <1>2, <1>6, <3>1 DEF Moved
  <2> QED
    BY <2>2, <2>3
<1>7. CASE a > 0
  <2>1. CASE n + 1 <= T
    <3>1. PICK m \in Nat : m = a * (n + 1) /\ a \in Nat
      BY <1>7
    <3>2. PICK l \in Nat : l = a * n
      BY <1>7
    <3>3. y = x + 2 * v + m + l
      BY <1>0, <1>1, <3>1, <3>2
    <3>4. x <= y
      BY <1>0, <1>1, <3>1, <3>2, <3>3
    <3>5. n < T /\ (n + 1 < T \/ n + 1 = T)
      BY <2>1
    <3>6. n + 1 = T => z = y /\ e = 0
      BY <1>0, <1>1, <1>2, <1>3
    <3>7. Moved(v, a, T, n) = x
      BY <1>1, <3>5 DEF Moved
    <3>8. Moved(v, a, T, n + 1) = y
      <4>1. CASE n + 1 < T
        BY <1>1, <4>1 DEF Moved
      <4>2. CASE n + 1 = T
        <5>1. ~(n + 1 < T) /\ a # 0
          BY <1>7, <4>2
        <5>2. Moved(v, a, T, n + 1) = z + e
          <6>1. Moved(v, a, T, n + 1) = 2 * v * T + a * (T * T) + 2 * VMax * (n + 1 - T)
            BY <1>7, <5>1 DEF Moved
          <6> QED
            BY <1>2, <1>3, <6>1
        <5> QED
          BY <1>1, <1>2, <3>6, <4>2, <5>2
      <4> QED
        BY <3>5, <4>1, <4>2
    <3> QED
      BY <1>1, <3>4, <3>7, <3>8
  <2>2. CASE ~(n + 1 <= T)
    <3>1. ~(n < T) /\ ~(n + 1 < T) /\ a # 0
      BY <1>7, <2>2
    <3>2. Moved(v, a, T, n) = z + c /\ Moved(v, a, T, n + 1) = z + e
      <4>1. /\ Moved(v, a, T, n) = 2 * v * T + a * (T * T) + 2 * VMax * (n - T)
            /\ Moved(v, a, T, n + 1) = 2 * v * T + a * (T * T) + 2 * VMax * (n + 1 - T)
        BY <1>7, <3>1 DEF Moved
      <4> QED
        BY <1>2, <1>3, <4>1
    <3> QED
      BY <1>2, <1>3, <1>4, <3>2
  <2> QED
    BY <2>1, <2>2
<1> QED
  BY <1>5, <1>6, <1>7

\* A vehicle never moves back: the longer, the farther.
LEMMA DistanceRises ==
  ASSUME NEW speed \in Int, NEW a \in Int, NEW n \in Nat
  PROVE  /\ P!Kinematics(speed, a, n).distance \in Int
         /\ P!Kinematics(speed, a, n + 1).distance \in Int
         /\ P!Kinematics(speed, a, n).distance <= P!Kinematics(speed, a, n + 1).distance
<1>1. PICK v \in 0..VMax : v = P!Clamp(0, speed, VMax)
  BY TrajectoryAssumption DEF P!Clamp
<1>2. PICK T \in Nat : Changing(v, a, T)
  BY ChangingExists
<1>3. /\ P!Kinematics(speed, a, n).distance = Moved(v, a, T, n)
      /\ P!Kinematics(speed, a, n + 1).distance = Moved(v, a, T, n + 1)
  <2>1. n + 1 \in Nat
    OBVIOUS
  <2>2. P!Kinematics(speed, a, n).distance = Moved(v, a, T, n)
    BY <1>1, <1>2, KinematicsMoves
  <2>3. P!Kinematics(speed, a, n + 1).distance = Moved(v, a, T, n + 1)
    BY <1>1, <1>2, <2>1, KinematicsMoves, ZenonT(60)
  <2> QED
    BY <2>2, <2>3
<1> QED
  BY <1>2, <1>3, MovedRises, Zenon

\* What a prediction may be made from; None may stand for any value.
TelemetryType ==
  [road : RoadType, quality : {"GOOD", "DEGRADED", "FAILED"}, age : Nat,
   direction : {"FORWARD", "REVERSE", "UNKNOWN"}, accuracy : Int \union {None},
   speed : Int \union {None}, heading : Int \union {None}, acceleration : Int \union {None},
   previous : {None} \union [speed : Int, dt : Int]]

Older(t) == [t EXCEPT !.age = @ + 1]

\* The same telemetry a second later.
LEMMA OlderType ==
  ASSUME NEW t \in TelemetryType
  PROVE  /\ Older(t) \in TelemetryType /\ Older(t).age = t.age + 1 /\ t.age \in Nat
         /\ Older(t).road = t.road /\ Older(t).quality = t.quality /\ Older(t).direction = t.direction
         /\ Older(t).accuracy = t.accuracy /\ Older(t).speed = t.speed /\ Older(t).heading = t.heading
         /\ Older(t).acceleration = t.acceleration /\ Older(t).previous = t.previous
BY DEF TelemetryType, Older

Sources == {"DEVICE", "DERIVED", "ASSUMED_ZERO"}

\* Quotients are ordered as what is divided.
LEMMA DivMonotone ==
  ASSUME NEW d \in Nat \ {0}, NEW k \in Nat, NEW l \in Nat, k <= l
  PROVE  k \div d <= l \div d
<1>1. PICK r \in Int, q \in Int : r = k \div d /\ q = l \div d
  OBVIOUS
<1>2. d * r <= k /\ l < d * (q + 1)
  BY <1>1
<1>3. q + 1 <= r => d * (q + 1) <= d * r
  OBVIOUS
<1>4. PICK a \in Int, b \in Int : a = d * r /\ b = d * (q + 1)
  OBVIOUS
<1> QED
  BY <1>1, <1>2, <1>3, <1>4

\* What is clamped is whole.
LEMMA ClampType ==
  ASSUME NEW lo \in Int, NEW x \in Int, NEW hi \in Int
  PROVE  P!Clamp(lo, x, hi) \in Int
BY DEF P!Clamp

\* _resolve_acceleration gives a whole number and says where it is from.
LEMMA AccelerationType ==
  ASSUME NEW t \in TelemetryType
  PROVE  P!ResolveAcceleration(t).a \in Int /\ P!ResolveAcceleration(t).source \in Sources
<1>0. -MaxDecel \in Int /\ MaxAccel \in Int /\ MinSampleDt \in Nat \ {0}
  BY TrajectoryAssumption
<1>1. CASE t.acceleration # None
  <2>1. P!ResolveAcceleration(t) = [a |-> P!Clamp(-MaxDecel, t.acceleration, MaxAccel), source |-> "DEVICE"]
    BY <1>1, Zenon DEF P!ResolveAcceleration
  <2>2. t.acceleration \in Int
    BY <1>1 DEF TelemetryType
  <2>3. P!Clamp(-MaxDecel, t.acceleration, MaxAccel) \in Int
    BY <1>0, <2>2, ClampType, Zenon
  <2> QED
    BY <2>1, <2>3 DEF Sources
<1>2. CASE ~(t.acceleration # None) /\ P!Derivable(t)
  <2>1. PICK a : a = (t.speed - t.previous.speed) \div t.previous.dt
    OBVIOUS
  <2>2. P!ResolveAcceleration(t) = [a |-> P!Clamp(-MaxDecel, a, MaxAccel), source |-> "DERIVED"]
    BY <1>2, <2>1, Zenon DEF P!ResolveAcceleration
  <2>3. t.speed \in Int /\ t.previous \in [speed : Int, dt : Int] /\ t.previous.dt >= MinSampleDt
    BY <1>2 DEF TelemetryType, P!Derivable
  <2>4. PICK dv \in Int, dt \in Nat \ {0} : dv = t.speed - t.previous.speed /\ dt = t.previous.dt
    BY <1>0, <2>3
  <2>5. a \in Int
    BY <2>1, <2>4
  <2>6. P!Clamp(-MaxDecel, a, MaxAccel) \in Int
    BY <1>0, <2>5, ClampType
  <2> QED
    BY <2>2, <2>6 DEF Sources
<1>3. CASE ~(t.acceleration # None) /\ ~P!Derivable(t)
  <2>1. P!ResolveAcceleration(t) = [a |-> P!Clamp(-MaxDecel, 0, MaxAccel), source |-> "ASSUMED_ZERO"]
    BY <1>3, Zenon DEF P!ResolveAcceleration
  <2>2. P!Clamp(-MaxDecel, 0, MaxAccel) \in Int
    BY <1>0, ClampType
  <2> QED
    BY <2>1, <2>2 DEF Sources
<1> QED
  BY <1>1, <1>2, <1>3

\* The acceleration is assumed for as long as the telemetry is not stale, and
\* what is assumed later has no better source.
LEMMA AccelerationAges ==
  ASSUME NEW t \in TelemetryType
  PROVE  /\ t.age + 1 <= StaleAge => P!ResolveAcceleration(Older(t)) = P!ResolveAcceleration(t)
         /\ P!SourceFactor[P!ResolveAcceleration(Older(t)).source] \in Nat
         /\ P!SourceFactor[P!ResolveAcceleration(t).source] \in Nat
         /\ P!SourceFactor[P!ResolveAcceleration(Older(t)).source]
              <= P!SourceFactor[P!ResolveAcceleration(t).source]
<1>0. StaleAge \in Nat /\ MaxSampleAge \in Nat /\ StaleAge <= MaxSampleAge
  BY TrajectoryAssumption
<1>1. PICK u : u = Older(t)
  OBVIOUS
<1>2. /\ u.age = t.age + 1 /\ t.age \in Nat /\ u.acceleration = t.acceleration
      /\ u.previous = t.previous /\ u.speed = t.speed
  BY <1>1, OlderType
<1>3. P!Derivable(u) => P!Derivable(t)
  BY <1>0, <1>2 DEF P!Derivable
<1>4. t.age + 1 <= StaleAge => (P!Derivable(u) <=> P!Derivable(t))
  BY <1>0, <1>2 DEF P!Derivable
<1>5. ASSUME P!Derivable(u) <=> P!Derivable(t) PROVE P!ResolveAcceleration(u) = P!ResolveAcceleration(t)
  BY <1>2, <1>5, Zenon DEF P!ResolveAcceleration
<1>6. P!SourceFactor = [DEVICE |-> 25, DERIVED |-> 23, ASSUMED_ZERO |-> 22]
  BY DEF P!SourceFactor
<1>7. \A s \in Sources : P!SourceFactor[s] \in Nat
  BY <1>6 DEF Sources
<1>8. u \in TelemetryType
  BY <1>1, OlderType
<1>9. P!ResolveAcceleration(u).source \in Sources /\ P!ResolveAcceleration(t).source \in Sources
  BY <1>8, AccelerationType
<1>10. P!SourceFactor[P!ResolveAcceleration(u).source] <= P!SourceFactor[P!ResolveAcceleration(t).source]
  <2>1. CASE P!Derivable(u) <=> P!Derivable(t)
    <3>1. P!ResolveAcceleration(u) = P!ResolveAcceleration(t)
      BY <1>5, <2>1
    <3>2. PICK f \in Nat : f = P!SourceFactor[P!ResolveAcceleration(t).source]
      BY <1>7, <1>9
    <3> QED
      BY <3>1, <3>2
  <2>2. CASE ~P!Derivable(u) /\ P!Derivable(t)
    <3>1. CASE t.acceleration # None
      <4>1. P!ResolveAcceleration(u) = P!ResolveAcceleration(t)
        BY <1>2, <3>1, Zenon DEF P!ResolveAcceleration
      <4>2. PICK f \in Nat : f = P!SourceFactor[P!ResolveAcceleration(t).source]
        BY <1>7, <1>9
      <4> QED
        BY <4>1, <4>2
    <3>2. CASE ~(t.acceleration # None)
      <4>1. P!ResolveAcceleration(u).source = "ASSUMED_ZERO"
        <5>1. P!ResolveAcceleration(u) = [a |-> P!Clamp(-MaxDecel, 0, MaxAccel), source |-> "ASSUMED_ZERO"]
          BY <1>2, <2>2, <3>2, Zenon DEF P!ResolveAcceleration
        <5> QED
          BY <5>1
      <4>2. P!ResolveAcceleration(t).source = "DERIVED"
        <5>1. P!ResolveAcceleration(t)
                = [a |-> P!Clamp(-MaxDecel, (t.speed - t.previous.speed) \div t.previous.dt, MaxAccel),
                   source |-> "DERIVED"]
          BY <2>2, <3>2, Zenon DEF P!ResolveAcceleration
        <5> QED
          BY <5>1
      <4>3. P!SourceFactor["ASSUMED_ZERO"] = 22 /\ P!SourceFactor["DERIVED"] = 23
        BY <1>6
      <4> QED
        BY <4>1, <4>2, <4>3
    <3> QED
      BY <3>1, <3>2
  <2> QED
    BY <1>3, <2>1, <2>2
<1> QED
  BY <1>1, <1>4, <1>5, <1>7, <1>9, <1>10

\* The older, the less sure; beyond the stale age a quarter at most.
LEMMA AgeFactorFalls ==
  ASSUME NEW n \in Nat
  PROVE  /\ P!AgeFactor(n) \in Nat /\ P!AgeFactor(n + 1) \in Nat
         /\ P!AgeFactor(n + 1) <= P!AgeFactor(n)
         /\ n <= StaleAge => P!AgeFactor(n) >= 12
         /\ n > StaleAge => P!AgeFactor(n) = 3
<1>0. FreshAge \in Nat /\ StaleAge \in Nat /\ FreshAge < StaleAge
  BY TrajectoryAssumption
<1>1. ASSUME NEW m \in Nat
      PROVE  /\ m <= FreshAge => P!AgeFactor(m) = 60
             /\ m > StaleAge => P!AgeFactor(m) = 3
             /\ FreshAge < m /\ m <= StaleAge =>
                  \E r \in Nat : /\ r = (48 * (m - FreshAge)) \div (StaleAge - FreshAge)
                                 /\ P!AgeFactor(m) = IF 12 > 60 - r THEN 12 ELSE 60 - r
  <2>1. CASE m <= FreshAge
    BY <1>0, <2>1 DEF P!AgeFactor
  <2>2. CASE m > StaleAge
    BY <1>0, <2>2 DEF P!AgeFactor
  <2>3. CASE FreshAge < m /\ m <= StaleAge
    <3>1. PICK d \in Nat \ {0}, k \in Nat : d = StaleAge - FreshAge /\ k = 48 * (m - FreshAge)
      BY <1>0, <2>3
    <3>2. PICK r \in Nat : r = k \div d
      BY DivisionBounds
    <3>3. P!AgeFactor(m) = P!Larger(12, 60 - r)
      <4>1. ~(m <= FreshAge) /\ ~(m > StaleAge)
        BY <1>0, <2>3
      <4>2. P!AgeFactor(m) = P!Larger(12, 60 - (48 * (m - FreshAge)) \div (StaleAge - FreshAge))
        BY <4>1, Zenon DEF P!AgeFactor
      <4> QED
        BY <3>1, <3>2, <4>2
    <3>4. P!AgeFactor(m) = IF 12 > 60 - r THEN 12 ELSE 60 - r
      BY <3>3 DEF P!Larger
    <3>5. r = (48 * (m - FreshAge)) \div (StaleAge - FreshAge)
      BY <3>1, <3>2
    <3>6. ~(m <= FreshAge) /\ ~(m > StaleAge)
      BY <1>0, <2>3
    <3> QED
      BY <3>4, <3>5, <3>6, Zenon
  <2> QED
    BY <1>0, <2>1, <2>2, <2>3
<1>2. n + 1 \in Nat
  OBVIOUS
<1>3. CASE n + 1 <= FreshAge
  BY <1>0, <1>1, <1>2, <1>3
<1>4. CASE n > StaleAge
  BY <1>0, <1>1, <1>2, <1>4
<1>5. CASE n <= FreshAge /\ ~(n + 1 <= FreshAge)
  <2>1. n + 1 > FreshAge /\ n + 1 <= StaleAge
    BY <1>0, <1>5
  <2>2. PICK r \in Nat : P!AgeFactor(n + 1) = IF 12 > 60 - r THEN 12 ELSE 60 - r
    BY <1>1, <1>2, <2>1
  <2>3. P!AgeFactor(n) = 60
    BY <1>1, <1>5
  <2> QED
    BY <1>0, <1>5, <2>2, <2>3
<1>6. CASE n > FreshAge /\ n <= StaleAge
  <2>1. PICK r \in Nat : /\ r = (48 * (n - FreshAge)) \div (StaleAge - FreshAge)
                         /\ P!AgeFactor(n) = IF 12 > 60 - r THEN 12 ELSE 60 - r
    BY <1>1, <1>6
  <2>2. CASE n + 1 > StaleAge
    BY <1>0, <1>1, <1>2, <1>6, <2>1, <2>2
  <2>3. CASE ~(n + 1 > StaleAge)
    <3>1. PICK q \in Nat : /\ q = (48 * ((n + 1) - FreshAge)) \div (StaleAge - FreshAge)
                           /\ P!AgeFactor(n + 1) = IF 12 > 60 - q THEN 12 ELSE 60 - q
      <4>1. FreshAge < n + 1 /\ n + 1 <= StaleAge
        BY <1>0, <1>6, <2>3
      <4> QED
        BY <1>1, <1>2, <4>1
    <3>2. r <= q
      <4>1. PICK d \in Nat \ {0}, k \in Nat, l \in Nat :
              d = StaleAge - FreshAge /\ k = 48 * (n - FreshAge) /\ l = 48 * ((n + 1) - FreshAge) /\ k <= l
        BY <1>0, <1>6
      <4>2. k \div d <= l \div d
        BY <4>1, DivMonotone
      <4> QED
        BY <2>1, <3>1, <4>1, <4>2
    <3> QED
      BY <1>0, <1>6, <2>1, <3>1, <3>2
  <2> QED
    BY <2>2, <2>3
<1> QED
  BY <1>0, <1>3, <1>4, <1>5, <1>6

\* The points are those of the horizons that fit on the path.
LEMMA PointsFit ==
  ASSUME NEW path, NEW moved
  PROVE  /\ P!Fitting(path, moved) \subseteq 1..Len(Horizons)
         /\ Cardinality(P!Fitting(path, moved)) \in 0..Len(Horizons)
         /\ Len(P!PointsAlong(path, moved)) = Cardinality(P!Fitting(path, moved))
         /\ DOMAIN P!PointsAlong(path, moved) = 1..Cardinality(P!Fitting(path, moved))
         /\ \A i \in 1..Cardinality(P!Fitting(path, moved)) :
              /\ P!PointsAlong(path, moved)[i].t = Horizons[i]
              /\ P!PointsAlong(path, moved)[i].at
                   = P!PointAtDistance(P!Ats(path), P!Cums(path), moved[i].distance)
<1>1. PICK H \in Nat : H = Len(Horizons) /\ DOMAIN Horizons = 1..H
  BY HorizonsAssumption
<1>2. PICK U : U = P!Fitting(path, moved)
  OBVIOUS
<1>3. U \subseteq 1..H
  BY <1>1, <1>2 DEF P!Fitting
<1>4. Cardinality(U) \in 0..H
  <2>1. IsFiniteSet(1..H) /\ Cardinality(1..H) = H
    BY IntervalCount
  <2>2. Cardinality(U) \in Nat /\ Cardinality(U) <= Cardinality(1..H)
    BY <1>3, <2>1, SameOrLess, Zenon
  <2> QED
    BY <2>1, <2>2
<1>5. PICK c \in Nat : c = Cardinality(U) /\ c = P!Cardinality(P!Fitting(path, moved))
  BY <1>2, <1>4, SameCardinality
<1>6. PICK points : points = P!PointsAlong(path, moved)
  OBVIOUS
<1> DEFINE Point(i) ==
      [t |-> Horizons[i], distance |-> moved[i].distance, speed |-> moved[i].speed,
       at |-> P!PointAtDistance(P!Ats(path), P!Cums(path), moved[i].distance),
       segment |-> P!SegmentIdAt(path, moved[i].distance)]
<1>7. points = [i \in 1..c |-> Point(i)]
  BY <1>5, <1>6, Zenon DEF P!PointsAlong
<1>8. \A i : /\ Point(i).t = Horizons[i]
             /\ Point(i).at = P!PointAtDistance(P!Ats(path), P!Cums(path), moved[i].distance)
  OBVIOUS
<1> HIDE DEF Point
<1>9. DOMAIN points = 1..c /\ \A i \in 1..c : points[i] = Point(i)
  BY <1>7
<1>10. Len(points) = c
  <2>1. PICK V : V = {points[i] : i \in 1..c}
    BY Zenon
  <2>2. \A i \in 1..c : points[i] \in V
    BY <2>1
  <2>3. points = [i \in 1..c |-> points[i]]
    BY <1>7
  <2>4. points \in [1..c -> V]
    BY <2>2, <2>3
  <2> QED
    BY <2>4
<1> QED
  BY <1>1, <1>2, <1>3, <1>4, <1>5, <1>6, <1>8, <1>9, <1>10

\* Moving farther leaves fewer of them.
LEMMA FartherFitsLess ==
  ASSUME NEW path, P!Last(path).cum \in Nat, NEW near, NEW far,
         \A i \in 1..Len(Horizons) : /\ near[i].distance \in Int /\ far[i].distance \in Int
                                     /\ near[i].distance <= far[i].distance
  PROVE  Len(P!PointsAlong(path, far)) <= Len(P!PointsAlong(path, near))
<1>1. PICK H \in Nat : H = Len(Horizons) /\ DOMAIN Horizons = 1..H
  BY HorizonsAssumption
<1>2. PICK room \in Nat : room = P!Last(path).cum
  OBVIOUS
<1>3. P!Fitting(path, far) \subseteq P!Fitting(path, near)
  <2>1. ASSUME NEW i \in 1..H, \A j \in 1..i : far[j].distance <= room
        PROVE  \A j \in 1..i : near[j].distance <= room
    <3> TAKE j \in 1..i
    <3>1. j \in 1..H
      OBVIOUS
    <3>2. PICK x \in Int, y \in Int : x = near[j].distance /\ y = far[j].distance /\ x <= y
      BY <1>1, <3>1
    <3> QED
      BY <2>1, <3>2
  <2> QED
    BY <1>1, <1>2, <2>1, Zenon DEF P!Fitting
<1>4. P!Fitting(path, near) \subseteq 1..H
  BY <1>1, PointsFit
<1>5. IsFiniteSet(1..H)
  BY IntervalCount
<1>6. IsFiniteSet(P!Fitting(path, near))
  BY <1>4, <1>5, SameOrLess
<1>7. Cardinality(P!Fitting(path, far)) <= Cardinality(P!Fitting(path, near))
  BY <1>3, <1>6, SameOrLess
<1> QED
  BY <1>7, PointsFit

\* Where nothing moves everything fits.
LEMMA FrozenFits ==
  ASSUME NEW path, P!Last(path).cum \in Nat, NEW moved,
         \A i \in 1..Len(Horizons) : moved[i].distance = 0
  PROVE  P!Fitting(path, moved) = 1..Len(Horizons) /\ Len(P!PointsAlong(path, moved)) = Len(Horizons)
<1>1. PICK H \in Nat : H = Len(Horizons) /\ DOMAIN Horizons = 1..H
  BY HorizonsAssumption
<1>2. PICK room \in Nat : room = P!Last(path).cum
  OBVIOUS
<1>3. \A i \in 1..H : \A j \in 1..i : moved[j].distance <= room
  BY <1>1
<1>4. P!Fitting(path, moved) = 1..H
  BY <1>1, <1>2, <1>3 DEF P!Fitting
<1>5. Cardinality(1..H) = H
  BY IntervalCount
<1> QED
  BY <1>1, <1>4, <1>5, PointsFit

SpeedOf(t) == IF t.speed = None THEN 0 ELSE t.speed
RoadOf(t) == [t.road EXCEPT !.reverse = t.direction = "REVERSE"]
Frozen == [i \in DOMAIN Horizons |-> [distance |-> 0, speed |-> 0]]
Moves(t, a) == [i \in DOMAIN Horizons |-> P!Kinematics(SpeedOf(t), a, t.age + Horizons[i])]

\* The road a prediction follows has a length.
LEMMA RoadOfType ==
  ASSUME NEW t \in TelemetryType
  PROVE  RoadOf(t) \in RoadType /\ P!Last(P!PathOf(RoadOf(t))).cum \in Nat
<1>1. PICK road \in RoadType : road = t.road
  BY DEF TelemetryType
<1>2. PICK back \in BOOLEAN : back = (t.direction = "REVERSE")
  BY Zenon
<1>3. [road EXCEPT !.reverse = back] \in RoadType
  BY Zenon DEF RoadType
<1>4. RoadOf(t) \in RoadType
  BY <1>1, <1>2, <1>3 DEF RoadOf
<1> QED
  BY <1>4, PathType

\* The points of a prediction, stale or not.
LEMMA PointsAre ==
  ASSUME NEW t \in TelemetryType, NEW a \in Int
  PROVE  /\ P!IsStale(t) => P!Points(t, a) = P!PointsAlong(P!PathOf(RoadOf(t)), Frozen)
         /\ ~P!IsStale(t) => P!Points(t, a) = P!PointsAlong(P!PathOf(RoadOf(t)), Moves(t, a))
<1>1. CASE P!IsStale(t)
  BY <1>1, Zenon DEF P!Points, RoadOf, Frozen
<1>2. CASE ~P!IsStale(t)
  BY <1>2, Zenon DEF P!Points, RoadOf, P!PredictPoints, Moves, SpeedOf
<1> QED
  BY <1>1, <1>2

\* The same telemetry a second later has no more points, unless it is stale now.
LEMMA PointsAge ==
  ASSUME NEW t \in TelemetryType, NEW a \in Int, NEW b \in Int,
         t.age + 1 <= StaleAge => b = a, t.age + 1 <= StaleAge \/ t.age > StaleAge
  PROVE  Len(P!Points(Older(t), b)) <= Len(P!Points(t, a))
<1>0. StaleAge \in Nat /\ t.age \in Nat
  BY TrajectoryAssumption, OlderType
<1>1. PICK u \in TelemetryType : u = Older(t) /\ u.age = t.age + 1
  BY OlderType
<1>2. RoadOf(u) = RoadOf(t) /\ SpeedOf(u) = SpeedOf(t)
  <2>1. u.road = t.road /\ u.direction = t.direction /\ u.speed = t.speed
    BY <1>1, OlderType
  <2> QED
    BY <2>1 DEF RoadOf, SpeedOf
<1>3. PICK path : path = P!PathOf(RoadOf(t)) /\ P!Last(path).cum \in Nat
  BY RoadOfType
<1>4. CASE t.age > StaleAge
  <2>1. P!IsStale(t) /\ P!IsStale(u)
    BY <1>0, <1>1, <1>4 DEF P!IsStale
  <2>2. P!Points(u, b) = P!Points(t, a)
    BY <1>2, <2>1, PointsAre
  <2>3. PICK n \in Nat : n = Len(P!Points(t, a))
    <3>1. P!Points(t, a) = P!PointsAlong(path, Frozen)
      BY <1>3, <2>1, PointsAre
    <3>2. \A i \in 1..Len(Horizons) : Frozen[i].distance = 0
      BY HorizonsAssumption DEF Frozen
    <3>3. Len(P!PointsAlong(path, Frozen)) = Len(Horizons)
      BY <1>3, <3>2, FrozenFits
    <3> QED
      BY <3>1, <3>3, HorizonsAssumption
  <2> QED
    BY <1>1, <2>2, <2>3
<1>5. CASE t.age + 1 <= StaleAge
  <2>1. ~P!IsStale(t) /\ ~P!IsStale(u)
    BY <1>0, <1>1, <1>5 DEF P!IsStale
  <2>2. P!Points(t, a) = P!PointsAlong(path, Moves(t, a))
    BY <1>3, <2>1, PointsAre
  <2>3. P!Points(u, a) = P!PointsAlong(path, Moves(u, a))
    BY <1>2, <1>3, <2>1, PointsAre
  <2>4. ASSUME NEW i \in 1..Len(Horizons)
        PROVE  /\ Moves(t, a)[i].distance \in Int /\ Moves(u, a)[i].distance \in Int
               /\ Moves(t, a)[i].distance <= Moves(u, a)[i].distance
    <3>1. i \in DOMAIN Horizons /\ Horizons[i] \in Nat
      BY HorizonsAssumption
    <3>2. PICK n \in Nat : n = t.age + Horizons[i] /\ n + 1 = u.age + Horizons[i]
      BY <1>0, <1>1, <3>1
    <3>3. PICK speed \in Int : speed = SpeedOf(t)
      BY DEF TelemetryType, SpeedOf
    <3>4. Moves(t, a)[i] = P!Kinematics(speed, a, n) /\ Moves(u, a)[i] = P!Kinematics(speed, a, n + 1)
      BY <1>2, <3>1, <3>2, <3>3, Zenon DEF Moves
    <3>5. /\ P!Kinematics(speed, a, n).distance \in Int
          /\ P!Kinematics(speed, a, n + 1).distance \in Int
          /\ P!Kinematics(speed, a, n).distance <= P!Kinematics(speed, a, n + 1).distance
      BY DistanceRises, Zenon
    <3> QED
      BY <3>4, <3>5
  <2>5. Len(P!PointsAlong(path, Moves(u, a))) <= Len(P!PointsAlong(path, Moves(t, a)))
    BY <1>3, <2>4, FartherFitsLess
  <2> QED
    BY <1>1, <1>5, <2>2, <2>3, <2>5
<1> QED
  BY <1>4, <1>5

Truncated(t) == Len(P!Points(t, P!ResolveAcceleration(t).a)) < Len(Horizons)
Sureness(t) == P!Confidence(t, P!ResolveAcceleration(t).source, Truncated(t))

\* The factors that do not age.
Lasting(t) ==
  P!AccuracyFactor(t.accuracy) * P!QualityFactor[t.quality] * P!Given(t.speed, 10, 7)
    * P!Given(t.heading, 20, 17) * (IF t.direction = "UNKNOWN" THEN 4 ELSE 5)
Ageing(age, source, truncated) ==
  P!AgeFactor(age) * P!SourceFactor[source] * (IF truncated THEN 3 ELSE 4)

\* The most they come to.
Most == 20 * 5 * 10 * 20 * 5

\* The factors that do not age are numbers, and bounded.
LEMMA LastingType ==
  ASSUME NEW t \in TelemetryType, P!Usable(t)
  PROVE  /\ Lasting(t) \in Nat /\ Most \in Nat /\ Lasting(t) <= Most
         /\ P!AccuracyFactor(t.accuracy) \in Nat /\ P!QualityFactor[t.quality] \in Nat
         /\ P!Given(t.speed, 10, 7) \in Nat /\ P!Given(t.heading, 20, 17) \in Nat
<1>1. P!AccuracyFactor(t.accuracy) \in 0..20
  <2>1. CASE t.accuracy = None
    BY <2>1 DEF P!AccuracyFactor
  <2>2. CASE t.accuracy # None
    <3>1. PICK m \in Int : m = t.accuracy
      BY <2>2 DEF TelemetryType
    <3>2. CASE m <= 10 \/ m > 50
      BY <2>2, <3>1, <3>2 DEF P!AccuracyFactor
    <3>3. CASE m > 10 /\ ~(m > 50)
      <4>1. PICK k \in Nat : k = m - 10
        BY <3>3
      <4>2. PICK r \in Int : r = k \div 4 /\ r >= 0
        OBVIOUS
      <4>3. P!AccuracyFactor(t.accuracy) = P!Larger(10, 20 - r)
        BY <2>2, <3>1, <3>3, <4>1, <4>2 DEF P!AccuracyFactor
      <4> QED
        BY <4>2, <4>3 DEF P!Larger
    <3> QED
      BY <3>2, <3>3
  <2> QED
    BY <2>1, <2>2
<1>2. P!QualityFactor[t.quality] \in 0..5
  BY DEF P!Usable, P!QualityFactor
<1>3. P!Given(t.speed, 10, 7) \in 0..10 /\ P!Given(t.heading, 20, 17) \in 0..20
  BY DEF P!Given
<1>41. PICK a \in 0..20 : a = P!AccuracyFactor(t.accuracy)
  BY <1>1
<1>42. PICK q \in 0..5 : q = P!QualityFactor[t.quality]
  BY <1>2
<1>43. PICK s \in 0..10 : s = P!Given(t.speed, 10, 7)
  BY <1>3
<1>44. PICK h \in 0..20 : h = P!Given(t.heading, 20, 17)
  BY <1>3
<1>45. PICK d \in 0..5 : d = IF t.direction = "UNKNOWN" THEN 4 ELSE 5
  OBVIOUS
<1>5. PICK x \in Nat, m \in Nat : x = a * q /\ m = 20 * 5 /\ x <= m
  <2>1. a * q <= 20 * q /\ 20 * q <= 20 * 5
    OBVIOUS
  <2> QED
    BY <2>1
<1>6. PICK y \in Nat, n \in Nat : y = x * s /\ n = m * 10 /\ y <= n
  <2>1. x * s <= m * s /\ m * s <= m * 10
    BY <1>5
  <2> QED
    BY <2>1
<1>7. PICK z \in Nat, o \in Nat : z = y * h /\ o = n * 20 /\ z <= o
  <2>1. y * h <= n * h /\ n * h <= n * 20
    BY <1>6
  <2> QED
    BY <2>1
<1>8. PICK w \in Nat, r \in Nat : w = z * d /\ r = o * 5 /\ w <= r
  <2>1. z * d <= o * d /\ o * d <= o * 5
    BY <1>7
  <2> QED
    BY <2>1
<1>9. Lasting(t) = w /\ Most = r
  <2>1. Lasting(t) = a * q * s * h * d
    BY <1>41, <1>42, <1>43, <1>44, <1>45, Zenon DEF Lasting
  <2>2. Most = 20 * 5 * 10 * 20 * 5
    BY Zenon DEF Most
  <2> QED
    BY <1>5, <1>6, <1>7, <1>8, <2>1, <2>2, Zenon
<1>10. a \in Nat /\ q \in Nat /\ s \in Nat /\ h \in Nat
  OBVIOUS
<1>11. Lasting(t) \in Nat /\ Most \in Nat /\ Lasting(t) <= Most
  BY <1>8, <1>9
<1> QED
  BY <1>41, <1>42, <1>43, <1>44, <1>10, <1>11, Zenon

\* A product of eight, the ageing factors first.
LEMMA Regroup ==
  ASSUME NEW f \in Nat, NEW a \in Nat, NEW q \in Nat, NEW s \in Nat,
         NEW v \in Nat, NEW h \in Nat, NEW d \in Nat, NEW r \in Nat
  PROVE  f * a * q * s * v * h * d * r = (f * s * r) * (a * q * v * h * d)
OBVIOUS

\* _confidence is the product of what ages and what does not.
LEMMA ConfidenceIsProduct ==
  ASSUME NEW t \in TelemetryType, P!Usable(t), NEW source \in Sources, NEW truncated \in BOOLEAN,
         P!SourceFactor[source] \in Nat, P!AgeFactor(t.age) \in Nat
  PROVE  P!Confidence(t, source, truncated) = Ageing(t.age, source, truncated) * Lasting(t)
<1>0. PICK d \in Nat : d = IF t.direction = "UNKNOWN" THEN 4 ELSE 5
  OBVIOUS
<1>1. PICK a \in Nat, q \in Nat, v \in Nat, h \in Nat :
        /\ a = P!AccuracyFactor(t.accuracy) /\ q = P!QualityFactor[t.quality]
        /\ v = P!Given(t.speed, 10, 7) /\ h = P!Given(t.heading, 20, 17)
  BY LastingType
<1>2. PICK f \in Nat, s \in Nat, r \in Nat :
        f = P!AgeFactor(t.age) /\ s = P!SourceFactor[source] /\ r = IF truncated THEN 3 ELSE 4
  OBVIOUS
<1>3. P!Confidence(t, source, truncated) = f * a * q * s * v * h * d * r
  BY <1>0, <1>1, <1>2, Zenon DEF P!Confidence
<1>4. Ageing(t.age, source, truncated) = f * s * r /\ Lasting(t) = a * q * v * h * d
  BY <1>0, <1>1, <1>2, Zenon DEF Ageing, Lasting
<1> QED
  BY <1>3, <1>4, Regroup

\* Products are ordered as their factors.
LEMMA ScaledProducts ==
  ASSUME NEW f \in Nat, NEW s \in Nat, NEW r \in Nat, NEW g \in Nat, NEW u \in Nat, NEW w \in Nat,
         NEW k \in Nat, g <= f, u <= s, w <= r
  PROVE  (g * u * w) * k <= (f * s * r) * k
<1>1. PICK m \in Nat, n \in Nat : m = g * u /\ n = f * s /\ m <= n
  <2>1. g * u <= f * u /\ f * u <= f * s
    OBVIOUS
  <2>2. PICK x \in Nat, y \in Nat, z \in Nat : x = g * u /\ y = f * u /\ z = f * s
    OBVIOUS
  <2> QED
    BY <2>1, <2>2
<1>2. PICK x \in Nat, y \in Nat : x = m * w /\ y = n * r /\ x <= y
  <2>1. m * w <= n * w /\ n * w <= n * r
    BY <1>1
  <2>2. PICK x \in Nat, y \in Nat, z \in Nat : x = m * w /\ y = n * w /\ z = n * r
    OBVIOUS
  <2> QED
    BY <2>1, <2>2
<1>3. x * k <= y * k
  BY <1>2
<1> QED
  BY <1>1, <1>2, <1>3

\* 3 * u * 4 <= f * s * 3 when f is 12 at least.
LEMMA StaleProducts ==
  ASSUME NEW f \in Nat, NEW s \in Nat, NEW r \in {3, 4}, NEW u \in Nat, NEW w \in {3, 4},
         NEW k \in Nat, 12 <= f, u <= s
  PROVE  (3 * u * w) * k <= (f * s * r) * k
<1>1. 3 * u * w <= 12 * s /\ 12 * s <= 3 * (f * s)
  <2>1. PICK p \in Nat : p = f * s /\ 12 * s <= p
    OBVIOUS
  <2> QED
    BY <2>1
<1>2. PICK p \in Nat : p = f * s
  OBVIOUS
<1>3. 3 * p <= p * r
  OBVIOUS
<1>4. PICK x \in Nat, y \in Nat : x = 3 * u * w /\ y = p * r /\ x <= y
  BY <1>1, <1>2, <1>3
<1>5. x * k <= y * k
  BY <1>4
<1> QED
  BY <1>2, <1>4, <1>5

\* A hundredth of Certain, and the most a confidence without its ageing factors is.
LEMMA PercentValue ==
  P!Percent = 60 * Most /\ Most \in Nat /\ Most > 0
<1>1. PICK k \in Nat : k = Most /\ k > 0
  BY DEF Most
<1>2. P!Certain = 100 * (60 * k)
  <2>1. P!Certain = 60 * 20 * 5 * 25 * 10 * 20 * 5 * 4
    BY Zenon DEF P!Certain
  <2>2. k = 20 * 5 * 10 * 20 * 5
    BY <1>1 DEF Most
  <2> QED
    BY <2>1, <2>2
<1>3. PICK q \in Nat : q = 60 * k
  OBVIOUS
<1>4. (100 * q) \div 100 = q
  BY ExactDivision
<1>5. P!Percent = (100 * q) \div 100
  BY <1>2, <1>3, Zenon DEF P!Percent
<1> QED
  BY <1>1, <1>3, <1>4, <1>5

\* The confidence of a prediction is such a product.
LEMMA SurenessIs ==
  ASSUME NEW t \in TelemetryType, P!Usable(t)
  PROVE  Sureness(t) = Ageing(t.age, P!ResolveAcceleration(t).source, Truncated(t)) * Lasting(t)
<1>1. P!ResolveAcceleration(t).source \in Sources
  BY AccelerationType
<1>2. P!SourceFactor[P!ResolveAcceleration(t).source] \in Nat
  BY AccelerationAges
<1>3. P!AgeFactor(t.age) \in Nat
  BY OlderType, AgeFactorFalls
<1>4. Truncated(t) \in BOOLEAN
  BY DEF Truncated
<1> QED
  BY <1>1, <1>2, <1>3, <1>4, ConfidenceIsProduct, Zenon DEF Sureness

\* What is truncated stays truncated, unless the telemetry becomes stale.
LEMMA TruncatedAges ==
  ASSUME NEW t \in TelemetryType, Truncated(t), t.age + 1 <= StaleAge \/ t.age > StaleAge
  PROVE  Truncated(Older(t))
<1>1. PICK a \in Int : a = P!ResolveAcceleration(t).a
  BY AccelerationType
<1>2. PICK b \in Int : b = P!ResolveAcceleration(Older(t)).a
  BY AccelerationType, OlderType
<1>3. t.age + 1 <= StaleAge => b = a
  BY <1>1, <1>2, AccelerationAges
<1>4. Len(P!Points(Older(t), b)) <= Len(P!Points(t, a))
  BY <1>3, PointsAge, Zenon
<1>5. \A u \in TelemetryType, c \in Int : Len(P!Points(u, c)) \in Nat
  <2> TAKE u \in TelemetryType, c \in Int
  <2>1. PICK path, moved : P!Points(u, c) = P!PointsAlong(path, moved)
    BY PointsAre
  <2>2. Len(P!PointsAlong(path, moved)) \in Nat
    <3>1. Len(P!PointsAlong(path, moved)) = Cardinality(P!Fitting(path, moved))
      BY PointsFit
    <3>2. Cardinality(P!Fitting(path, moved)) \in 0..Len(Horizons)
      BY PointsFit
    <3>3. Len(Horizons) \in Nat
      BY HorizonsAssumption
    <3> QED
      BY <3>1, <3>2, <3>3
  <2> QED
    BY <2>1, <2>2
<1>6. PICK m \in Nat, n \in Nat : m = Len(P!Points(t, a)) /\ n = Len(P!Points(Older(t), b))
  BY <1>5, OlderType
<1>7. PICK H \in Nat : H = Len(Horizons)
  BY HorizonsAssumption
<1>8. m < H
  BY <1>1, <1>6, <1>7 DEF Truncated
<1>9. n < H
  BY <1>4, <1>6, <1>8
<1> QED
  BY <1>2, <1>6, <1>7, <1>9 DEF Truncated

\* The older the telemetry, the less sure its prediction.
LEMMA SurenessFalls ==
  ASSUME NEW t \in TelemetryType, P!Usable(t)
  PROVE  /\ Sureness(Older(t)) \in Nat /\ Sureness(t) \in Nat
         /\ Sureness(Older(t)) <= Sureness(t)
<1>0. StaleAge \in Nat /\ t.age \in Nat
  BY TrajectoryAssumption, OlderType
<1>1. PICK u \in TelemetryType : u = Older(t) /\ u.age = t.age + 1 /\ P!Usable(u)
  BY OlderType DEF P!Usable
<1>2. Lasting(u) = Lasting(t)
  <2>1. /\ u.accuracy = t.accuracy /\ u.quality = t.quality /\ u.speed = t.speed
        /\ u.heading = t.heading /\ u.direction = t.direction
    BY <1>1, OlderType
  <2> QED
    BY <2>1 DEF Lasting
<1>3. PICK k \in Nat : k = Lasting(t)
  BY LastingType
<1>4. PICK n \in Nat : n = t.age
  BY <1>0
<1>5. PICK f \in Nat, g \in Nat : /\ f = P!AgeFactor(n) /\ g = P!AgeFactor(n + 1) /\ g <= f
                                  /\ n <= StaleAge => f >= 12
                                  /\ n > StaleAge => f = 3
                                  /\ n + 1 > StaleAge => g = 3
  <2>1. n + 1 \in Nat
    OBVIOUS
  <2>2. /\ P!AgeFactor(n) \in Nat /\ P!AgeFactor(n + 1) \in Nat
        /\ P!AgeFactor(n + 1) <= P!AgeFactor(n)
        /\ n <= StaleAge => P!AgeFactor(n) >= 12
        /\ n > StaleAge => P!AgeFactor(n) = 3
    BY AgeFactorFalls
  <2>3. n + 1 > StaleAge => P!AgeFactor(n + 1) = 3
    BY <2>1, AgeFactorFalls
  <2> QED
    BY <2>2, <2>3
<1>6. PICK s \in Nat, o \in Nat : /\ s = P!SourceFactor[P!ResolveAcceleration(t).source]
                                  /\ o = P!SourceFactor[P!ResolveAcceleration(u).source] /\ o <= s
  BY <1>1, AccelerationAges
<1>7. PICK r \in {3, 4} : r = IF Truncated(t) THEN 3 ELSE 4
  OBVIOUS
<1>8. PICK w \in {3, 4} : w = IF Truncated(u) THEN 3 ELSE 4
  OBVIOUS
<1>9. Sureness(t) = (f * s * r) * k
  BY <1>3, <1>4, <1>5, <1>6, <1>7, SurenessIs, Zenon DEF Ageing
<1>10. Sureness(u) = (g * o * w) * k
  BY <1>1, <1>2, <1>3, <1>4, <1>5, <1>6, <1>8, SurenessIs, Zenon DEF Ageing
<1>11. (g * o * w) * k <= (f * s * r) * k
  <2>1. CASE n + 1 <= StaleAge \/ n > StaleAge
    <3>1. Truncated(t) => Truncated(u)
      BY <1>1, <1>4, <2>1, TruncatedAges
    <3>2. w <= r
      BY <1>7, <1>8, <3>1
    <3>3. r \in Nat /\ w \in Nat
      OBVIOUS
    <3> QED
      BY <1>5, <1>6, <3>2, <3>3, ScaledProducts, Zenon
  <2>2. CASE n <= StaleAge /\ n + 1 > StaleAge
    <3>1. g = 3 /\ 12 <= f
      BY <1>5, <2>2
    <3>2. (3 * o * w) * k <= (f * s * r) * k
      BY <1>6, <3>1, StaleProducts
    <3> QED
      BY <3>1, <3>2
  <2> QED
    BY <1>0, <2>1, <2>2
<1>12. (g * o * w) * k \in Nat /\ (f * s * r) * k \in Nat
  <2>1. PICK a \in Nat, b \in Nat : a = g * o /\ b = f * s
    OBVIOUS
  <2>2. PICK c \in Nat, d \in Nat : c = a * w /\ d = b * r
    OBVIOUS
  <2>3. c * k \in Nat /\ d * k \in Nat
    OBVIOUS
  <2> QED
    BY <2>1, <2>2, <2>3
<1> QED
  BY <1>1, <1>9, <1>10, <1>11, <1>12

\* What predict_trajectory answers.
LEMMA TrajectoryIs ==
  ASSUME NEW t
  PROVE  /\ ~P!Usable(t) => /\ P!PredictTrajectory(t).status = "UNAVAILABLE"
                            /\ P!PredictTrajectory(t).confidence = 0
         /\ P!Usable(t) =>
              /\ P!PredictTrajectory(t).status = P!StatusOf(t, Truncated(t), Sureness(t))
              /\ P!PredictTrajectory(t).confidence = Sureness(t)
              /\ P!PredictTrajectory(t).level = P!ConfidenceLevel(Sureness(t))
              /\ P!PredictTrajectory(t).points = P!Points(t, P!ResolveAcceleration(t).a)
<1>1. CASE ~P!Usable(t)
  <2>1. P!PredictTrajectory(t) = [status |-> "UNAVAILABLE", confidence |-> 0, level |-> "LOW", points |-> <<>>]
    BY <1>1, Zenon DEF P!PredictTrajectory
  <2> QED
    BY <1>1, <2>1
<1>2. CASE P!Usable(t)
  <2>1. P!PredictTrajectory(t)
          = [status |-> P!StatusOf(t, Truncated(t), Sureness(t)), confidence |-> Sureness(t),
             level |-> P!ConfidenceLevel(Sureness(t)), points |-> P!Points(t, P!ResolveAcceleration(t).a)]
    BY <1>2, Zenon DEF P!PredictTrajectory, Truncated, Sureness
  <2> QED
    BY <1>2, <2>1
<1> QED
  BY <1>1, <1>2

\* What a status says of the telemetry.
LEMMA StatusIs ==
  ASSUME NEW t, NEW truncated, NEW confidence
  PROVE  /\ P!IsStale(t) => P!StatusOf(t, truncated, confidence) = "STALE"
         /\ ~P!IsStale(t) => P!StatusOf(t, truncated, confidence) \in {"DEGRADED", "VALID"}
         /\ P!StatusOf(t, truncated, confidence) = "VALID" <=>
              /\ ~P!IsStale(t) /\ t.quality # "DEGRADED" /\ ~(t.age > FreshAge)
              /\ ~truncated /\ ~(confidence < 50 * P!Percent)
<1>1. CASE P!IsStale(t)
  <2>1. P!StatusOf(t, truncated, confidence) = "STALE"
    BY <1>1, Zenon DEF P!StatusOf
  <2> QED
    BY <1>1, <2>1
<1>2. CASE /\ ~P!IsStale(t)
           /\ t.quality = "DEGRADED" \/ t.age > FreshAge \/ truncated \/ confidence < 50 * P!Percent
  <2>1. P!StatusOf(t, truncated, confidence) = "DEGRADED"
    BY <1>2, Zenon DEF P!StatusOf
  <2> QED
    BY <1>2, <2>1
<1>3. CASE /\ ~P!IsStale(t)
           /\ ~(t.quality = "DEGRADED" \/ t.age > FreshAge \/ truncated \/ confidence < 50 * P!Percent)
  <2>1. P!StatusOf(t, truncated, confidence) = "VALID"
    BY <1>3, Zenon DEF P!StatusOf
  <2> QED
    BY <1>3, <2>1
<1> QED
  BY <1>1, <1>2, <1>3

\* The same telemetry a second later is never surer, nor of a better status.
THEOREM PredictionsAge ==
  ASSUME NEW t \in TelemetryType
  PROVE  P!AgesWell(t)
<1>1. PICK u \in TelemetryType : u = Older(t) /\ u.age = t.age + 1 /\ u.quality = t.quality
  BY OlderType
<1>2. PICK now : now = P!PredictTrajectory(t)
  OBVIOUS
<1>3. PICK later : later = P!PredictTrajectory(u)
  OBVIOUS
<1>4. P!Rank = [UNAVAILABLE |-> 0, STALE |-> 1, DEGRADED |-> 2, VALID |-> 3]
  BY DEF P!Rank
<1>5. P!Usable(u) <=> P!Usable(t)
  BY <1>1 DEF P!Usable
<1>6. later.confidence <= now.confidence /\ P!Rank[later.status] <= P!Rank[now.status]
  <2>1. CASE ~P!Usable(t)
    <3>1. now.status = "UNAVAILABLE" /\ now.confidence = 0 /\ later.status = "UNAVAILABLE" /\ later.confidence = 0
      BY <1>2, <1>3, <1>5, <2>1, TrajectoryIs
    <3> QED
      BY <1>4, <3>1
  <2>2. CASE P!Usable(t)
    <3>1. PICK c \in Nat, d \in Nat : c = Sureness(t) /\ d = Sureness(u) /\ d <= c
      BY <1>1, <2>2, SurenessFalls
    <3>2. /\ now.confidence = c /\ later.confidence = d
          /\ now.status = P!StatusOf(t, Truncated(t), c) /\ later.status = P!StatusOf(u, Truncated(u), d)
      BY <1>2, <1>3, <1>5, <2>2, <3>1, TrajectoryIs
    <3>3. FreshAge \in Nat /\ StaleAge \in Nat /\ FreshAge < StaleAge /\ t.age \in Nat
      BY TrajectoryAssumption, OlderType
    <3>4. PICK p \in Nat : p = P!Percent
      BY PercentValue
    <3>5. later.status = "VALID" => now.status = "VALID"
      <4> SUFFICES ASSUME later.status = "VALID" PROVE now.status = "VALID"
        OBVIOUS
      <4>1. ~P!IsStale(u) /\ u.quality # "DEGRADED" /\ ~(u.age > FreshAge) /\ ~Truncated(u) /\ ~(d < 50 * p)
        BY <3>2, <3>4, StatusIs
      <4>2. ~P!IsStale(t) /\ ~(t.age > FreshAge) /\ t.age + 1 <= StaleAge
        BY <1>1, <3>3, <4>1 DEF P!IsStale
      <4>3. ~Truncated(t)
        BY <1>1, <4>1, <4>2, TruncatedAges
      <4>4. ~(c < 50 * p)
        BY <3>1, <4>1
      <4> QED
        BY <1>1, <3>2, <3>4, <4>1, <4>2, <4>3, <4>4, StatusIs
    <3>6. P!IsStale(t) => P!IsStale(u)
      BY <1>1, <3>3 DEF P!IsStale
    <3>7. now.status = "STALE" => later.status = "STALE"
      BY <3>2, <3>6, StatusIs, ZenonT(60)
    <3>8. now.status \in {"STALE", "DEGRADED", "VALID"} /\ later.status \in {"STALE", "DEGRADED", "VALID"}
      BY <3>2, StatusIs
    <3>9. P!Rank[later.status] <= P!Rank[now.status]
      BY <1>4, <3>5, <3>7, <3>8
    <3> QED
      BY <3>1, <3>2, <3>9
  <2> QED
    BY <2>1, <2>2
<1> QED
  BY <1>1, <1>2, <1>3, <1>6 DEF P!AgesWell, Older

\* A stale confidence is five hundredths at most.
LEMMA StaleIsUnsure ==
  ASSUME NEW t \in TelemetryType, P!Usable(t), P!IsStale(t)
  PROVE  Sureness(t) < LeastReported * P!Percent
<1>1. PICK k \in Nat, m \in Nat : k = Lasting(t) /\ m = Most /\ k <= m /\ m > 0
  BY LastingType, PercentValue
<1>2. P!AgeFactor(t.age) = 3
  BY OlderType, AgeFactorFalls DEF P!IsStale
<1>3. PICK s \in Nat : s = P!SourceFactor[P!ResolveAcceleration(t).source] /\ s <= 25
  <2>1. P!ResolveAcceleration(t).source \in Sources
    BY AccelerationType
  <2> QED
    BY <2>1 DEF Sources, P!SourceFactor
<1>4. PICK r \in {3, 4} : r = IF Truncated(t) THEN 3 ELSE 4
  OBVIOUS
<1>5. Sureness(t) = (3 * s * r) * k
  BY <1>1, <1>2, <1>3, <1>4, SurenessIs, Zenon DEF Ageing
<1>6. PICK x \in Nat : x = 3 * s * r /\ x <= 300
  BY <1>3
<1>7. x * k <= 300 * k
  BY <1>6
<1>8. PICK y \in Nat : y = x * k
  OBVIOUS
<1>9. LeastReported * (60 * m) > 300 * m
  <2>1. PICK l \in Nat : l = LeastReported /\ l >= 6
    BY TrajectoryAssumption
  <2>2. l * m >= 6 * m
    BY <2>1
  <2>3. PICK z \in Nat : z = l * m
    OBVIOUS
  <2>4. l * (60 * m) = 60 * z
    BY <2>3
  <2> QED
    BY <1>1, <2>1, <2>2, <2>3, <2>4
<1>10. P!Percent = 60 * m
  BY <1>1, PercentValue
<1>11. PICK z \in Int : z = LeastReported * (60 * m)
  BY TrajectoryAssumption
<1>12. y < z
  BY <1>1, <1>7, <1>8, <1>9, <1>11
<1> QED
  BY <1>5, <1>6, <1>8, <1>10, <1>11, <1>12

\* A valid prediction is fresh, matched and complete; a stale one stands still and
\* is not sure enough to be reported.
THEOREM StatusesKeepTheirWord ==
  ASSUME NEW t \in TelemetryType
  PROVE  P!KeepsItsWord(t, LeastReported)
<1>1. PICK now : now = P!PredictTrajectory(t)
  OBVIOUS
<1>2. CASE ~P!Usable(t)
  <2>1. now.status = "UNAVAILABLE"
    BY <1>1, <1>2, TrajectoryIs
  <2>2. now.status # "VALID" /\ now.status # "STALE"
    BY <2>1
  <2> QED
    BY <1>1, <1>2, <2>1, <2>2, Zenon DEF P!KeepsItsWord
<1>3. CASE P!Usable(t)
  <2>1. PICK a \in Int : a = P!ResolveAcceleration(t).a
    BY AccelerationType
  <2>2. PICK points : points = P!Points(t, a)
    OBVIOUS
  <2>3. PICK c \in Nat : c = Sureness(t)
    BY <1>3, SurenessFalls
  <2>4. /\ now.status = P!StatusOf(t, Truncated(t), c) /\ now.confidence = c
        /\ now.level = P!ConfidenceLevel(c) /\ now.points = points
    BY <1>1, <1>3, <2>1, <2>2, <2>3, TrajectoryIs
  <2>5. PICK path : path = P!PathOf(RoadOf(t)) /\ P!Last(path).cum \in Nat
    BY RoadOfType
  <2>6. PICK H \in Nat \ {0} : H = Len(Horizons) /\ DOMAIN Horizons = 1..H
    BY HorizonsAssumption
  <2>7. now.status \in {"STALE", "DEGRADED", "VALID"}
    BY <2>4, StatusIs
  <2>8. ASSUME now.status = "VALID"
        PROVE  /\ t.age <= FreshAge /\ t.quality = "GOOD" /\ now.level # "LOW"
               /\ {p.t : p \in P!ToSet(now.points)} = P!ToSet(Horizons)
    <3>1. ~P!IsStale(t) /\ t.quality # "DEGRADED" /\ ~(t.age > FreshAge) /\ ~Truncated(t) /\ ~(c < 50 * P!Percent)
      BY <2>4, <2>8, StatusIs, Zenon
    <3>2. t.age <= FreshAge /\ t.quality = "GOOD"
      BY <1>3, <3>1, TrajectoryAssumption, OlderType DEF P!Usable
    <3>3. now.level # "LOW"
      <4>1. PICK p \in Nat : p = P!Percent
        BY PercentValue
      <4>2. c >= 40 * p
        BY <3>1, <4>1
      <4> QED
        BY <2>4, <4>1, <4>2 DEF P!ConfidenceLevel
    <3>4. points = P!PointsAlong(path, Moves(t, a))
      BY <2>2, <2>5, <3>1, PointsAre
    <3>5. PICK n \in 0..H : /\ n = Len(points) /\ DOMAIN points = 1..n
                            /\ \A i \in 1..n : points[i].t = Horizons[i]
      BY <2>6, <3>4, PointsFit
    <3>6. n = H
      <4>1. ~(n < H)
        BY <2>1, <2>2, <2>6, <3>1, <3>5 DEF Truncated
      <4> QED
        BY <4>1
    <3>7. P!ToSet(points) = {points[i] : i \in 1..H} /\ P!ToSet(Horizons) = {Horizons[i] : i \in 1..H}
      BY <2>6, <3>5, <3>6, Zenon DEF P!ToSet
    <3>8. {p.t : p \in {points[i] : i \in 1..H}} = {Horizons[i] : i \in 1..H}
      BY <3>5, <3>6
    <3> QED
      BY <2>4, <3>2, <3>3, <3>7, <3>8, Zenon
  <2>9. ASSUME now.status = "STALE"
        PROVE  /\ P!Cardinality({p.at : p \in P!ToSet(now.points)}) = 1
               /\ now.confidence < LeastReported * P!Percent
    <3>1. P!IsStale(t)
      BY <2>4, <2>9, StatusIs, Zenon
    <3>2. points = P!PointsAlong(path, Frozen)
      BY <2>2, <2>5, <3>1, PointsAre
    <3>3. \A i \in 1..H : Frozen[i].distance = 0
      BY <2>6 DEF Frozen
    <3>4. P!Fitting(path, Frozen) = 1..H /\ Cardinality(1..H) = H
      BY <2>5, <2>6, <3>3, FrozenFits, IntervalCount
    <3>5. PICK at : at = P!PointAtDistance(P!Ats(path), P!Cums(path), 0)
      OBVIOUS
    <3>6. DOMAIN points = 1..H /\ \A i \in 1..H : points[i].at = at
      BY <3>2, <3>3, <3>4, <3>5, PointsFit
    <3>7. {p.at : p \in P!ToSet(points)} = {at}
      <4>1. P!ToSet(points) = {points[i] : i \in 1..H}
        BY <3>6, Zenon DEF P!ToSet
      <4>2. 1 \in 1..H
        OBVIOUS
      <4> QED
        BY <3>6, <4>1, <4>2
    <3>8. Cardinality({at}) = 1
      BY FS_Singleton
    <3>9. c < LeastReported * P!Percent
      BY <1>3, <2>3, <3>1, StaleIsUnsure
    <3> QED
      BY <2>4, <3>7, <3>8, <3>9, SameCardinality
  <2>10. now.status # "UNAVAILABLE"
    BY <2>7
  <2> QED
    BY <1>1, <1>3, <2>8, <2>9, <2>10, Zenon DEF P!KeepsItsWord
<1> QED
  BY <1>2, <1>3

-----------------------------------------------------------------------------
\* predictor.predict_trajectory: the walk along the legs of a road, where its segments
\* end, and that the path built from them leads where the walk does.

\* A leg of a road: along an axis.
Leg == [to : {[x |-> 1, y |-> 0], [x |-> 0, y |-> 1]}, len : Nat, opens : BOOLEAN]
Strolls == Seq(Position) \ {<<>>}

\* A position so many steps ahead.
LEMMA AheadType ==
  ASSUME NEW p \in Position, NEW to \in Position, NEW n \in Int
  PROVE  P!Ahead(p, to, n) \in Position
<1>1. PICK x \in Int, y \in Int, u \in Int, v \in Int : p.x = x /\ p.y = y /\ to.x = u /\ to.y = v
  BY DEF Position
<1>2. P!Ahead(p, to, n) = [x |-> x + u * n, y |-> y + v * n]
  BY <1>1 DEF P!Ahead
<1>3. x + u * n \in Int /\ y + v * n \in Int
  OBVIOUS
<1> QED
  BY <1>2, <1>3 DEF Position

\* now is the walk, and then a position for each half metre of the leg.
Strides(walk, leg, now) ==
  /\ now \in Strolls /\ Len(now) = Len(walk) + leg.len
  /\ \A k \in 1..Len(walk) : now[k] = walk[k]
  /\ \A m \in 1..leg.len : now[Len(walk) + m] = P!Ahead(walk[Len(walk)], leg.to, m)

\* So does a walk go on.
LEMMA OnwardIs ==
  ASSUME NEW walk \in Strolls, NEW leg \in Leg
  PROVE  Strides(walk, leg, P!Onward(walk, leg))
<1>0. PICK n \in Nat, l \in Nat : n = Len(walk) /\ l = leg.len
  BY DEF Strolls, Leg
<1>1. n > 0 /\ walk \in Seq(Position) /\ walk[n] \in Position
  BY <1>0 DEF Strolls
<1>2. leg.to \in Position
  BY DEF Leg, Position
<1>3. PICK steps : steps = [m \in 1..l |-> P!Ahead(walk[n], leg.to, m)]
  BY Zenon
<1>4. \A m \in 1..l : P!Ahead(walk[n], leg.to, m) \in Position
  <2> TAKE m \in 1..l
  <2>1. m \in Int
    OBVIOUS
  <2> QED
    BY <1>1, <1>2, <2>1, AheadType, Zenon
<1>5. steps \in [1..l -> Position]
  BY <1>3, <1>4
<1>6. steps \in Seq(Position) /\ Len(steps) = l
  BY <1>5
<1>7. P!Last(walk) = walk[n]
  BY <1>0 DEF P!Last
<1>8. P!Onward(walk, leg) = walk \o steps
  BY <1>0, <1>3, <1>7, Zenon DEF P!Onward
<1>9. /\ walk \o steps \in Seq(Position) /\ Len(walk \o steps) = n + l
      /\ \A k \in 1..n : (walk \o steps)[k] = walk[k]
      /\ \A m \in 1..l : (walk \o steps)[n + m] = steps[m]
  BY <1>0, <1>1, <1>6
<1>10. walk \o steps # <<>>
  BY <1>1, <1>9
<1>11. PICK now \in Strolls : now = walk \o steps
  BY <1>9, <1>10, Zenon DEF Strolls
<1>12. Strides(walk, leg, now)
  BY <1>0, <1>3, <1>9, <1>11 DEF Strides
<1> QED
  BY <1>8, <1>11, <1>12

\* Walks is the recursion it is written as.
LEMMA WalksAre ==
  ASSUME NEW legs \in Seq(Leg), NEW N \in Nat, N = Len(legs)
  PROVE  /\ P!Walks(legs) \in [0..N -> Strolls]
         /\ P!Walks(legs)[0] = <<[x |-> 0, y |-> 0]>>
         /\ \A i \in 1..N : P!Walks(legs)[i] = P!Onward(P!Walks(legs)[i - 1], legs[i])
<1>1. PICK start \in Strolls : start = <<[x |-> 0, y |-> 0]>>
  <2>1. [x |-> 0, y |-> 0] \in Position
    BY DEF Position
  <2>2. PICK p \in Position : p = [x |-> 0, y |-> 0]
    BY <2>1
  <2>3. <<p>> \in Seq(Position) /\ <<p>> # <<>>
    OBVIOUS
  <2> QED
    BY <2>2, <2>3, Zenon DEF Strolls
<1>2. \A i \in 1..N : legs[i] \in Leg
  OBVIOUS
<1>3. PICK V : V = Strolls
  OBVIOUS
<1>4. ASSUME NEW i \in 1..N, NEW walk \in V PROVE P!Onward(walk, legs[i]) \in V
  <2>1. PICK leg \in Leg : leg = legs[i]
    BY <1>2
  <2>2. Strides(walk, leg, P!Onward(walk, leg))
    BY <1>3, <2>1, OnwardIs
  <2> QED
    BY <1>3, <2>1, <2>2 DEF Strides
<1>5. PICK next \in [1..N -> [V -> V]] :
        \A i \in 1..N, walk \in V : next[i][walk] = P!Onward(walk, legs[i])
  <2>1. [i \in 1..N |-> [walk \in V |-> P!Onward(walk, legs[i])]] \in [1..N -> [V -> V]]
    BY <1>4
  <2> QED
    BY <2>1, Zenon
<1>6. PICK h \in [0..N -> V] : Run(h, N, start, next)
  BY <1>1, <1>3, <1>5, RecursionExists, Zenon
<1>7. ASSUME NEW i \in 0..N
      PROVE  h[i] = IF i = 0 THEN start ELSE P!Onward(h[i - 1], legs[i])
  <2>1. CASE i = 0
    BY <1>6, <2>1 DEF Run
  <2>2. CASE i # 0
    <3>1. i \in 1..N /\ h[i - 1] \in V
      BY <2>2
    <3>2. h[i] = next[i][h[i - 1]]
      BY <1>6, <2>2 DEF Run
    <3> QED
      BY <1>5, <2>2, <3>1, <3>2
  <2> QED
    BY <2>1, <2>2
<1>8. h = [i \in 0..N |-> IF i = 0 THEN start ELSE P!Onward(h[i - 1], legs[i])]
  BY <1>7
<1>9. h = [i \in 0..Len(legs) |-> IF i = 0 THEN <<[x |-> 0, y |-> 0]>> ELSE P!Onward(h[i - 1], legs[i])]
  BY <1>1, <1>8, Zenon
<1>10. P!Walks(legs) = [i \in 0..Len(legs) |->
          IF i = 0 THEN <<[x |-> 0, y |-> 0]>> ELSE P!Onward(P!Walks(legs)[i - 1], legs[i])]
  BY <1>9, Zenon DEF P!Walks
<1>11. PICK f : f = P!Walks(legs)
  OBVIOUS
<1>12. f[0] = start /\ DOMAIN f = 0..N /\ f = [i \in DOMAIN f |-> f[i]]
  BY <1>1, <1>10, <1>11
<1>13. \A i \in 1..N : f[i] = P!Onward(f[i - 1], legs[i])
  <2>1. f = [i \in 0..N |-> IF i = 0 THEN start ELSE P!Onward(f[i - 1], legs[i])]
    BY <1>1, <1>10, <1>11, Zenon
  <2>2. \A i \in 1..N : i \in 0..N /\ i # 0
    OBVIOUS
  <2> QED
    BY <2>1, <2>2
<1> DEFINE T == {i \in Nat : i <= N => f[i] \in V}
<1>14. 0 \in T
  BY <1>1, <1>3, <1>12, Zenon
<1>15. ASSUME NEW i \in Nat, i \in T PROVE i + 1 \in T
  <2> SUFFICES ASSUME i + 1 <= N PROVE f[i + 1] \in V
    OBVIOUS
  <2>1. PICK k \in 1..N : k = i + 1 /\ k - 1 = i
    OBVIOUS
  <2>2. f[i] \in V
    BY <1>15
  <2>3. f[k] = P!Onward(f[i], legs[k])
    BY <1>13, <2>1
  <2> QED
    BY <1>4, <2>1, <2>2, <2>3
<1> HIDE DEF T
<1>16. Nat \subseteq T
  BY <1>14, <1>15, NumberInduction, Zenon
<1>17. \A i \in 0..N : f[i] \in V
  BY <1>16 DEF T
<1>18. f \in [0..N -> V]
  BY <1>12, <1>17
<1> QED
  BY <1>1, <1>3, <1>11, <1>12, <1>13, <1>18

\* The walk now goes on from the walk before.
Extends(before, now) ==
  /\ Len(before) \in Nat /\ Len(now) \in Nat /\ Len(before) <= Len(now)
  /\ \A k \in 1..Len(before) : now[k] = before[k]

\* Each of the walks goes on from those before.
LEMMA WalksExtend ==
  ASSUME NEW legs \in Seq(Leg), NEW N \in Nat, N = Len(legs), NEW i \in 0..N, NEW j \in 0..N, i <= j
  PROVE  Extends(P!Walks(legs)[i], P!Walks(legs)[j])
<1>1. PICK w \in [0..N -> Strolls] :
        /\ w = P!Walks(legs)
        /\ \A q \in 1..N : w[q] = P!Onward(w[q - 1], legs[q])
  BY WalksAre, Zenon
<1>2. PICK n \in Nat : n = Len(w[i])
  BY <1>1 DEF Strolls
<1> DEFINE T == {d \in Nat : i + d <= N =>
                   Len(w[i + d]) \in Nat /\ n <= Len(w[i + d]) /\ \A k \in 1..n : w[i + d][k] = w[i][k]}
<1>3. 0 \in T
  BY <1>2
<1>4. ASSUME NEW d \in Nat, d \in T PROVE d + 1 \in T
  <2> SUFFICES ASSUME i + (d + 1) <= N
               PROVE  /\ Len(w[i + (d + 1)]) \in Nat /\ n <= Len(w[i + (d + 1)])
                      /\ \A k \in 1..n : w[i + (d + 1)][k] = w[i][k]
    OBVIOUS
  <2>1. PICK q \in 1..N : q = i + (d + 1) /\ q - 1 = i + d /\ q - 1 \in 0..N
    OBVIOUS
  <2>2. PICK walk \in Strolls : walk = w[q - 1]
    BY <1>1, <2>1, Zenon
  <2>3. PICK leg \in Leg : leg = legs[q]
    OBVIOUS
  <2>4. PICK m \in Nat, l \in Nat : m = Len(walk) /\ l = leg.len
    BY DEF Strolls, Leg
  <2>5. i + d <= N
    OBVIOUS
  <2>6. n <= Len(w[i + d]) /\ \A k \in 1..n : w[i + d][k] = w[i][k]
    BY <1>4, <2>5
  <2>7. n <= m /\ \A k \in 1..n : walk[k] = w[i][k]
    BY <2>1, <2>2, <2>4, <2>6
  <2>9. Strides(walk, leg, w[q])
    BY <1>1, <2>2, <2>3, OnwardIs
  <2>8. Len(w[q]) = m + l /\ \A k \in 1..m : w[q][k] = walk[k]
    BY <2>4, <2>9 DEF Strides
  <2>10. \A k \in 1..n : k \in 1..m
    BY <2>7
  <2> QED
    BY <2>1, <2>4, <2>7, <2>8, <2>10
<1> HIDE DEF T
<1>5. Nat \subseteq T
  BY <1>3, <1>4, NumberInduction, Zenon
<1>6. PICK d \in Nat : d = j - i /\ i + d = j
  OBVIOUS
<1>7. d \in T
  BY <1>5
<1>8. Len(w[i + d]) \in Nat /\ n <= Len(w[i + d]) /\ \A k \in 1..n : w[i + d][k] = w[i][k]
  BY <1>6, <1>7 DEF T
<1> QED
  BY <1>1, <1>2, <1>6, <1>8 DEF Extends

\* C is how far the legs reach, and g the position so far along them.
Reached(legs, N, C, g) ==
  /\ C \in [0..N -> Nat] /\ C[0] = 0
  /\ \A i \in 1..N : C[i] = C[i - 1] + legs[i].len
  /\ \A i, j \in 0..N : i <= j => C[i] <= C[j]
  /\ g \in [0..C[N] -> Position]
  /\ \A i \in 1..N : \A m \in 0..legs[i].len :
       C[i - 1] + m \in 0..C[N] /\ g[C[i - 1] + m] = P!Ahead(g[C[i - 1]], legs[i].to, m)

\* A walk of half metres has such a C and g.
LEMMA WalkReaches ==
  ASSUME NEW legs \in Seq(Leg), NEW N \in Nat, N = Len(legs)
  PROVE  \E C, g :
           /\ Reached(legs, N, C, g)
           /\ \A i \in 0..N : Len(P!Prefix(legs, i)) = C[i] + 1 /\ P!Last(P!Prefix(legs, i)) = g[C[i]]
           /\ \A d \in 0..C[N] : P!Walk(legs)[d + 1] = g[d]
<1>1. PICK w \in [0..N -> Strolls] :
        /\ w = P!Walks(legs) /\ w[0] = <<[x |-> 0, y |-> 0]>>
        /\ \A q \in 1..N : w[q] = P!Onward(w[q - 1], legs[q])
  BY WalksAre, Zenon
<1>0. ASSUME NEW i \in 0..N, NEW j \in 0..N, i <= j
      PROVE  Len(w[i]) <= Len(w[j]) /\ \A k \in 1..Len(w[i]) : w[j][k] = w[i][k]
  <2>1. Extends(w[i], w[j])
    BY <1>0, <1>1, WalksExtend
  <2> QED
    BY <2>1 DEF Extends
<1>2. \A i \in 0..N : Len(w[i]) \in Nat /\ Len(w[i]) > 0 /\ w[i] \in Seq(Position)
  <2> TAKE i \in 0..N
  <2>1. w[i] \in Strolls
    OBVIOUS
  <2> QED
    BY <2>1 DEF Strolls
<1>3. PICK C \in [0..N -> Nat] : \A i \in 0..N : C[i] = Len(w[i]) - 1
  <2>1. PICK c : c = [i \in 0..N |-> Len(w[i]) - 1]
    OBVIOUS
  <2>2. \A i \in 0..N : Len(w[i]) - 1 \in Nat
    BY <1>2
  <2>3. c \in [0..N -> Nat]
    BY <2>1, <2>2
  <2> QED
    BY <2>1, <2>3
<1>4. \A i \in 0..N : C[i] \in Nat /\ Len(w[i]) = C[i] + 1 /\ w[i] \in Seq(Position)
  BY <1>2, <1>3
<1>5. PICK M \in Nat : M = C[N] /\ Len(w[N]) = M + 1 /\ w[N] \in Seq(Position)
  BY <1>4
<1>6. PICK g \in [0..M -> Position] : \A d \in 0..M : g[d] = w[N][d + 1]
  <2>1. PICK f : f = [d \in 0..M |-> w[N][d + 1]]
    OBVIOUS
  <2>2. \A d \in 0..M : w[N][d + 1] \in Position
    BY <1>5
  <2>3. f \in [0..M -> Position]
    BY <2>1, <2>2
  <2> QED
    BY <2>1, <2>3, Zenon
<1>7. C[0] = 0
  <2>1. PICK p : p = [x |-> 0, y |-> 0]
    BY Zenon
  <2>2. w[0] = <<p>> /\ 0 \in 0..N
    BY <1>1, <2>1
  <2>3. Len(w[0]) = 1 /\ C[0] = Len(w[0]) - 1
    BY <1>3, <2>2, Zenon
  <2> QED
    BY <2>3
<1>8. \A i, j \in 0..N : i <= j => C[i] <= C[j]
  <2> TAKE i, j \in 0..N
  <2> HAVE i <= j
  <2>1. Len(w[i]) <= Len(w[j])
    BY <1>0
  <2>2. PICK a \in Nat, b \in Nat : a = C[i] /\ b = C[j] /\ Len(w[i]) = a + 1 /\ Len(w[j]) = b + 1
    BY <1>4, Zenon
  <2> QED
    BY <2>1, <2>2
<1>9. ASSUME NEW i \in 0..N, NEW k \in 1..C[i] + 1
      PROVE  k - 1 \in 0..M /\ w[i][k] = g[k - 1]
  <2>1. PICK c \in Nat : c = C[i] /\ Len(w[i]) = c + 1 /\ c <= M
    BY <1>4, <1>5, <1>8
  <2>2. k \in 1..Len(w[i]) /\ k - 1 \in 0..M /\ (k - 1) + 1 = k
    BY <1>9, <2>1
  <2>3. w[N][k] = w[i][k]
    <3>1. N \in 0..N /\ i <= N
      OBVIOUS
    <3>2. \A q \in 1..Len(w[i]) : w[N][q] = w[i][q]
      BY <1>0, <3>1, Zenon
    <3> QED
      BY <2>2, <3>2
  <2>4. g[k - 1] = w[N][k]
    BY <1>6, <2>2
  <2> QED
    BY <2>2, <2>3, <2>4
<1>10. ASSUME NEW i \in 1..N
       PROVE  /\ C[i] = C[i - 1] + legs[i].len
              /\ \A m \in 0..legs[i].len :
                   C[i - 1] + m \in 0..M /\ g[C[i - 1] + m] = P!Ahead(g[C[i - 1]], legs[i].to, m)
  <2>1. PICK h \in 0..N : h = i - 1
    OBVIOUS
  <2>0. i \in 0..N
    OBVIOUS
  <2>2. PICK leg \in Leg : leg = legs[i]
    OBVIOUS
  <2>3. PICK n \in Nat, l \in Nat, c \in Nat : n = Len(w[h]) /\ l = leg.len /\ c = C[h] /\ n = c + 1
    BY <1>4 DEF Leg
  <2>4. Strides(w[h], leg, w[i])
    <3>1. w[h] \in Strolls
      BY Zenon
    <3> QED
      BY <1>1, <2>1, <2>2, <3>1, OnwardIs
  <2>5. Len(w[i]) = n + l /\ \A m \in 1..l : w[i][n + m] = P!Ahead(w[h][n], leg.to, m)
    BY <2>3, <2>4, Zenon DEF Strides
  <2>6. C[i] = c + l
    <3>1. PICK e \in Nat : e = C[i] /\ Len(w[i]) = e + 1
      BY <1>4, <2>0, Zenon
    <3>2. Len(w[i]) = n + l
      BY <2>5
    <3> QED
      BY <2>3, <3>1, <3>2
  <2>7. w[h][n] = g[c] /\ c \in 0..M
    <3>1. n \in 1..C[h] + 1 /\ n - 1 = c
      BY <2>3
    <3> QED
      BY <1>9, <3>1
  <2>8. PICK p \in Position : p = g[c]
    BY <2>7
  <2>9. P!Ahead(p, leg.to, 0) = p
    <3>1. PICK x \in Int, y \in Int : p = [x |-> x, y |-> y]
      BY DEF Position
    <3>2. PICK u \in Int, v \in Int : leg.to.x = u /\ leg.to.y = v
      BY SMTT(30) DEF Leg
    <3> QED
      BY <3>1, <3>2 DEF P!Ahead
  <2>10. ASSUME NEW m \in 0..l
         PROVE  c + m \in 0..M /\ g[c + m] = P!Ahead(p, leg.to, m)
    <3>1. CASE m = 0
      BY <2>7, <2>8, <2>9, <3>1
    <3>2. CASE m # 0
      <4>1. m \in 1..l
        BY <3>2
      <4>2. n + m \in 1..C[i] + 1 /\ (n + m) - 1 = c + m
        <5>1. m \in Nat /\ m <= l /\ n = c + 1 /\ C[i] = c + l
          BY <2>3, <2>6
        <5> QED
          BY <5>1
      <4>3. c + m \in 0..M /\ w[i][n + m] = g[c + m]
        BY <1>9, <2>0, <4>2
      <4> QED
        BY <2>5, <2>7, <2>8, <4>1, <4>3
    <3> QED
      BY <3>1, <3>2
  <2> QED
    BY <2>1, <2>2, <2>3, <2>6, <2>8, <2>10
<1>11. \A i \in 0..N : Len(P!Prefix(legs, i)) = C[i] + 1 /\ P!Last(P!Prefix(legs, i)) = g[C[i]]
  <2> TAKE i \in 0..N
  <2>1. P!Prefix(legs, i) = w[i]
    BY <1>1 DEF P!Prefix
  <2>2. PICK c \in Nat : c = C[i] /\ Len(w[i]) = c + 1
    BY <1>4
  <2>3. c + 1 \in 1..C[i] + 1 /\ (c + 1) - 1 = c
    BY <2>2
  <2>4. w[i][c + 1] = g[c]
    BY <1>9, <2>3
  <2>5. P!Last(w[i]) = w[i][Len(w[i])]
    BY DEF P!Last
  <2> QED
    BY <2>1, <2>2, <2>4, <2>5
<1>12. \A d \in 0..C[N] : P!Walk(legs)[d + 1] = g[d]
  BY <1>1, <1>5, <1>6 DEF P!Walk, P!Prefix
<1>13. Reached(legs, N, C, g)
  BY <1>3, <1>5, <1>6, <1>7, <1>8, <1>10 DEF Reached
<1> DEFINE Fits(c, f) ==
      /\ Reached(legs, N, c, f)
      /\ \A i \in 0..N : Len(P!Prefix(legs, i)) = c[i] + 1 /\ P!Last(P!Prefix(legs, i)) = f[c[i]]
      /\ \A d \in 0..c[N] : P!Walk(legs)[d + 1] = f[d]
<1>14. Fits(C, g)
  BY <1>11, <1>12, <1>13
<1>15. \E c, f : Fits(c, f)
  <2> HIDE DEF Fits
  <2> QED
    BY <1>14
<1> QED
  BY <1>15, Zenon

\* From c to e a course h goes straight.
Straight(h, c, e) ==
  \E to \in Position : \A m \in 0..e - c : h[c + m] = P!Ahead(h[c], to, m)

\* The path goes along the course h, which is R long, and is as long from vertex to vertex.
Follows(path, h, R) ==
  /\ path \in Path /\ Rising(path) /\ R \in Nat /\ h \in [0..R -> Position]
  /\ \A j \in 1..Len(path) : path[j].cum <= R /\ path[j].at = h[path[j].cum]
  /\ \A j \in 1..Len(path) - 1 : Straight(h, path[j].cum, path[j + 1].cum)

\* It begins where the course does, and is that long.
Course(path, h, R, length) ==
  /\ Follows(path, h, R) /\ length \in Nat
  /\ path[1].cum = 0 /\ path[Len(path)].cum = length

\* A part of the way to a position straight ahead.
LEMMA BetweenAhead ==
  ASSUME NEW p \in Position, NEW to \in Position, NEW part \in Nat, NEW whole \in Nat \ {0}
  PROVE  P!Between(p, P!Ahead(p, to, whole), part, whole) = P!Ahead(p, to, part)
<1>1. PICK x \in Int, y \in Int, u \in Int, v \in Int : p.x = x /\ p.y = y /\ to.x = u /\ to.y = v
  BY DEF Position
<1>2. PICK q : q = P!Ahead(p, to, whole)
  OBVIOUS
<1>3. q.x = x + u * whole /\ q.y = y + v * whole
  BY <1>1, <1>2 DEF P!Ahead
<1>4. \A k \in Int : (k * whole) \div whole = k
  OBVIOUS
<1>5. ASSUME NEW z \in Int, NEW w \in Int
      PROVE  (((z + w * whole) - z) * part) \div whole = w * part
  <2>1. PICK k \in Int : k = w * part
    OBVIOUS
  <2>2. ((z + w * whole) - z) * part = k * whole
    <3>1. (z + w * whole) - z = w * whole
      OBVIOUS
    <3>2. (w * whole) * part = (w * part) * whole
      OBVIOUS
    <3> QED
      BY <2>1, <3>1, <3>2
  <2> QED
    BY <1>4, <2>1, <2>2
<1>6. P!Between(p, q, part, whole) = [x |-> x + u * part, y |-> y + v * part]
  <2>1. ((q.x - p.x) * part) \div whole = u * part /\ ((q.y - p.y) * part) \div whole = v * part
    BY <1>1, <1>3, <1>5
  <2>2. ~(whole <= 0)
    OBVIOUS
  <2> QED
    BY <1>1, <2>1, <2>2 DEF P!Between
<1> QED
  BY <1>1, <1>2, <1>6 DEF P!Ahead

\* point_at_distance gives the position so far along the course.
LEMMA PointFollows ==
  ASSUME NEW path, NEW h, NEW R, NEW length, Course(path, h, R, length),
         NEW d \in Nat, d <= length
  PROVE  P!PointAtDistance(P!Ats(path), P!Cums(path), d) = h[d]
<1>0. Follows(path, h, R) /\ path[1].cum = 0 /\ d <= path[Len(path)].cum
  BY DEF Course
<1>1. PICK n \in Nat \ {0} : n = Len(path) /\ path \in Path /\ Rising(path)
  BY <1>0 DEF Follows, Path
<1>2. PICK ats \in Seq(Position), cum \in Seq(Int) :
        /\ ats = P!Ats(path) /\ cum = P!Cums(path) /\ Len(ats) = n /\ Len(cum) = n
        /\ cum \in [1..n -> Int]
        /\ \A i \in 1..n : cum[i] = path[i].cum /\ ats[i] = path[i].at
        /\ \A i, j \in 1..n : i <= j => cum[i] <= cum[j]
  BY <1>1, AtsAndCums
<1>3. /\ \A j \in 1..n : ats[j] = h[cum[j]]
      /\ \A j \in 1..n - 1 : Straight(h, cum[j], cum[j + 1])
      /\ cum[1] = 0 /\ d <= cum[n]
  <2>1. \A j \in 1..n - 1 : j \in 1..n /\ j + 1 \in 1..n
    OBVIOUS
  <2>2. \A j \in 1..n : path[j].at = h[path[j].cum]
    BY <1>0, <1>1 DEF Follows
  <2>3. \A j \in 1..n - 1 : Straight(h, path[j].cum, path[j + 1].cum)
    BY <1>0, <1>1 DEF Follows
  <2>4. \A j \in 1..n : ats[j] = h[cum[j]]
    BY <1>2, <2>2
  <2>5. \A j \in 1..n - 1 : cum[j] = path[j].cum /\ cum[j + 1] = path[j + 1].cum
    BY <1>2, <2>1
  <2>6. \A j \in 1..n - 1 : Straight(h, cum[j], cum[j + 1])
    BY <2>3, <2>5, Zenon
  <2>7. 1 \in 1..n /\ n \in 1..n /\ cum[1] = path[1].cum /\ cum[n] = path[n].cum
    BY <1>2
  <2> QED
    BY <1>0, <1>1, <2>4, <2>6, <2>7
<1>4. CASE n = 1 \/ d <= 0
  <2>1. d = 0
    BY <1>3, <1>4
  <2>2. P!PointAtDistance(ats, cum, d) = ats[1]
    BY <1>2, <1>4, Zenon DEF P!PointAtDistance
  <2> QED
    BY <1>2, <1>3, <2>1, <2>2
<1>5. CASE ~(n = 1 \/ d <= 0) /\ d >= P!Last(cum)
  <2>1. P!PointAtDistance(ats, cum, d) = P!Last(ats)
    BY <1>2, <1>5, Zenon DEF P!PointAtDistance
  <2>2. P!Last(ats) = ats[n] /\ P!Last(cum) = cum[n]
    BY <1>2 DEF P!Last
  <2>3. cum[n] = d
    BY <1>2, <1>3, <1>5, <2>2
  <2> QED
    BY <1>2, <1>3, <2>1, <2>2, <2>3
<1>6. CASE ~(n = 1 \/ d <= 0) /\ ~(d >= P!Last(cum))
  <2>1. P!Last(cum) = cum[n] /\ cum[n] \in Int
    BY <1>2 DEF P!Last
  <2>2. PICK b \in 0..n : /\ b = P!BisectRight(cum, d)
                          /\ \A i \in 1..n : i <= b <=> cum[i] <= d
    <3>1. d \in Int
      OBVIOUS
    <3> QED
      BY <1>2, <3>1, BisectSplits, Zenon
  <2>3. b \in 1..n - 1 /\ cum[b] <= d /\ ~(cum[b + 1] <= d)
    <3>1. b # 0
      BY <1>3, <2>2, SMTT(30)
    <3>2. b # n
      BY <1>6, <2>1, <2>2
    <3>3. b \in 1..n /\ b + 1 \in 1..n /\ ~(b + 1 <= b)
      BY <3>1, <3>2
    <3> QED
      BY <2>2, <3>1, <3>2, <3>3
  <2>4. P!Clamp(1, b, n - 1) = b
    BY <2>3 DEF P!Clamp
  <2>5. P!PointAtDistance(ats, cum, d)
          = P!Between(ats[b], ats[b + 1], d - cum[b], cum[b + 1] - cum[b])
    BY <1>2, <1>6, <2>2, <2>4, Zenon DEF P!PointAtDistance
  <2>6. PICK c \in Int, e \in Int : c = cum[b] /\ e = cum[b + 1] /\ c <= d /\ d < e
    BY <1>2, <2>3
  <2>7. PICK part \in Nat, whole \in Nat \ {0} : part = d - c /\ whole = e - c /\ part <= whole
    <3>1. PICK k \in Int, l \in Int : k = d - c /\ l = e - c
      OBVIOUS
    <3>2. 0 <= k /\ k < l
      BY <2>6, <3>1
    <3>3. k \in Nat /\ l \in Nat \ {0} /\ k <= l
      BY <3>2
    <3> QED
      BY <3>1, <3>3
  <2>8. PICK to \in Position : \A m \in 0..whole : h[c + m] = P!Ahead(h[c], to, m)
    BY <1>3, <2>3, <2>6, <2>7 DEF Straight
  <2>9. PICK p \in Position : p = h[c] /\ p = ats[b]
    BY <1>2, <1>3, <2>3, <2>6
  <2>10. ats[b + 1] = P!Ahead(p, to, whole)
    <3>1. whole \in 0..whole /\ c + whole = e
      BY <2>7
    <3>2. ats[b + 1] = h[e]
      BY <1>3, <2>3, <2>6
    <3> QED
      BY <2>8, <2>9, <3>1, <3>2
  <2>11. h[d] = P!Ahead(p, to, part)
    <3>1. part \in 0..whole /\ c + part = d
      BY <2>6, <2>7
    <3> QED
      BY <2>8, <2>9, <3>1
  <2> QED
    BY <1>2, <2>5, <2>6, <2>7, <2>9, <2>10, <2>11, BetweenAhead
<1> QED
  BY <1>2, <1>4, <1>5, <1>6

\* Two stretches in the same direction are one.
LEMMA AheadAgain ==
  ASSUME NEW p \in Position, NEW to \in Position, NEW a \in Int, NEW b \in Int
  PROVE  P!Ahead(P!Ahead(p, to, a), to, b) = P!Ahead(p, to, a + b)
<1>1. PICK x \in Int, y \in Int, u \in Int, v \in Int : p.x = x /\ p.y = y /\ to.x = u /\ to.y = v
  BY DEF Position
<1>2. u * (a + b) = u * a + u * b /\ v * (a + b) = v * a + v * b
  OBVIOUS
<1>3. P!Ahead(p, to, a) = [x |-> x + u * a, y |-> y + v * a]
  BY <1>1 DEF P!Ahead
<1>4. PICK i \in Int, j \in Int, k \in Int, l \in Int : i = u * a /\ j = u * b /\ k = v * a /\ l = v * b
  OBVIOUS
<1>5. P!Ahead(P!Ahead(p, to, a), to, b) = [x |-> (x + i) + j, y |-> (y + k) + l]
  BY <1>1, <1>3, <1>4 DEF P!Ahead
<1>6. P!Ahead(p, to, a + b) = [x |-> x + (i + j), y |-> y + (k + l)]
  BY <1>1, <1>2, <1>4 DEF P!Ahead
<1> QED
  BY <1>5, <1>6

\* A part of a straight stretch is straight.
LEMMA StraightPart ==
  ASSUME NEW h, NEW c \in Nat, NEW e \in Nat, NEW a \in Nat, NEW b \in Nat,
         h[c] \in Position, Straight(h, c, e), c <= a, a <= b, b <= e
  PROVE  Straight(h, a, b)
<1>1. PICK to \in Position : \A m \in 0..e - c : h[c + m] = P!Ahead(h[c], to, m)
  BY DEF Straight
<1>2. PICK k \in Nat : k = a - c /\ c + k = a /\ k \in 0..e - c
  OBVIOUS
<1>3. h[a] = P!Ahead(h[c], to, k)
  BY <1>1, <1>2
<1>4. ASSUME NEW m \in 0..b - a PROVE h[a + m] = P!Ahead(h[a], to, m)
  <2>1. k + m \in 0..e - c /\ c + (k + m) = a + m
    BY <1>2
  <2>2. h[a + m] = P!Ahead(h[c], to, k + m)
    BY <1>1, <2>1
  <2>3. PICK p \in Position : p = h[c]
    OBVIOUS
  <2>4. P!Ahead(P!Ahead(p, to, k), to, m) = P!Ahead(p, to, k + m)
    BY AheadAgain
  <2> QED
    BY <1>3, <2>2, <2>3, <2>4
<1> QED
  BY <1>4 DEF Straight

\* The course from f on, of one that is R long, and the course from L back.
Rest(h, R, f) == [d \in 0..R - f |-> h[f + d]]
Back(h, L) == [d \in 0..L |-> h[L - d]]

\* So it is for a course that begins at f.
LEMMA StraightLater ==
  ASSUME NEW R \in Nat, NEW h, NEW f \in Nat, NEW a \in Nat, NEW b \in Nat, f <= a, a <= b, b <= R,
         Straight(h, a, b)
  PROVE  Straight(Rest(h, R, f), a - f, b - f)
<1>0. PICK g : g = Rest(h, R, f) /\ g = [d \in 0..R - f |-> h[f + d]]
  BY Zenon DEF Rest
<1>1. PICK to \in Position : \A m \in 0..b - a : h[a + m] = P!Ahead(h[a], to, m)
  BY DEF Straight
<1>2. \A m \in 0..b - a : g[(a - f) + m] = h[a + m]
  <2> TAKE m \in 0..b - a
  <2>1. (a - f) + m \in 0..R - f /\ f + ((a - f) + m) = a + m
    OBVIOUS
  <2> QED
    BY <1>0, <2>1
<1>3. g[a - f] = h[a]
  <2>1. a - f \in 0..R - f /\ f + (a - f) = a
    OBVIOUS
  <2> QED
    BY <1>0, <2>1
<1>4. (b - f) - (a - f) = b - a
  OBVIOUS
<1>5. \A m \in 0..(b - f) - (a - f) : g[(a - f) + m] = P!Ahead(g[a - f], to, m)
  BY <1>1, <1>2, <1>3, <1>4
<1> QED
  BY <1>0, <1>5 DEF Straight

\* And for the course back from L.
LEMMA StraightBack ==
  ASSUME NEW L \in Nat, NEW h, NEW a \in Nat, NEW b \in Nat, a <= b, b <= L, h[a] \in Position,
         Straight(h, a, b)
  PROVE  Straight(Back(h, L), L - b, L - a)
<1>0. PICK g : g = Back(h, L) /\ g = [d \in 0..L |-> h[L - d]]
  BY Zenon DEF Back
<1>1. PICK to \in Position : \A m \in 0..b - a : h[a + m] = P!Ahead(h[a], to, m)
  BY DEF Straight
<1>2. PICK u \in Int, v \in Int : to = [x |-> u, y |-> v]
  BY DEF Position
<1>3. PICK from \in Position : from = [x |-> -u, y |-> -v]
  <2>1. -u \in Int /\ -v \in Int
    OBVIOUS
  <2>2. [x |-> -u, y |-> -v] \in Position
    BY <2>1 DEF Position
  <2> QED
    BY <2>2
<1>4. PICK k \in Nat : k = b - a /\ a + k = b
  OBVIOUS
<1>5. PICK x \in Int, y \in Int : h[a] = [x |-> x, y |-> y]
  BY DEF Position
<1>6. \A m \in 0..k : h[a + m] = [x |-> x + u * m, y |-> y + v * m]
  BY <1>1, <1>2, <1>4, <1>5 DEF P!Ahead
<1>7. ASSUME NEW m \in 0..k PROVE g[(L - b) + m] = P!Ahead(g[L - b], from, m)
  <2>1. (L - b) + m \in 0..L /\ L - ((L - b) + m) = b - m /\ L - b \in 0..L /\ L - (L - b) = b
    BY <1>4
  <2>2. g[(L - b) + m] = h[b - m] /\ g[L - b] = h[b]
    BY <1>0, <2>1
  <2>3. PICK n \in 0..k : n = k - m /\ a + n = b - m
    BY <1>4
  <2>4. h[b - m] = [x |-> x + u * n, y |-> y + v * n]
    BY <1>6, <2>3
  <2>5. h[b] = [x |-> x + u * k, y |-> y + v * k]
    BY <1>4, <1>6
  <2>6. u * n = u * k + (-u) * m /\ v * n = v * k + (-v) * m
    <3>1. k = n + m
      BY <2>3
    <3>2. u * (n + m) + (-u) * m = u * n /\ v * (n + m) + (-v) * m = v * n
      OBVIOUS
    <3> QED
      BY <3>1, <3>2
  <2>7. P!Ahead(h[b], from, m) = [x |-> (x + u * k) + (-u) * m, y |-> (y + v * k) + (-v) * m]
    BY <1>3, <2>5 DEF P!Ahead
  <2>8. PICK i \in Int, j \in Int, s \in Int, t \in Int, q \in Int, z \in Int :
          i = u * n /\ j = v * n /\ s = u * k /\ t = v * k /\ q = (-u) * m /\ z = (-v) * m
    OBVIOUS
  <2>9. [x |-> (x + s) + q, y |-> (y + t) + z] = [x |-> x + i, y |-> y + j]
    <3>1. i = s + q /\ j = t + z
      BY <2>6, <2>8
    <3>2. (x + s) + q = x + (s + q) /\ (y + t) + z = y + (t + z)
      OBVIOUS
    <3> QED
      BY <3>1, <3>2
  <2> QED
    BY <2>2, <2>4, <2>7, <2>8, <2>9
<1>8. (L - a) - (L - b) = k
  BY <1>4
<1> QED
  BY <1>0, <1>7, <1>8, Zenon DEF Straight

\* All vertices are on a segment.
AllOn(path, segment) == \A j \in 1..Len(path) : path[j].segment = segment

\* The slice is the point from, and the vertices that are not passed there.
Sliced(path, from, passed, slice) ==
  /\ \A i \in 1..Len(path) : i <= passed <=> path[i].cum <= from
  /\ Len(slice) = (Len(path) - passed) + 1
  /\ slice[1] = [at |-> P!PointAtDistance(P!Ats(path), P!Cums(path), from),
                 cum |-> 0, segment |-> path[1].segment]
  /\ \A k \in 2..Len(slice) :
       /\ passed + (k - 1) \in 1..Len(path)
       /\ slice[k] = [path[passed + (k - 1)] EXCEPT !.cum = @ - from]

\* _slice_from in its parts.
LEMMA SliceParts ==
  ASSUME NEW path \in Path, Rising(path), NEW n \in Nat, n = Len(path), NEW from \in Nat,
         path[1].cum <= from
  PROVE  \E passed \in 1..n, slice \in Path :
           slice = P!SliceFrom(path, from) /\ Sliced(path, from, passed, slice)
<1>0. n # 0
  BY DEF Path
<1>1. PICK cum \in [1..n -> Int] : /\ cum = P!Cums(path)
                                   /\ \A i \in 1..n : cum[i] = path[i].cum
                                   /\ \A i, j \in 1..n : i <= j => cum[i] <= cum[j]
  BY AtsAndCums
<1>2. PICK passed \in 0..n : /\ passed = P!BisectRight(cum, from)
                             /\ \A i \in 1..n : i <= passed <=> cum[i] <= from
  <2>1. from \in Int /\ \A i, j \in 1..n : i <= j => cum[i] <= cum[j]
    BY <1>1
  <2>2. /\ P!BisectRight(cum, from) \in 0..n
        /\ \A i \in 1..n : i <= P!BisectRight(cum, from) <=> cum[i] <= from
    BY <2>1, BisectSplits, Zenon
  <2> QED
    BY <2>2
<1>3. passed \in 1..n
  <2>1. 1 \in 1..n /\ cum[1] <= from
    BY <1>0, <1>1
  <2> QED
    BY <1>2, <2>1
<1>4. PICK first : first = [at |-> P!PointAtDistance(P!Ats(path), P!Cums(path), from),
                            cum |-> 0, segment |-> path[1].segment]
  BY Zenon
<1>5. PICK m \in Nat : m = n - passed
  <2>1. n - passed \in Nat
    BY <1>3
  <2> QED
    BY <2>1, Zenon
<1>6. PICK ahead : ahead = [i \in 1..m |-> [path[passed + i] EXCEPT !.cum = @ - from]]
  BY Zenon
<1>7. P!SliceFrom(path, from) = <<first>> \o ahead
  BY <1>1, <1>2, <1>4, <1>5, <1>6 DEF P!SliceFrom, P!Vertex
<1>8. PICK slice \in Path : slice = P!SliceFrom(path, from)
  BY SliceType
<1>9. Len(ahead) = m
  <2>1. PICK V : V = {ahead[i] : i \in 1..m}
    BY Zenon
  <2>2. ahead \in [1..m -> V]
    BY <1>6, <2>1, Zenon
  <2>3. ahead \in Seq(V)
    BY <2>2
  <2> QED
    BY <2>2, <2>3
<1>10. /\ Len(slice) = m + 1 /\ slice[1] = first
       /\ \A k \in 2..m + 1 : slice[k] = ahead[k - 1]
  <2>1. PICK V : V = {ahead[i] : i \in 1..m} \union {first}
    BY Zenon
  <2>2. ahead \in [1..m -> V]
    BY <1>6, <2>1, Zenon
  <2>3. ahead \in Seq(V) /\ <<first>> \in Seq(V) /\ Len(<<first>>) = 1 /\ <<first>>[1] = first
    BY <2>1, <2>2
  <2> QED
    BY <1>7, <1>8, <1>9, <2>3
<1>11. ASSUME NEW k \in 2..m + 1
       PROVE  /\ passed + (k - 1) \in 1..n
              /\ slice[k] = [path[passed + (k - 1)] EXCEPT !.cum = @ - from]
  <2>1. k - 1 \in 1..m
    OBVIOUS
  <2>2. passed + (k - 1) \in 1..n
    BY <1>5, <2>1
  <2> QED
    BY <1>6, <1>10, <2>1, <2>2, Zenon
<1>12. \A i \in 1..n : i <= passed <=> path[i].cum <= from
  BY <1>1, <1>2
<1>13. Sliced(path, from, passed, slice)
  BY <1>4, <1>5, <1>10, <1>11, <1>12, Zenon DEF Sliced
<1> QED
  BY <1>3, <1>8, <1>13

\* What a path along a course is made of.
LEMMA CourseParts ==
  ASSUME NEW path, NEW h, NEW R, NEW length, Course(path, h, R, length)
  PROVE  /\ path \in Path /\ Len(path) \in Nat \ {0} /\ Rising(path)
         /\ R \in Nat /\ length \in 0..R /\ h \in [0..R -> Position]
         /\ path[1].cum = 0 /\ path[Len(path)].cum = length
         /\ \A j \in 1..Len(path) : path[j].cum \in 0..length /\ path[j].at = h[path[j].cum]
         /\ \A j \in 1..Len(path) - 1 : Straight(h, path[j].cum, path[j + 1].cum)
<1>1. /\ path \in Path /\ Rising(path) /\ R \in Nat /\ h \in [0..R -> Position]
      /\ path[1].cum = 0 /\ path[Len(path)].cum = length /\ length \in Nat
  BY DEF Course, Follows
<1>2. PICK n \in Nat \ {0} : n = Len(path) /\ \A j \in 1..n : path[j] \in Vertex
  BY <1>1 DEF Path
<1>3. \A j \in 1..n : path[j].cum \in Nat
  BY <1>2 DEF Vertex
<1>4. \A j \in 1..n : path[j].cum <= R /\ path[j].at = h[path[j].cum]
  BY <1>2 DEF Course, Follows
<1>5. \A j \in 1..n - 1 : Straight(h, path[j].cum, path[j + 1].cum)
  BY <1>2 DEF Course, Follows
<1>6. \A j \in 1..n : path[j].cum <= path[n].cum
  BY <1>1, <1>2 DEF Rising
<1>7. length <= R
  BY <1>1, <1>2, <1>4
<1>8. \A j \in 1..n : path[j].cum \in 0..length
  <2> TAKE j \in 1..n
  <2>1. PICK c \in Nat : c = path[j].cum
    BY <1>3
  <2>2. c <= length
    BY <1>1, <1>2, <1>6, <2>1
  <2> QED
    BY <1>1, <2>1, <2>2
<1> QED
  BY <1>1, <1>2, <1>4, <1>5, <1>7, <1>8

\* _slice_from goes along the rest of the course.
LEMMA SliceFollows ==
  ASSUME NEW path, NEW h, NEW R, NEW length, Course(path, h, R, length), NEW from \in 0..length,
         NEW s, AllOn(path, s), NEW g, g = Rest(h, R, from)
  PROVE  /\ Course(P!SliceFrom(path, from), g, R - from, length - from)
         /\ AllOn(P!SliceFrom(path, from), s)
<1>1. PICK n \in Nat \ {0} :
        /\ path \in Path /\ n = Len(path) /\ Rising(path)
        /\ R \in Nat /\ length \in 0..R /\ h \in [0..R -> Position]
        /\ path[1].cum = 0 /\ path[n].cum = length
        /\ \A j \in 1..n : path[j].cum \in 0..length /\ path[j].at = h[path[j].cum]
        /\ \A j \in 1..n - 1 : Straight(h, path[j].cum, path[j + 1].cum)
  BY CourseParts, SMTT(30)
<1>2. R \in Nat /\ from \in Nat /\ from <= R /\ length - from \in Nat /\ R - from \in Nat
  BY <1>1
<1>g. g = [d \in 0..R - from |-> h[from + d]]
  BY DEF Rest
<1>3. PICK passed \in 1..n, slice \in Path : slice = P!SliceFrom(path, from) /\ Sliced(path, from, passed, slice)
  BY <1>1, <1>2, SliceParts
<1>4. PICK k \in Nat \ {0} : k = (n - passed) + 1 /\ k = Len(slice)
  <2>1. (n - passed) + 1 \in Nat \ {0}
    OBVIOUS
  <2> QED
    BY <1>1, <1>3, <2>1 DEF Sliced
<1>5. slice[1].at = h[from] /\ slice[1].cum = 0 /\ slice[1].segment = s
  <2>1. slice[1] = [at |-> P!PointAtDistance(P!Ats(path), P!Cums(path), from),
                    cum |-> 0, segment |-> path[1].segment]
    BY <1>3 DEF Sliced
  <2>2. P!PointAtDistance(P!Ats(path), P!Cums(path), from) = h[from]
    BY <1>2, PointFollows
  <2>3. path[1].segment = s
    BY <1>1 DEF AllOn
  <2> QED
    BY <2>1, <2>2, <2>3
<1>6. ASSUME NEW j \in 2..k
      PROVE  /\ passed + (j - 1) \in 1..n /\ path[passed + (j - 1)].cum > from
             /\ slice[j].cum = path[passed + (j - 1)].cum - from
             /\ slice[j].at = path[passed + (j - 1)].at
             /\ slice[j].segment = s
  <2>1. PICK q \in 1..n : q = passed + (j - 1) /\ slice[j] = [path[q] EXCEPT !.cum = @ - from]
    BY <1>1, <1>3, <1>4, SMTT(30) DEF Sliced
  <2>2. ~(q <= passed)
    BY <2>1
  <2>3. ~(path[q].cum <= from)
    BY <1>1, <1>3, <2>2, Zenon DEF Sliced
  <2>4. path[q] \in Vertex
    BY <1>1 DEF Path
  <2>5. PICK c \in Nat : c = path[q].cum
    BY <2>4 DEF Vertex
  <2>6. slice[j].cum = c - from /\ slice[j].at = path[q].at /\ slice[j].segment = path[q].segment
    BY <2>1, <2>4, <2>5 DEF Vertex
  <2>7. path[q].segment = s
    BY <1>1 DEF AllOn
  <2> QED
    BY <1>2, <2>1, <2>3, <2>5, <2>6, <2>7
<1>7. ASSUME NEW j \in 1..k
      PROVE  slice[j].cum \in 0..R - from /\ slice[j].at = g[slice[j].cum]
  <2>1. CASE j = 1
    <3>1. 0 \in 0..R - from /\ from + 0 = from
      BY <1>2
    <3>2. g[0] = h[from]
      BY <1>g, <3>1
    <3> QED
      BY <1>5, <2>1, <3>1, <3>2
  <2>2. CASE j # 1
    <3>1. PICK q \in 1..n : /\ q = passed + (j - 1) /\ path[q].cum > from
                            /\ slice[j].cum = path[q].cum - from /\ slice[j].at = path[q].at
      <4>1. j \in 2..k
        BY <2>2
      <4> QED
        BY <1>6, <4>1
    <3>2. PICK c \in 0..length : c = path[q].cum /\ path[q].at = h[c]
      BY <1>1, Zenon
    <3>3. c \in Nat /\ c <= R /\ c > from
      BY <1>1, <3>1, <3>2
    <3>4. PICK e \in Nat : e = c - from /\ from + e = c
      BY <1>2, <3>3
    <3>5. e <= R - from
      BY <1>2, <3>3, <3>4
    <3>6. e \in 0..R - from
      BY <1>2, <3>4, <3>5
    <3>7. g[e] = h[c]
      BY <1>g, <3>4, <3>6
    <3> QED
      BY <3>1, <3>2, <3>4, <3>6, <3>7
  <2> QED
    BY <2>1, <2>2
<1>8. \A i, j \in 1..k : i <= j => slice[i].cum <= slice[j].cum
  <2> TAKE i, j \in 1..k
  <2> HAVE i <= j
  <2>1. CASE i = 1
    BY <1>2, <1>5, <1>7, <2>1
  <2>2. CASE i # 1
    <3>1. i \in 2..k /\ j \in 2..k
      BY <2>2
    <3>2. PICK p \in 1..n, q \in 1..n : p = passed + (i - 1) /\ q = passed + (j - 1)
      BY <1>6, <3>1
    <3>3. PICK c \in Nat, e \in Nat : c = path[p].cum /\ e = path[q].cum /\ c <= e
      <4>1. p <= q
        BY <3>1, <3>2
      <4>2. path[p].cum <= path[q].cum
        BY <1>1, <4>1 DEF Rising
      <4>3. path[p].cum \in Nat /\ path[q].cum \in Nat
        BY <1>1
      <4> QED
        BY <4>2, <4>3
    <3> QED
      BY <1>2, <1>6, <3>1, <3>2, <3>3
  <2> QED
    BY <2>1, <2>2
<1>9. ASSUME NEW j \in 1..k - 1
      PROVE  Straight(g, slice[j].cum, slice[j + 1].cum)
  <2>1. PICK q \in 1..n : q = passed + j /\ slice[j + 1].cum = path[q].cum - from /\ path[q].cum > from
    <3>1. j + 1 \in 2..k /\ (j + 1) - 1 = j
      OBVIOUS
    <3> QED
      BY <1>6, <3>1
  <2>2. PICK p \in 1..n - 1 : p = q - 1 /\ p + 1 = q
    BY <2>1
  <2>3. PICK c \in Nat, e \in Nat : c = path[p].cum /\ e = path[q].cum /\ c <= e /\ e <= R /\ from < e
    <3>1. p \in 1..n /\ p <= q
      BY <2>2
    <3>2. path[p].cum <= path[q].cum
      BY <1>1, <3>1 DEF Rising
    <3>3. path[p].cum \in 0..length /\ path[q].cum \in 0..length
      BY <1>1, <3>1
    <3> QED
      BY <1>1, <2>1, <3>2, <3>3
  <2>4. Straight(h, c, e) /\ h[c] \in Position
    BY <1>1, <2>2, <2>3
  <2>5. CASE j = 1
    <3>1. c <= from
      <4>1. p <= passed /\ p \in 1..n
        BY <2>1, <2>2, <2>5
      <4> QED
        BY <1>1, <1>3, <2>3, <4>1 DEF Sliced
    <3>2. Straight(h, from, e)
      BY <1>2, <2>3, <2>4, <3>1, StraightPart
    <3>5. from <= from /\ from <= e
      BY <1>2, <2>3
    <3>3. Straight(g, from - from, e - from)
      BY <1>1, <1>2, <2>3, <3>2, <3>5, StraightLater, Zenon
    <3>4. from - from = 0
      BY <1>2
    <3> QED
      BY <1>5, <2>1, <2>3, <2>5, <3>3, <3>4
  <2>6. CASE j # 1
    <3>1. slice[j].cum = c - from /\ c > from
      <4>1. j \in 2..k /\ passed + (j - 1) = p
        BY <2>1, <2>2, <2>6
      <4> QED
        BY <1>6, <2>3, <4>1
    <3>3. from <= c
      BY <1>2, <3>1
    <3>2. Straight(g, c - from, e - from)
      BY <1>1, <1>2, <2>3, <2>4, <3>3, StraightLater, Zenon
    <3> QED
      BY <2>1, <2>3, <3>1, <3>2
  <2> QED
    BY <2>5, <2>6
<1>10. slice[k].cum = length - from
  <2>1. CASE k = 1
    <3>1. n <= passed
      BY <1>4, <2>1
    <3>2. path[n].cum <= from
      BY <1>1, <1>3, <3>1 DEF Sliced
    <3> QED
      BY <1>1, <1>2, <1>5, <2>1, <3>2
  <2>2. CASE k # 1
    <3>1. k \in 2..k /\ passed + (k - 1) = n
      BY <1>4, <2>2
    <3> QED
      BY <1>1, <1>6, <3>1, Zenon
  <2> QED
    BY <2>1, <2>2
<1>11. g \in [0..R - from -> Position]
  <2>1. \A d \in 0..R - from : from + d \in 0..R
    BY <1>1, <1>2
  <2> QED
    BY <1>1, <1>g, <2>1
<1>12. Follows(slice, g, R - from)
  <2>1. Rising(slice)
    BY <1>4, <1>8 DEF Rising
  <2>2. \A j \in 1..k : slice[j].cum <= R - from
    BY <1>2, <1>7
  <2> QED
    BY <1>2, <1>4, <1>7, <1>9, <1>11, <2>1, <2>2 DEF Follows
<1>13. Course(slice, g, R - from, length - from)
  BY <1>2, <1>4, <1>5, <1>10, <1>12 DEF Course
<1>14. AllOn(slice, s)
  <2>1. \A j \in 1..k : j = 1 \/ j \in 2..k
    OBVIOUS
  <2> QED
    BY <1>4, <1>5, <1>6, <2>1 DEF AllOn
<1> QED
  BY <1>3, <1>13, <1>14

\* The way back is the point L, and the vertices behind it, the last one first.
Backed(path, L, behind, back) ==
  /\ \A i \in 1..Len(path) : i <= behind <=> path[i].cum < L
  /\ Len(back) = behind + 1
  /\ back[1] = [at |-> P!PointAtDistance(P!Ats(path), P!Cums(path), L), cum |-> 0, segment |-> 0]
  /\ \A j \in 2..behind + 1 :
       /\ (behind + 2) - j \in 1..behind
       /\ back[j] = [path[(behind + 2) - j] EXCEPT !.cum = L - @]

\* _build_backward_path in its parts.
LEMMA BackwardParts ==
  ASSUME NEW road \in RoadType, NEW path \in Path, path = P!Vertices(P!CurrentCoords(road), 0, 0),
         Rising(path), NEW n \in Nat, n = Len(path), NEW L \in Nat, L = road.along
  PROVE  \E behind \in 0..n, back \in Path :
           back = P!BuildBackwardPath(road) /\ Backed(path, L, behind, back)
<1>1. DOMAIN path = 1..n /\ \A i \in 1..n : path[i] \in Vertex
  BY DEF Path
<1>2. PICK U : U = {i \in 1..n : path[i].cum < L}
  BY Zenon
<1>3. PICK behind \in 0..n : behind = Cardinality(U) /\ \A i \in 1..n : i <= behind <=> i \in U
  <2>1. U \subseteq 1..n
    BY <1>2
  <2>2. ASSUME NEW i \in 1..n, NEW j \in U, i <= j PROVE i \in U
    <3>1. j \in 1..n
      BY <2>1
    <3>2. PICK x \in Nat, y \in Nat : x = path[i].cum /\ y = path[j].cum
      BY <1>1, <3>1 DEF Vertex
    <3>3. x <= y
      BY <2>2, <3>1, <3>2 DEF Rising
    <3> QED
      BY <1>2, <2>2, <3>1, <3>2, <3>3
  <2>3. /\ Cardinality(U) \in 0..n
        /\ \A i \in 1..n : i <= Cardinality(U) <=> i \in U
    BY <2>1, <2>2, PrefixCount, Zenon
  <2> QED
    BY <2>3
<1>4. PICK first : first = [at |-> P!PointAtDistance(P!Ats(path), P!Cums(path), L), cum |-> 0, segment |-> 0]
  BY Zenon
<1>5. PICK rest : rest = [i \in 1..behind |-> [path[behind + 1 - i] EXCEPT !.cum = L - @]]
  BY Zenon
<1>6. behind = P!Cardinality({i \in DOMAIN path : path[i].cum < road.along})
  <2>1. U = {i \in DOMAIN path : path[i].cum < road.along}
    BY <1>1, <1>2
  <2> QED
    BY <1>3, <2>1, SameCardinality
<1>7. P!BuildBackwardPath(road) = <<first>> \o rest
  BY <1>4, <1>5, <1>6, Zenon DEF P!BuildBackwardPath, P!Vertex
<1>8. PICK back \in Path : back = P!BuildBackwardPath(road)
  BY BackwardType
<1>9. PICK m \in Nat : m = behind
  OBVIOUS
<1>10. /\ Len(back) = m + 1 /\ back[1] = first
       /\ \A k \in 2..m + 1 : back[k] = rest[k - 1]
  <2>1. PICK V : V = {rest[i] : i \in 1..m} \union {first}
    BY Zenon
  <2>2. rest \in [1..m -> V]
    BY <1>5, <1>9, <2>1, Zenon
  <2>3. rest \in Seq(V) /\ Len(rest) = m /\ <<first>> \in Seq(V) /\ Len(<<first>>) = 1 /\ <<first>>[1] = first
    BY <2>1, <2>2
  <2> QED
    BY <1>7, <1>8, <2>3
<1>11. ASSUME NEW k \in 2..m + 1
       PROVE  /\ (m + 2) - k \in 1..m
              /\ back[k] = [path[(m + 2) - k] EXCEPT !.cum = L - @]
  <2>1. k - 1 \in 1..m /\ (m + 2) - k \in 1..m /\ m + 1 - (k - 1) = (m + 2) - k
    OBVIOUS
  <2>2. rest[k - 1] = [path[m + 1 - (k - 1)] EXCEPT !.cum = L - @]
    BY <1>5, <1>9, <2>1
  <2> QED
    BY <1>10, <2>1, <2>2, Zenon
<1>12. \A i \in 1..n : i <= behind <=> path[i].cum < L
  BY <1>2, <1>3
<1>13. Backed(path, L, behind, back)
  BY <1>4, <1>9, <1>10, <1>11, <1>12, Zenon DEF Backed
<1> QED
  BY <1>8, <1>13

\* A position on the way back is one on the way.
LEMMA BackIs ==
  ASSUME NEW h, NEW L \in Nat, NEW d \in 0..L
  PROVE  Back(h, L)[d] = h[L - d]
BY DEF Back

\* The vertices of the segment a vehicle is on, and how far along them it is.
Drawn(road, path, L) ==
  path = P!Vertices(P!CurrentCoords(road), 0, 0) /\ L = road.along

\* _build_backward_path goes back along the course.
LEMMA BackFollows ==
  ASSUME NEW road \in RoadType, NEW path, NEW h, NEW R, NEW length, Course(path, h, R, length),
         NEW L \in 0..length, Drawn(road, path, L), AllOn(path, 0),
         NEW g, g = Back(h, L)
  PROVE  Course(P!BuildBackwardPath(road), g, L, L) /\ AllOn(P!BuildBackwardPath(road), 0)
<1>1. PICK n \in Nat \ {0} :
        /\ path \in Path /\ n = Len(path) /\ Rising(path)
        /\ R \in Nat /\ length \in 0..R /\ h \in [0..R -> Position]
        /\ path[1].cum = 0 /\ path[n].cum = length
        /\ \A j \in 1..n : path[j].cum \in 0..length /\ path[j].at = h[path[j].cum]
        /\ \A j \in 1..n - 1 : Straight(h, path[j].cum, path[j + 1].cum)
  BY CourseParts, SMTT(30)
<1>2. L \in Nat /\ L <= length /\ L <= R
  BY <1>1
<1>3. PICK behind \in 0..n, back \in Path :
        back = P!BuildBackwardPath(road) /\ Backed(path, L, behind, back)
  BY <1>1, <1>2, BackwardParts DEF Drawn
<1>4. PICK k \in Nat \ {0} : k = behind + 1 /\ k = Len(back)
  BY <1>3 DEF Backed
<1>5. behind < n
  <2>1. n \in 1..n /\ ~(path[n].cum < L)
    BY <1>1, <1>2
  <2>2. ~(n <= behind)
    BY <1>1, <1>3, <2>1 DEF Backed
  <2> QED
    BY <2>2
<1>6. back[1].at = g[0] /\ back[1].cum = 0 /\ back[1].segment = 0
  <2>1. back[1] = [at |-> P!PointAtDistance(P!Ats(path), P!Cums(path), L), cum |-> 0, segment |-> 0]
    BY <1>3 DEF Backed
  <2>2. P!PointAtDistance(P!Ats(path), P!Cums(path), L) = h[L]
    BY <1>2, PointFollows
  <2>3. g[0] = h[L]
    <3>1. 0 \in 0..L /\ L - 0 = L
      BY <1>2
    <3>2. Back(h, L)[0] = h[L - 0]
      BY <1>2, <3>1, BackIs
    <3> QED
      BY <3>1, <3>2
  <2> QED
    BY <2>1, <2>2, <2>3
<1>7. ASSUME NEW j \in 2..k
      PROVE  \E q \in 1..behind :
               /\ q = (behind + 2) - j /\ path[q].cum \in 0..L /\ path[q].cum < L
               /\ back[j].cum = L - path[q].cum
               /\ back[j].at = path[q].at /\ back[j].segment = path[q].segment
  <2>1. PICK q \in 1..behind : q = (behind + 2) - j /\ back[j] = [path[q] EXCEPT !.cum = L - @]
    <3>1. j \in 2..behind + 1
      BY <1>4
    <3> QED
      BY <1>3, <3>1, Zenon DEF Backed
  <2>2. q \in 1..n /\ q <= behind
    BY <1>3
  <2>3. path[q].cum < L
    BY <1>1, <1>3, <2>2 DEF Backed
  <2>4. path[q] \in Vertex
    BY <1>1, <2>2 DEF Path
  <2>5. PICK c \in Nat : c = path[q].cum
    BY <2>4 DEF Vertex
  <2>6. back[j].cum = L - c /\ back[j].at = path[q].at /\ back[j].segment = path[q].segment
    BY <2>1, <2>4, <2>5 DEF Vertex
  <2>7. c \in 0..L
    BY <1>2, <2>3, <2>5
  <2> QED
    BY <2>1, <2>3, <2>5, <2>6, <2>7
<1>8. ASSUME NEW j \in 1..k
      PROVE  back[j].cum \in 0..L /\ back[j].at = g[back[j].cum]
  <2>1. CASE j = 1
    <3>1. 0 \in 0..L
      BY <1>2
    <3> QED
      BY <1>6, <2>1, <3>1
  <2>2. CASE j # 1
    <3>0. j \in 2..k
      BY <2>2
    <3>1. PICK q \in 1..behind : /\ path[q].cum \in 0..L
                                /\ back[j].cum = L - path[q].cum /\ back[j].at = path[q].at
      BY <1>7, <3>0
    <3>2. q \in 1..n
      BY <1>3
    <3>3. PICK c \in 0..L : c = path[q].cum /\ path[q].at = h[c]
      BY <1>1, <3>1, <3>2, Zenon
    <3>4. PICK e \in 0..L : e = L - c /\ L - e = c
      BY <1>2
    <3>5. Back(h, L)[e] = h[L - e]
      BY <1>2, BackIs
    <3> QED
      BY <3>1, <3>3, <3>4, <3>5
  <2> QED
    BY <2>1, <2>2
<1>9. \A i, j \in 1..k : i <= j => back[i].cum <= back[j].cum
  <2> TAKE i, j \in 1..k
  <2> HAVE i <= j
  <2>1. CASE i = 1
    <3>1. back[j].cum \in 0..L
      BY <1>8
    <3> QED
      BY <1>6, <2>1, <3>1
  <2>2. CASE i # 1
    <3>1. i \in 2..k /\ j \in 2..k
      BY <2>2
    <3>2. PICK p \in 1..behind : p = (behind + 2) - i /\ back[i].cum = L - path[p].cum
      BY <1>7, <3>1
    <3>3. PICK q \in 1..behind : q = (behind + 2) - j /\ back[j].cum = L - path[q].cum
      BY <1>7, <3>1
    <3>4. q <= p /\ q \in 1..n /\ p \in 1..n
      BY <1>3, <3>2, <3>3
    <3>5. path[q].cum <= path[p].cum
      BY <1>1, <3>4 DEF Rising
    <3>6. PICK c \in Nat, e \in Nat : c = path[q].cum /\ e = path[p].cum
      BY <1>1, <3>4
    <3> QED
      BY <1>2, <3>2, <3>3, <3>5, <3>6
  <2> QED
    BY <2>1, <2>2
<1>10. ASSUME NEW j \in 1..k - 1
       PROVE  Straight(g, back[j].cum, back[j + 1].cum)
  <2>1. PICK q \in 1..behind : q = (behind + 1) - j /\ back[j + 1].cum = L - path[q].cum
    <3>1. j + 1 \in 2..k /\ (behind + 2) - (j + 1) = (behind + 1) - j
      BY <1>3
    <3> QED
      BY <1>7, <3>1
  <2>2. q \in 1..n /\ q \in 1..n - 1 /\ q + 1 \in 1..n /\ q <= q + 1
    BY <1>5
  <2>3. PICK c \in Nat, e \in Nat : c = path[q].cum /\ e = path[q + 1].cum /\ c <= e /\ e <= R /\ c < L
    <3>1. path[q].cum <= path[q + 1].cum
      BY <1>1, <2>2 DEF Rising
    <3>2. path[q].cum \in 0..length /\ path[q + 1].cum \in 0..length
      BY <1>1, <2>2
    <3>3. path[q].cum < L
      BY <1>1, <1>3, <2>2 DEF Backed
    <3> QED
      BY <1>1, <3>1, <3>2, <3>3
  <2>4. Straight(h, c, e) /\ h[c] \in Position
    <3>1. Straight(h, path[q].cum, path[q + 1].cum)
      BY <1>1, <2>2, Zenon
    <3>2. c \in 0..R
      BY <1>1, <2>3
    <3> QED
      BY <1>1, <2>3, <3>1, <3>2
  <2>5. CASE j = 1
    <3>1. L <= e
      <4>1. ~(q + 1 <= behind)
        BY <2>1, <2>5
      <4>2. ~(path[q + 1].cum < L)
        BY <1>1, <1>3, <2>2, <4>1, Zenon DEF Backed
      <4> QED
        BY <1>2, <2>3, <4>2
    <3>2. c <= c /\ c <= L /\ L <= L
      BY <1>2, <2>3
    <3>3. Straight(h, c, L)
      BY <1>2, <2>3, <2>4, <3>1, <3>2, StraightPart
    <3>4. Straight(Back(h, L), L - L, L - c)
      BY <1>2, <2>3, <2>4, <3>2, <3>3, StraightBack, Zenon
    <3>5. L - L = 0
      BY <1>2
    <3> QED
      BY <1>6, <2>1, <2>3, <2>5, <3>4, <3>5
  <2>6. CASE j # 1
    <3>1. PICK p \in 1..behind : p = (behind + 2) - j /\ back[j].cum = L - path[p].cum /\ path[p].cum < L
      <4>1. j \in 2..k
        BY <2>6
      <4> QED
        BY <1>7, <4>1
    <3>2. p = q + 1
      BY <1>3, <2>1, <3>1
    <3>3. back[j].cum = L - e /\ e <= L
      BY <1>2, <2>3, <3>1, <3>2
    <3>4. Straight(Back(h, L), L - e, L - c)
      BY <1>2, <2>3, <2>4, <3>3, StraightBack, Zenon
    <3> QED
      BY <2>1, <2>3, <3>3, <3>4
  <2> QED
    BY <2>5, <2>6
<1>11. back[k].cum = L
  <2>1. CASE k = 1
    <3>1. ~(1 <= behind) /\ 1 \in 1..n
      BY <1>3, <1>4, <2>1
    <3>2. ~(path[1].cum < L)
      BY <1>1, <1>3, <3>1 DEF Backed
    <3> QED
      BY <1>1, <1>2, <1>6, <2>1, <3>2
  <2>2. CASE k # 1
    <3>1. k \in 2..k /\ (behind + 2) - k = 1
      BY <1>3, <1>4, <2>2
    <3>2. back[k].cum = L - path[1].cum
      BY <1>7, <3>1
    <3> QED
      BY <1>1, <1>2, <3>2
  <2> QED
    BY <2>1, <2>2
<1>12. g \in [0..L -> Position]
  <2>1. ASSUME NEW d \in 0..L PROVE h[L - d] \in Position
    <3>1. L - d \in 0..R
      BY <1>1, <1>2
    <3> QED
      BY <1>1, <3>1
  <2> QED
    BY <2>1 DEF Back
<1>13. Follows(back, g, L)
  <2>1. Rising(back)
    BY <1>4, <1>9 DEF Rising
  <2>2. \A j \in 1..k : back[j].cum <= L
    BY <1>2, <1>8
  <2> QED
    BY <1>2, <1>4, <1>8, <1>10, <1>12, <2>1, <2>2 DEF Follows
<1>14. Course(back, g, L, L)
  BY <1>2, <1>4, <1>6, <1>11, <1>13 DEF Course
<1>15. AllOn(back, 0)
  <2>1. ASSUME NEW j \in 1..k PROVE back[j].segment = 0
    <3>1. CASE j = 1
      BY <1>6, <3>1
    <3>2. CASE j # 1
      <4>1. j \in 2..k
        BY <3>2
      <4>2. PICK q \in 1..behind : back[j].segment = path[q].segment
        BY <1>7, <4>1
      <4>3. q \in 1..n
        BY <1>3
      <4> QED
        BY <1>1, <4>2, <4>3 DEF AllOn
    <3> QED
      BY <3>1, <3>2
  <2> QED
    BY <1>4, <2>1 DEF AllOn
<1> QED
  BY <1>3, <1>14, <1>15

\* O counts the first legs that open a segment.
Counted(legs, N, O) ==
  /\ O \in [0..N -> Nat] /\ O[0] = 0
  /\ \A i \in 1..N : O[i] = O[i - 1] + (IF legs[i].opens THEN 1 ELSE 0)
  /\ \A i, j \in 0..N : i <= j => O[i] <= O[j]
  /\ \A i \in 0..N : O[i] = P!Opened(legs, i)

\* How many of the first i legs open a segment.
LEMMA OpenedCounts ==
  ASSUME NEW legs \in Seq(Leg), NEW N \in Nat, N = Len(legs)
  PROVE  \E O : Counted(legs, N, O)
<1> DEFINE Openers(i) == {k \in 1..i : legs[k].opens}
<1>1. ASSUME NEW i \in 0..N PROVE IsFiniteSet(Openers(i)) /\ Cardinality(Openers(i)) \in Nat
  <2>1. Openers(i) \in SUBSET (1..i) /\ i \in Nat
    OBVIOUS
  <2>2. IsFiniteSet(1..i)
    BY <2>1, IntervalCount
  <2> QED
    BY <2>1, <2>2, SameOrLess
<1>2. PICK O : O = [i \in 0..N |-> Cardinality(Openers(i))]
  BY Zenon
<1>3. \A i \in 0..N : O[i] = Cardinality(Openers(i))
  BY <1>2
<1>4. O \in [0..N -> Nat]
  <2> HIDE DEF Openers
  <2> QED
    BY <1>1, <1>2
<1>5. O[0] = 0
  <2>1. Openers(0) = {} /\ 0 \in 0..N
    OBVIOUS
  <2>2. Cardinality({}) = 0
    BY FS_EmptySet
  <2> QED
    BY <1>3, <2>1, <2>2
<1>6. ASSUME NEW i \in 1..N PROVE O[i] = O[i - 1] + (IF legs[i].opens THEN 1 ELSE 0)
  <2>1. PICK h \in 0..N : h = i - 1 /\ i \in 0..N
    OBVIOUS
  <2>2. O[i] = Cardinality(Openers(i)) /\ O[h] = Cardinality(Openers(h)) /\ O[h] \in Nat
    BY <1>3, <1>4, <2>1
  <2>3. CASE legs[i].opens
    <3>1. Openers(i) = Openers(h) \union {i} /\ i \notin Openers(h)
      <4>1. \A k \in 1..i : k \in 1..h \/ k = i
        BY <2>1
      <4>2. \A k \in 1..h : k \in 1..i /\ k # i
        BY <2>1
      <4>3. i \in 1..i
        OBVIOUS
      <4> QED
        BY <2>3, <4>1, <4>2, <4>3, Zenon
    <3>2. Cardinality(Openers(h) \union {i}) = Cardinality(Openers(h)) + 1
      <4> HIDE DEF Openers
      <4> QED
        BY <1>1, <3>1, FS_AddElement, Zenon
    <3> QED
      BY <2>1, <2>2, <2>3, <3>1, <3>2, Zenon
  <2>4. CASE ~legs[i].opens
    <3>1. Openers(i) = Openers(h)
      <4>1. \A k \in 1..i : k \in 1..h \/ k = i
        BY <2>1
      <4>2. \A k \in 1..h : k \in 1..i
        BY <2>1
      <4> QED
        BY <2>4, <4>1, <4>2, Zenon
    <3>2. O[i] = O[h] + 0
      <4> HIDE DEF Openers
      <4> QED
        BY <2>2, <3>1
    <3> QED
      BY <2>1, <2>4, <3>2
  <2> QED
    BY <2>3, <2>4
<1>7. ASSUME NEW i \in 0..N, NEW j \in 0..N, i <= j PROVE O[i] <= O[j]
  <2>1. Openers(i) \in SUBSET Openers(j)
    BY <1>7
  <2>2. Cardinality(Openers(i)) <= Cardinality(Openers(j))
    <3> HIDE DEF Openers
    <3> QED
      BY <1>1, <2>1, SameOrLess
  <2> QED
    BY <1>3, <2>2
<1>8. ASSUME NEW i \in 0..N PROVE O[i] = P!Opened(legs, i)
  <2>1. P!Opened(legs, i) = P!Cardinality(Openers(i))
    BY DEF P!Opened
  <2> QED
    BY <1>3, <2>1, SameCardinality
<1>9. Counted(legs, N, O)
  BY <1>4, <1>5, <1>6, <1>7, <1>8 DEF Counted
<1> QED
  BY <1>9, Zenon

\* E is the last leg of each of the K segments, and of the one the road begins on.
Ends(legs, N, O, K, E) ==
  /\ K = O[N] /\ E \in [0..K -> 0..N] /\ E[K] = N
  /\ \A s \in 0..K : O[E[s]] = s /\ P!UpToEnd(legs, s) = E[s]
  /\ \A s \in 0..K, i \in 0..N : i <= E[s] <=> O[i] <= s
  /\ P!UpToEnd(legs, -1) = 0

\* The legs up to the end of a segment are the first ones.
LEMMA EndIs ==
  ASSUME NEW legs \in Seq(Leg), NEW N \in Nat, N = Len(legs), NEW O, Counted(legs, N, O), NEW s \in Int
  PROVE  /\ P!UpToEnd(legs, s) \in 0..N
         /\ \A i \in 1..N : i <= P!UpToEnd(legs, s) <=> O[i] <= s
<1>1. PICK U : U = {k \in 1..N : O[k] <= s}
  BY Zenon
<1>2. /\ O \in [0..N -> Nat] /\ \A i, j \in 0..N : i <= j => O[i] <= O[j]
      /\ \A i \in 0..N : O[i] = P!Opened(legs, i)
  BY DEF Counted
<1>3. U \subseteq 1..N
  BY <1>1
<1>4. ASSUME NEW i \in 1..N, NEW j \in U, i <= j PROVE i \in U
  <2>1. i \in 0..N /\ j \in 0..N /\ O[j] <= s
    BY <1>1, <1>3
  <2>2. O[i] <= O[j] /\ O[i] \in Nat /\ O[j] \in Nat
    BY <1>2, <1>4, <2>1
  <2>3. O[i] <= s
    BY <2>1, <2>2
  <2> QED
    BY <1>1, <2>3
<1>5. Cardinality(U) \in 0..N /\ \A i \in 1..N : i <= Cardinality(U) <=> i \in U
  BY <1>3, <1>4, PrefixCount, Zenon
<1>6. U = {k \in DOMAIN legs : P!Opened(legs, k) <= s}
  <2>1. DOMAIN legs = 1..N /\ \A k \in 1..N : k \in 0..N
    OBVIOUS
  <2> QED
    BY <1>1, <1>2, <2>1
<1>7. P!UpToEnd(legs, s) = Cardinality(U)
  BY <1>6, SameCardinality, Zenon DEF P!UpToEnd
<1> QED
  BY <1>1, <1>5, <1>7

\* The leg each segment ends at.
LEMMA EndsExist ==
  ASSUME NEW legs \in Seq(Leg), NEW N \in Nat, N = Len(legs), NEW O, Counted(legs, N, O),
         NEW K \in Nat, K = O[N]
  PROVE  \E E : Ends(legs, N, O, K, E)
<1>1. /\ O \in [0..N -> Nat] /\ O[0] = 0 /\ \A i, j \in 0..N : i <= j => O[i] <= O[j]
      /\ \A i \in 1..N : O[i] = O[i - 1] + (IF legs[i].opens THEN 1 ELSE 0)
  BY DEF Counted
<1>2. PICK E : E = [s \in 0..K |-> P!UpToEnd(legs, s)]
  BY Zenon
<1>3. ASSUME NEW s \in 0..K
      PROVE  /\ E[s] \in 0..N /\ E[s] = P!UpToEnd(legs, s)
             /\ \A i \in 1..N : i <= E[s] <=> O[i] <= s
  <2>1. s \in Int /\ E[s] = P!UpToEnd(legs, s)
    BY <1>2
  <2> QED
    BY <2>1, EndIs
<1>4. E \in [0..K -> 0..N]
  BY <1>2, <1>3, Zenon
<1>5. ASSUME NEW s \in 0..K, NEW i \in 0..N PROVE i <= E[s] <=> O[i] <= s
  <2>1. CASE i = 0
    BY <1>1, <1>3, <2>1
  <2>2. CASE i # 0
    <3>1. i \in 1..N
      BY <2>2
    <3> QED
      BY <1>3, <3>1
  <2> QED
    BY <2>1, <2>2
<1>6. E[K] = N
  <2>1. K \in 0..K /\ N \in 0..N /\ O[N] <= K
    OBVIOUS
  <2>2. N <= E[K] /\ E[K] \in 0..N
    BY <1>3, <1>5, <2>1
  <2> QED
    BY <2>2
<1>7. ASSUME NEW s \in 0..K PROVE O[E[s]] = s
  <2>1. PICK e \in 0..N : e = E[s]
    BY <1>3
  <2>2. PICK o \in Nat : o = O[e] /\ o <= s
    <3>1. O[e] \in Nat
      BY <1>1
    <3>2. O[e] <= s
      BY <1>5, <2>1
    <3> QED
      BY <3>1, <3>2
  <2>3. CASE e = N
    BY <2>1, <2>2, <2>3
  <2>4. CASE e # N
    <3>1. PICK i \in 1..N : i = e + 1 /\ i - 1 = e /\ i \in 0..N /\ ~(i <= e)
      BY <2>4
    <3>2. ~(O[i] <= s)
      BY <1>5, <2>1, <3>1
    <3>3. O[i] = o + (IF legs[i].opens THEN 1 ELSE 0)
      BY <1>1, <2>2, <3>1
    <3>4. O[i] <= o + 1
      BY <3>3
    <3> QED
      BY <1>1, <2>1, <2>2, <3>1, <3>2, <3>4
  <2> QED
    BY <2>3, <2>4
<1>8. P!UpToEnd(legs, -1) = 0
  <2>1. -1 \in Int
    OBVIOUS
  <2>2. PICK e \in 0..N : /\ e = P!UpToEnd(legs, -1)
                          /\ \A i \in 1..N : i <= e <=> O[i] <= -1
    BY <2>1, EndIs, Zenon
  <2>3. CASE e # 0
    <3>1. e \in 1..N /\ e \in 0..N
      BY <2>3
    <3>2. O[e] <= -1 /\ O[e] \in Nat
      BY <1>1, <2>2, <3>1
    <3> QED
      BY <3>2
  <2> QED
    BY <2>2, <2>3
<1>9. Ends(legs, N, O, K, E)
  BY <1>3, <1>4, <1>5, <1>6, <1>7, <1>8 DEF Ends
<1> QED
  BY <1>9, Zenon

\* A leg is as long as it says, and straight.
LEMMA LegIs ==
  ASSUME NEW legs \in Seq(Leg), NEW N \in Nat, N = Len(legs), NEW C, NEW g, Reached(legs, N, C, g),
         NEW i \in 1..N
  PROVE  /\ P!Length(g[C[i - 1]], g[C[i]]) = C[i] - C[i - 1]
         /\ Straight(g, C[i - 1], C[i])
<1>1. PICK leg \in Leg : leg = legs[i]
  OBVIOUS
<1>2. PICK len \in Nat : len = leg.len
  BY DEF Leg
<1>3. leg.to \in Position /\ (leg.to = [x |-> 1, y |-> 0] \/ leg.to = [x |-> 0, y |-> 1])
  BY DEF Leg, Position
<1>4. PICK c \in Nat : c = C[i - 1] /\ C[i] = c + len
  <2>1. i - 1 \in 0..N
    OBVIOUS
  <2>2. C[i - 1] \in Nat /\ C[i] = C[i - 1] + legs[i].len
    BY <2>1, Zenon DEF Reached
  <2> QED
    BY <1>1, <1>2, <2>2
<1>5. \A m \in 0..len : c + m \in 0..C[N] /\ g[c + m] = P!Ahead(g[c], leg.to, m)
  BY <1>1, <1>2, <1>4 DEF Reached
<1>6. PICK x \in Int, y \in Int : g[c] = [x |-> x, y |-> y]
  <2>1. 0 \in 0..len /\ c + 0 = c
    BY <1>4
  <2>2. c \in 0..C[N]
    BY <1>5, <2>1
  <2>3. g[c] \in Position
    BY <2>2 DEF Reached
  <2> QED
    BY <2>3 DEF Position
<1>7. Straight(g, c, c + len)
  <2>1. (c + len) - c = len
    OBVIOUS
  <2> QED
    BY <1>3, <1>5, <2>1 DEF Straight
<1>8. g[c + len] = P!Ahead(g[c], leg.to, len)
  <2>1. len \in 0..len
    OBVIOUS
  <2> QED
    BY <1>5, <2>1
<1>9. P!Length(g[c], g[c + len]) = len
  <2>1. CASE leg.to = [x |-> 1, y |-> 0]
    <3>1. g[c + len] = [x |-> x + 1 * len, y |-> y + 0 * len]
      BY <1>6, <1>8, <2>1 DEF P!Ahead
    <3>2. x - (x + 1 * len) = -len /\ y - (y + 0 * len) = 0
      OBVIOUS
    <3>3. P!Magnitude(-len) = len /\ P!Magnitude(0) = 0
      BY DEF P!Magnitude
    <3> QED
      BY <1>6, <3>1, <3>2, <3>3 DEF P!Length
  <2>2. CASE leg.to = [x |-> 0, y |-> 1]
    <3>1. g[c + len] = [x |-> x + 0 * len, y |-> y + 1 * len]
      BY <1>6, <1>8, <2>2 DEF P!Ahead
    <3>2. x - (x + 0 * len) = 0 /\ y - (y + 1 * len) = -len
      OBVIOUS
    <3>3. P!Magnitude(-len) = len /\ P!Magnitude(0) = 0
      BY DEF P!Magnitude
    <3> QED
      BY <1>6, <3>1, <3>2, <3>3 DEF P!Length
  <2> QED
    BY <1>3, <2>1, <2>2
<1> QED
  BY <1>4, <1>7, <1>9

\* The positions the legs after b reach, up to t.
Reaches(C, g, b, t) == [k \in 1..t - b + 1 |-> g[C[b + k - 1]]]

\* The vertices there, the first one offset from the vehicle.
Stretch(vs, C, g, b, t, offset, s) ==
  /\ vs \in Seq(Vertex) /\ Len(vs) = (t - b) + 1
  /\ \A i \in b..t :
       /\ (i - b) + 1 \in 1..Len(vs)
       /\ vs[(i - b) + 1] = [at |-> g[C[i]], cum |-> offset + (C[i] - C[b]), segment |-> s]

\* So are the vertices of a geometry.
LEMMA VerticesStretch ==
  ASSUME NEW legs \in Seq(Leg), NEW N \in Nat, N = Len(legs), NEW C, NEW g, Reached(legs, N, C, g),
         NEW b \in 0..N, NEW t \in b..N, NEW offset \in Nat, NEW s \in Nat
  PROVE  Stretch(P!Vertices(Reaches(C, g, b, t), offset, s), C, g, b, t, offset, s)
<1>1. /\ C \in [0..N -> Nat] /\ \A i, j \in 0..N : i <= j => C[i] <= C[j]
      /\ g \in [0..C[N] -> Position]
  BY DEF Reached
<1>2. PICK n \in Nat \ {0} : n = (t - b) + 1 /\ b + n = t + 1
  OBVIOUS
<1>3. PICK coords : coords = Reaches(C, g, b, t) /\ coords = [k \in 1..n |-> g[C[b + k - 1]]]
  BY <1>2, Zenon DEF Reaches
<1>4. \A i \in 0..N : C[i] \in Nat /\ C[i] \in 0..C[N] /\ g[C[i]] \in Position
  <2> TAKE i \in 0..N
  <2>1. N \in 0..N /\ i <= N
    OBVIOUS
  <2>2. PICK c \in Nat, e \in Nat : c = C[i] /\ e = C[N] /\ c <= e
    BY <1>1, <2>1, Zenon
  <2> QED
    BY <1>1, <2>2
<1>5. ASSUME NEW k \in 1..n PROVE b + k - 1 \in 0..N /\ coords[k] = g[C[b + k - 1]] /\ coords[k] \in Position
  <2>1. PICK i \in 0..N : i = b + k - 1
    BY <1>2
  <2> QED
    BY <1>3, <1>4, <2>1
<1>6. coords \in Seq(Position) /\ Len(coords) = n
  <2>1. coords \in [1..n -> Position]
    BY <1>3, <1>5, Zenon
  <2> QED
    BY <2>1
<1>7. PICK cum \in Seq(Nat) :
        /\ cum = P!Cumulative(coords) /\ Len(cum) = n
        /\ \A i \in 1..n : cum[i] = IF i = 1 THEN 0 ELSE cum[i - 1] + P!Length(coords[i - 1], coords[i])
  BY <1>6, CumulativeType
<1> DEFINE T == {j \in Nat : j + 1 <= n => cum[j + 1] = C[b + j] - C[b]}
<1>8. 0 \in T
  <2>1. cum[1] = 0
    BY <1>7
  <2>2. C[b] - C[b] = 0
    BY <1>4
  <2> QED
    BY <2>1, <2>2
<1>9. ASSUME NEW j \in Nat, j \in T PROVE j + 1 \in T
  <2> SUFFICES ASSUME (j + 1) + 1 <= n PROVE cum[(j + 1) + 1] = C[b + (j + 1)] - C[b]
    OBVIOUS
  <2>1. j + 1 <= n
    OBVIOUS
  <2>2. PICK k \in 1..n, i \in 1..N : /\ k = (j + 1) + 1 /\ k # 1 /\ k - 1 = j + 1 /\ k - 1 \in 1..n
                                      /\ i = b + (j + 1) /\ i = b + k - 1 /\ i - 1 = b + j
                                      /\ i - 1 = b + (k - 1) - 1
    BY <1>2
  <2>3. cum[j + 1] = C[i - 1] - C[b]
    BY <1>9, <2>1, <2>2
  <2>4. coords[k] = g[C[i]] /\ coords[k - 1] = g[C[i - 1]]
    BY <1>5, <2>2
  <2>5. P!Length(coords[k - 1], coords[k]) = C[i] - C[i - 1]
    BY <2>4, LegIs
  <2>6. cum[k] = cum[k - 1] + P!Length(coords[k - 1], coords[k])
    BY <1>7, <2>2
  <2>7. PICK p \in Nat, q \in Nat, r \in Nat : p = C[i - 1] /\ q = C[i] /\ r = C[b]
    <3>1. i - 1 \in 0..N /\ i \in 0..N
      OBVIOUS
    <3> QED
      BY <1>4, <3>1, Zenon
  <2>8. cum[k] = (p - r) + (q - p)
    BY <2>2, <2>3, <2>5, <2>6, <2>7
  <2>9. cum[k] = q - r
    BY <2>7, <2>8
  <2> QED
    BY <2>2, <2>7, <2>9
<1> HIDE DEF T
<1>10. Nat \subseteq T
  BY <1>8, <1>9, NumberInduction, Zenon
<1>11. PICK vs : vs = P!Vertices(coords, offset, s)
  OBVIOUS
<1>12. vs \in Seq(Vertex) /\ Len(vs) = n
  BY <1>6, <1>11, VerticesType, Zenon
<1>13. vs = [k \in 1..n |-> [at |-> coords[k], cum |-> offset + cum[k], segment |-> s]]
  <2>1. DOMAIN coords = 1..n
    BY <1>6
  <2> QED
    BY <1>7, <1>11, <2>1 DEF P!Vertices, P!Vertex
<1>14. ASSUME NEW i \in b..t
       PROVE  /\ (i - b) + 1 \in 1..n
              /\ vs[(i - b) + 1] = [at |-> g[C[i]], cum |-> offset + (C[i] - C[b]), segment |-> s]
  <2>1. PICK j \in Nat : j = i - b /\ b + j = i /\ j + 1 <= n
    BY <1>2
  <2>2. PICK k \in 1..n : k = j + 1 /\ b + k - 1 = i
    BY <2>1
  <2>3. j \in T
    BY <1>10
  <2>4. cum[k] = C[i] - C[b]
    BY <2>1, <2>2, <2>3 DEF T
  <2>5. coords[k] = g[C[i]]
    BY <1>5, <2>2, Zenon
  <2> QED
    BY <1>13, <2>1, <2>2, <2>4, <2>5, Zenon
<1>15. Stretch(vs, C, g, b, t, offset, s)
  BY <1>2, <1>12, <1>14 DEF Stretch
<1> QED
  BY <1>3, <1>11, <1>15

\* Where nothing is between, it is straight.
LEMMA StraightStay ==
  ASSUME NEW h, NEW c \in Nat, h[c] \in Position
  PROVE  Straight(h, c, c)
<1>1. PICK x \in Int, y \in Int : h[c] = [x |-> x, y |-> y]
  BY DEF Position
<1>2. PICK to \in Position : to = [x |-> 1, y |-> 0]
  <2>1. [x |-> 1, y |-> 0] \in Position
    BY DEF Position
  <2> QED
    BY <2>1
<1>3. ASSUME NEW m \in 0..c - c PROVE h[c + m] = P!Ahead(h[c], to, m)
  <2>1. m = 0 /\ c + m = c
    OBVIOUS
  <2>2. P!Ahead(h[c], to, 0) = [x |-> x + 1 * 0, y |-> y + 0 * 0]
    BY <1>1, <1>2 DEF P!Ahead
  <2>3. x + 1 * 0 = x /\ y + 0 * 0 = y
    OBVIOUS
  <2> QED
    BY <1>1, <2>1, <2>2, <2>3
<1> QED
  BY <1>3 DEF Straight

\* Both paths, one after the other, go along the course.
Joined(p, q, h, R) ==
  /\ Follows(p \o q, h, R) /\ Len(p \o q) = Len(p) + Len(q)
  /\ (p \o q)[1] = p[1] /\ (p \o q)[Len(p) + Len(q)] = q[Len(q)]

\* Two paths along a course, the one from where the other ends, are one.
LEMMA FollowsJoin ==
  ASSUME NEW p, NEW q, NEW h, NEW R, Follows(p, h, R), Follows(q, h, R),
         NEW n \in Nat, n = Len(p), NEW m \in Nat, m = Len(q), p[n].cum = q[1].cum
  PROVE  Joined(p, q, h, R)
<1>1. /\ p \in Path /\ Rising(p) /\ R \in Nat /\ h \in [0..R -> Position]
      /\ \A j \in 1..n : p[j].cum <= R /\ p[j].at = h[p[j].cum]
      /\ \A j \in 1..n - 1 : Straight(h, p[j].cum, p[j + 1].cum)
  BY DEF Follows
<1>2. /\ q \in Path /\ Rising(q)
      /\ \A j \in 1..m : q[j].cum <= R /\ q[j].at = h[q[j].cum]
      /\ \A j \in 1..m - 1 : Straight(h, q[j].cum, q[j + 1].cum)
  BY DEF Follows
<1>3. n # 0 /\ m # 0 /\ p \in Seq(Vertex) /\ q \in Seq(Vertex)
  BY <1>1, <1>2 DEF Path
<1>4. PICK both : both = p \o q
  BY Zenon
<1>5. /\ both \in Seq(Vertex) /\ Len(both) = n + m
      /\ \A j \in 1..n : both[j] = p[j]
      /\ \A j \in 1..m : both[n + j] = q[j]
  BY <1>3, <1>4
<1>6. both \in Path
  <2>1. Len(both) # 0
    BY <1>3, <1>5
  <2> QED
    BY <1>5, <2>1 DEF Path
<1>7. \A j \in 1..n : p[j].cum \in Nat /\ p[j].cum <= p[n].cum
  <2> TAKE j \in 1..n
  <2>1. n \in 1..n /\ j <= n /\ p[j] \in Vertex
    BY <1>3
  <2> QED
    BY <1>1, <2>1 DEF Rising, Vertex
<1>8. \A j \in 1..m : q[j].cum \in Nat /\ q[1].cum <= q[j].cum
  <2> TAKE j \in 1..m
  <2>1. 1 \in 1..m /\ 1 <= j /\ q[j] \in Vertex
    BY <1>3
  <2> QED
    BY <1>2, <2>1 DEF Rising, Vertex
<1>9. PICK c \in Nat : c = p[n].cum /\ c = q[1].cum
  BY <1>3, <1>7
<1>10. \A j \in n + 1..n + m : j - n \in 1..m /\ both[j] = q[j - n]
  <2> TAKE j \in n + 1..n + m
  <2>1. PICK i \in 1..m : i = j - n /\ n + i = j
    OBVIOUS
  <2> QED
    BY <1>5, <2>1
<1>11. \A j \in 1..n + m : j \in 1..n \/ j \in n + 1..n + m
  OBVIOUS
<1>12. Rising(both)
  <2>1. ASSUME NEW i \in 1..n + m, NEW j \in 1..n + m, i <= j PROVE both[i].cum <= both[j].cum
    <3>1. CASE j \in 1..n
      <4>1. i \in 1..n
        BY <2>1, <3>1
      <4> QED
        BY <1>1, <1>5, <2>1, <3>1, <4>1 DEF Rising
    <3>2. CASE i \in n + 1..n + m
      <4>1. j \in n + 1..n + m
        BY <2>1, <3>2
      <4>2. PICK k \in 1..m, l \in 1..m : k = i - n /\ l = j - n /\ k <= l
        BY <1>10, <2>1, <3>2, <4>1, SMTT(30)
      <4>3. both[i] = q[k] /\ both[j] = q[l]
        BY <1>10, <3>2, <4>1, <4>2
      <4> QED
        BY <1>2, <4>2, <4>3 DEF Rising
    <3>3. CASE i \in 1..n /\ j \in n + 1..n + m
      <4>1. PICK l \in 1..m : both[j] = q[l]
        BY <1>10, <3>3
      <4>2. both[i].cum \in Nat /\ both[i].cum <= c
        BY <1>5, <1>7, <1>9, <3>3
      <4>3. both[j].cum \in Nat /\ c <= both[j].cum
        BY <1>8, <1>9, <4>1
      <4> QED
        BY <4>2, <4>3
    <3> QED
      BY <1>11, <3>1, <3>2, <3>3
  <2> QED
    BY <1>5, <2>1 DEF Rising
<1>13. ASSUME NEW j \in 1..n + m PROVE both[j].cum <= R /\ both[j].at = h[both[j].cum]
  <2>1. CASE j \in 1..n
    BY <1>1, <1>5, <2>1
  <2>2. CASE j \in n + 1..n + m
    <3>1. PICK l \in 1..m : both[j] = q[l]
      BY <1>10, <2>2, Zenon
    <3> QED
      BY <1>2, <3>1
  <2> QED
    BY <1>11, <2>1, <2>2
<1>14. ASSUME NEW j \in 1..n + m - 1 PROVE Straight(h, both[j].cum, both[j + 1].cum)
  <2>1. CASE j \in 1..n - 1
    <3>1. j \in 1..n /\ j + 1 \in 1..n
      BY <2>1
    <3> QED
      BY <1>1, <1>5, <2>1, <3>1
  <2>2. CASE j = n
    <3>1. j \in 1..n /\ 1 \in 1..m
      BY <1>3, <2>2
    <3>2. both[j] = p[n] /\ both[j + 1] = q[1]
      BY <1>5, <2>2, <3>1
    <3>3. p[n].at \in Position /\ p[n].at = h[c]
      <4>1. p[n] \in Vertex
        BY <1>3
      <4> QED
        BY <1>1, <1>3, <1>9, <4>1 DEF Vertex
    <3>4. Straight(h, c, c)
      BY <3>3, StraightStay
    <3> QED
      BY <1>9, <3>2, <3>4
  <2>3. CASE j \in n + 1..n + m - 1
    <3>0. j \in Int /\ n + 1 <= j /\ j <= n + m - 1
      BY <2>3
    <3>3. PICK l \in Int : l = j - n
      BY <3>0
    <3>4. 1 <= l /\ l <= m - 1 /\ n + l = j /\ n + (l + 1) = j + 1
      BY <3>0, <3>3
    <3>1. l \in 1..m - 1 /\ l \in 1..m /\ l + 1 \in 1..m /\ n + l = j /\ n + (l + 1) = j + 1
      BY <3>4
    <3>2. both[j] = q[l] /\ both[j + 1] = q[l + 1]
      BY <1>5, <3>1
    <3> QED
      BY <1>2, <3>1, <3>2
  <2>4. j \in 1..n - 1 \/ j = n \/ j \in n + 1..n + m - 1
    BY <1>3
  <2> QED
    BY <2>1, <2>2, <2>3, <2>4
<1>15. Follows(both, h, R)
  BY <1>1, <1>5, <1>6, <1>12, <1>13, <1>14 DEF Follows
<1>16. both[1] = p[1] /\ both[n + m] = q[m]
  <2>1. 1 \in 1..n /\ m \in 1..m
    BY <1>3
  <2> QED
    BY <1>5, <2>1
<1> QED
  BY <1>4, <1>5, <1>15, <1>16 DEF Joined

\* From b to t the course h is what g is, but A shorter.
Shortened(N, C, g, b, t, A, h, R) ==
  /\ \A i, j \in 0..N : i <= j => C[i] <= C[j]
  /\ A <= C[b] /\ C[t] - A <= R
  /\ \A i \in b..t : h[C[i] - A] = g[C[i]]
  /\ \A i \in b + 1..t : Straight(h, C[i - 1] - A, C[i] - A)

\* The vertices go along the course h, from where b is there to where t is.
Carried(vs, C, b, t, A, h, R, s) ==
  /\ Follows(vs, h, R) /\ AllOn(vs, s) /\ Len(vs) = (t - b) + 1
  /\ vs[1].cum = C[b] - A /\ vs[Len(vs)].cum = C[t] - A
  /\ \A j \in 1..Len(vs) : C[b] - A <= vs[j].cum

\* A stretch goes along such a course.
LEMMA StretchFollows ==
  ASSUME NEW N \in Nat, NEW C \in [0..N -> Nat], NEW g, NEW b \in 0..N, NEW t \in b..N, NEW A \in Nat,
         NEW R \in Nat, NEW h \in [0..R -> Position], Shortened(N, C, g, b, t, A, h, R),
         NEW offset, offset = C[b] - A, NEW s, NEW vs, Stretch(vs, C, g, b, t, offset, s)
  PROVE  Carried(vs, C, b, t, A, h, R, s)
<1>0. /\ \A i, j \in 0..N : i <= j => C[i] <= C[j]
      /\ A <= C[b] /\ C[t] - A <= R
      /\ \A i \in b..t : h[C[i] - A] = g[C[i]]
      /\ \A i \in b + 1..t : Straight(h, C[i - 1] - A, C[i] - A)
  BY Zenon DEF Shortened
<1>1. PICK n \in Nat \ {0} : n = (t - b) + 1 /\ n = Len(vs) /\ b + n = t + 1
  BY DEF Stretch
<1>2. vs \in Seq(Vertex) /\ vs \in Path
  <2>1. vs \in Seq(Vertex)
    BY DEF Stretch
  <2> QED
    BY <1>1, <2>1 DEF Path
<1>3. \A i \in b..t : C[i] \in Nat /\ C[b] <= C[i] /\ C[i] <= C[t] /\ A <= C[i]
  <2> TAKE i \in b..t
  <2>1. i \in 0..N /\ b \in 0..N /\ t \in 0..N /\ b <= i /\ i <= t
    OBVIOUS
  <2>2. PICK x \in Nat, y \in Nat, z \in Nat : x = C[b] /\ y = C[i] /\ z = C[t] /\ x <= y /\ y <= z /\ A <= x
    BY <1>0, <2>1, Zenon
  <2> QED
    BY <2>2
<1>4. ASSUME NEW j \in 1..n
      PROVE  \E i \in b..t : /\ i = b + j - 1 /\ vs[j].at = g[C[i]] /\ vs[j].segment = s
                             /\ vs[j].cum = C[i] - A
  <2>1. PICK i \in b..t : i = b + j - 1 /\ (i - b) + 1 = j
    BY <1>1
  <2>2. vs[j] = [at |-> g[C[i]], cum |-> (C[b] - A) + (C[i] - C[b]), segment |-> s]
    BY <2>1, Zenon DEF Stretch
  <2>3. PICK x \in Nat, y \in Nat : x = C[b] /\ y = C[i]
    BY <1>3, Zenon
  <2>4. (x - A) + (y - x) = y - A
    OBVIOUS
  <2> QED
    BY <2>1, <2>2, <2>3, <2>4
<1>5. Rising(vs)
  <2>1. ASSUME NEW j \in 1..n, NEW k \in 1..n, j <= k PROVE vs[j].cum <= vs[k].cum
    <3>1. PICK i \in b..t : i = b + j - 1 /\ vs[j].cum = C[i] - A
      BY <1>4, Zenon
    <3>2. PICK l \in b..t : l = b + k - 1 /\ vs[k].cum = C[l] - A
      BY <1>4, Zenon
    <3>3. i <= l /\ i \in 0..N /\ l \in 0..N
      BY <2>1, <3>1, <3>2
    <3>4. PICK x \in Nat, y \in Nat : x = C[i] /\ y = C[l] /\ x <= y
      BY <1>0, <3>3, Zenon
    <3>5. x - A <= y - A
      BY <3>4
    <3> QED
      BY <3>1, <3>2, <3>4, <3>5
  <2> QED
    BY <1>1, <2>1, Zenon DEF Rising
<1>6. ASSUME NEW j \in 1..n
      PROVE  vs[j].cum <= R /\ vs[j].at = h[vs[j].cum] /\ C[b] - A <= vs[j].cum /\ vs[j].segment = s
  <2>1. PICK i \in b..t : vs[j].at = g[C[i]] /\ vs[j].segment = s /\ vs[j].cum = C[i] - A
    BY <1>4, Zenon
  <2>2. PICK x \in Nat, y \in Nat, z \in Nat : x = C[b] /\ y = C[i] /\ z = C[t] /\ x <= y /\ y <= z
    <3>1. b \in b..t /\ t \in b..t
      OBVIOUS
    <3>2. C[b] \in Nat /\ C[t] \in Nat /\ C[i] \in Nat
      BY <1>3, <3>1
    <3> QED
      BY <1>3, <3>2
  <2>3. z - A <= R
    BY <1>0, <2>2
  <2>4. y - A <= R /\ x - A <= y - A
    BY <2>2, <2>3
  <2>5. h[C[i] - A] = g[C[i]]
    BY <1>0
  <2> QED
    BY <2>1, <2>2, <2>4, <2>5
<1>7. ASSUME NEW j \in 1..n - 1 PROVE Straight(h, vs[j].cum, vs[j + 1].cum)
  <2>1. PICK i \in b..t : i = b + j - 1 /\ vs[j].cum = C[i] - A
    <3>1. j \in 1..n
      OBVIOUS
    <3> QED
      BY <1>4, <3>1, Zenon
  <2>2. PICK l \in b..t : l = b + (j + 1) - 1 /\ vs[j + 1].cum = C[l] - A
    <3>1. j + 1 \in 1..n
      OBVIOUS
    <3> QED
      BY <1>4, <3>1, Zenon
  <2>3. l \in b + 1..t /\ l - 1 = i
    BY <2>1, <2>2
  <2>4. Straight(h, C[l - 1] - A, C[l] - A)
    BY <1>0, <2>3
  <2> QED
    BY <2>1, <2>2, <2>3, <2>4
<1>8. Follows(vs, h, R)
  BY <1>1, <1>2, <1>5, <1>6, <1>7, Zenon DEF Follows
<1>9. AllOn(vs, s)
  BY <1>1, <1>6, Zenon DEF AllOn
<1>10. vs[1].cum = C[b] - A
  <2>1. PICK i \in b..t : i = b + 1 - 1 /\ vs[1].cum = C[i] - A
    BY <1>4
  <2>2. i = b
    BY <2>1
  <2> QED
    BY <2>1, <2>2
<1>11. vs[n].cum = C[t] - A
  <2>1. PICK i \in b..t : i = b + n - 1 /\ vs[n].cum = C[i] - A
    <3>1. n \in 1..n
      OBVIOUS
    <3> QED
      BY <1>4, <3>1, Zenon
  <2>2. i = t
    <3>1. b \in Int /\ t \in Int /\ i \in Int
      OBVIOUS
    <3>2. (b + n) - 1 = t
      BY <1>1, <3>1
    <3> QED
      BY <2>1, <3>1, <3>2
  <2> QED
    BY <2>1, <2>2, Zenon
<1> QED
  BY <1>1, <1>6, <1>8, <1>9, <1>10, <1>11, Zenon DEF Carried

\* The first i segments are on the path one after the other, each from its B on.
Marked(path, B, i) ==
  /\ \A j \in 1..Len(path) :
       /\ path[j].segment \in 0..i
       /\ path[j].segment # 0 => B[path[j].segment] <= path[j].cum
  /\ \A j, k \in 1..Len(path) : j <= k => path[j].segment <= path[k].segment
  /\ \A s \in 1..i : \E j \in 1..Len(path) : path[j].segment = s /\ path[j].cum = B[s]

\* A path that stays on one segment.
LEMMA OnTheFirst ==
  ASSUME NEW path \in Path, AllOn(path, 0), NEW B
  PROVE  Marked(path, B, 0)
<1>1. PICK n \in Nat : n = Len(path)
  BY DEF Path
<1>2. \A j \in 1..n : path[j].segment = 0
  BY <1>1 DEF AllOn
<1>3. 1..0 = {}
  OBVIOUS
<1> QED
  BY <1>1, <1>2, <1>3 DEF Marked

\* And one segment more, from its B on.
LEMMA MarkedJoin ==
  ASSUME NEW p \in Path, NEW q \in Path, NEW i \in Nat, NEW B, Marked(p, B, i), AllOn(q, i + 1),
         q[1].cum = B[i + 1], \A j \in 1..Len(q) : B[i + 1] <= q[j].cum
  PROVE  Marked(p \o q, B, i + 1)
<1>1. PICK n \in Nat \ {0}, m \in Nat \ {0} : n = Len(p) /\ m = Len(q)
  BY DEF Path
<1>2. p \in Seq(Vertex) /\ q \in Seq(Vertex)
  BY DEF Path
<1>3. PICK both : both = p \o q
  BY Zenon
<1>4. /\ Len(both) = n + m
      /\ \A j \in 1..n : both[j] = p[j]
      /\ \A j \in 1..m : both[n + j] = q[j]
  BY <1>1, <1>2, <1>3
<1>5. \A j \in n + 1..n + m : both[j].segment = i + 1 /\ B[i + 1] <= both[j].cum
  <2> TAKE j \in n + 1..n + m
  <2>1. PICK k \in 1..m : k = j - n /\ n + k = j
    OBVIOUS
  <2>2. both[j] = q[k] /\ q[k].segment = i + 1
    BY <1>1, <1>4, <2>1, Zenon DEF AllOn
  <2> QED
    BY <1>1, <2>2
<1>6. \A j \in 1..n : both[j].segment \in 0..i /\ (both[j].segment # 0 => B[both[j].segment] <= both[j].cum)
  BY <1>1, <1>4 DEF Marked
<1>7. \A j \in 1..n + m : j \in 1..n \/ j \in n + 1..n + m
  OBVIOUS
<1>8. \A j \in 1..n + m : /\ both[j].segment \in 0..i + 1
                          /\ both[j].segment # 0 => B[both[j].segment] <= both[j].cum
  <2> TAKE j \in 1..n + m
  <2>1. CASE j \in 1..n
    BY <1>6, <2>1
  <2>2. CASE j \in n + 1..n + m
    <3>1. both[j].segment = i + 1 /\ B[i + 1] <= both[j].cum
      BY <1>5, <2>2
    <3>2. i + 1 \in 0..i + 1
      OBVIOUS
    <3> QED
      BY <3>1, <3>2
  <2> QED
    BY <1>7, <2>1, <2>2
<1>9. ASSUME NEW j \in 1..n + m, NEW k \in 1..n + m, j <= k
      PROVE  both[j].segment <= both[k].segment
  <2>1. CASE k \in 1..n
    <3>1. j \in 1..n
      BY <1>9, <2>1
    <3>2. p[j].segment <= p[k].segment
      BY <1>1, <1>9, <2>1, <3>1 DEF Marked
    <3> QED
      BY <1>4, <2>1, <3>1, <3>2
  <2>2. CASE k \in n + 1..n + m
    <3>1. both[k].segment = i + 1
      BY <1>5, <2>2
    <3>2. both[j].segment \in 0..i + 1
      BY <1>8
    <3> QED
      BY <3>1, <3>2
  <2> QED
    BY <1>7, <2>1, <2>2
<1>10. ASSUME NEW s \in 1..i + 1
       PROVE  \E j \in 1..n + m : both[j].segment = s /\ both[j].cum = B[s]
  <2>1. CASE s = i + 1
    <3>1. n + 1 \in 1..n + m /\ 1 \in 1..m
      OBVIOUS
    <3>2. both[n + 1] = q[1] /\ q[1].segment = i + 1
      BY <1>1, <1>4, <3>1 DEF AllOn
    <3> QED
      BY <2>1, <3>1, <3>2
  <2>2. CASE s # i + 1
    <3>1. s \in 1..i
      BY <2>2
    <3>2. PICK j \in 1..n : p[j].segment = s /\ p[j].cum = B[s]
      BY <1>1, <3>1 DEF Marked
    <3>3. j \in 1..n + m
      OBVIOUS
    <3> QED
      BY <1>4, <3>2, <3>3
  <2> QED
    BY <2>1, <2>2
<1>11. Marked(both, B, i + 1)
  BY <1>4, <1>8, <1>9, <1>10 DEF Marked
<1> QED
  BY <1>3, <1>11

\* _segment_id_at gives the last segment that begins up to there.
LEMMA SegmentOf ==
  ASSUME NEW path \in Path, Rising(path), path[1].cum = 0, NEW K \in Nat, NEW B \in [1..K -> Int],
         \A s, r \in 1..K : s <= r => B[s] <= B[r], Marked(path, B, K), NEW d \in Nat
  PROVE  /\ P!SegmentIdAt(path, d) \in 0..K
         /\ \A s \in 1..K : s <= P!SegmentIdAt(path, d) <=> B[s] <= d
<1>1. PICK n \in Nat \ {0} : n = Len(path) /\ \A j \in 1..n : path[j] \in Vertex
  BY DEF Path
<1>2. PICK cum \in [1..n -> Int] :
        /\ cum = P!Cums(path)
        /\ \A i \in 1..n : cum[i] = path[i].cum
        /\ \A i, j \in 1..n : i <= j => cum[i] <= cum[j]
  BY <1>1, AtsAndCums
<1>3. PICK b \in 0..n : b = P!BisectRight(cum, d) /\ \A i \in 1..n : i <= b <=> cum[i] <= d
  <2>1. d \in Int
    OBVIOUS
  <2> QED
    BY <1>2, <2>1, BisectSplits, Zenon
<1>4. b \in 1..n
  <2>1. 1 \in 1..n /\ cum[1] <= d
    BY <1>2
  <2> QED
    BY <1>3, <2>1
<1>5. P!Clamp(1, b, n) = b
  BY <1>4 DEF P!Clamp
<1>6. PICK q \in 0..K : q = path[b].segment
  BY <1>1, <1>4 DEF Marked
<1>7. P!SegmentIdAt(path, d) = q
  BY <1>1, <1>2, <1>3, <1>5, <1>6, Zenon DEF P!SegmentIdAt
<1>8. ASSUME NEW s \in 1..K, s <= q PROVE B[s] <= d
  <2>1. q \in 1..K
    BY <1>8
  <2>2. B[q] <= path[b].cum
    <3>1. path[b].segment # 0
      BY <1>6, <2>1
    <3>2. B[path[b].segment] <= path[b].cum
      BY <1>1, <1>4, <3>1 DEF Marked
    <3> QED
      BY <1>6, <3>2
  <2>3. path[b].cum \in Int /\ path[b].cum <= d
    BY <1>2, <1>3, <1>4
  <2>4. B[s] <= B[q] /\ B[s] \in Int /\ B[q] \in Int
    BY <1>8, <2>1
  <2> QED
    BY <2>2, <2>3, <2>4
<1>9. ASSUME NEW s \in 1..K, B[s] <= d PROVE s <= q
  <2>1. PICK j \in 1..n : path[j].segment = s /\ path[j].cum = B[s]
    BY <1>1 DEF Marked
  <2>2. j <= b
    BY <1>2, <1>3, <1>9, <2>1, Zenon
  <2>3. path[j].segment <= path[b].segment
    BY <1>1, <1>4, <2>2 DEF Marked
  <2> QED
    BY <1>6, <2>1, <2>3
<1> QED
  BY <1>6, <1>7, <1>8, <1>9

\* The road the legs make: how far each reaches, where, and in which segment.
Surveyed(legs, N, C, g, O, K, E) ==
  /\ legs \in Seq(Leg) /\ N \in Nat /\ N = Len(legs) /\ K \in Nat
  /\ Reached(legs, N, C, g) /\ g[0] = [x |-> 0, y |-> 0]
  /\ \A i \in 0..N : Len(P!Prefix(legs, i)) = C[i] + 1 /\ P!Last(P!Prefix(legs, i)) = g[C[i]]
  /\ \A d \in 0..C[N] : P!Walk(legs)[d + 1] = g[d]
  /\ Counted(legs, N, O) /\ Ends(legs, N, O, K, E)

\* Every sequence of legs can be surveyed.
LEMMA SurveyExists ==
  ASSUME NEW legs \in Seq(Leg), NEW N \in Nat, N = Len(legs)
  PROVE  \E C, g, O, K, E : Surveyed(legs, N, C, g, O, K, E)
<1>1. PICK C, g :
        /\ Reached(legs, N, C, g)
        /\ \A i \in 0..N : Len(P!Prefix(legs, i)) = C[i] + 1 /\ P!Last(P!Prefix(legs, i)) = g[C[i]]
        /\ \A d \in 0..C[N] : P!Walk(legs)[d + 1] = g[d]
  BY WalkReaches, Zenon
<1>2. PICK O : Counted(legs, N, O)
  BY OpenedCounts, Zenon
<1>3. PICK K \in Nat : K = O[N]
  <2>1. N \in 0..N /\ O \in [0..N -> Nat]
    BY <1>2 DEF Counted
  <2> QED
    BY <2>1
<1>4. PICK E : Ends(legs, N, O, K, E)
  BY <1>2, <1>3, EndsExist, Zenon
<1>5. g[0] = [x |-> 0, y |-> 0]
  <2>1. PICK p : p = [x |-> 0, y |-> 0]
    BY Zenon
  <2>2. P!Prefix(legs, 0) = <<p>>
    BY <2>1, WalksAre DEF P!Prefix
  <2>3. P!Last(<<p>>) = p
    <3>1. Len(<<p>>) = 1 /\ <<p>>[1] = p
      OBVIOUS
    <3> QED
      BY <3>1, Zenon DEF P!Last
  <2>4. 0 \in 0..N /\ C[0] = 0
    BY <1>1 DEF Reached
  <2>5. P!Last(P!Prefix(legs, 0)) = g[C[0]]
    BY <1>1, <2>4
  <2> QED
    BY <2>1, <2>2, <2>3, <2>4, <2>5, Zenon
<1>6. Surveyed(legs, N, C, g, O, K, E)
  BY <1>1, <1>2, <1>3, <1>4, <1>5 DEF Surveyed
<1> QED
  BY <1>6, Zenon

\* What is known of each leg, and of the last one of each segment.
LEMMA SurveyParts ==
  ASSUME NEW legs, NEW N, NEW C, NEW g, NEW O, NEW K, NEW E, Surveyed(legs, N, C, g, O, K, E)
  PROVE  /\ legs \in Seq(Leg) /\ N \in Nat /\ N = Len(legs) /\ K \in Nat
         /\ Reached(legs, N, C, g)
         /\ C \in [0..N -> Nat] /\ C[0] = 0 /\ g \in [0..C[N] -> Position]
         /\ \A i, j \in 0..N : i <= j => C[i] <= C[j]
         /\ E \in [0..K -> 0..N] /\ E[K] = N
         /\ \A s, r \in 0..K : s < r => E[s] < E[r]
<1>1. /\ legs \in Seq(Leg) /\ N \in Nat /\ N = Len(legs) /\ K \in Nat /\ Reached(legs, N, C, g)
      /\ Counted(legs, N, O) /\ Ends(legs, N, O, K, E)
  BY DEF Surveyed
<1>2. /\ C \in [0..N -> Nat] /\ C[0] = 0 /\ g \in [0..C[N] -> Position]
      /\ \A i, j \in 0..N : i <= j => C[i] <= C[j]
  BY <1>1 DEF Reached
<1>3. E \in [0..K -> 0..N] /\ E[K] = N
  BY <1>1 DEF Ends
<1>4. ASSUME NEW s \in 0..K, NEW r \in 0..K, s < r PROVE E[s] < E[r]
  <2>1. O[E[s]] = s /\ O[E[r]] = r
    BY <1>1 DEF Ends
  <2>2. PICK e \in 0..N, k \in 0..N : e = E[s] /\ k = E[r]
    BY <1>3
  <2>3. e <= k
    <3>1. O[e] <= r
      BY <1>4, <2>1, <2>2
    <3>2. e <= E[r] <=> O[e] <= r
      BY <1>1 DEF Ends
    <3> QED
      BY <2>2, <3>1, <3>2
  <2>4. e # k
    BY <1>4, <2>1, <2>2
  <2> QED
    BY <2>2, <2>3, <2>4
<1> QED
  BY <1>1, <1>2, <1>3, <1>4

\* The first q segments are those that begin up to x.
Begun(C, E, K, x, q) == \A s \in 1..K : s <= q <=> C[E[s - 1]] <= x

\* So many legs open a segment up to there.
LEMMA AheadIs ==
  ASSUME NEW legs, NEW N, NEW C, NEW g, NEW O, NEW K, NEW E, Surveyed(legs, N, C, g, O, K, E),
         NEW x \in Nat, NEW q \in 0..K, Begun(C, E, K, x, q)
  PROVE  P!SegmentAhead(legs, x) = q
<1>0. /\ legs \in Seq(Leg) /\ N \in Nat /\ N = Len(legs) /\ K \in Nat
      /\ \A i \in 0..N : Len(P!Prefix(legs, i)) = C[i] + 1
      /\ Counted(legs, N, O) /\ Ends(legs, N, O, K, E)
  BY DEF Surveyed
<1>1. C \in [0..N -> Nat]
  BY SurveyParts
<1>2. /\ E \in [0..K -> 0..N] /\ O[E[q]] = q /\ K = O[N]
      /\ \A s \in 0..K, i \in 0..N : i <= E[s] <=> O[i] <= s
      /\ \A s \in 0..K : O[E[s]] = s
  BY <1>0 DEF Ends
<1>3. /\ O \in [0..N -> Nat] /\ \A i \in 1..N : O[i] = O[i - 1] + (IF legs[i].opens THEN 1 ELSE 0)
      /\ \A i, j \in 0..N : i <= j => O[i] <= O[j]
      /\ \A i \in 0..N : O[i] = P!Opened(legs, i)
  BY <1>0 DEF Counted
<1>4. PICK e \in 0..N : e = E[q]
  BY <1>2
<1>5. ASSUME NEW i \in 1..N, legs[i].opens
      PROVE  i \in 1..e <=> Len(P!Prefix(legs, i - 1)) - 1 <= x
  <2>1. PICK h \in 0..N : h = i - 1 /\ i \in 0..N
    BY <1>0
  <2>2. PICK s \in Nat : s = O[h] /\ O[i] = s + 1
    BY <1>3, <1>5, <2>1
  <2>3. s + 1 <= K
    <3>1. i <= N /\ N \in 0..N
      BY <1>0
    <3>2. O[i] <= O[N]
      BY <1>3, <2>1, <3>1
    <3> QED
      BY <1>2, <2>2, <3>2
  <2>4. PICK r \in 1..K : r = s + 1 /\ r - 1 = s /\ s \in 0..K
    BY <1>0, <2>2, <2>3
  <2>5. E[s] = h
    <3>1. h <= E[s]
      BY <1>2, <2>1, <2>2, <2>4
    <3>2. ~(i <= E[s])
      BY <1>2, <2>1, <2>2, <2>4
    <3>3. E[s] \in 0..N
      BY <1>2, <2>4
    <3> QED
      BY <2>1, <3>1, <3>2, <3>3
  <2>6. i <= e <=> r <= q
    <3>1. i <= E[q] <=> O[i] <= q
      BY <1>2, <2>1
    <3> QED
      BY <1>4, <2>2, <2>4, <3>1
  <2>7. r <= q <=> C[h] <= x
    BY <2>4, <2>5 DEF Begun
  <2>8. PICK c \in Nat : c = C[h] /\ Len(P!Prefix(legs, h)) = c + 1
    BY <1>0, <1>1, Zenon
  <2>9. Len(P!Prefix(legs, i - 1)) - 1 = c
    BY <2>1, <2>8
  <2>10. i \in 1..e <=> i <= e
    BY <1>0
  <2> QED
    BY <2>6, <2>7, <2>8, <2>9, <2>10, Zenon
<1>6. {i \in DOMAIN legs : legs[i].opens /\ Len(P!Prefix(legs, i - 1)) - 1 <= x} = {i \in 1..e : legs[i].opens}
  <2>1. DOMAIN legs = 1..N /\ \A i \in 1..e : i \in 1..N
    BY <1>0
  <2> QED
    BY <1>5, <2>1, Zenon
<1>7. P!SegmentAhead(legs, x) = P!Opened(legs, e)
  BY <1>6, Zenon DEF P!SegmentAhead, P!Opened
<1> QED
  BY <1>2, <1>3, <1>4, <1>7

\* The geometry of a segment is where the legs before it, and its own, reach.
LEMMA GeometryIs ==
  ASSUME NEW legs, NEW N, NEW C, NEW g, NEW O, NEW K, NEW E, Surveyed(legs, N, C, g, O, K, E),
         NEW s \in Int, NEW b \in 0..N, NEW t \in b..N, b = P!UpToEnd(legs, s - 1), t = P!UpToEnd(legs, s)
  PROVE  P!Geometry(legs, s) = IF b = t THEN <<>> ELSE Reaches(C, g, b, t)
<1>1. CASE b = t
  BY <1>1, Zenon DEF P!Geometry
<1>2. CASE b # t
  <2>1. P!Geometry(legs, s) = [k \in 1..t - b + 1 |-> P!Last(P!Prefix(legs, b + k - 1))]
    BY <1>2, Zenon DEF P!Geometry
  <2>2. ASSUME NEW k \in 1..t - b + 1
        PROVE  P!Last(P!Prefix(legs, b + k - 1)) = g[C[b + k - 1]]
    <3>1. N \in Nat
      BY SurveyParts, Zenon
    <3>2. PICK i \in 0..N : i = b + k - 1
      BY <3>1
    <3> QED
      BY <3>2, Zenon DEF Surveyed
  <2> QED
    BY <1>2, <2>1, <2>2 DEF Reaches
<1> QED
  BY <1>1, <1>2

\* Some of the positions, as a sequence.
LEMMA ReachesType ==
  ASSUME NEW legs, NEW N, NEW C, NEW g, NEW O, NEW K, NEW E, Surveyed(legs, N, C, g, O, K, E),
         NEW b \in 0..N, NEW t \in b..N
  PROVE  Reaches(C, g, b, t) \in Seq(Position) /\ Len(Reaches(C, g, b, t)) = (t - b) + 1
<1>1. /\ N \in Nat /\ C \in [0..N -> Nat] /\ g \in [0..C[N] -> Position]
      /\ \A i, j \in 0..N : i <= j => C[i] <= C[j]
  BY SurveyParts
<1>2. PICK n \in Nat : n = (t - b) + 1 /\ n = t - b + 1
  BY <1>1
<1>3. PICK coords : coords = Reaches(C, g, b, t) /\ coords = [k \in 1..n |-> g[C[b + k - 1]]]
  BY <1>2, Zenon DEF Reaches
<1>4. ASSUME NEW k \in 1..n PROVE g[C[b + k - 1]] \in Position
  <2>1. PICK i \in 0..N : i = b + k - 1
    BY <1>1, <1>2
  <2>2. N \in 0..N /\ i <= N
    BY <1>1
  <2>3. C[i] \in 0..C[N]
    BY <1>1, <2>2
  <2> QED
    BY <1>1, <2>1, <2>3
<1>5. coords \in [1..n -> Position]
  BY <1>3, <1>4, Zenon
<1>6. coords \in Seq(Position) /\ Len(coords) = n
  BY <1>5
<1> QED
  BY <1>2, <1>3, <1>6

\* A place is a position of one.
LEMMA OnePlace ==
  ASSUME NEW p \in Position, NEW f, f = [k \in 1..0 - 0 + 1 |-> p]
  PROVE  f = <<p>>
<1>1. 0 - 0 + 1 = 1
  OBVIOUS
<1>2. f = [k \in 1..1 |-> p]
  BY <1>1
<1>3. f \in [1..1 -> Position]
  BY <1>2
<1>4. f \in Seq(Position) /\ Len(f) = 1 /\ f[1] = p
  BY <1>2, <1>3
<1>5. <<p>> \in Seq(Position) /\ Len(<<p>>) = 1 /\ <<p>>[1] = p
  OBVIOUS
<1> QED
  BY <1>4, <1>5

\* The coordinates the road begins with, and those of the segments that follow.
Mapped(road, C, g, K, E) ==
  /\ road \in RoadType
  /\ P!CurrentCoords(road) = Reaches(C, g, 0, E[0])
  /\ Len(road.upcoming) = K
  /\ \A s \in 1..K : road.upcoming[s] = Reaches(C, g, E[s - 1], E[s])

\* So is the road the legs make.
LEMMA RoadIs ==
  ASSUME NEW legs, NEW N, NEW C, NEW g, NEW O, NEW K, NEW E, Surveyed(legs, N, C, g, O, K, E),
         NEW along \in Nat, NEW reverse \in BOOLEAN, NEW road, road = P!Road(legs, along, reverse)
  PROVE  /\ Mapped(road, C, g, K, E)
         /\ road.along = along /\ road.reverse = reverse
<1>0. /\ legs \in Seq(Leg) /\ N \in Nat /\ N = Len(legs) /\ K \in Nat
      /\ C \in [0..N -> Nat] /\ C[0] = 0
      /\ E \in [0..K -> 0..N] /\ \A s, r \in 0..K : s < r => E[s] < E[r]
  BY SurveyParts
<1>1. PICK origin \in Position : origin = [x |-> 0, y |-> 0]
  <2>1. [x |-> 0, y |-> 0] \in Position
    BY DEF Position
  <2> QED
    BY <2>1
<1>2. g[0] = origin
  BY <1>1 DEF Surveyed
<1>3. /\ \A s \in 0..K : P!UpToEnd(legs, s) = E[s]
      /\ P!UpToEnd(legs, -1) = 0
      /\ P!Opened(legs, N) = K
  <2>1. Ends(legs, N, O, K, E) /\ Counted(legs, N, O) /\ N \in 0..N
    BY <1>0 DEF Surveyed
  <2>2. K = O[N] /\ O[N] = P!Opened(legs, N)
    BY <2>1 DEF Ends, Counted
  <2> QED
    BY <2>1, <2>2 DEF Ends
<1>4. PICK first \in 0..N : first = E[0]
  <2>1. 0 \in 0..K
    BY <1>0
  <2> QED
    BY <1>0, <2>1
<1>5. P!Geometry(legs, 0) = IF 0 = first THEN <<>> ELSE Reaches(C, g, 0, first)
  <2>1. PICK z \in 0..N : z = 0 /\ first \in z..N
    BY <1>0
  <2>2. 0 - 1 = -1 /\ 0 \in 0..K
    BY <1>0
  <2>3. z = P!UpToEnd(legs, 0 - 1) /\ first = P!UpToEnd(legs, 0)
    BY <1>3, <1>4, <2>1, <2>2
  <2>4. 0 \in Int
    OBVIOUS
  <2>5. P!Geometry(legs, 0) = IF z = first THEN <<>> ELSE Reaches(C, g, z, first)
    BY <2>1, <2>3, <2>4, GeometryIs
  <2> QED
    BY <2>1, <2>5
<1>6. ASSUME NEW s \in 1..K
      PROVE  /\ P!Geometry(legs, s) = Reaches(C, g, E[s - 1], E[s])
             /\ Reaches(C, g, E[s - 1], E[s]) \in Seq(Position)
  <2>1. s \in 0..K /\ s - 1 \in 0..K /\ s - 1 < s /\ s \in Int
    BY <1>0
  <2>2. PICK b \in 0..N, t \in 0..N : b = E[s - 1] /\ t = E[s] /\ b < t
    BY <1>0, <2>1, Zenon
  <2>3. t \in b..N /\ b # t
    BY <2>2
  <2>4. b = P!UpToEnd(legs, s - 1) /\ t = P!UpToEnd(legs, s)
    BY <1>3, <2>1, <2>2
  <2>5. P!Geometry(legs, s) = IF b = t THEN <<>> ELSE Reaches(C, g, b, t)
    BY <2>1, <2>3, <2>4, GeometryIs
  <2>6. Reaches(C, g, b, t) \in Seq(Position)
    BY <2>3, ReachesType
  <2> QED
    BY <2>2, <2>3, <2>5, <2>6
<1>7. Reaches(C, g, 0, first) \in Seq(Position) /\ Len(Reaches(C, g, 0, first)) = (first - 0) + 1
  <2>1. PICK z \in 0..N : z = 0 /\ first \in z..N
    BY <1>0
  <2>2. Reaches(C, g, z, first) \in Seq(Position) /\ Len(Reaches(C, g, z, first)) = (first - z) + 1
    BY <2>1, ReachesType
  <2> QED
    BY <2>1, <2>2
<1>8. PICK upcoming \in Seq(Seq(Position)) :
        /\ upcoming = [s \in 1..K |-> P!Geometry(legs, s)]
        /\ Len(upcoming) = K /\ \A s \in 1..K : upcoming[s] = Reaches(C, g, E[s - 1], E[s])
  <2>1. PICK u : u = [s \in 1..K |-> P!Geometry(legs, s)]
    BY Zenon
  <2>2. \A s \in 1..K : P!Geometry(legs, s) \in Seq(Position)
    BY <1>6
  <2>3. u \in [1..K -> Seq(Position)]
    BY <2>1, <2>2
  <2>4. u \in Seq(Seq(Position)) /\ Len(u) = K
    BY <1>0, <2>3
  <2> QED
    BY <1>6, <2>1, <2>4, Zenon
<1>9. PICK geometry \in Seq(Position) :
        geometry = P!Geometry(legs, 0) /\ geometry = IF 0 = first THEN <<>> ELSE Reaches(C, g, 0, first)
  <2>1. <<>> \in Seq(Position)
    OBVIOUS
  <2> QED
    BY <1>5, <1>7, <2>1, Zenon
<1>10. road = [geometry |-> geometry, matched |-> origin, along |-> along, upcoming |-> upcoming,
               reverse |-> reverse]
  BY <1>0, <1>1, <1>3, <1>8, <1>9 DEF P!Road
<1>11. road \in RoadType
  BY <1>10 DEF RoadType
<1>12. P!CurrentCoords(road) = Reaches(C, g, 0, first)
  <2>1. CASE first = 0
    <3>1. road.geometry = <<>> /\ road.matched = origin
      BY <1>9, <1>10, <2>1
    <3>2. P!CurrentCoords(road) = <<origin>>
      BY <3>1 DEF P!CurrentCoords
    <3>3. Reaches(C, g, 0, 0) = [k \in 1..0 - 0 + 1 |-> origin]
      <4>1. ASSUME NEW k \in 1..0 - 0 + 1 PROVE g[C[0 + k - 1]] = origin
        <5>1. 0 + k - 1 = 0
          OBVIOUS
        <5> QED
          BY <1>0, <1>2, <5>1
      <4> QED
        BY <4>1 DEF Reaches
    <3>4. Reaches(C, g, 0, 0) = <<origin>>
      BY <3>3, OnePlace
    <3> QED
      BY <2>1, <3>2, <3>4
  <2>2. CASE first # 0
    <3>1. road.geometry = Reaches(C, g, 0, first)
      BY <1>9, <1>10, <2>2
    <3>2. Reaches(C, g, 0, first) # <<>>
      <4>1. (first - 0) + 1 # 0
        OBVIOUS
      <4>2. Len(Reaches(C, g, 0, first)) # 0
        BY <1>7, <4>1
      <4> QED
        BY <4>2
    <3> QED
      BY <3>1, <3>2 DEF P!CurrentCoords
  <2> QED
    BY <2>1, <2>2
<1>13. Mapped(road, C, g, K, E)
  <2>1. road.upcoming = upcoming
    BY <1>10
  <2>2. P!CurrentCoords(road) = Reaches(C, g, 0, E[0])
    BY <1>4, <1>12
  <2>3. Len(road.upcoming) = K /\ \A s \in 1..K : road.upcoming[s] = Reaches(C, g, E[s - 1], E[s])
    BY <1>8, <2>1, Zenon
  <2> QED
    BY <1>11, <2>2, <2>3, Zenon DEF Mapped
<1> QED
  BY <1>10, <1>13

\* The segment a vehicle is on goes along the walk.
LEMMA CurrentFollows ==
  ASSUME NEW legs, NEW N, NEW C, NEW g, NEW O, NEW K, NEW E, Surveyed(legs, N, C, g, O, K, E),
         NEW road, Mapped(road, C, g, K, E), NEW path, NEW L, Drawn(road, path, L)
  PROVE  Course(path, g, C[N], C[E[0]]) /\ AllOn(path, 0)
<1>1. /\ legs \in Seq(Leg) /\ N \in Nat /\ N = Len(legs) /\ K \in Nat
      /\ Reached(legs, N, C, g)
      /\ C \in [0..N -> Nat] /\ C[0] = 0 /\ g \in [0..C[N] -> Position]
      /\ \A i, j \in 0..N : i <= j => C[i] <= C[j]
      /\ E \in [0..K -> 0..N]
  BY SurveyParts
<1>2. PICK t \in 0..N : t = E[0]
  <2>1. 0 \in 0..K
    BY <1>1
  <2> QED
    BY <1>1, <2>1
<1>3. PICK b \in 0..N : b = 0 /\ t \in b..N
  BY <1>1
<1>4. path = P!Vertices(Reaches(C, g, b, t), 0, 0)
  BY <1>2, <1>3 DEF Mapped, Drawn
<1>5. PICK A \in Nat : A = 0 /\ C[b] - A = 0 /\ A <= C[b]
  BY <1>1, <1>3
<1>6. Stretch(path, C, g, b, t, 0, 0)
  BY <1>1, <1>3, <1>4, VerticesStretch
<1>7. PICK offset, s : offset = C[b] - A /\ s = 0 /\ Stretch(path, C, g, b, t, offset, s)
  BY <1>5, <1>6
<1>8. PICK R \in Nat : R = C[N]
  <2>1. N \in 0..N
    BY <1>1
  <2> QED
    BY <1>1, <2>1, Zenon
<1>9. \A i \in 0..N : C[i] \in Nat /\ C[i] - A = C[i] /\ C[i] <= R
  <2> TAKE i \in 0..N
  <2>1. N \in 0..N /\ i <= N
    BY <1>1
  <2> QED
    BY <1>1, <1>5, <1>8, <2>1
<1>10. \A i \in b + 1..t : Straight(g, C[i - 1] - A, C[i] - A)
  <2> TAKE i \in b + 1..t
  <2>1. i \in 1..N /\ i - 1 \in 0..N /\ i \in 0..N
    BY <1>1, <1>3
  <2>2. Straight(g, C[i - 1], C[i])
    BY <1>1, <2>1, LegIs, Zenon
  <2> QED
    BY <1>9, <2>1, <2>2
<1>11. \A i \in b..t : g[C[i] - A] = g[C[i]]
  <2> TAKE i \in b..t
  <2>1. i \in 0..N
    BY <1>1, <1>3
  <2> QED
    BY <1>9, <2>1
<1>12. g \in [0..R -> Position] /\ C[t] - A <= R
  BY <1>1, <1>8, <1>9
<1>13. /\ Follows(path, g, R) /\ AllOn(path, s)
       /\ path[1].cum = C[b] - A /\ path[Len(path)].cum = C[t] - A
  <2>1. Shortened(N, C, g, b, t, A, g, R)
    BY <1>1, <1>5, <1>10, <1>11, <1>12, Zenon DEF Shortened
  <2>2. Carried(path, C, b, t, A, g, R, s)
    BY <1>1, <1>3, <1>7, <1>12, <2>1, StretchFollows, Zenon
  <2> QED
    BY <2>2 DEF Carried
<1>14. path[1].cum = 0 /\ path[Len(path)].cum = C[t] /\ C[t] \in Nat
  BY <1>5, <1>9, <1>13
<1> QED
  BY <1>2, <1>7, <1>8, <1>13, <1>14 DEF Course

\* A vehicle is along on the road: the course that is left, and where segments begin on it.
Left(N, C, g, K, E, along, h, R, B) ==
  /\ along \in Nat /\ along <= C[E[0]] /\ R = C[N] - along /\ h = Rest(g, C[N], along)
  /\ B = [s \in 1..K |-> C[E[s - 1]] - along]

\* What is ahead of a vehicle is a road too.
LEMMA LeftParts ==
  ASSUME NEW legs, NEW N, NEW C, NEW g, NEW O, NEW K, NEW E, Surveyed(legs, N, C, g, O, K, E),
         NEW along, NEW h, NEW R, NEW B, Left(N, C, g, K, E, along, h, R, B)
  PROVE  /\ along \in Nat /\ R \in Nat /\ R = C[N] - along /\ h \in [0..R -> Position]
         /\ \A d \in 0..R : along + d \in 0..C[N] /\ h[d] = g[along + d]
         /\ \A s \in 0..K : along <= C[E[s]]
         /\ \A s \in 1..K : B[s] = C[E[s - 1]] - along
<1>1. /\ N \in Nat /\ K \in Nat /\ C \in [0..N -> Nat] /\ g \in [0..C[N] -> Position]
      /\ \A i, j \in 0..N : i <= j => C[i] <= C[j]
      /\ E \in [0..K -> 0..N] /\ \A s, r \in 0..K : s < r => E[s] < E[r]
  BY SurveyParts
<1>2. /\ along \in Nat /\ along <= C[E[0]] /\ R = C[N] - along /\ h = Rest(g, C[N], along)
      /\ B = [s \in 1..K |-> C[E[s - 1]] - along]
  BY DEF Left
<1>3. ASSUME NEW s \in 0..K PROVE along <= C[E[s]] /\ C[E[s]] \in Nat /\ C[E[s]] <= C[N]
  <2>1. 0 \in 0..K /\ N \in 0..N
    BY <1>1
  <2>2. PICK e \in 0..N, f \in 0..N : e = E[0] /\ f = E[s]
    BY <1>1, <2>1
  <2>3. e <= f /\ f <= N
    <3>1. CASE s = 0
      BY <2>2, <3>1
    <3>2. CASE s # 0
      <4>1. 0 < s
        BY <3>2
      <4> QED
        BY <1>1, <2>1, <2>2, <4>1
    <3> QED
      BY <3>1, <3>2
  <2>4. C[e] <= C[f] /\ C[f] <= C[N] /\ C[e] \in Nat /\ C[f] \in Nat
    BY <1>1, <2>1, <2>3
  <2> QED
    BY <1>2, <2>2, <2>4
<1>4. PICK M \in Nat : M = C[N]
  <2>1. N \in 0..N
    BY <1>1
  <2> QED
    BY <1>1, <2>1
<1>5. along <= M
  <2>1. 0 \in 0..K
    BY <1>1
  <2>2. C[E[0]] \in Nat /\ C[E[0]] <= M
    BY <1>3, <1>4, <2>1
  <2> QED
    BY <1>2, <1>4, <2>2
<1>6. R \in Nat /\ R = M - along
  BY <1>2, <1>4, <1>5
<1>7. h = [d \in 0..R |-> g[along + d]]
  BY <1>2, <1>4, <1>6 DEF Rest
<1>8. \A d \in 0..R : along + d \in 0..M
  BY <1>2, <1>6
<1>9. h \in [0..R -> Position]
  BY <1>1, <1>4, <1>7, <1>8
<1> QED
  BY <1>2, <1>3, <1>4, <1>6, <1>7, <1>8, <1>9

\* From b to t the course left is the walk, but that much shorter.
LEMMA LeftIsShortened ==
  ASSUME NEW legs, NEW N, NEW C, NEW g, NEW O, NEW K, NEW E, Surveyed(legs, N, C, g, O, K, E),
         NEW along, NEW h, NEW R, NEW B, Left(N, C, g, K, E, along, h, R, B),
         NEW b \in 0..N, NEW t \in b..N, along <= C[b]
  PROVE  Shortened(N, C, g, b, t, along, h, R)
<1>1. /\ legs \in Seq(Leg) /\ N \in Nat /\ N = Len(legs) /\ Reached(legs, N, C, g)
      /\ C \in [0..N -> Nat] /\ g \in [0..C[N] -> Position]
      /\ \A i, j \in 0..N : i <= j => C[i] <= C[j]
  BY SurveyParts
<1>2. /\ along \in Nat /\ R \in Nat /\ R = C[N] - along /\ h \in [0..R -> Position]
      /\ \A d \in 0..R : along + d \in 0..C[N] /\ h[d] = g[along + d]
  BY LeftParts
<1>3. PICK M \in Nat : M = C[N] /\ R = M - along
  <2>1. N \in 0..N
    BY <1>1
  <2> QED
    BY <1>1, <1>2, <2>1, Zenon
<1>4. ASSUME NEW i \in b..t PROVE i \in 0..N /\ C[i] \in Nat /\ along <= C[i] /\ C[i] <= M
  <2>1. b \in 0..N /\ i \in 0..N /\ N \in 0..N /\ b <= i /\ i <= N
    BY <1>1
  <2>2. C[b] <= C[i] /\ C[i] <= C[N] /\ C[b] \in Nat /\ C[i] \in Nat
    BY <1>1, <2>1
  <2> QED
    BY <1>2, <1>3, <2>1, <2>2
<1>5. ASSUME NEW i \in b..t PROVE h[C[i] - along] = g[C[i]]
  <2>1. PICK c \in Nat : c = C[i] /\ along <= c /\ c <= M
    BY <1>4
  <2>2. PICK d \in Nat : d = c - along /\ along + d = c /\ d <= R
    BY <1>2, <1>3, <2>1
  <2>3. d \in 0..R
    BY <1>2, <2>2
  <2> QED
    BY <1>2, <2>1, <2>2, <2>3, Zenon
<1>6. ASSUME NEW i \in b + 1..t PROVE Straight(h, C[i - 1] - along, C[i] - along)
  <2>1. i \in 1..N /\ i \in b..t /\ i - 1 \in b..t /\ i - 1 \in 0..N /\ i \in 0..N /\ i - 1 <= i
    BY <1>1
  <2>2. PICK c \in Nat, e \in Nat : c = C[i - 1] /\ e = C[i] /\ along <= c /\ e <= M
    BY <1>4, <2>1
  <2>3. c <= e
    BY <1>1, <2>1, <2>2, Zenon
  <2>4. Straight(g, c, e)
    BY <1>1, <2>1, <2>2, LegIs, Zenon
  <2>5. Straight(Rest(g, M, along), c - along, e - along)
    BY <1>2, <2>2, <2>3, <2>4, StraightLater, Zenon
  <2>6. h = Rest(g, M, along)
    BY <1>3 DEF Left
  <2> QED
    BY <2>2, <2>5, <2>6
<1>7. C[t] - along <= R
  <2>1. t \in b..t
    BY <1>1
  <2>2. PICK c \in Nat : c = C[t] /\ c <= M
    BY <1>4, <2>1
  <2> QED
    BY <1>2, <1>3, <2>2
<1> QED
  BY <1>1, <1>5, <1>6, <1>7, Zenon DEF Shortened

\* The path goes along the course that is left, to the end of segment i.
UpToSegment(path, C, E, along, h, R, B, i) ==
  Course(path, h, R, C[E[i]] - along) /\ Marked(path, B, i)

\* One segment more.
LEMMA SegmentJoins ==
  ASSUME NEW legs, NEW N, NEW C, NEW g, NEW O, NEW K, NEW E, Surveyed(legs, N, C, g, O, K, E),
         NEW road, Mapped(road, C, g, K, E),
         NEW along, NEW h, NEW R, NEW B, Left(N, C, g, K, E, along, h, R, B),
         NEW i \in 0..K, NEW s \in 1..K, s = i + 1, NEW path, UpToSegment(path, C, E, along, h, R, B, i)
  PROVE  UpToSegment(path \o P!Vertices(road.upcoming[s], P!Last(path).cum, s), C, E, along, h, R, B, s)
<1>1. /\ legs \in Seq(Leg) /\ N \in Nat /\ N = Len(legs) /\ K \in Nat /\ Reached(legs, N, C, g)
      /\ C \in [0..N -> Nat]
      /\ E \in [0..K -> 0..N] /\ \A q, r \in 0..K : q < r => E[q] < E[r]
  BY SurveyParts
<1>2. /\ along \in Nat /\ R \in Nat /\ h \in [0..R -> Position]
      /\ \A r \in 0..K : along <= C[E[r]]
      /\ \A r \in 1..K : B[r] = C[E[r - 1]] - along
  BY LeftParts
<1>3. PICK b \in 0..N, t \in 0..N : b = E[i] /\ t = E[s] /\ b < t
  <2>1. i < s /\ s \in 0..K
    BY <1>1
  <2> QED
    BY <1>1, <2>1
<1>4. t \in b..N /\ along <= C[b] /\ along <= C[t] /\ C[b] \in Nat /\ C[t] \in Nat
  <2>1. s \in 0..K
    BY <1>1
  <2> QED
    BY <1>1, <1>2, <1>3, <2>1
<1>5. PICK offset \in Nat : offset = C[b] - along /\ offset = B[s]
  <2>1. s - 1 = i
    BY <1>1
  <2>2. C[b] - along \in Nat
    BY <1>2, <1>4
  <2> QED
    BY <1>2, <1>3, <2>1, <2>2
<1>6. Course(path, h, R, offset) /\ Marked(path, B, i)
  BY <1>3, <1>5 DEF UpToSegment
<1>7. PICK n \in Nat \ {0} : n = Len(path) /\ path \in Path /\ path[1].cum = 0 /\ path[n].cum = offset
  BY <1>6, CourseParts
<1>8. P!Last(path).cum = offset
  BY <1>7 DEF P!Last
<1>9. PICK vs : vs = P!Vertices(Reaches(C, g, b, t), offset, s)
  OBVIOUS
<1>10. P!Vertices(road.upcoming[s], P!Last(path).cum, s) = vs
  <2>1. road.upcoming[s] = Reaches(C, g, E[s - 1], E[s])
    BY Zenon DEF Mapped
  <2>2. s - 1 = i
    BY <1>1
  <2> QED
    BY <1>3, <1>8, <1>9, <2>1, <2>2
<1>11. Stretch(vs, C, g, b, t, offset, s)
  <2>1. s \in Nat
    BY <1>1
  <2> QED
    BY <1>1, <1>4, <1>9, <2>1, VerticesStretch, Zenon
<1>12. Shortened(N, C, g, b, t, along, h, R)
  BY <1>4, LeftIsShortened
<1>13. Carried(vs, C, b, t, along, h, R, s)
  BY <1>1, <1>2, <1>4, <1>5, <1>11, <1>12, StretchFollows, Zenon
<1>14. PICK m \in Nat \ {0} :
        /\ m = Len(vs) /\ Follows(vs, h, R) /\ AllOn(vs, s)
        /\ vs[1].cum = offset /\ vs[m].cum = C[t] - along
        /\ \A j \in 1..m : offset <= vs[j].cum
  <2>1. (t - b) + 1 \in Nat \ {0}
    BY <1>3
  <2> QED
    BY <1>5, <1>13, <2>1 DEF Carried
<1>15. vs \in Path
  BY <1>14 DEF Follows
<1>16. PICK both : both = path \o vs
  BY Zenon
<1>17. /\ Follows(both, h, R) /\ Len(both) = n + m
       /\ both[1] = path[1] /\ both[n + m] = vs[m]
  <2>1. Follows(path, h, R)
    BY <1>6 DEF Course
  <2>2. path[n].cum = vs[1].cum
    BY <1>7, <1>14
  <2>3. Joined(path, vs, h, R)
    BY <1>7, <1>14, <2>1, <2>2, FollowsJoin
  <2> QED
    BY <1>7, <1>14, <1>16, <2>3 DEF Joined
<1>18. Course(both, h, R, C[t] - along)
  <2>1. C[t] - along \in Nat
    BY <1>2, <1>4
  <2> QED
    BY <1>7, <1>14, <1>17, <2>1 DEF Course
<1>19. Marked(both, B, s)
  <2>1. i \in Nat /\ AllOn(vs, i + 1) /\ vs[1].cum = B[i + 1]
    BY <1>1, <1>5, <1>14
  <2>2. \A j \in 1..Len(vs) : B[i + 1] <= vs[j].cum
    BY <1>5, <1>14
  <2>3. Marked(path \o vs, B, i + 1)
    BY <1>6, <1>7, <1>15, <2>1, <2>2, MarkedJoin, Zenon
  <2> QED
    BY <1>16, <2>3
<1> QED
  BY <1>3, <1>10, <1>16, <1>18, <1>19 DEF UpToSegment

\* _build_forward_path goes along all that is left.
LEMMA ForwardFollows ==
  ASSUME NEW legs, NEW N, NEW C, NEW g, NEW O, NEW K, NEW E, Surveyed(legs, N, C, g, O, K, E),
         NEW road, Mapped(road, C, g, K, E),
         NEW along, NEW h, NEW R, NEW B, Left(N, C, g, K, E, along, h, R, B), along = road.along
  PROVE  Course(P!BuildForwardPath(road), h, R, R) /\ Marked(P!BuildForwardPath(road), B, K)
<1>1. N \in Nat /\ K \in Nat /\ C \in [0..N -> Nat] /\ E \in [0..K -> 0..N] /\ E[K] = N
  BY SurveyParts
<1>2. along \in Nat /\ R \in Nat /\ R = C[N] - along /\ \A s \in 0..K : along <= C[E[s]]
  BY LeftParts
<1>3. PICK f \in [0..K -> Path] :
        /\ f = P!ForwardPaths(road)
        /\ f[0] = P!SliceFrom(P!Vertices(P!CurrentCoords(road), 0, 0), along)
        /\ \A i \in 1..K : f[i] = f[i - 1] \o P!Vertices(road.upcoming[i], P!Last(f[i - 1]).cum, i)
  <2>1. road \in RoadType /\ K = Len(road.upcoming)
    BY DEF Mapped
  <2> QED
    BY <1>1, <2>1, ForwardEquation, Zenon
<1> DEFINE T == {i \in Nat : i <= K => UpToSegment(f[i], C, E, along, h, R, B, i)}
<1>4. 0 \in T
  <2>1. PICK path : Drawn(road, path, along) /\ path = P!Vertices(P!CurrentCoords(road), 0, 0)
    BY DEF Drawn
  <2>2. Course(path, g, C[N], C[E[0]]) /\ AllOn(path, 0)
    BY <2>1, CurrentFollows
  <2>3. PICK M \in Nat, length \in Nat : M = C[N] /\ length = C[E[0]] /\ along <= length
    <3>1. 0 \in 0..K /\ N \in 0..N
      BY <1>1
    <3> QED
      BY <1>1, <1>2, <3>1
  <2>4. along \in 0..length /\ h = Rest(g, M, along)
    BY <1>2, <2>3 DEF Left
  <2>5. Course(path, g, M, length)
    BY <2>2, <2>3
  <2>6. /\ Course(P!SliceFrom(path, along), h, M - along, length - along)
        /\ AllOn(P!SliceFrom(path, along), 0)
    BY <2>2, <2>4, <2>5, SliceFollows
  <2>7. f[0] = P!SliceFrom(path, along) /\ f[0] \in Path
    <3>1. 0 \in 0..K
      BY <1>1
    <3> QED
      BY <1>3, <2>1, <3>1
  <2>8. Course(f[0], h, R, C[E[0]] - along) /\ AllOn(f[0], 0)
    BY <1>2, <2>3, <2>6, <2>7
  <2>9. Marked(f[0], B, 0)
    BY <2>7, <2>8, OnTheFirst
  <2> QED
    BY <2>8, <2>9 DEF UpToSegment
<1>5. ASSUME NEW i \in Nat, i \in T PROVE i + 1 \in T
  <2> SUFFICES ASSUME i + 1 <= K PROVE UpToSegment(f[i + 1], C, E, along, h, R, B, i + 1)
    OBVIOUS
  <2>1. PICK s \in 1..K : s = i + 1 /\ s - 1 = i /\ i \in 0..K
    BY <1>1
  <2>2. UpToSegment(f[i], C, E, along, h, R, B, i)
    BY <1>5, <2>1
  <2>3. f[s] = f[i] \o P!Vertices(road.upcoming[s], P!Last(f[i]).cum, s)
    BY <1>3, <2>1, Zenon
  <2>4. UpToSegment(f[s], C, E, along, h, R, B, s)
    BY <2>1, <2>2, <2>3, SegmentJoins
  <2> QED
    BY <2>1, <2>4
<1> HIDE DEF T
<1>6. K \in T
  <2>1. Nat \subseteq T
    BY <1>4, <1>5, NumberInduction
  <2> QED
    BY <1>1, <2>1
<1>7. UpToSegment(f[K], C, E, along, h, R, B, K)
  BY <1>1, <1>6 DEF T
<1>8. P!BuildForwardPath(road) = f[K]
  <2>1. K = Len(road.upcoming)
    BY DEF Mapped
  <2> QED
    BY <1>3, <2>1 DEF P!BuildForwardPath
<1> QED
  BY <1>1, <1>2, <1>7, <1>8 DEF UpToSegment

\* The path is room long, and goes along the walk from there, ahead or back.
Goes(path, room, legs, along, reverse) ==
  /\ path \in Path /\ room \in Nat /\ P!Last(path).cum = room
  /\ \A d \in 0..room :
       /\ P!PointAtDistance(P!Ats(path), P!Cums(path), d)
            = P!Walk(legs)[(IF reverse THEN along - d ELSE along + d) + 1]
       /\ P!SegmentIdAt(path, d)
            = IF reverse THEN 0 ELSE P!SegmentAhead(legs, IF reverse THEN along - d ELSE along + d)

\* The path ahead.
LEMMA ForwardGoes ==
  ASSUME NEW legs, NEW N, NEW C, NEW g, NEW O, NEW K, NEW E, Surveyed(legs, N, C, g, O, K, E),
         NEW road, Mapped(road, C, g, K, E), NEW along \in Nat, along <= C[E[0]], along = road.along
  PROVE  Goes(P!BuildForwardPath(road), C[N] - along, legs, along, FALSE)
<1>1. /\ legs \in Seq(Leg) /\ N \in Nat /\ N = Len(legs) /\ K \in Nat /\ Reached(legs, N, C, g)
      /\ C \in [0..N -> Nat] /\ \A i, j \in 0..N : i <= j => C[i] <= C[j]
      /\ E \in [0..K -> 0..N] /\ \A s, r \in 0..K : s < r => E[s] < E[r]
  BY SurveyParts
<1>2. PICK h, R, B : Left(N, C, g, K, E, along, h, R, B)
  BY Zenon DEF Left
<1>3. /\ R \in Nat /\ R = C[N] - along
      /\ \A d \in 0..R : along + d \in 0..C[N] /\ h[d] = g[along + d]
      /\ \A s \in 1..K : B[s] = C[E[s - 1]] - along
      /\ B = [s \in 1..K |-> C[E[s - 1]] - along]
  BY <1>2, LeftParts DEF Left
<1>4. PICK path : path = P!BuildForwardPath(road) /\ Course(path, h, R, R) /\ Marked(path, B, K)
  BY <1>2, ForwardFollows
<1>5. path \in Path /\ Rising(path) /\ path[1].cum = 0 /\ path[Len(path)].cum = R
  BY <1>4, CourseParts
<1>6. P!Last(path).cum = R
  BY <1>5 DEF P!Last
<1>7. ASSUME NEW s \in 1..K
      PROVE  \E c \in Nat : c = C[E[s - 1]] /\ B[s] = c - along
  <2>1. s - 1 \in 0..K
    BY <1>1
  <2> QED
    BY <1>1, <1>3, <2>1, Zenon
<1>8. B \in [1..K -> Int]
  <2>1. ASSUME NEW s \in 1..K PROVE C[E[s - 1]] - along \in Int
    BY <1>7
  <2> QED
    BY <1>3, <2>1
<1>9. ASSUME NEW s \in 1..K, NEW r \in 1..K, s <= r PROVE B[s] <= B[r]
  <2>1. PICK c \in Nat : c = C[E[s - 1]] /\ B[s] = c - along
    BY <1>7
  <2>2. PICK e \in Nat : e = C[E[r - 1]] /\ B[r] = e - along
    BY <1>7
  <2>3. PICK q \in 0..K, p \in 0..K : q = s - 1 /\ p = r - 1 /\ q <= p
    BY <1>1, <1>9
  <2>4. PICK i \in 0..N, j \in 0..N : i = E[q] /\ j = E[p] /\ i <= j
    <3>1. E[q] \in 0..N /\ E[p] \in 0..N
      BY <1>1
    <3>2. E[q] <= E[p]
      <4>1. CASE q = p
        BY <3>1, <4>1
      <4>2. CASE q # p
        <5>1. q < p
          BY <2>3, <4>2
        <5> QED
          BY <1>1, <3>1, <5>1
      <4> QED
        BY <4>1, <4>2
    <3> QED
      BY <3>1, <3>2
  <2>5. c <= e
    BY <1>1, <2>1, <2>2, <2>3, <2>4
  <2> QED
    BY <2>1, <2>2, <2>5
<1>10. ASSUME NEW d \in 0..R
       PROVE  /\ P!PointAtDistance(P!Ats(path), P!Cums(path), d) = P!Walk(legs)[(along + d) + 1]
              /\ P!SegmentIdAt(path, d) = P!SegmentAhead(legs, along + d)
  <2>1. d \in Nat /\ d <= R
    BY <1>3
  <2>2. P!PointAtDistance(P!Ats(path), P!Cums(path), d) = h[d]
    BY <1>4, <2>1, PointFollows
  <2>3. PICK x \in 0..C[N] : x = along + d /\ h[d] = g[x]
    BY <1>3
  <2>4. P!Walk(legs)[x + 1] = g[x]
    BY DEF Surveyed
  <2>5. PICK q \in 0..K : q = P!SegmentIdAt(path, d) /\ \A s \in 1..K : s <= q <=> B[s] <= d
    <3>1. /\ P!SegmentIdAt(path, d) \in 0..K
          /\ \A s \in 1..K : s <= P!SegmentIdAt(path, d) <=> B[s] <= d
      BY <1>1, <1>4, <1>5, <1>8, <1>9, <2>1, SegmentOf, Zenon
    <3> QED
      BY <3>1
  <2>6. \A s \in 1..K : s <= q <=> C[E[s - 1]] <= x
    <3> TAKE s \in 1..K
    <3>1. PICK c \in Nat : c = C[E[s - 1]] /\ B[s] = c - along
      BY <1>7
    <3>2. c - along <= d <=> c <= along + d
      BY <2>1
    <3> QED
      BY <2>3, <2>5, <3>1, <3>2
  <2>7. x \in Nat
    BY <2>1, <2>3
  <2>8. P!SegmentAhead(legs, x) = q
    <3>1. Begun(C, E, K, x, q)
      BY <2>6, Zenon DEF Begun
    <3> QED
      BY <2>7, <3>1, AheadIs
  <2> QED
    BY <2>2, <2>3, <2>4, <2>5, <2>8
<1>11. Goes(path, R, legs, along, FALSE)
  BY <1>3, <1>5, <1>6, <1>10 DEF Goes
<1> QED
  BY <1>3, <1>4, <1>11, Zenon

\* The path back.
LEMMA BackwardGoes ==
  ASSUME NEW legs, NEW N, NEW C, NEW g, NEW O, NEW K, NEW E, Surveyed(legs, N, C, g, O, K, E),
         NEW road, Mapped(road, C, g, K, E), NEW along \in Nat, along <= C[E[0]], along = road.along
  PROVE  Goes(P!BuildBackwardPath(road), along, legs, along, TRUE)
<1>1. /\ N \in Nat /\ K \in Nat
      /\ C \in [0..N -> Nat] /\ \A i, j \in 0..N : i <= j => C[i] <= C[j]
      /\ E \in [0..K -> 0..N]
  BY SurveyParts
<1>2. PICK M \in Nat, length \in Nat : M = C[N] /\ length = C[E[0]] /\ along <= length /\ length <= M
  <2>1. 0 \in 0..K /\ N \in 0..N
    BY <1>1
  <2>2. PICK e \in 0..N : e = E[0] /\ e <= N
    BY <1>1, <2>1
  <2> QED
    BY <1>1, <2>1, <2>2
<1>3. PICK from : Drawn(road, from, along)
  BY DEF Drawn
<1>4. Course(from, g, M, length) /\ AllOn(from, 0)
  BY <1>2, <1>3, CurrentFollows
<1>5. PICK h : h = Back(g, along)
  OBVIOUS
<1>6. PICK path : path = P!BuildBackwardPath(road) /\ Course(path, h, along, along) /\ AllOn(path, 0)
  <2>1. along \in 0..length /\ road \in RoadType
    BY <1>2 DEF Mapped
  <2> QED
    BY <1>3, <1>4, <1>5, <2>1, BackFollows
<1>7. path \in Path /\ Rising(path) /\ path[1].cum = 0 /\ path[Len(path)].cum = along
  BY <1>6, CourseParts
<1>8. P!Last(path).cum = along
  BY <1>7 DEF P!Last
<1>9. ASSUME NEW d \in 0..along
      PROVE  /\ P!PointAtDistance(P!Ats(path), P!Cums(path), d) = P!Walk(legs)[(along - d) + 1]
             /\ P!SegmentIdAt(path, d) = 0
  <2>1. d \in Nat /\ d <= along
    OBVIOUS
  <2>2. P!PointAtDistance(P!Ats(path), P!Cums(path), d) = h[d]
    BY <1>6, <2>1, PointFollows
  <2>3. PICK x \in 0..C[N] : x = along - d
    BY <1>2, <2>1
  <2>4. h[d] = g[x]
    BY <1>5, <2>3, BackIs
  <2>5. P!Walk(legs)[x + 1] = g[x]
    BY DEF Surveyed
  <2>6. PICK B, Z : B = [s \in 1..Z |-> 0] /\ Z = 0
    BY Zenon
  <2>7. B \in [1..Z -> Int] /\ Z \in Nat /\ \A s, r \in 1..Z : s <= r => B[s] <= B[r]
    BY <2>6
  <2>8. Marked(path, B, Z)
    BY <1>6, <1>7, <2>6, OnTheFirst
  <2>9. P!SegmentIdAt(path, d) \in 0..Z
    BY <1>7, <2>1, <2>7, <2>8, SegmentOf, Zenon
  <2> QED
    BY <2>2, <2>3, <2>4, <2>5, <2>6, <2>9
<1>10. Goes(path, along, legs, along, TRUE)
  BY <1>7, <1>8, <1>9 DEF Goes
<1> QED
  BY <1>6, <1>10, Zenon

\* The roads the reference makes lead where its walk does.
LEMMA RoadGoes ==
  ASSUME NEW legs \in Seq(Leg), NEW i \in P!Current(legs), NEW along \in 0..Len(P!Prefix(legs, i)) - 1,
         NEW reverse \in BOOLEAN
  PROVE  Goes(P!PathOf(P!Road(legs, along, reverse)),
              IF reverse THEN along ELSE Len(P!Walk(legs)) - 1 - along, legs, along, reverse)
<1>1. PICK N \in Nat : N = Len(legs)
  OBVIOUS
<1>2. PICK C, g, O, K, E : Surveyed(legs, N, C, g, O, K, E)
  BY <1>1, SurveyExists
<1>3. C \in [0..N -> Nat] /\ (\A k, j \in 0..N : k <= j => C[k] <= C[j]) /\ K \in Nat /\ E \in [0..K -> 0..N]
  BY <1>2, SurveyParts, Zenon
<1>4. \A k \in 0..N : Len(P!Prefix(legs, k)) = C[k] + 1
  BY <1>2 DEF Surveyed
<1>5. i \in 0..N /\ P!Opened(legs, i) = 0
  BY <1>1 DEF P!Current
<1>6. PICK e \in 0..N : e = E[0] /\ i <= e
  <2>1. Counted(legs, N, O) /\ Ends(legs, N, O, K, E) /\ 0 \in 0..K
    BY <1>2, <1>3 DEF Surveyed
  <2>2. O[i] = 0
    BY <1>5, <2>1 DEF Counted
  <2>3. i <= E[0] <=> O[i] <= 0
    BY <1>5, <2>1 DEF Ends
  <2> QED
    BY <1>3, <2>1, <2>2, <2>3
<1>7. PICK c \in Nat : c = C[i] /\ c <= C[E[0]] /\ along \in 0..c
  <2>1. C[i] \in Nat /\ C[i] <= C[e]
    BY <1>3, <1>5, <1>6
  <2>2. Len(P!Prefix(legs, i)) - 1 = C[i]
    BY <1>4, <1>5, <2>1
  <2> QED
    BY <1>6, <2>1, <2>2
<1>8. along \in Nat /\ along <= C[E[0]]
  <2>1. C[e] \in Nat
    BY <1>3
  <2> QED
    BY <1>6, <1>7, <2>1
<1>9. PICK road : road = P!Road(legs, along, reverse)
  OBVIOUS
<1>10. Mapped(road, C, g, K, E) /\ along = road.along /\ road.reverse = reverse
  BY <1>2, <1>8, <1>9, RoadIs
<1>11. CASE reverse
  <2>1. P!PathOf(road) = P!BuildBackwardPath(road)
    BY <1>10, <1>11 DEF P!PathOf
  <2>2. Goes(P!BuildBackwardPath(road), along, legs, along, TRUE)
    BY <1>2, <1>8, <1>10, BackwardGoes, Zenon
  <2>3. reverse = TRUE
    BY <1>11
  <2> QED
    BY <1>9, <1>11, <2>1, <2>2, <2>3, Zenon
<1>12. CASE ~reverse
  <2>1. P!PathOf(road) = P!BuildForwardPath(road)
    BY <1>10, <1>12 DEF P!PathOf
  <2>2. Goes(P!BuildForwardPath(road), C[N] - along, legs, along, FALSE)
    BY <1>2, <1>8, <1>10, ForwardGoes, Zenon
  <2>3. reverse = FALSE
    BY <1>12
  <2>4. Len(P!Walk(legs)) - 1 - along = C[N] - along
    <3>1. P!Walk(legs) = P!Prefix(legs, N) /\ N \in 0..N
      BY <1>1 DEF P!Walk
    <3>2. Len(P!Walk(legs)) = C[N] + 1 /\ C[N] \in Nat
      BY <1>3, <1>4, <3>1
    <3> QED
      BY <1>8, <3>2
  <2> QED
    BY <1>9, <1>12, <2>1, <2>2, <2>3, <2>4, Zenon
<1> QED
  BY <1>11, <1>12

\* A vehicle has not moved at first, and never moves back.
LEMMA DistanceGrows ==
  ASSUME NEW speed \in Int, NEW a \in Int
  PROVE  \A n, m \in Nat : /\ P!Kinematics(speed, a, n).distance \in Nat
                           /\ n <= m => P!Kinematics(speed, a, n).distance <= P!Kinematics(speed, a, m).distance
<1>1. PICK f : f = [n \in Nat |-> P!Kinematics(speed, a, n).distance]
  BY Zenon
<1>2. \A n \in Nat : f[n] \in Int /\ f[n] <= f[n + 1]
  <2> TAKE n \in Nat
  <2>1. f[n] = P!Kinematics(speed, a, n).distance /\ f[n + 1] = P!Kinematics(speed, a, n + 1).distance
    BY <1>1
  <2> QED
    BY <2>1, DistanceRises
<1>3. f[0] = 0
  <2>1. P!Kinematics(speed, a, 0).distance = 0
    BY DEF P!Kinematics
  <2> QED
    BY <1>1, <2>1
<1>4. ASSUME NEW n \in Nat, NEW k \in Nat PROVE f[n] <= f[n + k]
  <2> DEFINE T == {j \in Nat : f[n] <= f[n + j]}
  <2>1. 0 \in T
    BY <1>2
  <2>2. ASSUME NEW j \in Nat, j \in T PROVE j + 1 \in T
    <3>1. PICK m \in Nat : m = n + j /\ m + 1 = n + (j + 1)
      OBVIOUS
    <3>2. f[n] <= f[m] /\ f[m] <= f[m + 1]
      BY <1>2, <2>2, <3>1
    <3>3. f[n] \in Int /\ f[m] \in Int /\ f[m + 1] \in Int
      BY <1>2
    <3>4. f[n] <= f[m + 1]
      BY <3>2, <3>3
    <3> QED
      BY <3>1, <3>4
  <2>3. Nat \subseteq T
    <3> HIDE DEF T
    <3> QED
      BY <2>1, <2>2, NumberInduction
  <2> QED
    BY <2>3
<1>5. ASSUME NEW n \in Nat, NEW m \in Nat
      PROVE  f[n] \in Nat /\ (n <= m => f[n] <= f[m])
  <2>1. f[0] <= f[n] /\ f[n] \in Int
    <3>1. PICK z \in Nat : z = 0 /\ z + n = n
      OBVIOUS
    <3>2. f[z] <= f[z + n]
      BY <1>4
    <3> QED
      BY <1>2, <3>1, <3>2
  <2>2. ASSUME n <= m PROVE f[n] <= f[m]
    <3>1. PICK k \in Nat : n + k = m
      <4>1. m - n \in Nat /\ n + (m - n) = m
        BY <2>2
      <4> QED
        BY <4>1
    <3> QED
      BY <1>4, <3>1
  <2> QED
    BY <1>3, <2>1, <2>2
<1> QED
  BY <1>1, <1>5

\* What the points of a prediction say.
LEMMA PointsSay ==
  ASSUME NEW path, NEW moved, NEW i \in 1..Cardinality(P!Fitting(path, moved)),
         NEW p, p = P!PointsAlong(path, moved)[i]
  PROVE  /\ p.t = Horizons[i] /\ p.distance = moved[i].distance
         /\ p.at = P!PointAtDistance(P!Ats(path), P!Cums(path), moved[i].distance)
         /\ p.segment = P!SegmentIdAt(path, moved[i].distance)
<1>1. PICK c : c = Cardinality(P!Fitting(path, moved)) /\ c = P!Cardinality(P!Fitting(path, moved))
  BY SameCardinality
<1>2. P!PointsAlong(path, moved) =
        [j \in 1..c |->
           [t |-> Horizons[j], distance |-> moved[j].distance, speed |-> moved[j].speed,
            at |-> P!PointAtDistance(P!Ats(path), P!Cums(path), moved[j].distance),
            segment |-> P!SegmentIdAt(path, moved[j].distance)]]
  BY <1>1, Zenon DEF P!PointsAlong
<1>3. i \in 1..c
  BY <1>1
<1> QED
  BY <1>2, <1>3

\* The horizons a path is long enough for are the first ones.
LEMMA FirstFit ==
  ASSUME NEW path, NEW room \in Nat, P!Last(path).cum = room, NEW moved, NEW H \in Nat, H = Len(Horizons),
         \A i \in 1..H : moved[i].distance \in Nat,
         \A i, j \in 1..H : i <= j => moved[i].distance <= moved[j].distance
  PROVE  /\ Cardinality(P!Fitting(path, moved)) \in 0..H
         /\ \A i \in 1..H : i <= Cardinality(P!Fitting(path, moved)) <=> moved[i].distance <= room
<1>1. DOMAIN Horizons = 1..H
  BY HorizonsAssumption
<1>2. PICK U : U = {i \in 1..H : moved[i].distance <= room}
  BY Zenon
<1>3. P!Fitting(path, moved) = U
  <2>1. ASSUME NEW i \in 1..H
        PROVE  (\A j \in 1..i : moved[j].distance <= room) <=> moved[i].distance <= room
    <3>1. i \in 1..i
      OBVIOUS
    <3>2. ASSUME moved[i].distance <= room, NEW j \in 1..i PROVE moved[j].distance <= room
      <4>1. j \in 1..H /\ j <= i
        OBVIOUS
      <4>2. PICK x \in Nat, y \in Nat : x = moved[j].distance /\ y = moved[i].distance /\ x <= y
        BY <4>1
      <4> QED
        BY <3>2, <4>2
    <3> QED
      BY <3>1, <3>2
  <2> QED
    BY <1>1, <1>2, <2>1 DEF P!Fitting
<1>4. \A i \in 1..H : \A j \in U : i <= j => i \in U
  <2> TAKE i \in 1..H
  <2> TAKE j \in U
  <2> HAVE i <= j
  <2>1. j \in 1..H /\ moved[j].distance <= room
    BY <1>2
  <2>2. PICK x \in Nat, y \in Nat : x = moved[i].distance /\ y = moved[j].distance /\ x <= y
    BY <2>1
  <2> QED
    BY <1>2, <2>1, <2>2
<1>5. U \subseteq 1..H
  BY <1>2
<1>6. Cardinality(U) \in 0..H /\ \A i \in 1..H : i <= Cardinality(U) <=> i \in U
  BY <1>4, <1>5, PrefixCount, Zenon
<1> QED
  BY <1>2, <1>3, <1>6

\* predict_trajectory: the points are on the road, on their segments, and there
\* is one for each horizon the known road is long enough for.
LEMMA PointsFollowTheRoad ==
  ASSUME NEW legs \in Seq(Leg), NEW i \in P!Current(legs), NEW along \in 0..Len(P!Prefix(legs, i)) - 1,
         NEW reverse \in BOOLEAN, NEW speed \in Int, NEW a \in Int, NEW age \in Nat
  PROVE  P!PredictedOnTheRoad(legs, along, reverse, speed, a, age)
<1>1. PICK path, room : /\ path = P!PathOf(P!Road(legs, along, reverse))
                        /\ room = (IF reverse THEN along ELSE Len(P!Walk(legs)) - 1 - along)
  OBVIOUS
<1>2. Goes(path, room, legs, along, reverse)
  BY <1>1, RoadGoes
<1>3. /\ room \in Nat /\ P!Last(path).cum = room
      /\ \A d \in 0..room :
           /\ P!PointAtDistance(P!Ats(path), P!Cums(path), d)
                = P!Walk(legs)[(IF reverse THEN along - d ELSE along + d) + 1]
           /\ P!SegmentIdAt(path, d)
                = IF reverse THEN 0 ELSE P!SegmentAhead(legs, IF reverse THEN along - d ELSE along + d)
  BY <1>2 DEF Goes
<1>4. PICK moved : moved = [j \in DOMAIN Horizons |-> P!Kinematics(speed, a, age + Horizons[j])]
  BY Zenon
<1>5. PICK points : points = P!PointsAlong(path, moved)
  OBVIOUS
<1>6. points = P!PredictPoints(P!Road(legs, along, reverse), speed, a, age)
  BY <1>1, <1>4, <1>5, Zenon DEF P!PredictPoints
<1>7. PICK H \in Nat : /\ H = Len(Horizons) /\ DOMAIN Horizons = 1..H
                       /\ \A j \in 1..H : Horizons[j] \in Nat
                       /\ \A j, k \in 1..H : j < k => Horizons[j] < Horizons[k]
  BY HorizonsAssumption
<1>8. ASSUME NEW j \in 1..H
      PROVE  /\ moved[j] = P!Kinematics(speed, a, age + Horizons[j])
             /\ moved[j].distance \in Nat
             /\ \A k \in 1..H : j <= k => moved[j].distance <= moved[k].distance
  <2>1. \A k \in 1..H : moved[k] = P!Kinematics(speed, a, age + Horizons[k])
    BY <1>4, <1>7, Zenon
  <2>2. PICK n \in Nat : n = age + Horizons[j]
    BY <1>7
  <2>3. moved[j].distance \in Nat
    BY <2>1, <2>2, DistanceGrows, Zenon
  <2>4. ASSUME NEW k \in 1..H, j <= k PROVE moved[j].distance <= moved[k].distance
    <3>1. PICK m \in Nat : m = age + Horizons[k]
      BY <1>7
    <3>2. n <= m
      <4>1. CASE j = k
        BY <2>2, <3>1, <4>1
      <4>2. CASE j # k
        <5>1. j < k
          BY <2>4, <4>2
        <5>2. Horizons[j] < Horizons[k] /\ Horizons[j] \in Nat /\ Horizons[k] \in Nat
          BY <1>7, <5>1
        <5> QED
          BY <2>2, <3>1, <5>2
      <4> QED
        BY <4>1, <4>2
    <3>3. moved[j] = P!Kinematics(speed, a, n) /\ moved[k] = P!Kinematics(speed, a, m)
      BY <2>1, <2>2, <3>1
    <3> QED
      BY <3>2, <3>3, DistanceGrows
  <2> QED
    BY <2>1, <2>3, <2>4, Zenon
<1>9. PICK c \in 0..H : /\ c = Cardinality(P!Fitting(path, moved))
                        /\ \A j \in 1..H : j <= c <=> moved[j].distance <= room
  <2>1. \A j \in 1..H : moved[j].distance \in Nat
    BY <1>8
  <2>2. \A j, k \in 1..H : j <= k => moved[j].distance <= moved[k].distance
    BY <1>8
  <2> QED
    BY <1>3, <1>7, <2>1, <2>2, FirstFit, Zenon
<1>10. DOMAIN points = 1..c
  BY <1>5, <1>9, PointsFit
<1>11. ASSUME NEW j \in 1..c
       PROVE  /\ points[j].t = Horizons[j] /\ points[j].distance = moved[j].distance
              /\ points[j].distance \in 0..room
              /\ points[j].at = P!PointAtDistance(P!Ats(path), P!Cums(path), points[j].distance)
              /\ points[j].segment = P!SegmentIdAt(path, points[j].distance)
  <2>1. /\ points[j].t = Horizons[j] /\ points[j].distance = moved[j].distance
        /\ points[j].at = P!PointAtDistance(P!Ats(path), P!Cums(path), moved[j].distance)
        /\ points[j].segment = P!SegmentIdAt(path, moved[j].distance)
    BY <1>5, <1>9, PointsSay
  <2>2. j \in 1..H /\ j <= c
    BY <1>9
  <2>3. moved[j].distance \in Nat /\ moved[j].distance <= room
    BY <1>8, <1>9, <2>2
  <2> QED
    BY <1>3, <2>1, <2>3
<1>12. P!ToSet(points) = {points[j] : j \in 1..c}
  BY <1>10, Zenon DEF P!ToSet
<1>13. P!ToSet(Horizons) = {Horizons[j] : j \in 1..H}
  BY <1>7, Zenon DEF P!ToSet
<1>14. {p.t : p \in P!ToSet(points)} =
         {t \in P!ToSet(Horizons) : P!Kinematics(speed, a, age + t).distance <= room}
  <2>1. ASSUME NEW j \in 1..c
        PROVE  /\ points[j].t \in P!ToSet(Horizons)
               /\ P!Kinematics(speed, a, age + points[j].t).distance <= room
    <3>1. j \in 1..H /\ j <= c
      BY <1>9
    <3>2. moved[j].distance <= room /\ moved[j] = P!Kinematics(speed, a, age + Horizons[j])
      BY <1>8, <1>9, <3>1
    <3> QED
      BY <1>11, <1>13, <3>1, <3>2
  <2>2. ASSUME NEW t \in P!ToSet(Horizons), P!Kinematics(speed, a, age + t).distance <= room
        PROVE  \E p \in P!ToSet(points) : t = p.t
    <3>1. PICK j \in 1..H : t = Horizons[j]
      BY <1>13
    <3>2. moved[j].distance <= room
      BY <1>8, <2>2, <3>1
    <3>3. j \in 1..c
      BY <1>9, <3>2
    <3>4. points[j].t = t
      BY <1>11, <3>1, <3>3
    <3> QED
      BY <1>12, <3>3, <3>4
  <2> QED
    BY <1>12, <2>1, <2>2
<1>15. ASSUME NEW p \in P!ToSet(points)
       PROVE  /\ p.at = P!Walk(legs)[(IF reverse THEN along - p.distance ELSE along + p.distance) + 1]
              /\ p.segment = IF reverse THEN 0
                             ELSE P!SegmentAhead(legs, IF reverse THEN along - p.distance ELSE along + p.distance)
  <2>1. PICK j \in 1..c : p = points[j]
    BY <1>12
  <2>2. /\ p.distance \in 0..room
        /\ p.at = P!PointAtDistance(P!Ats(path), P!Cums(path), p.distance)
        /\ p.segment = P!SegmentIdAt(path, p.distance)
    BY <1>11, <2>1
  <2> QED
    BY <1>3, <2>2
<1>16. {p.t : p \in P!ToSet(P!PredictPoints(P!Road(legs, along, reverse), speed, a, age))} =
         {t \in P!ToSet(Horizons) :
            P!Kinematics(speed, a, age + t).distance <=
              IF reverse THEN along ELSE Len(P!Walk(legs)) - 1 - along}
  BY <1>1, <1>6, <1>14
<1>17. \A p \in P!ToSet(P!PredictPoints(P!Road(legs, along, reverse), speed, a, age)) :
         /\ p.at = P!Walk(legs)[(IF reverse THEN along - p.distance ELSE along + p.distance) + 1]
         /\ p.segment = IF reverse THEN 0
                        ELSE P!SegmentAhead(legs, IF reverse THEN along - p.distance ELSE along + p.distance)
  BY <1>6, <1>15
<1> QED
  BY <1>16, <1>17, Zenon DEF P!PredictedOnTheRoad

-----------------------------------------------------------------------------
\* The inputs of the model, and its invariants.

\* The inputs the steps build are of the kinds the algorithms are for.
SamplePair == [a : Position, b : Position]
Data == Seq(Position) \union Seq(SamplePair) \union Seq(0..VMax) \union Seq(Legs) \union TelemetryType
Algorithms == {"voter", "clusters", "road", "pair", "route", "motion", "trajectory"}

InputType == input \in [alg : Algorithms, a : -1..1, data : Data]
InputFits ==
  /\ input.alg \in {"voter", "clusters", "route"} => input.data \in Seq(Position)
  /\ On("road") => input.data \in Seq(Legs)
  /\ On("pair") => input.data \in Seq(SamplePair) /\ Len(input.data) <= MaxSamples
  /\ On("motion") => Motion(input.data, input.a)
  /\ On("trajectory") => input.data \in TelemetryType
InputOK == InputType /\ InputFits

\* A sequence with one element more.
LEMMA AppendType ==
  ASSUME NEW V, NEW old \in Seq(V), NEW v \in V
  PROVE  /\ Append(old, v) \in Seq(V) /\ Len(old) \in Nat /\ Len(Append(old, v)) = Len(old) + 1
         /\ Append(old, v)[Len(old) + 1] = v
         /\ \A i \in 1..Len(old) : Append(old, v)[i] = old[i] /\ old[i] \in V
OBVIOUS

\* A grid has positions.
LEMMA GridPositions ==
  ASSUME NEW n \in Int, NEW m \in Int
  PROVE  OnGrid(n, m) \subseteq Position
BY DEF OnGrid, Position

\* The telemetry of the model is telemetry.
LEMMA ModelTelemetry ==
  Telemetry \subseteq TelemetryType
<1> SUFFICES ASSUME NEW t \in Telemetry PROVE t \in TelemetryType
  OBVIOUS
<1>1. Roads \subseteq RoadType
  <2> SUFFICES ASSUME NEW n \in {8, 30}
               PROVE  [geometry |-> <<Origin, [x |-> n, y |-> 0]>>, matched |-> Origin, along |-> 3,
                       upcoming |-> <<>>, reverse |-> FALSE] \in RoadType
    BY Zenon DEF Roads
  <2>1. Origin \in Position /\ [x |-> n, y |-> 0] \in Position
    BY DEF Origin, Position
  <2>2. <<Origin, [x |-> n, y |-> 0]>> \in Seq(Position)
    BY <2>1
  <2>3. <<>> \in Seq(Seq(Position))
    OBVIOUS
  <2> QED
    BY <2>1, <2>2, <2>3 DEF RoadType
<1>2. VMax \in Nat
  BY TrajectoryAssumption
<1>3. /\ t.road \in Roads /\ t.quality \in {"GOOD", "DEGRADED", "FAILED"} /\ t.age \in {0}
      /\ t.direction \in {"FORWARD", "REVERSE", "UNKNOWN"} /\ t.accuracy \in {None, 10, 30, 60}
      /\ t.speed \in {None} \union 0..VMax /\ t.heading \in {None, 90} /\ t.acceleration \in {None, -1, 1}
      /\ t.previous \in {None} \union [speed : 0..VMax, dt : {0, 1}]
  BY DEF Telemetry
<1>4. t = [road |-> t.road, quality |-> t.quality, age |-> t.age, direction |-> t.direction,
           accuracy |-> t.accuracy, speed |-> t.speed, heading |-> t.heading,
           acceleration |-> t.acceleration, previous |-> t.previous]
  BY DEF Telemetry
<1>5. t.previous \in {None} \union [speed : Int, dt : Int]
  BY <1>2, <1>3
<1>6. t.road \in RoadType /\ t.age \in Nat /\ t.accuracy \in Int \union {None}
  BY <1>1, <1>3
<1>7. t.speed \in Int \union {None} /\ t.heading \in Int \union {None} /\ t.acceleration \in Int \union {None}
  BY <1>2, <1>3
<1> QED
  BY <1>3, <1>4, <1>5, <1>6, <1>7 DEF TelemetryType

\* The first inputs fit their algorithms.
LEMMA FirstInputs == Init => InputOK
<1> SUFFICES ASSUME Init PROVE InputOK
  OBVIOUS
<1>0. VMax \in Nat /\ MaxSamples \in Nat
  BY TrajectoryAssumption, DetectorAssumption
<1>1. CASE input \in {Empty(alg, 0) : alg \in {"voter", "clusters", "road", "pair", "route"}}
  <2>1. PICK alg \in {"voter", "clusters", "road", "pair", "route"} : input = [alg |-> alg, a |-> 0, data |-> <<>>]
    BY <1>1 DEF Empty
  <2>2. <<>> \in Seq(Position) /\ <<>> \in Seq(SamplePair) /\ <<>> \in Seq(Legs) /\ Len(<<>>) = 0
    OBVIOUS
  <2>3. InputType
    BY <2>1, <2>2 DEF InputType, Algorithms, Data
  <2>4. InputFits
    BY <1>0, <2>1, <2>2 DEF InputFits, On
  <2> QED
    BY <2>3, <2>4 DEF InputOK
<1>2. CASE \E v \in 0..VMax, a \in -1..1 : input = [alg |-> "motion", a |-> a, data |-> <<v>>]
  <2>1. PICK v \in 0..VMax, a \in -1..1 : input = [alg |-> "motion", a |-> a, data |-> <<v>>]
    BY <1>2
  <2>2. <<v>> \in Seq(0..VMax) /\ <<v>> # <<>> /\ Len(<<v>>) = 1
    OBVIOUS
  <2>3. Motion(<<v>>, a)
    BY <2>2 DEF Motion
  <2>4. InputType
    BY <2>1, <2>2 DEF InputType, Algorithms, Data
  <2>5. InputFits
    BY <2>1, <2>3 DEF InputFits, On
  <2> QED
    BY <2>4, <2>5 DEF InputOK
<1>3. CASE \E t \in Telemetry : input = [alg |-> "trajectory", a |-> 0, data |-> t]
  <2>1. PICK t \in TelemetryType : input = [alg |-> "trajectory", a |-> 0, data |-> t]
    BY <1>3, ModelTelemetry
  <2>2. InputType
    BY <2>1 DEF InputType, Algorithms, Data
  <2>3. InputFits
    BY <2>1 DEF InputFits, On
  <2> QED
    BY <2>2, <2>3 DEF InputOK
<1> QED
  BY <1>1, <1>2, <1>3 DEF Init

\* A step changes the data alone.
LEMMA DataStep ==
  ASSUME InputType, NEW data \in Data, input' = [input EXCEPT !.data = data]
  PROVE  InputType' /\ input'.alg = input.alg /\ input'.a = input.a /\ input'.data = data
BY DEF InputType

\* And a step leaves them so.
LEMMA NextInputs == InputOK /\ [Next]_input => InputOK'
<1> SUFFICES ASSUME InputOK, [Next]_input PROVE InputOK'
  OBVIOUS
<1>0. VMax \in Nat /\ MaxSamples \in Nat /\ InputType /\ InputFits
  BY TrajectoryAssumption, DetectorAssumption DEF InputOK
<1>1. ASSUME NEW r \in Position, Read(r) \/ AddPoint(r) \/ Waypoint(r) PROVE InputOK'
  <2>1. input.alg \in {"voter", "clusters", "route"} /\ input' = [input EXCEPT !.data = Append(@, r)]
    BY <1>1 DEF Read, AddPoint, Waypoint
  <2>2. PICK data \in Seq(Position) : data = Append(input.data, r)
    <3>1. input.data \in Seq(Position)
      BY <1>0, <2>1 DEF InputFits
    <3> QED
      BY <3>1, AppendType, Zenon
  <2>3. InputType' /\ input'.alg = input.alg /\ input'.data = data
    BY <1>0, <2>1, <2>2, DataStep, Zenon DEF Data
  <2>4. InputFits'
    BY <2>1, <2>2, <2>3 DEF InputFits, On
  <2> QED
    BY <2>3, <2>4 DEF InputOK
<1>2. ASSUME NEW leg \in Legs, AddLeg(leg) PROVE InputOK'
  <2>1. input.alg = "road" /\ input' = [input EXCEPT !.data = Append(@, leg)]
    BY <1>2 DEF AddLeg
  <2>2. PICK data \in Seq(Legs) : data = Append(input.data, leg)
    <3>1. input.data \in Seq(Legs)
      BY <1>0, <2>1 DEF InputFits, On
    <3> QED
      BY <3>1, AppendType, Zenon
  <2>3. InputType' /\ input'.alg = input.alg /\ input'.data = data
    BY <1>0, <2>1, <2>2, DataStep, Zenon DEF Data
  <2>4. InputFits'
    BY <2>1, <2>2, <2>3 DEF InputFits, On
  <2> QED
    BY <2>3, <2>4 DEF InputOK
<1>3. ASSUME Drive PROVE InputOK'
  <2>1. input.alg = "motion" /\ input' = [input EXCEPT !.data = Append(@, Clamp(0, Last(@) + input.a, VMax))]
    BY <1>3 DEF Drive
  <2>2. PICK speeds, a : speeds = input.data /\ a = input.a /\ Motion(speeds, a) /\ a \in -1..1
    BY <1>0, <2>1 DEF InputFits, InputType, On
  <2>3. PICK n \in Nat \ {0} : n = Len(speeds) /\ speeds \in Seq(0..VMax)
    BY <2>2 DEF Motion
  <2>4. PICK v \in 0..VMax : v = speeds[n] /\ v = Last(speeds)
    <3>1. n \in 1..Len(speeds)
      BY <2>3
    <3>3. 0 \in 0..VMax
      BY <1>0
    <3>2. speeds[n] \in 0..VMax
      BY <2>3, <3>1, <3>3, AppendType, Zenon
    <3> QED
      BY <2>3, <3>2 DEF Last
  <2>5. PICK w \in 0..VMax : w = Clamp(0, v + a, VMax)
    BY <1>0, <2>2 DEF Clamp
  <2>6. PICK data \in Seq(0..VMax) : data = Append(speeds, w)
    BY <2>3, AppendType, Zenon
  <2>7. Len(data) = n + 1 /\ data[n + 1] = w /\ \A i \in 1..n : data[i] = speeds[i]
    BY <2>3, <2>6, AppendType
  <2>8. Motion(data, a)
    <3>1. data # <<>>
      BY <2>7
    <3>2. ASSUME NEW i \in 1..n PROVE data[i + 1] = Clamp(0, data[i] + a, VMax)
      <4>1. CASE i = n
        BY <2>4, <2>5, <2>7, <4>1, Zenon
      <4>2. CASE i # n
        <5>1. i \in 1..n - 1 /\ i + 1 \in 1..n
          BY <4>2
        <5>2. speeds[i + 1] = Clamp(0, speeds[i] + a, VMax)
          BY <2>2, <2>3, <5>1 DEF Motion
        <5> QED
          BY <2>7, <5>1, <5>2
      <4> QED
        BY <4>1, <4>2
    <3>3. Len(data) - 1 = n
      BY <2>7
    <3> QED
      BY <2>6, <3>1, <3>2, <3>3 DEF Motion
  <2>9. InputType' /\ input'.alg = input.alg /\ input'.a = a /\ input'.data = data
    <3>1. input' = [input EXCEPT !.data = data]
      BY <2>1, <2>2, <2>4, <2>5, <2>6
    <3> QED
      BY <1>0, <2>2, <2>6, <3>1, DataStep, Zenon DEF Data
  <2>10. InputFits'
    BY <2>1, <2>8, <2>9, Zenon DEF InputFits, On
  <2> QED
    BY <2>9, <2>10 DEF InputOK
<1>4. ASSUME NEW p \in Position, NEW q \in Position, Sample(p, q) PROVE InputOK'
  <2>1. /\ input.alg = "pair" /\ Len(input.data) < MaxSamples
        /\ input' = [input EXCEPT !.data = Append(@, [a |-> p, b |-> q])]
    BY <1>4 DEF Sample
  <2>2. PICK pair \in SamplePair : pair = [a |-> p, b |-> q]
    BY Zenon DEF SamplePair
  <2>3. PICK old \in Seq(SamplePair) : old = input.data
    BY <1>0, <2>1 DEF InputFits, On
  <2>4. PICK data \in Seq(SamplePair) : data = Append(old, pair) /\ Len(data) = Len(old) + 1
    BY AppendType, Zenon
  <2>5. PICK n \in Nat : n = Len(old) /\ n < MaxSamples
    BY <2>1, <2>3, AppendType, Zenon
  <2>6. Len(data) <= MaxSamples
    BY <1>0, <2>4, <2>5
  <2>7. InputType' /\ input'.alg = input.alg /\ input'.data = data
    BY <1>0, <2>1, <2>2, <2>3, <2>4, DataStep, Zenon DEF Data
  <2>8. InputFits'
    BY <2>1, <2>6, <2>7, Zenon DEF InputFits, On
  <2> QED
    BY <2>7, <2>8 DEF InputOK
<1>5. ASSUME Ages PROVE InputOK'
  <2>1. input.alg = "trajectory" /\ input' = [input EXCEPT !.data.age = @ + 1]
    BY <1>5 DEF Ages
  <2>2. PICK t \in TelemetryType : t = input.data
    BY <1>0, <2>1 DEF InputFits, On
  <2>3. input' = [input EXCEPT !.data = Older(t)] /\ Older(t) \in TelemetryType
    <3>1. input' = [input EXCEPT !.data = [t EXCEPT !.age = @ + 1]]
      BY <2>1, <2>2
    <3> QED
      BY <3>1, OlderType DEF Older
  <2>4. InputType' /\ input'.alg = input.alg /\ input'.data = Older(t)
    BY <1>0, <2>3, DataStep DEF Data
  <2>5. InputFits'
    BY <2>1, <2>3, <2>4 DEF InputFits, On
  <2> QED
    BY <2>4, <2>5 DEF InputOK
<1>6. CASE UNCHANGED input
  BY <1>6 DEF InputOK, InputType, InputFits, On
<1>7. /\ OnGrid(3, 2) \union {Missing} \subseteq Position
      /\ OnGrid(2, 2) \subseteq Position /\ Places \subseteq Position
  BY GridPositions, MissingIsAPosition DEF Places, Position
<1> QED
  BY <1>1, <1>2, <1>3, <1>4, <1>5, <1>6, <1>7 DEF Next

\* Every input fits its algorithm.
LEMMA InputsFit == Spec => []InputOK
BY FirstInputs, NextInputs, PTL DEF Spec

\* GpsVoter.update: an interpolated position is near the last fix.
THEOREM EstimatesAreNear == Spec => []EstimateIsNear
<1>1. InputOK => EstimateIsNear
  BY InterpolationIsNear DEF InputOK, InputFits, EstimateIsNear, On
<1> QED
  BY <1>1, InputsFit, PTL

\* GpsVoter.update: a vehicle that is read in every frame is never an outlier.
THEOREM ReadingsAreKept == Spec => []SteadyReadingsAreKept
<1>1. InputOK => SteadyReadingsAreKept
  BY SteadyVehicleIsKept DEF InputOK, InputFits, SteadyReadingsAreKept, On
<1> QED
  BY <1>1, InputsFit, PTL

\* cluster_detections: each row is in one cluster, and each cluster hangs together.
THEOREM GroupsAreSound == Spec => []GroupingIsSound
<1>1. InputOK => GroupingIsSound
  BY ClusteringIsSound DEF InputOK, InputFits, GroupingIsSound, On
<1> QED
  BY <1>1, InputsFit, PTL

\* query_nearby, query_along_route: no row outside is found, and every row inside but
\* for those at the very edge.
THEOREM SearchesAreClose == Spec => []SearchIsClose
<1>1. Rows \subseteq Row
  BY DEF Rows, Row, Position, Sites, Far
<1>2. ASSUME InputOK, On("route"), input.data # <<>>, NEW width \in Widths
      PROVE  /\ S!InsideIsFound(Rows, input.data, S!WellInside(width), width)
             /\ S!OutsideIsLeft(Rows, input.data, width)
  <2>1. input.data \in Seq(Position)
    BY <1>2 DEF InputOK, InputFits, On
  <2>2. width \in Nat
    BY WidthsAssumption
  <2>3. S!WellInside(width) \in Nat /\ S!WellInside(width) * 890 <= width * 889
    BY <2>2, SMT DEF S!WellInside
  <2> QED
    BY <1>1, <1>2, <2>1, <2>2, <2>3, RowsWellInsideAreFound, RowsOutsideAreLeft
<1>3. InputOK => SearchIsClose
  BY <1>2, Zenon DEF SearchIsClose
<1> QED
  BY <1>3, InputsFit, PTL

\* predict_trajectory: the points are on the road, as far as it moves and goes.
THEOREM PointsFollowRoads == Spec => []PointsAreOnTheRoad
<1>1. Seq(Legs) \subseteq Seq(Leg)
  <2>1. ASSUME NEW leg \in Legs PROVE leg \in Leg
    <3>1. /\ leg.to \in {[x |-> 1, y |-> 0], [x |-> 0, y |-> 1]}
          /\ leg.len \in {0, 1, 4} /\ leg.opens \in BOOLEAN
          /\ leg = [to |-> leg.to, len |-> leg.len, opens |-> leg.opens]
      BY Zenon DEF Legs
    <3>2. leg.len \in Nat
      BY <3>1
    <3> QED
      BY <3>1, <3>2 DEF Leg
  <2> QED
    BY <2>1
<1>2. VMax \in Nat
  BY TrajectoryAssumption
<1>3. ASSUME InputOK, On("road"), NEW reverse \in BOOLEAN, NEW speed \in 0..VMax + 1, NEW a \in -1..1,
             NEW age \in 0..1, NEW i \in P!Current(input.data), NEW along \in 0..Len(P!Prefix(input.data, i)) - 1
      PROVE  P!PredictedOnTheRoad(input.data, along, reverse, speed, a, age)
  <2>1. PICK legs \in Seq(Leg) : legs = input.data
    BY <1>1, <1>3 DEF InputOK, InputFits
  <2>2. speed \in Int /\ a \in Int /\ age \in Nat
    BY <1>2
  <2>3. i \in P!Current(legs) /\ along \in 0..Len(P!Prefix(legs, i)) - 1
    BY <2>1
  <2>4. P!PredictedOnTheRoad(legs, along, reverse, speed, a, age)
    BY <2>2, <2>3, PointsFollowTheRoad
  <2> QED
    BY <2>1, <2>4
<1>4. InputOK => PointsAreOnTheRoad
  BY <1>3, Zenon DEF PointsAreOnTheRoad
<1> QED
  BY <1>4, InputsFit, PTL

\* _kinematics: it is the integral of the motion it stands for.
THEOREM MotionsAreIntegrated == Spec => []KinematicsIntegrates
<1>1. ASSUME InputOK, On("motion") PROVE P!MotionIntegrates(input.data, input.a)
  <2>0. input.a \in -1..1 /\ Motion(input.data, input.a)
    BY <1>1 DEF InputOK, InputType, InputFits
  <2>a. PICK speeds : speeds = input.data
    OBVIOUS
  <2>1. PICK a \in -1..1 : a = input.a /\ speeds = input.data /\ Motion(speeds, a)
    BY <2>0, <2>a
  <2>2. PICK v \in Nat, m \in Nat : v = speeds[1] /\ m = VMax /\ v <= m
    <3>1. VMax \in Nat /\ speeds \in Seq(0..VMax) /\ speeds # <<>>
      BY <2>1, TrajectoryAssumption DEF Motion
    <3>2. speeds[1] \in 0..VMax
      BY <3>1
    <3> QED
      BY <3>1, <3>2
  <2>3. WholeStops(v, a)
    <3>1. a < 0 => v = (-a) * v
      OBVIOUS
    <3>2. a > 0 => m - v = a * (m - v) /\ m - v \in Nat
      BY <2>2
    <3> QED
      BY <2>2, <3>1, <3>2, Zenon DEF WholeStops
  <2> QED
    BY <2>1, <2>2, <2>3, MotionIsIntegrated
<1>2. InputOK => KinematicsIntegrates
  BY <1>1 DEF KinematicsIntegrates
<1> QED
  BY <1>2, InputsFit, PTL

\* predict_trajectory: the older the telemetry, the less is claimed of it.
THEOREM ClaimsFall == Spec => []PredictionAgesWell
<1>1. InputOK => PredictionAgesWell
  BY PredictionsAge, StatusesKeepTheirWord DEF InputOK, InputFits, PredictionAgesWell
<1> QED
  BY <1>1, InputsFit, PTL

\* The pairs of trajectories of the model are predicted ones.
LEMMA PairsArePredicted ==
  ASSUME InputOK, On("pair"), NEW pair \in Pairs
  PROVE  pair[1] \in Predicted /\ pair[2] \in Predicted
<1>0. PICK H \in Nat, M \in Nat : H = Len(Horizons) /\ M = MaxSamples /\ M <= H
  BY HorizonsAssumption, DetectorAssumption
<1>1. PICK data \in Seq(SamplePair), n \in Nat : data = input.data /\ n = Len(data) /\ n <= H
  <2>1. input.data \in Seq(SamplePair) /\ Len(input.data) <= MaxSamples
    BY DEF InputOK, InputFits
  <2> QED
    BY <1>0, <2>1
<1>2. PICK a : a = [i \in DOMAIN data |-> data[i].a]
  BY Zenon
<1>3. PICK b : b = [i \in DOMAIN data |-> data[i].b]
  BY Zenon
<1>4. a \in Seq(Position) /\ Len(a) = n /\ b \in Seq(Position) /\ Len(b) = n
  <2>1. DOMAIN data = 1..n /\ \A i \in 1..n : data[i] \in SamplePair
    BY <1>1
  <2>2. a \in [1..n -> Position] /\ b \in [1..n -> Position]
    BY <1>2, <1>3, <2>1 DEF SamplePair
  <2> QED
    BY <2>2
<1>5. PICK certain : certain = [points |-> b, status |-> "VALID", confidence |-> 1]
  BY Zenon
<1>6. certain \in Predicted
  <2>1. Len(b) <= Len(Horizons)
    BY <1>0, <1>1, <1>4
  <2>2. certain \in [points : Seq(Position), status : D!Statuses, confidence : Nat]
    BY <1>4, <1>5 DEF D!Statuses
  <2> QED
    BY <1>5, <2>1, <2>2 DEF Predicted
<1>7. ASSUME NEW m \in 0..n, NEW t \in Trajectories(a, m) PROVE t \in Predicted
  <2>1. SubSeq(a, 1, m) \in Seq(Position) /\ Len(SubSeq(a, 1, m)) = m
    BY <1>4
  <2>2. PICK s \in {"VALID", "STALE", "UNAVAILABLE"}, c \in {0, 1} :
          t = [points |-> SubSeq(a, 1, m), status |-> s, confidence |-> c]
    BY <1>7 DEF Trajectories
  <2>3. t \in [points : Seq(Position), status : D!Statuses, confidence : Nat]
    BY <2>1, <2>2 DEF D!Statuses
  <2>4. Len(t.points) <= Len(Horizons)
    BY <1>0, <1>1, <2>1, <2>2
  <2> QED
    BY <2>3, <2>4 DEF Predicted
<1>8. PICK firsts : firsts = {<<t, certain>> : t \in UNION {Trajectories(a, m) : m \in 0..Len(a)}}
  BY Zenon
<1>9. Pairs = firsts \union {<<p[2], p[1]>> : p \in firsts}
  <2>1. a = [i \in DOMAIN input.data |-> input.data[i].a] /\ b = [i \in DOMAIN input.data |-> input.data[i].b]
    BY <1>1, <1>2, <1>3
  <2> QED
    BY <2>1, <1>5, <1>8 DEF Pairs
<1>10. \A p \in firsts : p[1] \in Predicted /\ p[2] \in Predicted
  BY <1>4, <1>6, <1>7, <1>8
<1> QED
  BY <1>9, <1>10

\* assess_conflict: the reported approach is the first of the closest.
THEOREM ClosestAreFound == Spec => []ClosestIsFound
<1>1. InputOK => ClosestIsFound
  BY PairsArePredicted, ApproachIsFirst, Zenon DEF ClosestIsFound
<1> QED
  BY <1>1, InputsFit, PTL

\* assess_conflict: who comes close is reported.
THEOREM CloseMomentsReach == Spec => []CloseMomentsAreReported
<1>1. InputOK => CloseMomentsAreReported
  BY PairsArePredicted, CloseIsReportedAlways, Zenon DEF CloseMomentsAreReported
<1> QED
  BY <1>1, InputsFit, PTL
=============================================================================
