----------------------------- MODULE BalanceProofs -----------------------------
(***************************************************************************)
(* Proofs about Balance, for any number of callers and resolvers: indexes     *)
(* stay within the slice until the counter has overflowed, and a choice that   *)
(* refuses comes only after every resolver, if the probes are taken in turn,   *)
(* or at random among as many resolvers as a power of two.                    *)
(***************************************************************************)
EXTENDS Balance, FiniteSetTheorems, WellFoundedInduction, TLAPS

Types ==
    /\ resolvers \in Pools /\ strategy \in Strategies /\ counter \in Nat
    /\ accepts \in [Resolvers -> BOOLEAN]
    /\ pc \in [Callers -> {"idle", "probe", "chosen", "panic"}]
    /\ start \in [Callers -> (-(N - 1))..(N - 1)]
    /\ i \in [Callers -> Resolvers] /\ idx \in [Callers -> Int]
    /\ refused \in [Callers -> SUBSET Resolvers]

\* As long as the counter fits an int, no loop starts below zero.
InSlice ==
    strategy = "random" \/ counter <= IntLimit =>
        \A c \in Callers : pc[c] # "panic" /\ start[c] >= 0 /\ idx[c] >= 0

------------------------------------------------------------------------------
(* The order of the probes.                                                 *)

\* The sum of the loop variables up to turn t.
Triangle(t) == (t * (t + 1)) \div 2

\* The index probed in turn t of a loop that starts at s.
ProbeAt(s, t) == (IF strategy = "roundRobin" THEN s + t ELSE s + Triangle(t)) % N

\* No resolver is probed twice.
ProbesDistinct ==
    \A s, t, u \in Resolvers : ProbeAt(s, t) = ProbeAt(s, u) => t = u

\* A caller in its loop: the breakers probed before have refused, each at its own time.
Searching(c) ==
    /\ i[c] > 0 => start[c] \in Resolvers
    /\ refused[c] = {ProbeAt(start[c], u) : u \in 0..(i[c] - 1)}
    /\ idx[c] = IF i[c] = 0 THEN start[c] ELSE ProbeAt(start[c], i[c] - 1)
Search ==
    /\ \A k \in Resolvers \ Breakers : accepts[k]
    /\ \A c \in Callers :
          /\ pc[c] = "idle" => i[c] = 0 /\ refused[c] = {}
          /\ pc[c] = "probe" => Searching(c)
          /\ strategy = "random" => start[c] >= 0

------------------------------------------------------------------------------
(* Arithmetic.                                                              *)

\* Go's remainder: within (-N, N), of the sign of the dividend, which it keeps if small.
LEMMA RemainderRange ==
    ASSUME NEW x \in Int
    PROVE  /\ Remainder(x, N) \in (-(N - 1))..(N - 1)
           /\ x >= 0 => Remainder(x, N) = x % N /\ Remainder(x, N) \in Resolvers
           /\ x \in (-(N - 1))..(-1) => Remainder(x, N) = x
<1>1. N \in Nat \ {0}
  BY ResolverAssumption
<1>2. \A y \in Nat : y % N \in 0..(N - 1) /\ (y < N => y % N = y)
  BY <1>1
<1>3. CASE x >= 0
  BY <1>1, <1>2, <1>3 DEF Remainder, Resolvers
<1>4. CASE x < 0
  <2>1. -x \in Nat /\ Remainder(x, N) = -((-x) % N)
    BY <1>4 DEF Remainder
  <2>. QED
    BY <1>1, <1>2, <1>4, <2>1
<1>. QED
  BY <1>3, <1>4

\* A counter that fits an int is converted to itself.
LEMMA ToIntSmall ==
    ASSUME NEW x \in Nat
    PROVE  ToInt(x) \in Int /\ (x < IntLimit => ToInt(x) = x)
<1>1. IntLimit \in Nat \ {0}
  BY WidthAssumption
<1> DEFINE low == x % (2 * IntLimit)
<1>2. low \in Nat /\ (x < 2 * IntLimit => low = x)
  BY <1>1
<1>. QED
  BY <1>1, <1>2 DEF ToInt

\* Quotient and remainder are unique.
LEMMA ModUnique ==
    ASSUME NEW n \in Nat \ {0}, NEW q \in Nat, NEW r \in 0..(n - 1)
    PROVE  (n * q + r) % n = r
<1> DEFINE x == n * q + r
           d == x \div n
<1>1. x \in Nat /\ d \in Nat /\ x % n \in 0..(n - 1) /\ x = n * d + (x % n)
  OBVIOUS
<1> HIDE DEF d
<1>2. CASE d > q
  <2>1. n * d >= n * q + n
    <3>1. PICK e \in Nat : d = q + 1 + e
      <4>1. d - q - 1 \in Nat /\ d = q + 1 + (d - q - 1)
        BY <1>1, <1>2
      <4>. QED
        BY <4>1
    <3>2. n * d = n * q + n + n * e /\ n * e \in Nat
      BY <3>1
    <3>. QED
      BY <3>2
  <2>. QED
    BY <1>1, <2>1
<1>3. CASE d < q
  <2>1. n * q >= n * d + n
    <3>1. PICK e \in Nat : q = d + 1 + e
      <4>1. q - d - 1 \in Nat /\ q = d + 1 + (q - d - 1)
        BY <1>1, <1>3
      <4>. QED
        BY <4>1
    <3>2. n * q = n * d + n + n * e /\ n * e \in Nat /\ n * d \in Nat
      BY <1>1, <3>1
    <3>. QED
      BY <3>2
  <2>. QED
    BY <1>1, <2>1
<1>4. CASE d = q
  BY <1>1, <1>4
<1>. QED
  BY <1>1, <1>2, <1>3, <1>4

\* Remainders may be taken step by step.
LEMMA ModStep ==
    ASSUME NEW n \in Nat \ {0}, NEW x \in Nat, NEW y \in Nat
    PROVE  ((x % n) + y) % n = (x + y) % n
<1>1. PICK q \in Nat : x = n * q + (x % n)
  <2>1. x = n * (x \div n) + (x % n) /\ x \div n \in Nat
    OBVIOUS
  <2>. QED
    BY <2>1
<1> DEFINE z == (x % n) + y
<1>2. z \in Nat /\ x + y = n * q + z
  BY <1>1
<1>3. PICK p \in Nat, r \in 0..(n - 1) : z = n * p + r /\ r = z % n
  <2>1. z = n * (z \div n) + (z % n) /\ z \div n \in Nat /\ z % n \in 0..(n - 1)
    BY <1>2
  <2>. QED
    BY <2>1
<1>4. PICK k \in Nat : x + y = n * k + r
  <2>1. x + y = n * (q + p) + r /\ q + p \in Nat
    BY <1>2, <1>3
  <2>. QED
    BY <2>1
<1>5. (x + y) % n = r
  BY <1>3, <1>4, ModUnique
<1>. QED
  BY <1>3, <1>5

\* Each triangular number is the last one plus its index, and half a product.
LEMMA TriangleStep ==
    ASSUME NEW t \in Nat
    PROVE  /\ Triangle(t) \in Nat
           /\ t > 0 => Triangle(t) = Triangle(t - 1) + t
<1> DEFINE a == t * (t - 1)
<1>1. t * (t + 1) = a + 2 * t /\ a \in Int /\ (t - 1) * (t - 1 + 1) = a
  OBVIOUS
<1>2. a >= 0
  OBVIOUS
<1> HIDE DEF a
<1>3. (a + 2 * t) \div 2 = (a \div 2) + t /\ a \div 2 \in Nat
  BY <1>1, <1>2
<1>. QED
  BY <1>1, <1>3 DEF Triangle

------------------------------------------------------------------------------
(* Which numbers of resolvers are searched to the end.                      *)

\* The numbers that doubling leads to from 1.
PowerOfTwo(n) ==
    n \in Nat /\ \A S \in SUBSET Nat : 1 \in S /\ (\A m \in S : 2 * m \in S) => n \in S

\* What divides a product with an odd factor divides the other one, if it is in this set.
OddFree ==
    {m \in Nat \ {0} : \A k, y, q \in Nat :
        (2 * k + 1) * y = m * q => \E p \in Nat : y = m * p}

\* All powers of two are.
LEMMA PowersOddFree == ASSUME NEW n, PowerOfTwo(n) PROVE n \in OddFree
<1>1. 1 \in OddFree
  BY DEF OddFree
<1>2. ASSUME NEW m \in OddFree PROVE 2 * m \in OddFree
  <2>1. ASSUME NEW k \in Nat, NEW y \in Nat, NEW q \in Nat, (2 * k + 1) * y = (2 * m) * q
        PROVE  \E p \in Nat : y = (2 * m) * p
    <3>1. m \in Nat
      BY DEF OddFree
    <3> DEFINE mq == m * q
               ky == k * y
               h == mq - ky
    <3>2. mq \in Nat /\ ky \in Nat /\ (2 * k + 1) * y = 2 * ky + y /\ (2 * m) * q = 2 * mq
      BY <3>1
    <3> HIDE DEF mq, ky
    <3>3. y = 2 * h /\ h \in Nat
      BY <2>1, <3>2
    <3> HIDE DEF h
    <3>4. (2 * k + 1) * y = 2 * ((2 * k + 1) * h) /\ (2 * k + 1) * h \in Nat
      BY <3>3
    <3>5. (2 * k + 1) * h = m * q
      <4> DEFINE kh == (2 * k + 1) * h
      <4>1. 2 * kh = 2 * mq /\ kh \in Nat
        BY <2>1, <3>2, <3>4
      <4>2. kh = mq
        <5> HIDE DEF kh
        <5>. QED
          BY <3>2, <4>1
      <4>. QED
        BY <4>2 DEF mq
    <3>6. PICK p \in Nat : h = m * p
      BY <3>3, <3>5 DEF OddFree
    <3>7. y = (2 * m) * p
      BY <3>1, <3>3, <3>6
    <3>. QED
      BY <3>7
  <2>2. 2 * m \in Nat \ {0}
    BY DEF OddFree
  <2>. QED
    BY <2>1, <2>2 DEF OddFree
<1>. QED
  BY <1>1, <1>2 DEF PowerOfTwo, OddFree

\* 1, 2, 4 and 8 are powers of two, and so is the double of one.
LEMMA SomePowers ==
    /\ PowerOfTwo(1) /\ PowerOfTwo(2) /\ PowerOfTwo(4) /\ PowerOfTwo(8)
    /\ \A n : PowerOfTwo(n) => PowerOfTwo(2 * n)
<1>1. PowerOfTwo(1)
  BY DEF PowerOfTwo
<1>2. ASSUME NEW n, PowerOfTwo(n) PROVE PowerOfTwo(2 * n)
  BY <1>2 DEF PowerOfTwo
<1>3. 2 = 2 * 1 /\ 4 = 2 * 2 /\ 8 = 2 * 4
  OBVIOUS
<1>. QED
  BY <1>1, <1>2, <1>3

\* A triangular number is half the product of two neighbours, one of which is even.
LEMMA TriangleTwice == ASSUME NEW t \in Nat PROVE 2 * Triangle(t) = t * (t + 1)
<1>1. PICK k \in Nat : t = 2 * k \/ t = 2 * k + 1
  <2>1. t \div 2 \in Nat /\ (t = 2 * (t \div 2) \/ t = 2 * (t \div 2) + 1)
    OBVIOUS
  <2>. QED
    BY <2>1
<1>2. PICK h \in Nat : t * (t + 1) = 2 * h
  <2>1. CASE t = 2 * k
    <3>1. t * (t + 1) = 2 * (k * (t + 1)) /\ k * (t + 1) \in Nat
      BY <2>1
    <3>. QED
      BY <3>1
  <2>2. CASE t = 2 * k + 1
    <3>1. t * (t + 1) = 2 * (t * (k + 1)) /\ t * (k + 1) \in Nat
      BY <2>2
    <3>. QED
      BY <3>1
  <2>. QED
    BY <1>1, <2>1, <2>2
<1>. QED
  BY <1>2 DEF Triangle

\* Triangular numbers do not meet modulo a power of two n before turn n.
LEMMA TrianglesDistinct ==
    ASSUME NEW n, PowerOfTwo(n), NEW t \in 0..(n - 1), NEW u \in 0..(n - 1), u < t,
           NEW q \in Nat
    PROVE  Triangle(t) # Triangle(u) + n * q
<1> SUFFICES ASSUME Triangle(t) = Triangle(u) + n * q PROVE FALSE
  OBVIOUS
<1>1. n \in Nat /\ PowerOfTwo(2 * n) /\ 2 * n \in OddFree
  BY SomePowers, PowersOddFree DEF PowerOfTwo
<1> DEFINE a == t - u
           b == t + u + 1
<1>2. a \in 1..(2 * n - 1) /\ b \in 1..(2 * n - 1)
  BY <1>1
<1>3. a * b = (2 * n) * q
  <2> DEFINE tt == t * t
             uu == u * u
             nq == n * q
  <2>1. a * b = tt + t - uu - u /\ t * (t + 1) = tt + t /\ u * (u + 1) = uu + u
        /\ (2 * n) * q = 2 * nq /\ tt \in Int /\ uu \in Int /\ nq \in Int
    BY <1>1
  <2>2. 2 * Triangle(t) = t * (t + 1) /\ 2 * Triangle(u) = u * (u + 1)
        /\ Triangle(t) \in Nat /\ Triangle(u) \in Nat
    BY TriangleTwice, TriangleStep
  <2>3. Triangle(t) = Triangle(u) + nq
    OBVIOUS
  <2> HIDE DEF a, b, tt, uu, nq
  <2>. QED
    BY <2>1, <2>2, <2>3
\* 2 * n divides a product only if it divides the factor that is even; both are smaller.
<1>4. ASSUME NEW x \in 1..(2 * n - 1), NEW p \in Nat, x = (2 * n) * p PROVE FALSE
  <2>1. CASE p = 0
    BY <1>1, <1>4, <2>1
  <2>2. CASE p > 0
    <3>1. PICK e \in Nat : p = e + 1
      <4>1. p - 1 \in Nat /\ p = (p - 1) + 1
        BY <2>2
      <4>. QED
        BY <4>1
    <3>2. (2 * n) * p = (2 * n) * e + 2 * n /\ (2 * n) * e \in Nat
      BY <1>1, <3>1
    <3>. QED
      BY <1>1, <1>4, <3>2
  <2>. QED
    BY <2>1, <2>2
<1>5. \A k, y \in Nat : (2 * k + 1) * y = (2 * n) * q => \E p \in Nat : y = (2 * n) * p
  <2> DEFINE m == 2 * n
  <2>1. m \in OddFree
    BY <1>1
  <2> HIDE DEF m
  <2>2. ASSUME NEW k \in Nat, NEW y \in Nat, (2 * k + 1) * y = m * q
        PROVE  \E p \in Nat : y = m * p
    BY <2>1, <2>2 DEF OddFree
  <2>. QED
    BY <2>2 DEF m
<1>6. a \in Nat /\ b \in Nat /\ a * b = b * a /\ a + b = 2 * t + 1
  OBVIOUS
<1> HIDE DEF a, b
<1>7. (\E k \in Nat : a = 2 * k + 1) \/ (\E k \in Nat : b = 2 * k + 1)
  <2>1. \A x \in Nat : x = 2 * (x \div 2) \/ x = 2 * (x \div 2) + 1
    OBVIOUS
  <2>2. a \div 2 \in Nat /\ b \div 2 \in Nat
    BY <1>6
  <2>. QED
    BY <1>6, <2>1, <2>2
<1>8. ASSUME NEW k \in Nat, NEW x \in 1..(2 * n - 1), (2 * k + 1) * x = (2 * n) * q
      PROVE  FALSE
  <2>1. x \in Nat
    BY <1>1
  <2>2. \E p \in Nat : x = (2 * n) * p
    BY <1>5, <1>8, <2>1
  <2>. QED
    BY <1>4, <2>2
<1>9. CASE \E k \in Nat : a = 2 * k + 1
  BY <1>2, <1>3, <1>8, <1>9
<1>10. CASE \E k \in Nat : b = 2 * k + 1
  BY <1>2, <1>3, <1>6, <1>8, <1>10
<1>. QED
  BY <1>7, <1>9, <1>10

\* Round robin probes every resolver once; so does the random choice among as many as a
\* power of two.
LEMMA DistinctProbes ==
    ASSUME strategy = "roundRobin" \/ PowerOfTwo(N)
    PROVE  ProbesDistinct
<1> SUFFICES ASSUME NEW s \in Resolvers, NEW t \in Resolvers, NEW u \in Resolvers,
                    ProbeAt(s, t) = ProbeAt(s, u), u < t
             PROVE  FALSE
  BY DEF ProbesDistinct, Resolvers
<1>1. N \in Nat \ {0} /\ s \in Nat /\ t \in 0..(N - 1) /\ u \in 0..(N - 1)
  BY ResolverAssumption DEF Resolvers
<1>2. ASSUME NEW x \in Nat, NEW y \in Nat, y < x, x % N = y % N
      PROVE  \E q \in Nat \ {0} : x = y + N * q
  <2>1. PICK d \in Nat, e \in Nat : x = N * d + (x % N) /\ y = N * e + (x % N)
    <3>1. /\ x \div N \in Nat /\ x = N * (x \div N) + (x % N)
          /\ y \div N \in Nat /\ y = N * (y \div N) + (y % N)
      BY <1>1
    <3>. QED
      BY <1>2, <3>1
  <2>2. d > e
    <3>1. CASE d <= e
      <4>1. e - d \in Nat /\ e = d + (e - d)
        BY <3>1
      <4>2. PICK h \in Nat : e = d + h
        BY <4>1
      <4>3. N * e = N * d + N * h /\ N * h \in Nat /\ N * d \in Nat /\ x % N \in Nat
        BY <1>1, <4>2
      <4>. QED
        BY <1>2, <2>1, <4>3
    <3>. QED
      BY <3>1
  <2>3. PICK q \in Nat \ {0} : d = e + q
    <3>1. d - e \in Nat \ {0} /\ d = e + (d - e)
      BY <2>2
    <3>. QED
      BY <3>1
  <2>4. N * d = N * e + N * q /\ N * e \in Nat /\ N * q \in Nat /\ x % N \in Nat
    BY <1>1, <2>3
  <2>. QED
    BY <2>1, <2>4
<1>3. CASE strategy = "roundRobin"
  <2>1. (s + t) % N = (s + u) % N /\ s + t \in Nat /\ s + u \in Nat /\ s + u < s + t
    BY <1>1, <1>3 DEF ProbeAt
  <2>2. PICK q \in Nat \ {0} : s + t = s + u + N * q
    BY <1>2, <2>1
  <2>3. N * q >= N
    <3>1. q - 1 \in Nat /\ N * q = N * (q - 1) + N /\ N * (q - 1) \in Nat
      BY <1>1
    <3>. QED
      BY <1>1, <3>1
  <2>. QED
    BY <1>1, <2>2, <2>3
<1>4. CASE strategy # "roundRobin"
  <2>1. Triangle(t) \in Nat /\ Triangle(u) \in Nat /\ 2 * Triangle(t) = t * (t + 1)
        /\ 2 * Triangle(u) = u * (u + 1)
    BY <1>1, TriangleStep, TriangleTwice
  <2>2. Triangle(u) < Triangle(t)
    <3>1. t * (t + 1) > u * (u + 1)
      <4>1. t * (t + 1) = u * (u + 1) + (t - u) * (t + u + 1)
        BY <1>1
      <4>2. (t - u) * (t + u + 1) > 0
        BY <1>1
      <4>3. u * (u + 1) \in Nat
        BY <1>1
      <4>. QED
        BY <1>1, <4>1, <4>2, <4>3
    <3>. QED
      BY <2>1, <3>1
  <2>3. (s + Triangle(t)) % N = (s + Triangle(u)) % N
    BY <1>4 DEF ProbeAt
  <2>4. PICK q \in Nat : s + Triangle(t) = s + Triangle(u) + N * q
    <3> DEFINE x == s + Triangle(t)
               y == s + Triangle(u)
    <3>1. x \in Nat /\ y \in Nat /\ y < x
      BY <1>1, <2>1, <2>2
    <3>2. x % N = y % N
      BY <2>3
    <3> HIDE DEF x, y
    <3>3. \E q \in Nat : x = y + N * q
      BY <1>2, <3>1, <3>2
    <3>. QED
      BY <3>3 DEF x, y
  <2>5. Triangle(t) = Triangle(u) + N * q
    BY <1>1, <2>1, <2>4
  <2>. QED
    BY <1>1, <1>4, <2>5, TrianglesDistinct
<1>. QED
  BY <1>3, <1>4

\* Probes that are distinct have been to every resolver after N turns.
LEMMA ProbesComplete ==
    ASSUME ProbesDistinct, NEW s \in Resolvers
    PROVE  {ProbeAt(s, u) : u \in Resolvers} = Resolvers
<1>1. N \in Nat \ {0} /\ Resolvers = 0..(N - 1) /\ IsFiniteSet(Resolvers)
  BY ResolverAssumption, FS_Interval DEF Resolvers
<1>2. ASSUME NEW u \in Resolvers PROVE ProbeAt(s, u) \in Resolvers
  <2>1. s + u \in Nat /\ s + Triangle(u) \in Nat
    BY <1>1, TriangleStep
  <2>2. \A x \in Nat : x % N \in 0..(N - 1)
    BY <1>1
  <2>. QED
    BY <1>1, <2>1, <2>2 DEF ProbeAt
<1> DEFINE f == [u \in Resolvers |-> ProbeAt(s, u)]
<1>3. f \in Injection(Resolvers, Resolvers)
  BY <1>2 DEF ProbesDistinct, Injection, IsInjective
<1>4. f \in Surjection(Resolvers, Resolvers)
  BY <1>1, <1>3, FS_Injection
<1>. QED
  BY <1>2, <1>4 DEF Surjection

------------------------------------------------------------------------------
(* Types, and indexes within the slice.                                     *)

\* The state is typed, and no loop starts below zero, initially.
LEMMA InSliceInit == ASSUME Init PROVE Types /\ InSlice
<1>1. N \in Nat \ {0} /\ 0 \in Resolvers /\ 0 \in (-(N - 1))..(N - 1)
  BY ResolverAssumption DEF Resolvers
<1>. QED
  BY <1>1 DEF Init, Types, InSlice

\* A caller's loop starts at first.
LEMMA EnterSound ==
    ASSUME Types, InSlice, NEW c \in Callers, NEW first \in (-(N - 1))..(N - 1),
           Enter(c, first), counter' \in Nat, counter' >= counter,
           strategy = "random" \/ counter' <= IntLimit => first >= 0
    PROVE  Types' /\ InSlice'
<1>1. /\ pc' = [pc EXCEPT ![c] = "probe"] /\ start' = [start EXCEPT ![c] = first]
      /\ idx' = [idx EXCEPT ![c] = first] /\ UNCHANGED <<resolvers, strategy, accepts, i, refused>>
  BY DEF Enter
<1>2. N \in Nat /\ first \in Int /\ counter \in Nat /\ IntLimit \in Nat
  BY ResolverAssumption, WidthAssumption DEF Types
<1>3. Types'
  BY <1>1, <1>2 DEF Types
<1>4. strategy' = "random" \/ counter' <= IntLimit => strategy = "random" \/ counter <= IntLimit
  BY <1>1, <1>2
<1>5. InSlice'
  BY <1>1, <1>4 DEF InSlice, Types
<1>. QED
  BY <1>3, <1>5

\* The index of a probe; only a loop that started below zero leaves the slice.
LEMMA ProbedSound ==
    ASSUME Types, NEW c \in Callers
    PROVE  /\ Probed(c) \in Int
           /\ start[c] >= 0 /\ idx[c] >= 0 => Probed(c) \in Resolvers
<1>1. start[c] \in Int /\ idx[c] \in Int /\ i[c] \in Nat
  BY ResolverAssumption DEF Types, Resolvers
<1>2. start[c] + i[c] \in Int /\ idx[c] + i[c] \in Int
      /\ (start[c] >= 0 => start[c] + i[c] >= 0) /\ (idx[c] >= 0 => idx[c] + i[c] >= 0)
  BY <1>1
<1>3. \A x \in (-(N - 1))..(N - 1) : x \in Int
  OBVIOUS
<1>. QED
  BY <1>2, <1>3, RemainderRange DEF Probed

\* Every step keeps the types and the indexes.
LEMMA InSliceStep == ASSUME Types, InSlice, [Next]_vars PROVE Types' /\ InSlice'
<1>1. N \in Nat \ {0} /\ Resolvers = 0..(N - 1) /\ IntLimit \in Nat \ {0} /\ counter \in Nat
  BY ResolverAssumption, WidthAssumption DEF Types, Resolvers
<1>2. ASSUME NEW c \in Callers, EnterRoundRobin(c) PROVE Types' /\ InSlice'
  <2> DEFINE first == Remainder(ToInt(counter), N)
  <2>1. strategy = "roundRobin" /\ counter' = counter + 1 /\ Enter(c, first)
    BY <1>2 DEF EnterRoundRobin
  <2>2. first \in (-(N - 1))..(N - 1) /\ (ToInt(counter) >= 0 => first >= 0)
    <3>1. \A x \in Resolvers : x >= 0
      BY <1>1
    <3>. QED
      BY <1>1, <3>1, ToIntSmall, RemainderRange
  <2>3. counter' <= IntLimit => ToInt(counter) >= 0
    BY <1>1, <2>1, ToIntSmall
  <2> HIDE DEF first
  <2>. QED
    BY <1>1, <2>1, <2>2, <2>3, EnterSound
<1>3. ASSUME NEW c \in Callers, EnterRandom(c) PROVE Types' /\ InSlice'
  <2>1. PICK first \in Resolvers : Enter(c, first) /\ UNCHANGED counter
    BY <1>3 DEF EnterRandom
  <2>2. first \in (-(N - 1))..(N - 1) /\ first >= 0 /\ counter >= counter
    BY <1>1, <2>1
  <2>. QED
    BY <1>1, <2>1, <2>2, EnterSound
<1>4. ASSUME NEW c \in Callers, Probe(c) PROVE Types' /\ InSlice'
  <2> DEFINE k == Probed(c)
  <2>1. k \in Int /\ (start[c] >= 0 /\ idx[c] >= 0 => k \in Resolvers)
    BY ProbedSound
  <2>2. /\ idx' = [idx EXCEPT ![c] = k]
        /\ refused' = [refused EXCEPT ![c] =
               IF k \in Resolvers /\ ~accepts[k] THEN refused[c] \cup {k} ELSE refused[c]]
        /\ UNCHANGED <<resolvers, strategy, counter, accepts, start>>
    BY <1>4 DEF Probe
  <2>3. \/ k \notin Resolvers /\ pc' = [pc EXCEPT ![c] = "panic"] /\ UNCHANGED i
        \/ k \in Resolvers /\ pc' = [pc EXCEPT ![c] = "chosen"] /\ UNCHANGED i
        \/ /\ k \in Resolvers /\ i' = [i EXCEPT ![c] = i[c] + 1] /\ UNCHANGED pc
           /\ i[c] + 1 # N
    BY <1>4 DEF Probe, LastTurn
  <2> HIDE DEF k
  <2>4. i' \in [Callers -> Resolvers]
    BY <1>1, <2>3 DEF Types
  <2>5. Types'
    BY <2>1, <2>2, <2>3, <2>4 DEF Types
  <2>6. \A x \in Resolvers : x >= 0
    BY <1>1
  <2>7. InSlice'
    BY <2>1, <2>2, <2>3, <2>6 DEF InSlice, Types
  <2>. QED
    BY <2>5, <2>7
<1>5. ASSUME NEW c \in Callers, Leave(c) PROVE Types' /\ InSlice'
  <2>1. 0 \in Resolvers /\ 0 \in (-(N - 1))..(N - 1)
    BY <1>1
  <2>. QED
    BY <1>5, <2>1 DEF Leave, Types, InSlice
<1>6. ASSUME NEW k \in Resolvers, Flip(k) PROVE Types' /\ InSlice'
  BY <1>6 DEF Flip, Types, InSlice
<1>7. CASE UNCHANGED vars
  BY <1>7 DEF vars, Types, InSlice
<1>. QED
  BY <1>2, <1>3, <1>4, <1>5, <1>6, <1>7 DEF Next

------------------------------------------------------------------------------
(* The search.                                                              *)

\* The probe of turn i is the one the order of probes says; a loop that started below
\* zero leaves the slice with its first.
LEMMA ProbedInOrder ==
    ASSUME Types, Search, NEW c \in Callers, pc[c] = "probe", Probed(c) \in Resolvers
    PROVE  start[c] \in Resolvers /\ Probed(c) = ProbeAt(start[c], i[c])
<1>1. /\ N \in Nat \ {0} /\ Resolvers = 0..(N - 1) /\ start[c] \in (-(N - 1))..(N - 1)
      /\ i[c] \in Resolvers /\ i[c] \in Nat /\ start[c] \in Int
  BY ResolverAssumption DEF Types, Resolvers
<1>2. Searching(c) /\ (strategy = "random" => start[c] >= 0)
      /\ strategy \in {"roundRobin", "random"}
  BY StrategyAssumption DEF Search, Types
<1>3. start[c] \in Resolvers
  <2>1. CASE i[c] > 0
    BY <1>2, <2>1 DEF Searching
  <2>2. CASE i[c] = 0 /\ start[c] < 0
    <3>1. strategy = "roundRobin" /\ start[c] \in (-(N - 1))..(-1) /\ start[c] + i[c] = start[c]
      BY <1>1, <1>2, <2>2
    <3>2. Probed(c) = start[c]
      BY <1>1, <3>1, RemainderRange DEF Probed
    <3>. QED
      BY <3>2
  <2>3. CASE start[c] >= 0
    BY <1>1, <2>3
  <2>. QED
    BY <1>1, <2>1, <2>2, <2>3
<1>4. CASE strategy = "roundRobin"
  <2>1. start[c] + i[c] \in Int /\ start[c] + i[c] >= 0
    BY <1>1, <1>3
  <2>. QED
    BY <1>3, <1>4, <2>1, RemainderRange DEF Probed, ProbeAt
<1>5. CASE strategy = "random" /\ i[c] = 0
  <2>1. idx[c] = start[c] /\ Triangle(0) = 0
    BY <1>2, <1>5 DEF Searching, Triangle
  <2>2. idx[c] + i[c] = start[c] + Triangle(i[c]) /\ idx[c] + i[c] \in Int /\ idx[c] + i[c] >= 0
    BY <1>1, <1>3, <1>5, <2>1
  <2>. QED
    BY <1>3, <1>5, <2>2, RemainderRange DEF Probed, ProbeAt
<1>6. CASE strategy = "random" /\ i[c] > 0
  <2>1. PICK n \in Nat, m \in Nat : n = i[c] /\ m = n - 1 /\ n > 0
    <3>1. i[c] - 1 \in Nat
      BY <1>1, <1>6
    <3>. QED
      BY <1>1, <1>6, <3>1
  <2>2. PICK x \in Nat : x = start[c] + Triangle(m) /\ x + n = start[c] + Triangle(n)
    <3>1. Triangle(m) \in Nat /\ Triangle(n) = Triangle(m) + n
      BY <2>1, TriangleStep
    <3>2. start[c] + Triangle(m) \in Nat
          /\ start[c] + Triangle(m) + n = start[c] + Triangle(n)
      BY <1>1, <1>3, <3>1
    <3>. QED
      BY <3>2
  <2>3. idx[c] = x % N
    BY <1>1, <1>2, <1>6, <2>1, <2>2 DEF Searching, ProbeAt
  <2>4. ((x % N) + n) % N = (x + n) % N
    BY <1>1, ModStep
  <2>5. (x % N) + n \in Int /\ (x % N) + n >= 0
    BY <1>1
  <2>6. Remainder((x % N) + n, N) = ((x % N) + n) % N
    BY <2>5, RemainderRange
  <2>. QED
    BY <1>3, <1>6, <2>1, <2>2, <2>3, <2>4, <2>6 DEF Probed, ProbeAt
<1>. QED
  BY <1>1, <1>2, <1>3, <1>4, <1>5, <1>6

\* The strategies whose loop is known to reach every resolver.
SearchComplete == Strategies \subseteq {"roundRobin"} \/ PowerOfTwo(N)

\* Nobody has begun to search.
LEMMA SearchInit == ASSUME Init PROVE Search /\ SettlesOnlyAfterAll
<1>1. \A c \in Callers : i[c] = 0 /\ start[c] = 0 /\ refused[c] = {} /\ pc[c] = "idle"
  BY DEF Init
<1>. QED
  BY <1>1 DEF Init, Search, SettlesOnlyAfterAll

\* One caller moves, and what the others have found stays.
LEMMA SearchOthers ==
    ASSUME Types, Search, SettlesOnlyAfterAll, NEW c \in Callers,
           UNCHANGED <<resolvers, strategy, accepts>>,
           \A d \in Callers \ {c} :
              /\ pc'[d] = pc[d] /\ start'[d] = start[d] /\ i'[d] = i[d]
              /\ idx'[d] = idx[d] /\ refused'[d] = refused[d],
           pc'[c] = "idle" => i'[c] = 0 /\ refused'[c] = {},
           pc'[c] = "probe" => Searching(c)',
           strategy = "random" => start'[c] >= 0,
           pc'[c] = "chosen" /\ idx'[c] \in refused'[c] => refused'[c] = Resolvers
    PROVE  Search' /\ SettlesOnlyAfterAll'
<1>1. Breakers' = Breakers
  BY DEF Breakers, FindsBreaker
<1>2. \A d \in Callers \ {c} : Searching(d) => Searching(d)'
  BY DEF Searching, ProbeAt
<1>3. SettlesOnlyAfterAll'
  BY DEF SettlesOnlyAfterAll
<1>4. Search'
  BY <1>1, <1>2 DEF Search
<1>. QED
  BY <1>3, <1>4

\* One probe: the search goes on, or it ends, with a resolver that refuses only if all have.
LEMMA SearchProbe ==
    ASSUME Types, Search, SettlesOnlyAfterAll, ProbesDistinct, NEW c \in Callers, Probe(c)
    PROVE  Search' /\ SettlesOnlyAfterAll'
<1> DEFINE k == Probed(c)
           s == start[c]
<1>1. /\ N \in Nat \ {0} /\ Resolvers = 0..(N - 1) /\ i[c] \in Resolvers /\ i[c] \in Nat
      /\ refused[c] \subseteq Resolvers /\ pc[c] = "probe"
  BY ResolverAssumption DEF Types, Resolvers, Probe
<1>2. /\ idx' = [idx EXCEPT ![c] = k]
      /\ refused' = [refused EXCEPT ![c] =
             IF k \in Resolvers /\ ~accepts[k] THEN refused[c] \cup {k} ELSE refused[c]]
      /\ UNCHANGED <<resolvers, strategy, counter, accepts, start>>
  BY DEF Probe
<1>3. Searching(c) /\ (\A r \in Resolvers \ Breakers : accepts[r])
      /\ (strategy = "random" => start'[c] >= 0)
  BY <1>1, <1>2 DEF Search
<1>4. k \in Resolvers => s \in Resolvers /\ k = ProbeAt(s, i[c])
  BY <1>1, ProbedInOrder
<1>5. \A x : ProbeAt(s, x)' = ProbeAt(s, x)
  BY <1>2 DEF ProbeAt
<1> HIDE DEF k
<1>6. idx'[c] = k
      /\ refused'[c] = IF k \in Resolvers /\ ~accepts[k] THEN refused[c] \cup {k} ELSE refused[c]
  BY <1>2 DEF Types
<1>7. CASE k \notin Resolvers /\ pc' = [pc EXCEPT ![c] = "panic"] /\ UNCHANGED i
  <2>1. pc'[c] = "panic"
    BY <1>7 DEF Types
  <2>. QED
    BY <1>2, <1>3, <1>7, <2>1, SearchOthers DEF Types
<1>8. CASE /\ k \in Resolvers /\ (Stops(k) \/ LastTurn(c))
           /\ pc' = [pc EXCEPT ![c] = "chosen"] /\ UNCHANGED i
  <2>1. pc'[c] = "chosen"
    BY <1>8 DEF Types
  <2>2. ASSUME accepts[k], k \in refused[c] PROVE FALSE
    <3>1. PICK u \in 0..(i[c] - 1) : k = ProbeAt(s, u)
      BY <1>3, <2>2 DEF Searching
    <3>2. u \in Resolvers /\ u # i[c]
      BY <1>1, <3>1
    <3>. QED
      BY <1>1, <1>4, <1>8, <3>1, <3>2 DEF ProbesDistinct
  <2>3. ASSUME ~accepts[k] PROVE refused'[c] = Resolvers
    <3>1. i[c] = N - 1
      BY <1>1, <1>3, <1>8, <2>3 DEF Stops, LastTurn
    <3>2. refused'[c] = {ProbeAt(s, u) : u \in 0..(i[c] - 1)} \cup {ProbeAt(s, i[c])}
      BY <1>3, <1>4, <1>6, <1>8, <2>3 DEF Searching
    <3>3. Resolvers = 0..(i[c] - 1) \cup {i[c]}
      BY <1>1, <3>1
    <3>4. refused'[c] = {ProbeAt(s, u) : u \in Resolvers}
      BY <3>2, <3>3
    <3>. QED
      BY <1>4, <1>8, <3>4, ProbesComplete
  <2>4. idx'[c] \in refused'[c] => refused'[c] = Resolvers
    BY <1>6, <2>2, <2>3
  <2>. QED
    BY <1>2, <1>3, <1>8, <2>1, <2>4, SearchOthers DEF Types
<1>9. CASE /\ k \in Resolvers /\ ~Stops(k) /\ ~LastTurn(c)
           /\ i' = [i EXCEPT ![c] = i[c] + 1] /\ UNCHANGED pc
  <2>1. i'[c] = i[c] + 1 /\ i'[c] > 0 /\ i'[c] - 1 = i[c] /\ ~accepts[k]
    <3>1. i'[c] = i[c] + 1
      BY <1>9 DEF Types
    <3>2. ~accepts[k]
      BY <1>9, Zenon DEF Stops
    <3>. QED
      BY <1>1, <3>1, <3>2
  <2>2. 0..(i'[c] - 1) = 0..(i[c] - 1) \cup {i[c]}
    BY <1>1, <2>1
  <2>3. refused'[c] = {ProbeAt(s, u) : u \in 0..(i'[c] - 1)}
    BY <1>3, <1>4, <1>6, <1>9, <2>1, <2>2 DEF Searching
  <2>4. start'[c] = s /\ s \in Resolvers
    BY <1>2, <1>4, <1>9
  <2>5. strategy' = strategy
    BY <1>2
  <2>6. Searching(c)'
    <3>1. idx'[c] = ProbeAt(s, i'[c] - 1)
      BY <1>4, <1>6, <1>9, <2>1
    <3> HIDE DEF s
    <3>. QED
      BY <2>1, <2>3, <2>4, <2>5, <3>1 DEF Searching, ProbeAt
  <2>. QED
    BY <1>1, <1>2, <1>3, <1>9, <2>6, SearchOthers DEF Types
<1>. QED
  <2>1. \/ k \notin Resolvers /\ pc' = [pc EXCEPT ![c] = "panic"] /\ UNCHANGED i
        \/ /\ k \in Resolvers /\ (Stops(k) \/ LastTurn(c))
           /\ pc' = [pc EXCEPT ![c] = "chosen"] /\ UNCHANGED i
        \/ /\ k \in Resolvers /\ ~Stops(k) /\ ~LastTurn(c)
           /\ i' = [i EXCEPT ![c] = i[c] + 1] /\ UNCHANGED pc
    BY Zenon DEF Probe, k
  <2>. QED
    BY <1>7, <1>8, <1>9, <2>1

\* Every step keeps the search.
LEMMA SearchStep ==
    ASSUME Types, Search, SettlesOnlyAfterAll, SearchComplete, [Next]_vars
    PROVE  Search' /\ SettlesOnlyAfterAll'
<1>1. ProbesDistinct
  BY StrategyAssumption, DistinctProbes DEF SearchComplete, Types
<1>2. ASSUME NEW c \in Callers, NEW first \in Int, Enter(c, first),
             strategy = "random" => first >= 0
      PROVE  Search' /\ SettlesOnlyAfterAll'
  <2>1. /\ pc[c] = "idle" /\ pc' = [pc EXCEPT ![c] = "probe"]
        /\ start' = [start EXCEPT ![c] = first] /\ idx' = [idx EXCEPT ![c] = first]
        /\ UNCHANGED <<resolvers, strategy, accepts, i, refused>>
    BY <1>2 DEF Enter
  <2>2. i[c] = 0 /\ refused[c] = {}
    BY <2>1 DEF Search
  <2>3. pc'[c] = "probe" /\ start'[c] = first /\ idx'[c] = first
    BY <2>1 DEF Types
  <2>4. Searching(c)'
    BY <2>1, <2>2, <2>3 DEF Searching
  <2>. QED
    BY <1>2, <2>1, <2>3, <2>4, SearchOthers DEF Types
<1>3. ASSUME NEW c \in Callers, EnterRoundRobin(c) PROVE Search' /\ SettlesOnlyAfterAll'
  <2>1. strategy = "roundRobin" /\ Enter(c, Remainder(ToInt(counter), N))
    BY <1>3 DEF EnterRoundRobin
  <2>2. Remainder(ToInt(counter), N) \in Int
    BY ToIntSmall, RemainderRange, ResolverAssumption DEF Types
  <2>. QED
    BY <1>2, <2>1, <2>2
<1>4. ASSUME NEW c \in Callers, EnterRandom(c) PROVE Search' /\ SettlesOnlyAfterAll'
  <2>1. PICK first \in Resolvers : Enter(c, first)
    BY <1>4 DEF EnterRandom
  <2>. QED
    BY <1>2, <2>1, ResolverAssumption DEF Resolvers
<1>5. ASSUME NEW c \in Callers, Leave(c) PROVE Search' /\ SettlesOnlyAfterAll'
  <2>1. pc'[c] = "idle" /\ i'[c] = 0 /\ refused'[c] = {} /\ start'[c] = 0
    BY <1>5 DEF Leave, Types
  <2>. QED
    BY <1>5, <2>1, SearchOthers DEF Leave, Types
<1>6. ASSUME NEW k \in Resolvers, Flip(k) PROVE Search' /\ SettlesOnlyAfterAll'
  <2>1. Breakers' = Breakers /\ k \in Breakers
    BY <1>6 DEF Flip, Breakers, FindsBreaker
  <2>2. \A r \in Resolvers \ Breakers : accepts'[r]
    BY <1>6, <2>1 DEF Flip, Search, Types
  <2>3. \A c \in Callers : Searching(c) => Searching(c)'
    BY <1>6 DEF Flip, Searching, ProbeAt
  <2>. QED
    BY <1>6, <2>1, <2>2, <2>3 DEF Flip, Search, SettlesOnlyAfterAll
<1>7. CASE UNCHANGED vars
  <2>1. Breakers' = Breakers /\ \A c \in Callers : Searching(c) => Searching(c)'
    BY <1>7 DEF vars, Breakers, FindsBreaker, Searching, ProbeAt
  <2>. QED
    BY <1>7, <2>1 DEF vars, Search, SettlesOnlyAfterAll
<1>. QED
  BY <1>1, <1>3, <1>4, <1>5, <1>6, <1>7, SearchProbe DEF Next

------------------------------------------------------------------------------
(* The theorems.                                                            *)

\* The types and the indexes hold of every execution.
THEOREM Indexing == Spec => [](Types /\ InSlice)
<1>1. Init => Types /\ InSlice
  BY InSliceInit
<1>2. Types /\ InSlice /\ [Next]_vars => (Types /\ InSlice)'
  BY InSliceStep
<1>. QED
  BY <1>1, <1>2, PTL DEF Spec

\* An index leaves the slice only after the counter has passed the largest int, for any
\* number of callers and resolvers and however their probes interleave.
THEOREM PanicNeedsOverflow == Spec => []PanicsOnlyAfterOverflow
<1>1. Types /\ InSlice => PanicsOnlyAfterOverflow
  BY WidthAssumption DEF Types, InSlice, PanicsOnlyAfterOverflow
<1>. QED
  BY <1>1, Indexing, PTL

\* A choice that refuses comes after all resolvers have refused: always by turns, and at
\* random if the number of resolvers is a power of two.
THEOREM SettlesLast == ASSUME SearchComplete PROVE Spec => []SettlesOnlyAfterAll
<1> DEFINE I == Types /\ InSlice /\ Search /\ SettlesOnlyAfterAll
<1>1. Init => I
  BY InSliceInit, SearchInit
<1>2. I /\ [Next]_vars => I'
  BY InSliceStep, SearchStep
<1>3. I => SettlesOnlyAfterAll
  OBVIOUS
<1>. QED
  BY <1>1, <1>2, <1>3, PTL DEF Spec
==============================================================================
