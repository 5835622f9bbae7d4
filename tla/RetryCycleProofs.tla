--------------------------- MODULE RetryCycleProofs ---------------------------
(***************************************************************************)
(* Proofs about RetryCycle, for any retry policies, any status codes, any  *)
(* Retry-After headers and any number of crashes.  The recursive functions *)
(* of Backoff are reasoned about by least counterexample.                  *)
(***************************************************************************)
EXTENDS RetryCycle, WellFoundedInduction, TLAPS

\* A set of natural numbers has a least element.
LEMMA LeastNat ==
    ASSUME NEW T \in SUBSET Nat, T # {}
    PROVE  \E x \in T : \A y \in T : x =< y
<1> DEFINE R == OpToRel(<, Nat)
<1>1. IsWellFoundedOn(R, Nat)
    BY NatLessThanWellFounded
<1>2. \A x, y \in Nat : y < x => <<y, x>> \in R
    BY DEF OpToRel
<1> HIDE DEF R
<1>3. PICK x \in T : \A y \in T : ~(<<y, x>> \in R)
    BY <1>1, WFMin
<1>4. \A y \in T : ~(y < x)
    BY <1>2, <1>3
<1>5. \A y \in T : x =< y
    BY <1>4
<1>6. QED
    BY <1>5

\* Induction up to n, for a property that is given by the set where it holds.
LEMMA Upwards ==
    ASSUME NEW n \in Nat, NEW S, 0 \in S,
           \A i \in 1..n : i - 1 \in S => i \in S
    PROVE  \A i \in 0..n : i \in S
<1> DEFINE Bad == {i \in 0..n : i \notin S}
<1> SUFFICES ASSUME Bad # {} PROVE FALSE
    OBVIOUS
<1>1. Bad \in SUBSET Nat
    OBVIOUS
<1>2. PICK x \in Bad : \A y \in Bad : x =< y
    BY <1>1, LeastNat
<1>3. x \in 1..n /\ x - 1 \in 0..n /\ ~(x =< x - 1)
    BY <1>2
<1>4. x - 1 \in S
    BY <1>2, <1>3
<1>5. QED
    BY <1>2, <1>3, <1>4

(***************************************************************************)
(* Primitive recursion: f[0] = a and f[i] = g[i - 1, f[i - 1]].            *)
(***************************************************************************)
Recursive(f, n, a, g) ==
    f[0] = a /\ \A i \in 1..n : f[i] = g[<<i - 1, f[i - 1]>>]

\* There is such a function on each 0..n.
LEMMA RecursionExists ==
    ASSUME NEW n \in Nat, NEW a \in Nat, NEW g \in [Nat \X Nat -> Nat]
    PROVE  \E f \in [0..n -> Nat] : Recursive(f, n, a, g)
<1> DEFINE P(k) == \E f \in [0..k -> Nat] : Recursive(f, k, a, g)
           S == {k \in Nat : P(k)}
<1>1. P(0)
    <2> DEFINE f == [i \in 0..0 |-> a]
    <2>1. f \in [0..0 -> Nat] /\ Recursive(f, 0, a, g)
        BY DEF Recursive
    <2>2. QED
        BY <2>1
<1>2. ASSUME NEW k \in Nat, P(k) PROVE P(k + 1)
    <2>1. PICK f \in [0..k -> Nat] : Recursive(f, k, a, g)
        BY <1>2
    <2> DEFINE v == g[<<k, f[k]>>]
               h == [i \in 0..(k + 1) |-> IF i = k + 1 THEN v ELSE f[i]]
    <2>2. v \in Nat
        BY <2>1
    <2>3. h \in [0..(k + 1) -> Nat]
        BY <2>1, <2>2
    <2>4. f[0] = a /\ \A i \in 1..k : f[i] = g[<<i - 1, f[i - 1]>>]
        BY <2>1 DEF Recursive
    <2>5. h[0] = a
        BY <2>4
    <2>6. ASSUME NEW i \in 1..(k + 1) PROVE h[i] = g[<<i - 1, h[i - 1]>>]
        <3>1. CASE i = k + 1
            <4>1. i - 1 = k /\ i \in 0..(k + 1) /\ k \in 0..(k + 1) /\ k # k + 1
                BY <3>1
            <4>2. h[k] = f[k] /\ h[i] = v
                BY <3>1, <4>1
            <4>3. QED
                BY <4>1, <4>2
        <3>2. CASE i # k + 1
            <4>1. i \in 1..k /\ i - 1 \in 0..(k + 1) /\ i - 1 # k + 1
                BY <3>2
            <4>2. h[i] = f[i] /\ h[i - 1] = f[i - 1]
                BY <3>2, <4>1
            <4>3. QED
                BY <2>4, <4>1, <4>2
        <3>3. QED
            BY <3>1, <3>2
    <2> HIDE DEF h, v
    <2>7. Recursive(h, k + 1, a, g)
        BY <2>5, <2>6 DEF Recursive
    <2>8. QED
        BY <2>3, <2>7
<1> HIDE DEF P
<1>3. \A i \in 0..n : i \in S
    <2>1. 0 \in S
        BY <1>1
    <2>2. \A i \in 1..n : i - 1 \in S => i \in S
        <3> SUFFICES ASSUME NEW i \in 1..n, i - 1 \in S PROVE i \in S
            OBVIOUS
        <3>1. i - 1 \in Nat /\ P(i - 1) /\ (i - 1) + 1 = i /\ i \in Nat
            OBVIOUS
        <3>2. P((i - 1) + 1)
            BY <1>2, <3>1
        <3>3. QED
            BY <3>1, <3>2
    <2> HIDE DEF S
    <2>3. QED
        BY <2>1, <2>2, Upwards
<1>4. P(n)
    BY <1>3
<1>5. QED
    BY <1>4 DEF P

\* Two of them agree where both are defined.
LEMMA RecursionUnique ==
    ASSUME NEW m \in Nat, NEW n \in Nat, m =< n, NEW a, NEW g, NEW f, NEW h,
           Recursive(f, m, a, g), Recursive(h, n, a, g)
    PROVE  \A i \in 0..m : f[i] = h[i]
<1> DEFINE S == {i \in 0..m : f[i] = h[i]}
<1>1. /\ f[0] = a /\ \A i \in 1..m : f[i] = g[<<i - 1, f[i - 1]>>]
      /\ h[0] = a /\ \A i \in 1..n : h[i] = g[<<i - 1, h[i - 1]>>]
    BY DEF Recursive
<1>2. 0 \in S
    BY <1>1
<1>3. \A i \in 1..m : i - 1 \in S => i \in S
    <2> SUFFICES ASSUME NEW i \in 1..m, i - 1 \in S PROVE f[i] = h[i]
        OBVIOUS
    <2>1. i \in 1..n /\ f[i - 1] = h[i - 1]
        OBVIOUS
    <2>2. QED
        BY <1>1, <2>1
<1> HIDE DEF S
<1>4. \A i \in 0..m : i \in S
    BY <1>2, <1>3, Upwards
<1>5. QED
    BY <1>4 DEF S
-----------------------------------------------------------------------------
(***************************************************************************)
(* The delays of a policy p, and the time before an attempt, as recursive  *)
(* functions with a known domain; Backoff defines the same.                *)
(***************************************************************************)
Doubling(p) ==
    [x \in Nat \X Nat |->
        IF 2 * x[2] > p.maxRetryDelay THEN p.maxRetryDelay ELSE 2 * x[2]]
Delays(p, n) ==
    CHOOSE f \in [0..n -> Nat] : Recursive(f, n, p.minRetryDelay, Doubling(p))
Delay(p, n) == Delays(p, n)[n]

Adding(p) == [x \in Nat \X Nat |-> x[2] + Delay(p, x[1])]
Sums(p, n) == CHOOSE f \in [0..n -> Nat] : Recursive(f, n, 0, Adding(p))
Elapsed(p, n) == Sums(p, n)[n]

\* The delays are natural numbers.
LEMMA DelaysType ==
    ASSUME NEW p \in BackoffPolicy, NEW n \in Nat
    PROVE  /\ Delays(p, n) \in [0..n -> Nat]
           /\ Recursive(Delays(p, n), n, p.minRetryDelay, Doubling(p))
           /\ Delay(p, n) \in Nat
<1>1. p.minRetryDelay \in Nat /\ p.maxRetryDelay \in Nat
    BY DEF BackoffPolicy
<1>2. Doubling(p) \in [Nat \X Nat -> Nat]
    BY <1>1 DEF Doubling
<1>3. \E f \in [0..n -> Nat] : Recursive(f, n, p.minRetryDelay, Doubling(p))
    BY <1>1, <1>2, RecursionExists
<1>4. /\ Delays(p, n) \in [0..n -> Nat]
      /\ Recursive(Delays(p, n), n, p.minRetryDelay, Doubling(p))
    BY <1>3 DEF Delays
<1>5. QED
    BY <1>4 DEF Delay

\* No delay is zero if neither bound is.
LEMMA DelayPositive ==
    ASSUME NEW p \in BackoffPolicy, NEW n \in Nat,
           p.minRetryDelay > 0, p.maxRetryDelay > 0
    PROVE  Delay(p, n) > 0
<1> DEFINE f == Delays(p, n)
           S == {i \in 0..n : f[i] > 0}
<1>0. f \in [0..n -> Nat] /\ Recursive(f, n, p.minRetryDelay, Doubling(p))
    BY DelaysType
<1>2. p.minRetryDelay \in Nat /\ p.maxRetryDelay \in Nat
    BY DEF BackoffPolicy
<1> HIDE DEF f
<1>1. /\ f \in [0..n -> Nat]
      /\ f[0] = p.minRetryDelay
      /\ \A i \in 1..n : f[i] = Doubling(p)[<<i - 1, f[i - 1]>>]
    BY <1>0 DEF Recursive
<1>3. 0 \in S
    BY <1>1
<1>4. \A i \in 1..n : i - 1 \in S => i \in S
    <2> SUFFICES ASSUME NEW i \in 1..n, i - 1 \in S PROVE f[i] > 0
        OBVIOUS
    <2>1. <<i - 1, f[i - 1]>> \in Nat \X Nat /\ f[i - 1] \in Nat /\ f[i - 1] > 0
        BY <1>1
    <2>2. f[i] = IF 2 * f[i - 1] > p.maxRetryDelay THEN p.maxRetryDelay ELSE 2 * f[i - 1]
        BY <1>1, <2>1 DEF Doubling
    <2>3. QED
        BY <1>2, <2>1, <2>2
<1> HIDE DEF S
<1>5. \A i \in 0..n : i \in S
    BY <1>3, <1>4, Upwards
<1>6. n \in S
    BY <1>5
<1>7. QED
    BY <1>6 DEF S, f, Delay

\* So are their sums.
LEMMA SumsType ==
    ASSUME NEW p \in BackoffPolicy, NEW n \in Nat
    PROVE  /\ Sums(p, n) \in [0..n -> Nat]
           /\ Recursive(Sums(p, n), n, 0, Adding(p))
           /\ Elapsed(p, n) \in Nat
<1>0. \A i \in Nat : Delay(p, i) \in Nat
    BY DelaysType
<1>1. Adding(p) \in [Nat \X Nat -> Nat]
    BY <1>0 DEF Adding
<1>2. \E f \in [0..n -> Nat] : Recursive(f, n, 0, Adding(p))
    BY <1>1, RecursionExists
<1>3. /\ Sums(p, n) \in [0..n -> Nat]
      /\ Recursive(Sums(p, n), n, 0, Adding(p))
    BY <1>2 DEF Sums
<1>4. QED
    BY <1>3 DEF Elapsed

\* One more attempt takes one more delay.
LEMMA ElapsedSteps ==
    ASSUME NEW p \in BackoffPolicy
    PROVE  /\ Elapsed(p, 0) = 0
           /\ \A n \in Nat : Elapsed(p, n + 1) = Elapsed(p, n) + Delay(p, n)
<1>1. Elapsed(p, 0) = 0
    BY SumsType DEF Elapsed, Recursive
<1>2. ASSUME NEW n \in Nat PROVE Elapsed(p, n + 1) = Elapsed(p, n) + Delay(p, n)
    <2> DEFINE f == Sums(p, n)
               h == Sums(p, n + 1)
    <2>1. n + 1 \in Nat /\ n =< n + 1 /\ n + 1 \in 1..(n + 1) /\ n \in 0..n
          /\ (n + 1) - 1 = n
        OBVIOUS
    <2>2. /\ f \in [0..n -> Nat] /\ Recursive(f, n, 0, Adding(p))
          /\ h \in [0..(n + 1) -> Nat] /\ Recursive(h, n + 1, 0, Adding(p))
        BY <2>1, SumsType
    <2> HIDE DEF f, h
    <2>3. f[n] = h[n]
        BY <2>1, <2>2, RecursionUnique
    <2>4. h[n + 1] = Adding(p)[<<n, h[n]>>]
        <3>1. \A i \in 1..(n + 1) : h[i] = Adding(p)[<<i - 1, h[i - 1]>>]
            BY <2>1, <2>2 DEF Recursive
        <3>2. h[n + 1] = Adding(p)[<<(n + 1) - 1, h[(n + 1) - 1]>>]
            BY <2>1, <3>1
        <3>3. QED
            BY <2>1, <3>2
    <2>5. <<n, h[n]>> \in Nat \X Nat
        BY <2>2
    <2>6. h[n + 1] = h[n] + Delay(p, n)
        BY <2>4, <2>5 DEF Adding
    <2>7. QED
        BY <2>3, <2>6 DEF Elapsed, f, h
<1>3. QED
    BY <1>1, <1>2

\* With positive delays, time grows with every attempt, at least by one.
LEMMA ElapsedGrows ==
    ASSUME NEW p \in BackoffPolicy, p.minRetryDelay > 0, p.maxRetryDelay > 0,
           NEW n \in Nat
    PROVE  /\ Elapsed(p, n) >= n
           /\ \A i \in 0..n : Elapsed(p, i) =< Elapsed(p, n)
<1>1. \A i \in Nat : Elapsed(p, i) \in Nat /\ Delay(p, i) \in Nat /\ Delay(p, i) > 0
    BY SumsType, DelaysType, DelayPositive
<1>2. Elapsed(p, 0) = 0 /\ \A i \in Nat : Elapsed(p, i + 1) = Elapsed(p, i) + Delay(p, i)
    BY ElapsedSteps
<1> DEFINE S == {k \in Nat : /\ Elapsed(p, k) >= k
                             /\ \A i \in 0..k : Elapsed(p, i) =< Elapsed(p, k)}
<1>3. 0 \in S
    BY <1>1, <1>2
<1>4. \A k \in 1..n : k - 1 \in S => k \in S
    <2> SUFFICES ASSUME NEW k \in 1..n, k - 1 \in S PROVE k \in S
        OBVIOUS
    <2> DEFINE j == k - 1
    <2>1. j \in Nat /\ j + 1 = k /\ k \in Nat
        OBVIOUS
    <2>2. /\ Elapsed(p, j) >= j
          /\ \A i \in 0..j : Elapsed(p, i) =< Elapsed(p, j)
        OBVIOUS
    <2>3. Elapsed(p, k) = Elapsed(p, j) + Delay(p, j)
        BY <1>2, <2>1
    <2> HIDE DEF j
    <2>4. Elapsed(p, k) > Elapsed(p, j)
        BY <1>1, <2>1, <2>3
    <2>5. Elapsed(p, k) >= k
        BY <1>1, <2>1, <2>2, <2>4
    <2>6. ASSUME NEW i \in 0..k PROVE Elapsed(p, i) =< Elapsed(p, k)
        <3>1. i \in Nat /\ (i = k \/ i \in 0..j)
            BY <2>1
        <3>2. i \in 0..j => Elapsed(p, i) =< Elapsed(p, j)
            BY <2>2
        <3>3. Elapsed(p, i) \in Nat /\ Elapsed(p, j) \in Nat /\ Elapsed(p, k) \in Nat
            BY <1>1, <2>1, <3>1
        <3>4. QED
            BY <2>4, <3>1, <3>2, <3>3
    <2>7. QED
        BY <2>1, <2>5, <2>6
<1> HIDE DEF S
<1>5. \A i \in 0..n : i \in S
    BY <1>3, <1>4, Upwards
<1>6. n \in S
    BY <1>5
<1>7. QED
    BY <1>6 DEF S

\* Backoff's delays are these.
LEMMA DelayOfPolicy ==
    ASSUME policy \in BackoffPolicy, NEW n \in Nat
    PROVE  retryDelayForAttempt(n) = Delay(policy, n)
<1> DEFINE Q(f) == f = [i \in 0..n |->
               IF i = 0 THEN policy.minRetryDelay
               ELSE LET doubled == 2 * f[i - 1]
                    IN  IF doubled > policy.maxRetryDelay
                        THEN policy.maxRetryDelay ELSE doubled]
           d == CHOOSE f : Q(f)
           h == Delays(policy, n)
<1>1. retryDelayForAttempt(n) = d[n]
    BY DEF retryDelayForAttempt
<1>0. h \in [0..n -> Nat] /\ Recursive(h, n, policy.minRetryDelay, Doubling(policy))
    BY DelaysType
<1> HIDE DEF h
<1>2. /\ h \in [0..n -> Nat]
      /\ h[0] = policy.minRetryDelay
      /\ \A i \in 1..n : h[i] = Doubling(policy)[<<i - 1, h[i - 1]>>]
    BY <1>0 DEF Recursive
<1>3. \A i \in 1..n : h[i] = IF 2 * h[i - 1] > policy.maxRetryDelay
                             THEN policy.maxRetryDelay ELSE 2 * h[i - 1]
    <2> SUFFICES ASSUME NEW i \in 1..n
                 PROVE  h[i] = IF 2 * h[i - 1] > policy.maxRetryDelay
                               THEN policy.maxRetryDelay ELSE 2 * h[i - 1]
        OBVIOUS
    <2>1. <<i - 1, h[i - 1]>> \in Nat \X Nat
        BY <1>2
    <2>2. QED
        BY <1>2, <2>1 DEF Doubling
<1>4. Q(h)
    <2>1. \A i \in 0..n : h[i] = IF i = 0 THEN policy.minRetryDelay
             ELSE IF 2 * h[i - 1] > policy.maxRetryDelay
                  THEN policy.maxRetryDelay ELSE 2 * h[i - 1]
        BY <1>2, <1>3
    <2>2. QED
        BY <1>2, <2>1
<1>5. \E f : Q(f)
    BY <1>4
<1> HIDE DEF Q
<1>6. Q(d)
    BY <1>5
<1> HIDE DEF d
<1>7. \A i \in 0..n : d[i] = IF i = 0 THEN policy.minRetryDelay
         ELSE IF 2 * d[i - 1] > policy.maxRetryDelay
              THEN policy.maxRetryDelay ELSE 2 * d[i - 1]
    BY <1>6 DEF Q
<1> DEFINE S == {i \in 0..n : d[i] = h[i]}
<1>8. 0 \in S
    BY <1>2, <1>7
<1>9. \A i \in 1..n : i - 1 \in S => i \in S
    BY <1>3, <1>7
<1> HIDE DEF S
<1>10. \A i \in 0..n : i \in S
    BY <1>8, <1>9, Upwards
<1>11. n \in S
    BY <1>10
<1>12. QED
    BY <1>1, <1>11 DEF S, h, Delay

\* elapsedBeforeAttempt adds the delays up.
LEMMA ElapsedOfPolicy ==
    ASSUME policy \in BackoffPolicy, NEW n \in Nat
    PROVE  elapsedBeforeAttempt(n) = Elapsed(policy, n)
<1> DEFINE Q(f) == f = [i \in 0..n |->
               IF i = 0 THEN 0 ELSE f[i - 1] + retryDelayForAttempt(i - 1)]
           d == CHOOSE f : Q(f)
           h == Sums(policy, n)
<1>1. elapsedBeforeAttempt(n) = d[n]
    BY DEF elapsedBeforeAttempt
<1>0. h \in [0..n -> Nat] /\ Recursive(h, n, 0, Adding(policy))
    BY SumsType
<1> HIDE DEF h
<1>2. /\ h \in [0..n -> Nat]
      /\ h[0] = 0
      /\ \A i \in 1..n : h[i] = Adding(policy)[<<i - 1, h[i - 1]>>]
    BY <1>0 DEF Recursive
<1>3. \A i \in 1..n : h[i] = h[i - 1] + retryDelayForAttempt(i - 1)
    <2> SUFFICES ASSUME NEW i \in 1..n
                 PROVE  h[i] = h[i - 1] + retryDelayForAttempt(i - 1)
        OBVIOUS
    <2>1. <<i - 1, h[i - 1]>> \in Nat \X Nat /\ i - 1 \in Nat
        BY <1>2
    <2>2. retryDelayForAttempt(i - 1) = Delay(policy, i - 1)
        BY <2>1, DelayOfPolicy
    <2>3. QED
        BY <1>2, <2>1, <2>2 DEF Adding
<1>4. Q(h)
    <2>1. \A i \in 0..n : h[i] = IF i = 0 THEN 0 ELSE h[i - 1] + retryDelayForAttempt(i - 1)
        BY <1>2, <1>3
    <2>2. QED
        BY <1>2, <2>1
<1>5. \E f : Q(f)
    BY <1>4
<1> HIDE DEF Q
<1>6. Q(d)
    BY <1>5
<1> HIDE DEF d
<1>7. \A i \in 0..n : d[i] = IF i = 0 THEN 0 ELSE d[i - 1] + retryDelayForAttempt(i - 1)
    BY <1>6 DEF Q
<1> DEFINE S == {i \in 0..n : d[i] = h[i]}
<1>8. 0 \in S
    BY <1>2, <1>7
<1>9. \A i \in 1..n : i - 1 \in S => i \in S
    BY <1>3, <1>7
<1> HIDE DEF S
<1>10. \A i \in 0..n : i \in S
    BY <1>8, <1>9, Upwards
<1>11. n \in S
    BY <1>10
<1>12. QED
    BY <1>1, <1>11 DEF S, h, Elapsed
-----------------------------------------------------------------------------
(***************************************************************************)
(* What the classification of an answer says about the retry it asks for.  *)
(***************************************************************************)

\* No header overflows a time.Duration.
HeadersFit == \A n \in HeaderSeconds : n * Second =< MaxDuration

\* Inside the range of a Duration nothing wraps.
LEMMA NoWrap ==
    ASSUME NEW x \in 0..MaxDuration
    PROVE  Wrap(x) = x
<1> DEFINE y == x + MaxDuration + 1
           m == 2 * (MaxDuration + 1)
<1>1. x \in Nat /\ MaxDuration \in Nat /\ y \in Nat /\ m \in Nat \ {0} /\ 0 =< y /\ y < m
    BY DurationAssumption
<1>2. \A a \in Nat, b \in Nat \ {0} : a < b => a % b = a
    OBVIOUS
<1> HIDE DEF y, m
<1>3. y % m = y
    BY <1>1, <1>2
<1>4. QED
    BY <1>1, <1>3 DEF Wrap, y, m

\* parseRetryAfter asks for at most one delay, at least what the header says.
LEMMA ParsedDelay ==
    ASSUME NEW header \in Headers, elapsed \in Nat
    PROVE  /\ Asked(header) \in Int
           /\ parseRetryAfter(header, elapsed) \in SUBSET Int
           /\ \A r, s \in parseRetryAfter(header, elapsed) : r = s
           /\ HeadersFit =>
                 \/ Asked(header) =< 0
                 \/ Asked(header) \in parseRetryAfter(header, elapsed)
<1>1. /\ Second \in Nat \ {0} /\ MaxDuration \in Nat
      /\ MaxRetryAfterDelay \in Nat
    BY DurationAssumption
<1>2. \A x \in Int : Clamp(x) \in Int /\ (x =< 0 => Clamp(x) =< 0)
    BY <1>1 DEF Clamp
<1>3. \A x \in Int : Wrap(x) \in Int
    BY <1>1 DEF Wrap
<1>4. CASE header = Absent
    <2>1. header.kind = "absent"
        BY <1>4 DEF Absent
    <2>2. Asked(header) = 0 /\ parseRetryAfter(header, elapsed) = {}
        BY <2>1 DEF Asked, parseRetryAfter
    <2>3. QED
        BY <2>2
<1>5. CASE \E n \in HeaderSeconds : header = Seconds(n)
    <2>1. PICK n \in HeaderSeconds : header = Seconds(n)
        BY <1>5
    <2> DEFINE x == n * Second
    <2>2. header.kind = "seconds" /\ header.value = n
        BY <2>1 DEF Seconds
    <2>3. n \in Int /\ x \in Int /\ (n < 0 => x =< 0) /\ (n >= 0 => x >= 0)
        BY <1>1, RetryCycleAssumption
    <2>4. /\ Asked(header) = Clamp(x)
          /\ parseRetryAfter(header, elapsed) = IF n < 0 THEN {} ELSE {Clamp(Wrap(x))}
        BY <2>2 DEF Asked, parseRetryAfter, SecondsToDuration
    <2>5. ASSUME HeadersFit, n >= 0 PROVE Wrap(x) = x
        <3>1. x \in 0..MaxDuration
            BY <1>1, <2>3, <2>5 DEF HeadersFit
        <3> HIDE DEF x
        <3>2. QED
            BY <3>1, NoWrap
    <2> HIDE DEF x
    <2>6. Clamp(x) \in Int /\ Wrap(x) \in Int /\ Clamp(Wrap(x)) \in Int
          /\ (n < 0 => Clamp(x) =< 0)
        BY <1>2, <1>3, <2>3
    <2>7. QED
        BY <2>3, <2>4, <2>5, <2>6
<1>6. CASE \E t \in HeaderDates : header = Date(elapsed + t)
    <2>1. PICK t \in HeaderDates : header = Date(elapsed + t)
        BY <1>6
    <2>2. header.kind = "date" /\ header.value = elapsed + t
        BY <2>1 DEF Date
    <2>3. t \in Int /\ header.value - elapsed = t
        BY <2>2, RetryCycleAssumption
    <2>4. /\ Asked(header) = Clamp(t)
          /\ parseRetryAfter(header, elapsed) = IF t > 0 THEN {Clamp(t)} ELSE {}
        BY <2>2, <2>3 DEF Asked, parseRetryAfter
    <2>5. QED
        BY <1>2, <2>3, <2>4
<1>7. QED
    BY <1>4, <1>5, <1>6 DEF Headers

\* A delay that a scheduled retry may have after the answer number n.
Allowed(n, delay) ==
    /\ delay \in Nat /\ delay >= Delay(policy, n)
    /\ Elapsed(policy, n) + delay =< policy.abortAfter
    /\ policy.maxAttempts > 0 => n + 1 < policy.maxAttempts

\* A delay that GetRetryDelay returns is allowed.
LEMMA GetRetryDelayAllowed ==
    ASSUME policy \in BackoffPolicy, NEW n \in Nat
    PROVE  \/ GetRetryDelay(n) = Exhausted
           \/ GetRetryDelay(n) = Delay(policy, n) /\ Allowed(n, Delay(policy, n))
<1>1. /\ Delay(policy, n) \in Nat /\ Elapsed(policy, n) \in Nat
      /\ policy.abortAfter \in Nat /\ policy.maxAttempts \in Int
    BY DelaysType, SumsType DEF BackoffPolicy
<1>2. /\ retryDelayForAttempt(n) = Delay(policy, n)
      /\ elapsedBeforeAttempt(n) = Elapsed(policy, n)
    BY DelayOfPolicy, ElapsedOfPolicy
<1>3. QED
    BY <1>1, <1>2 DEF GetRetryDelay, Capped, LimitRetryDelay, Allowed

\* So is one that Retry-After has made longer.
LEMMA resolveRetryDelayAllowed ==
    ASSUME policy \in BackoffPolicy, NEW n \in Nat, elapsed \in Nat,
           NEW header \in Headers
    PROVE  LET delay == resolveRetryDelay(n, elapsed, header) IN
           \/ delay = Exhausted
           \/ Allowed(n, delay) /\ (HeadersFit => delay >= Asked(header))
<1> DEFINE base == GetRetryDelay(n)
           parsed == parseRetryAfter(header, elapsed)
           longer == {r \in parsed : r > base}
           delay == resolveRetryDelay(n, elapsed, header)
<1>1. delay = IF base = Exhausted \/ longer = {} THEN base
              ELSE LimitRetryDelay(n, CHOOSE r \in longer : TRUE)
    BY DEF resolveRetryDelay
<1>2. \/ base = Exhausted
      \/ base = Delay(policy, n) /\ Allowed(n, base)
    BY GetRetryDelayAllowed
<1>3. /\ Asked(header) \in Int /\ parsed \in SUBSET Int
      /\ \A r, s \in parsed : r = s
      /\ HeadersFit => Asked(header) =< 0 \/ Asked(header) \in parsed
    BY ParsedDelay
<1>4. /\ Delay(policy, n) \in Nat /\ Elapsed(policy, n) \in Nat
      /\ policy.abortAfter \in Nat
      /\ elapsedBeforeAttempt(n) = Elapsed(policy, n)
    BY DelaysType, SumsType, ElapsedOfPolicy DEF BackoffPolicy
<1> HIDE DEF base, parsed, delay
<1>5. CASE base = Exhausted
    BY <1>1, <1>5 DEF delay
<1>6. CASE base # Exhausted /\ longer = {}
    <2>1. delay = base /\ Allowed(n, delay) /\ base \in Nat
        BY <1>1, <1>2, <1>4, <1>6
    <2>2. \A r \in parsed : r \in Int /\ ~(r > base)
        BY <1>3, <1>6
    <2>3. HeadersFit => base >= Asked(header)
        BY <1>3, <2>1, <2>2
    <2>4. QED
        BY <2>1, <2>3 DEF delay
<1>7. CASE base # Exhausted /\ longer # {}
    <2> DEFINE r == CHOOSE r \in longer : TRUE
    <2>1. r \in longer
        BY <1>7
    <2>2. delay = LimitRetryDelay(n, r)
        BY <1>1, <1>7
    <2> HIDE DEF r
    <2>3. r \in parsed /\ r \in Int /\ r > base /\ base \in Nat /\ base = Delay(policy, n)
        BY <1>2, <1>3, <1>4, <1>7, <2>1
    <2>4. delay = IF Elapsed(policy, n) + r > policy.abortAfter THEN Exhausted ELSE r
        BY <1>4, <2>2 DEF LimitRetryDelay
    <2>5. HeadersFit => r >= Asked(header)
        BY <1>3, <2>3
    <2>6. policy.maxAttempts > 0 => n + 1 < policy.maxAttempts
        BY <1>2, <1>7 DEF Allowed
    <2>7. delay = Exhausted \/ (delay = r /\ Allowed(n, r))
        BY <1>4, <2>3, <2>4, <2>6 DEF Allowed
    <2>8. QED
        BY <2>5, <2>7 DEF delay
<1>8. QED
    BY <1>5, <1>6, <1>7

\* A retry that classifyResponse schedules is allowed by the policy, fits into
\* the window, and waits as long as the header asks.
LEMMA ScheduledRetry ==
    ASSUME policy \in BackoffPolicy, NEW n \in Nat, elapsed \in Nat,
           NEW code \in Code, NEW header \in Headers, NEW result,
           result = classifyResponse(code, header, n, elapsed, 0),
           result.status = StatusAttemptToRetry
    PROVE  LET delay == result.next - elapsed IN
           /\ Allowed(n, delay)
           /\ elapsed + delay =< policy.abortAfter
           /\ HeadersFit => delay >= IF code = NoStatus THEN 0 ELSE Asked(header)
<1> DEFINE kind == terminalAttemptStatus(code)
           delay == IF code = NoStatus THEN GetRetryDelay(n)
                    ELSE resolveRetryDelay(n, elapsed, header)
<1>1. /\ kind \in {"success", "failed", "none"}
      /\ kind # "none" => code # NoStatus
    <2>1. kind = "success" \/ kind = "failed" \/ kind = "none"
        BY DEF terminalAttemptStatus
    <2>2. kind # "none" => code \in 200..299 \/ code \in 400..499
        BY DEF terminalAttemptStatus, isPermanentClientError
    <2> HIDE DEF kind
    <2>3. code \in 200..299 \/ code \in 400..499 => code # NoStatus
        BY DEF NoStatus
    <2>4. QED
        BY <2>1, <2>2, <2>3
<1>2. /\ kind # "none" => result = [status |-> kind]
      /\ kind = "none" => result = scheduleAttemptRetry(delay, elapsed, 0)
    <2> HIDE DEF kind
    <2>1. CASE kind # "none"
        BY <1>1, <2>1 DEF classifyResponse, kind
    <2>2. CASE kind = "none"
        BY <1>1, <2>2 DEF classifyResponse, kind
    <2>3. QED
        BY <2>1, <2>2
<1> HIDE DEF kind
<1>4. result = scheduleAttemptRetry(delay, elapsed, 0)
    <2>1. [status |-> kind].status = kind
        OBVIOUS
    <2>2. StatusAttemptToRetry # "success" /\ StatusAttemptToRetry # "failed"
        BY Zenon DEF StatusAttemptToRetry
    <2>3. QED
        BY <1>1, <1>2, <2>1, <2>2
<1>5. delay = Exhausted \/ (/\ Allowed(n, delay)
                            /\ HeadersFit => delay >= IF code = NoStatus THEN 0
                                                      ELSE Asked(header))
    <2>1. CASE code = NoStatus
        <3>1. delay = GetRetryDelay(n)
            BY <2>1
        <3>2. Delay(policy, n) \in Nat
            BY DelaysType
        <3> HIDE DEF delay
        <3>3. delay = Exhausted \/ (delay = Delay(policy, n) /\ Allowed(n, delay))
            BY <3>1, GetRetryDelayAllowed
        <3>4. delay = Delay(policy, n) => delay >= 0
            BY <3>2
        <3>5. QED
            BY <2>1, <3>3, <3>4
    <2>2. CASE code # NoStatus
        <3>1. delay = resolveRetryDelay(n, elapsed, header)
            BY <2>2
        <3>2. QED
            BY <2>2, <3>1, resolveRetryDelayAllowed
    <2>3. QED
        BY <2>1, <2>2
<1> HIDE DEF delay
<1>6. /\ Failed.status = "failed" /\ ToRetry(elapsed + delay).next = elapsed + delay
      /\ StatusAttemptToRetry # "failed"
    <2>1. StatusAttemptToRetry # "failed"
        BY Zenon DEF StatusAttemptToRetry
    <2>2. QED
        BY <2>1 DEF Failed, ToRetry
<1>7. /\ delay # Exhausted /\ elapsed + delay - 0 =< policy.abortAfter
      /\ result = ToRetry(elapsed + delay)
    BY <1>4, <1>6 DEF scheduleAttemptRetry, LimitRetryWindow
<1>8. Allowed(n, delay) /\ delay \in Nat
    BY <1>5, <1>7 DEF Allowed
<1>9. result.next - elapsed = delay
    BY <1>6, <1>7, <1>8
<1>10. elapsed + delay =< policy.abortAfter
    BY <1>7, <1>8
<1>11. QED
    BY <1>5, <1>7, <1>8, <1>9, <1>10
-----------------------------------------------------------------------------
(***************************************************************************)
(* The cycle.  Every delay that was granted fits into the window together  *)
(* with the delays before it, and while the generation is open the cap     *)
(* leaves room for one more attempt.                                       *)
(***************************************************************************)
Over == phase \in {"succeeded", "failed"}

Budget ==
    /\ policy.maxAttempts > 0 => attemptCount =< policy.maxAttempts
    /\ attemptCount > 0 => Elapsed(policy, attemptCount - 1) =< policy.abortAfter
    /\ ~Over =>
          /\ Elapsed(policy, attemptCount) =< policy.abortAfter
          /\ policy.maxAttempts > 0 => attemptCount < policy.maxAttempts

Inv == TypeOK /\ ScheduledInWindow /\ Budget

\* A retry waited as long as it had to, unless a header overflows.
Honoured == HeadersFit => RetryAfterHonoured

\* The fields of the policy.
LEMMA PolicyType ==
    ASSUME policy \in Policies
    PROVE  /\ policy \in BackoffPolicy
           /\ policy.abortAfter \in Nat /\ policy.maxAttempts \in Int
BY RetryCycleAssumption DEF BackoffPolicy

\* The invariant holds initially and is kept by every action.
LEMMA InitInv == Init => Inv /\ Honoured
<1> SUFFICES ASSUME Init PROVE Inv /\ Honoured
    OBVIOUS
<1>1. /\ policy \in BackoffPolicy /\ policy \in Policies
      /\ policy.abortAfter \in Nat /\ policy.maxAttempts \in Int
    BY PolicyType DEF Init
<1>2. TypeOK
    <2>1. phase \in Phase
        BY DEF Init, Phase
    <2>2. /\ attemptCount \in Nat /\ elapsed \in 0..(policy.abortAfter + 1)
          /\ wait \in Nat /\ age \in 0..(StaleAge + 1) /\ crashes \in 0..MaxCrashes
        BY <1>1, RetryCycleAssumption DEF Init
    <2>3. started \in BOOLEAN
        BY DEF Init
    <2>4. last \in [delay : Nat, backoff : Nat, asked : Int]
        BY DEF Init, NoRetryYet
    <2>5. QED
        BY <1>1, <2>1, <2>2, <2>3, <2>4 DEF TypeOK
<1>3. ScheduledInWindow
    BY DEF Init, ScheduledInWindow
<1>4. Budget
    <2>1. Elapsed(policy, 0) = 0
        BY <1>1, ElapsedSteps
    <2>2. QED
        BY <1>1, <2>1 DEF Init, Budget, Over
<1>5. Honoured
    BY DEF Init, Honoured, RetryAfterHonoured, NoRetryYet
<1>6. QED
    BY <1>2, <1>3, <1>4, <1>5 DEF Inv

\* A step that counts no attempt and does not reopen the generation.
LEMMA SameBudget ==
    ASSUME Budget, UNCHANGED <<policy, attemptCount>>, Over => Over'
    PROVE  Budget'
BY DEF Budget, Over

\* An answer: the end of the generation, or a retry that is allowed.
LEMMA AnswerInv ==
    ASSUME Inv, Honoured, NEW code \in Code, NEW header \in Headers, Answer(code, header)
    PROVE  Inv' /\ Honoured'
<1> DEFINE n == attemptCount
           result == classifyResponse(code, header, n, elapsed, 0)
<1>1. TypeOK /\ Budget /\ ScheduledInWindow
    BY DEF Inv
<1>2. /\ policy \in Policies /\ policy \in BackoffPolicy
      /\ policy.abortAfter \in Nat /\ policy.maxAttempts \in Int
      /\ n \in Nat /\ elapsed \in Nat /\ elapsed \in 0..(policy.abortAfter + 1)
    BY <1>1, PolicyType DEF TypeOK
<1>3. /\ phase = "sending" /\ attemptCount' = n + 1
      /\ UNCHANGED <<policy, started, elapsed, age, crashes>>
    BY DEF Answer
<1>4. /\ Elapsed(policy, n) =< policy.abortAfter
      /\ policy.maxAttempts > 0 => n < policy.maxAttempts
    BY <1>1, <1>3 DEF Budget, Over
<1>5. /\ Elapsed(policy, n) \in Nat /\ Delay(policy, n) \in Nat
      /\ Elapsed(policy, n + 1) = Elapsed(policy, n) + Delay(policy, n)
    BY <1>2, SumsType, DelaysType, ElapsedSteps
<1>6. CASE phase' \in {"succeeded", "failed"} /\ UNCHANGED <<wait, last>>
    <2>1. TypeOK'
        BY <1>1, <1>2, <1>3, <1>6 DEF TypeOK, Phase
    <2>2. ScheduledInWindow'
        BY <1>6 DEF ScheduledInWindow
    <2>3. (n + 1) - 1 = n /\ (policy.maxAttempts > 0 => n + 1 =< policy.maxAttempts)
        BY <1>2, <1>4
    <2>4. Budget'
        BY <1>3, <1>4, <1>6, <2>3 DEF Budget, Over
    <2>5. Honoured'
        BY <1>6 DEF Honoured, RetryAfterHonoured
    <2>6. QED
        BY <2>1, <2>2, <2>4, <2>5 DEF Inv
<1>7. CASE /\ result.status = StatusAttemptToRetry
           /\ phase' = "pending" /\ wait' = result.next - elapsed
           /\ last' = [delay |-> wait', backoff |-> retryDelayForAttempt(n),
                       asked |-> IF code = NoStatus THEN 0 ELSE Asked(header)]
    <2> DEFINE asked == IF code = NoStatus THEN 0 ELSE Asked(header)
    <2>1. /\ Allowed(n, wait')
          /\ elapsed + wait' =< policy.abortAfter
          /\ HeadersFit => wait' >= asked
        BY <1>2, <1>7, ScheduledRetry
    <2>2. asked \in Int
        <3>1. Asked(header) \in Int
            BY <1>2, ParsedDelay
        <3>2. QED
            BY <3>1
    <2>3. retryDelayForAttempt(n) = Delay(policy, n)
        BY <1>2, DelayOfPolicy
    <2> HIDE DEF asked, result
    <2>4. /\ last' = [delay |-> wait', backoff |-> Delay(policy, n), asked |-> asked]
          /\ phase' = "pending"
        BY <1>7, <2>3 DEF asked
    <2>5. /\ wait' \in Nat /\ wait' >= Delay(policy, n)
          /\ Elapsed(policy, n) + wait' =< policy.abortAfter
          /\ policy.maxAttempts > 0 => n + 1 < policy.maxAttempts
        BY <2>1 DEF Allowed
    <2>6. TypeOK'
        BY <1>1, <1>2, <1>3, <1>5, <2>2, <2>4, <2>5 DEF TypeOK, Phase
    <2>7. ScheduledInWindow'
        BY <1>3, <2>1 DEF ScheduledInWindow
    <2>8. Budget'
        <3>1. Elapsed(policy, n + 1) =< policy.abortAfter
            BY <1>2, <1>5, <2>5
        <3>2. (n + 1) - 1 = n /\ (policy.maxAttempts > 0 => n + 1 =< policy.maxAttempts)
            BY <1>2, <2>5
        <3>3. QED
            BY <1>3, <1>4, <2>5, <3>1, <3>2 DEF Budget
    <2>9. Honoured'
        <3>1. last'.delay = wait' /\ last'.backoff = Delay(policy, n) /\ last'.asked = asked
            BY <2>4
        <3>2. QED
            BY <2>1, <2>5, <3>1 DEF Honoured, RetryAfterHonoured
    <2>10. QED
        BY <2>6, <2>7, <2>8, <2>9 DEF Inv
<1>8. QED
    BY <1>6, <1>7 DEF Answer

\* Time shortens the wait by as much as it lengthens the elapsed time, at most.
LEMMA TickInv == ASSUME Inv, Honoured, Tick PROVE Inv' /\ Honoured'
<1>1. TypeOK /\ Budget /\ ScheduledInWindow
    BY DEF Inv
<1>2. /\ policy \in BackoffPolicy /\ policy.abortAfter \in Nat
      /\ elapsed \in 0..(policy.abortAfter + 1) /\ wait \in Nat
      /\ age \in 0..(StaleAge + 1) /\ StaleAge \in Nat
    BY <1>1, PolicyType, RetryCycleAssumption DEF TypeOK
<1>3. /\ elapsed' = IF started THEN Saturate(elapsed, policy.abortAfter + 1) ELSE 0
      /\ wait' = IF wait > 0 THEN wait - 1 ELSE 0
      /\ age' = IF phase \in Running \cup {"lost"} THEN Saturate(age, StaleAge + 1) ELSE age
      /\ UNCHANGED <<policy, phase, attemptCount, started, crashes, last>>
    BY DEF Tick
<1>4. /\ elapsed' \in 0..(policy.abortAfter + 1) /\ elapsed' =< elapsed + 1
      /\ wait' \in Nat /\ (wait' > 0 => wait > 0 /\ wait' = wait - 1)
      /\ age' \in 0..(StaleAge + 1)
    BY <1>2, <1>3 DEF Saturate
<1>5. TypeOK'
    BY <1>1, <1>3, <1>4 DEF TypeOK
<1>6. ScheduledInWindow'
    BY <1>1, <1>2, <1>3, <1>4 DEF ScheduledInWindow
<1>7. Budget'
    BY <1>1, <1>3, SameBudget DEF Over
<1>8. Honoured'
    BY <1>3 DEF Honoured, RetryAfterHonoured
<1>9. QED
    BY <1>5, <1>6, <1>7, <1>8 DEF Inv

LEMMA NextInv == Inv /\ Honoured /\ [Next]_vars => Inv' /\ Honoured'
<1> SUFFICES ASSUME Inv, Honoured, [Next]_vars PROVE Inv' /\ Honoured'
    OBVIOUS
<1>1. TypeOK /\ Budget /\ ScheduledInWindow
    BY DEF Inv
<1>2. CASE Respond
    BY <1>2, AnswerInv DEF Respond
<1>3. CASE Tick
    BY <1>3, TickInv
<1>4. CASE \/ ClaimDelivery \/ Preflight \/ FailClaimedDelivery \/ Crash
           \/ RecoverStaleDelivery \/ Expedite
    <2>1. UNCHANGED <<policy, attemptCount, elapsed, last>> /\ (Over => Over')
        BY <1>4 DEF ClaimDelivery, Preflight, FailClaimedDelivery, Crash,
           RecoverStaleDelivery, Expedite, Over, Running
    <2>2. TypeOK'
        <3>1. phase' \in Phase /\ started' \in BOOLEAN
            BY <1>1, <1>4 DEF TypeOK, ClaimDelivery, Preflight, FailClaimedDelivery,
               Crash, RecoverStaleDelivery, Expedite, Phase
        <3>2. wait' \in Nat /\ age' \in 0..(StaleAge + 1) /\ crashes' \in 0..MaxCrashes
            BY <1>1, <1>4, RetryCycleAssumption DEF TypeOK, ClaimDelivery, Preflight,
               FailClaimedDelivery, Crash, RecoverStaleDelivery, Expedite
        <3>3. QED
            BY <1>1, <2>1, <3>1, <3>2 DEF TypeOK
    <2>3. ScheduledInWindow'
        BY <1>1, <1>4 DEF ScheduledInWindow, ClaimDelivery, Preflight,
           FailClaimedDelivery, Crash, RecoverStaleDelivery, Expedite
    <2>4. Budget'
        BY <1>1, <2>1, SameBudget
    <2>5. Honoured'
        BY <2>1 DEF Honoured, RetryAfterHonoured
    <2>6. QED
        BY <2>2, <2>3, <2>4, <2>5 DEF Inv
<1>5. CASE UNCHANGED vars
    <2>1. UNCHANGED <<policy, phase, attemptCount, started, elapsed, wait, age, crashes, last>>
        BY <1>5 DEF vars
    <2>2. TypeOK' /\ ScheduledInWindow'
        BY <1>1, <2>1 DEF TypeOK, ScheduledInWindow
    <2>3. Budget'
        BY <1>1, <2>1, SameBudget DEF Over
    <2>4. Honoured'
        BY <2>1 DEF Honoured, RetryAfterHonoured
    <2>5. QED
        BY <2>2, <2>3, <2>4 DEF Inv
<1>6. QED
    BY <1>2, <1>3, <1>4, <1>5 DEF Next

\* The invariant of every behaviour.
LEMMA InvHolds == Spec => [](Inv /\ Honoured)
BY InitInv, NextInv, PTL DEF Spec

\* Type correctness; in particular no retry is scheduled in the past, whatever
\* Retry-After asks for, even if it overflows.
THEOREM RetryCycleTypeCorrect == Spec => []TypeOK
<1>1. Inv /\ Honoured => TypeOK
    BY DEF Inv
<1>2. QED
    BY <1>1, InvHolds, PTL

\* Every retry is scheduled inside the retry window, for every policy, answer and
\* header.
THEOREM RetriesInWindow == Spec => []ScheduledInWindow
<1>1. Inv /\ Honoured => ScheduledInWindow
    BY DEF Inv
<1>2. QED
    BY <1>1, InvHolds, PTL

\* A retry waits as long as the backoff and Retry-After say, provided no number
\* of seconds in a header overflows a time.Duration.
THEOREM RetriesWait ==
    ASSUME HeadersFit
    PROVE  Spec => []RetryAfterHonoured
<1>1. Inv /\ Honoured => RetryAfterHonoured
    BY DEF Honoured
<1>2. QED
    BY <1>1, InvHolds, PTL

\* The number of delays that fit into the window is well defined, and time beyond
\* the window is reached only after more of them.
LEMMA FittingBounds ==
    ASSUME policy \in BackoffPolicy, policy.minRetryDelay > 0, policy.maxRetryDelay > 0
    PROVE  /\ Fitting \in Nat
           /\ \A k \in Nat : Elapsed(policy, k) =< policy.abortAfter => k =< Fitting
<1> DEFINE W == policy.abortAfter
           E(k) == Elapsed(policy, k)
           Late == {k \in Nat : E(k) > W}
           Fits(k) == elapsedBeforeAttempt(k) =< W /\ elapsedBeforeAttempt(k + 1) > W
<1>1. W \in Nat
    BY DEF BackoffPolicy
<1>2. \A k \in Nat : /\ E(k) \in Nat /\ E(k) >= k
                     /\ \A i \in 0..k : E(i) =< E(k)
    BY SumsType, ElapsedGrows
<1>3. E(0) = 0
    BY ElapsedSteps
<1>4. \A k \in Nat : elapsedBeforeAttempt(k) = E(k)
    BY ElapsedOfPolicy
<1> HIDE DEF E
<1>5. W + 1 \in Late /\ Late \in SUBSET Nat
    BY <1>1, <1>2
<1>6. PICK m \in Late : \A y \in Late : m =< y
    BY <1>5, LeastNat
<1>7. m \in Nat /\ E(m) > W /\ m # 0 /\ m =< W + 1
    BY <1>1, <1>3, <1>5, <1>6
<1>8. m - 1 \in Nat /\ (m - 1) + 1 = m /\ m - 1 \in 0..(W + 1) /\ ~(m =< m - 1)
    BY <1>1, <1>7
<1>9. ~(E(m - 1) > W)
    BY <1>6, <1>8
<1>10. E(m - 1) =< W
    BY <1>1, <1>2, <1>8, <1>9
<1>11. Fits(m - 1)
    BY <1>4, <1>7, <1>8, <1>10
<1> HIDE DEF Fits
<1>12. Fitting \in 0..(W + 1) /\ Fits(Fitting)
    <2>1. Fitting = CHOOSE n \in 0..(W + 1) : Fits(n)
        BY DEF Fitting, Fits
    <2>2. QED
        BY <1>8, <1>11, <2>1
<1>13. Fitting \in Nat /\ Fitting + 1 \in Nat /\ E(Fitting + 1) > W
    BY <1>1, <1>4, <1>12 DEF Fits
<1>14. ASSUME NEW k \in Nat, E(k) =< W PROVE k =< Fitting
    <2> SUFFICES ASSUME k > Fitting PROVE FALSE
        BY <1>13
    <2>1. Fitting + 1 \in 0..k
        BY <1>13
    <2>2. E(Fitting + 1) =< E(k)
        BY <1>2, <2>1
    <2>3. QED
        BY <1>1, <1>2, <1>13, <1>14, <2>2
<1>15. QED
    BY <1>13, <1>14 DEF E

\* The attempts of a generation stay within the cap and within what the backoff
\* can fit into the window, for every policy whose delays are not zero, however
\* often a client expedites a retry or a worker crashes.
THEOREM AttemptsWithinBudget ==
    ASSUME \A p \in Policies : p.minRetryDelay > 0 /\ p.maxRetryDelay > 0
    PROVE  Spec => []AttemptsBounded
<1>1. ASSUME Inv, Honoured PROVE AttemptsBounded
    <2>1. /\ policy \in Policies /\ policy \in BackoffPolicy /\ attemptCount \in Nat
        BY <1>1, PolicyType DEF Inv, TypeOK
    <2>2. /\ Fitting \in Nat
          /\ \A k \in Nat : Elapsed(policy, k) =< policy.abortAfter => k =< Fitting
        BY <2>1, FittingBounds
    <2>3. attemptCount =< Fitting + 1
        <3>1. CASE attemptCount = 0
            BY <2>2, <3>1
        <3>2. CASE attemptCount > 0
            <4>1. attemptCount - 1 \in Nat
                BY <2>1, <3>2
            <4>2. attemptCount - 1 =< Fitting
                BY <1>1, <2>2, <3>2, <4>1 DEF Inv, Budget
            <4>3. QED
                BY <2>1, <2>2, <4>2
        <3>3. QED
            BY <2>1, <3>1, <3>2
    <2>4. QED
        BY <1>1, <2>3 DEF AttemptsBounded, Inv, Budget
<1>2. QED
    BY <1>1, InvHolds, PTL
=============================================================================
