-------------------------- MODULE ProofWindowProofs --------------------------
(***************************************************************************)
(* Proofs about module ProofWindow, for every width and every limit.       *)
(***************************************************************************)
EXTENDS ProofWindow, TLAPS

LEMMA ConstantTypes ==
  /\ Half \in Nat /\ Half > 0 /\ Second \in Nat /\ Second > 0
  /\ Skew \in Nat /\ Skew < Half - 1
  /\ MaxLife \in Nat /\ MaxLife < Half
BY WindowAssumption

\* A number that fits is not changed by wrapping.
LEMMA Int64Fits ==
  ASSUME NEW x \in Int, -Half <= x, x < Half
  PROVE  Int64(x) = x
<1> DEFINE y == x + Half
<1>1. y \in Int /\ 0 <= y /\ y < 2 * Half /\ 2 * Half \in Nat /\ 2 * Half > 0
  BY ConstantTypes
<1>2. y % (2 * Half) = y
  <2> HIDE DEF y
  <2> DEFINE m == 2 * Half
  <2>1. m \in Nat /\ m > 0 /\ y < m
    BY <1>1
  <2> HIDE DEF m
  <2>2. y % m = y
    BY <1>1, <2>1
  <2> QED
    BY <2>2 DEF m
<1> QED
  BY <1>1, <1>2, ConstantTypes DEF Int64

\* A positive number of seconds is no more than its nanoseconds.
LEMMA SecondsBelow ==
  ASSUME NEW d \in Int, d > 0
  PROVE  d * Second \in Int /\ d <= d * Second
BY ConstantTypes, Z3

\* The checks of proofWindow, on the values it is given.
Checks == ~NotNear /\ ~NotAfter /\ ~TooLong

IInv == TypeOK /\ (Decided => (verdict = "accepted" <=> Checks))

LEMMA Inductive == Spec => []IInv
<1>1. Init => IInv
  BY DEF Init, IInv, TypeOK, Decided
<1>2. IInv /\ [Next]_vars => IInv'
  <2> SUFFICES ASSUME IInv, [Next]_vars PROVE IInv'
    OBVIOUS
  <2>1. CASE UNCHANGED vars
    BY <2>1 DEF vars, IInv, TypeOK, Decided, Checks, NotNear, NotAfter, TooLong, Age, Life
  <2>2. CASE Decide
    <3>1. Checks' <=> Checks
      BY <2>2 DEF Decide, Checks, NotNear, NotAfter, TooLong, Age, Life
    <3>2. TypeOK'
      BY <2>2 DEF Decide, IInv, TypeOK
    <3>3. verdict' = "accepted" <=> Checks
      BY <2>2 DEF Decide, Checks
    <3> QED
      BY <3>1, <3>2, <3>3 DEF IInv
  <2> QED
    BY <2>1, <2>2 DEF Next
<1> QED
  BY <1>1, <1>2, PTL DEF Spec

LEMMA ValueTypes ==
  ASSUME TypeOK
  PROVE  /\ now \in Int /\ createdAt \in Int /\ expiry \in Int
         /\ createdAt * Second \in Int /\ expiry - createdAt \in Int
<1>1. Half \in Int /\ Second \in Int
  BY ConstantTypes
<1>2. now \in Nat /\ createdAt \in Seconds /\ expiry \in Seconds
  BY WindowAssumption DEF TypeOK
<1>3. Seconds \subseteq Int
  BY <1>1 DEF Seconds
<1> QED
  BY <1>1, <1>2, <1>3

\* A saturated difference is far from the clock either way.
LEMMA NearExact ==
  ASSUME TypeOK
  PROVE  ~NotNear <=> now - createdAt * Second \in -Skew .. Skew
<1> DEFINE d == now - createdAt * Second
<1>1. d \in Int
  BY ValueTypes
<1>2. Age = IF d < -Half THEN -Half ELSE IF d > Half - 1 THEN Half - 1 ELSE d
  BY DEF Age
<1> HIDE DEF d
<1>3. ~(Age > Skew \/ Age < -Skew) <=> d \in -Skew .. Skew
  BY <1>1, <1>2, ConstantTypes
<1> QED
  BY <1>3 DEF NotNear, d

\* A validity that is representable is computed exactly.
LEMMA LifeExact ==
  ASSUME TypeOK, createdAt < expiry, Representable
  PROVE  Life = (expiry - createdAt) * Second
<1> DEFINE d == expiry - createdAt
<1>1. d \in Int /\ d > 0
  BY ValueTypes
<1>2. d * Second < Half
  BY DEF Representable
<1> HIDE DEF d
<1>3. d * Second \in Int /\ d <= d * Second
  BY <1>1, SecondsBelow
<1>4. Int64(d) = d
  BY <1>1, <1>2, <1>3, Int64Fits, ConstantTypes
<1>5. Int64(d * Second) = d * Second
  BY <1>1, <1>2, <1>3, Int64Fits, ConstantTypes
<1> QED
  BY <1>4, <1>5 DEF Life, d

\* Whatever the width, the limits and the clock, proofWindow accepts exactly the
\* requests in the window, among those whose validity an int64 of nanoseconds
\* can hold.  The condition is needed: see the run that refutes LifeBounded.
THEOREM Exact == Spec => []WindowExact
<1>1. IInv => WindowExact
  <2> SUFFICES ASSUME IInv, Decided, Representable PROVE verdict = "accepted" <=> InWindow
    BY DEF WindowExact
  <2>1. TypeOK /\ (verdict = "accepted" <=> Checks)
    BY DEF IInv
  <2>2. ~NotAfter <=> createdAt < expiry
    BY <2>1, ValueTypes DEF NotAfter
  <2>3. createdAt < expiry => (~TooLong <=> (expiry - createdAt) * Second <= MaxLife)
    <3> SUFFICES ASSUME createdAt < expiry
                 PROVE  ~TooLong <=> (expiry - createdAt) * Second <= MaxLife
      OBVIOUS
    <3>1. Life = (expiry - createdAt) * Second
      BY <2>1, LifeExact
    <3> DEFINE l == (expiry - createdAt) * Second
    <3>2. l \in Int
      BY <2>1, ValueTypes, SecondsBelow
    <3> HIDE DEF l
    <3>3. ~(l > MaxLife) <=> l <= MaxLife
      BY <3>2, ConstantTypes
    <3> QED
      BY <3>1, <3>3 DEF TooLong, l
  <2> QED
    BY <2>1, <2>2, <2>3, NearExact DEF Checks, InWindow
<1> QED
  BY Inductive, <1>1, PTL

\* What an accepted request is, also one whose validity wrapped: it was made near the
\* clock and ends after it was made; and it lasts at most proofMaxLife, or 292 years
\* and more.
AcceptedIs ==
  verdict = "accepted" =>
    /\ now - createdAt * Second \in -Skew .. Skew
    /\ createdAt < expiry
    /\ \/ (expiry - createdAt) * Second <= MaxLife
       \/ (expiry - createdAt) * Second >= Half

\* How far the finding on LifeBounded reaches: nothing between the limit and the
\* width of an int64 is accepted, and created_at is checked exactly for all.
THEOREM Accepted == Spec => []AcceptedIs
<1>1. IInv /\ WindowExact => AcceptedIs
  <2> SUFFICES ASSUME IInv, WindowExact, verdict = "accepted"
               PROVE  /\ now - createdAt * Second \in -Skew .. Skew
                      /\ createdAt < expiry
                      /\ \/ (expiry - createdAt) * Second <= MaxLife
                         \/ (expiry - createdAt) * Second >= Half
    BY DEF AcceptedIs
  <2>1. TypeOK /\ Checks
    BY DEF IInv, Decided
  <2>2. createdAt < expiry
    BY <2>1, ValueTypes DEF Checks, NotAfter
  <2>3. Representable => (expiry - createdAt) * Second <= MaxLife
    BY DEF WindowExact, Decided, InWindow
  <2>4. ~Representable => (expiry - createdAt) * Second >= Half
    <3> DEFINE d == expiry - createdAt
    <3>1. d \in Int /\ d > 0
      BY <2>1, <2>2, ValueTypes
    <3> HIDE DEF d
    <3>2. d * Second \in Int
      BY <3>1, SecondsBelow
    <3>3. ~(d * Second < Half) => d * Second >= Half
      BY <3>2, ConstantTypes
    <3> QED
      BY <3>3 DEF Representable, d
  <2> QED
    BY <2>1, <2>2, <2>3, <2>4, NearExact DEF Checks
<1> QED
  BY <1>1, Inductive, Exact, PTL
=============================================================================
