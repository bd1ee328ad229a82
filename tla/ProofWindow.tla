----------------------------- MODULE ProofWindow -----------------------------
(***************************************************************************)
(* When the signer accepts a NIP-C1 proof request (src/token/sign.go:      *)
(* proofWindow, called by serveProof): created_at must be near the clock,  *)
(* expiry after it, and the validity within a limit.  Seconds are int64,   *)
(* durations int64 nanoseconds; the width is a parameter, so that a small  *)
(* one shows what the real one does.                                       *)
(***************************************************************************)
EXTENDS Integers

CONSTANTS Half,      \* int64 is -Half .. Half-1 (2^63 in the code)
          Second,    \* time.Second in nanoseconds
          Skew,      \* proofSkew
          MaxLife,   \* proofMaxLife
          Clock,     \* what the clock may read, in nanoseconds
          Created,   \* what a request may ask for created_at, in seconds
          Expiries   \* what a request may ask for expiry, in seconds

Seconds == -Half .. Half - 1
ASSUME WindowAssumption ==
  /\ Half \in Nat \ {0} /\ Second \in Nat \ {0}
  /\ Skew \in Nat /\ Skew < Half - 1
  /\ MaxLife \in Nat /\ MaxLife < Half
  /\ Clock \subseteq Nat
  /\ Created \subseteq Seconds /\ Expiries \subseteq Seconds

VARIABLES now, createdAt, expiry, verdict
vars == <<now, createdAt, expiry, verdict>>

TypeOK == /\ now \in Clock
          /\ createdAt \in Created
          /\ expiry \in Expiries
          /\ verdict \in {"asked", "not near", "not after", "too long", "accepted"}

\* A request that arrives, at some reading of the clock.
Init == /\ now \in Clock
        /\ createdAt \in Created
        /\ expiry \in Expiries
        /\ verdict = "asked"

-----------------------------------------------------------------------------
Int64(x) == ((x + Half) % (2 * Half)) - Half

\* now.Sub(time.Unix(createdAt, 0)): a difference that does not fit saturates.
Age == LET d == now - createdAt * Second
       IN  IF d < -Half THEN -Half ELSE IF d > Half - 1 THEN Half - 1 ELSE d

\* time.Duration(expiry-createdAt)*time.Second: what does not fit wraps.
Life == Int64(Int64(expiry - createdAt) * Second)

NotNear == Age > Skew \/ Age < -Skew
NotAfter == expiry <= createdAt
TooLongFromNow == Int64(expiry * Second - now) > MaxLife     \* mutant: counted from the clock
TooLong == Life > MaxLife

\* proofWindow: the first check that fails is the answer.
Decide ==
  /\ verdict = "asked"
  /\ verdict' = CASE NotNear  -> "not near"
                  [] ~NotNear /\ NotAfter -> "not after"
                  [] ~NotNear /\ ~NotAfter /\ TooLong -> "too long"
                  [] OTHER -> "accepted"
  /\ UNCHANGED <<now, createdAt, expiry>>

Next == Decide

Spec == Init /\ [][Next]_vars

-----------------------------------------------------------------------------
\* What proofWindow is for, in unbounded arithmetic.
InWindow == /\ now - createdAt * Second \in -Skew .. Skew
            /\ createdAt < expiry
            /\ (expiry - createdAt) * Second <= MaxLife

Decided == verdict # "asked"

\* A validity of less than 292 years (2^63 ns) is one the code can represent.
Representable == (expiry - createdAt) * Second < Half

\* Among the requests whose validity is representable, exactly those in the
\* window are accepted: nothing saturated or wrapped is mistaken for another.
WindowExact == Decided /\ Representable => (verdict = "accepted" <=> InWindow)

\* What the comment on proofMaxLife says: it bounds a proof's validity.
LifeBounded == verdict = "accepted" => (expiry - createdAt) * Second <= MaxLife
=============================================================================
