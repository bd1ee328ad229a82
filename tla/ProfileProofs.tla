--------------------------- MODULE ProfileProofs ----------------------------
(***************************************************************************)
(* Proofs about Profile for every set of keystore files and passwords.     *)
(* orderCerts: each round of its loop keeps a path of unused certificates  *)
(* (OnPath), and no path is longer than the file, so the loop has ended    *)
(* after as many rounds.  The keys in the clear follow from where the      *)
(* import is (KeyInv).  What a creation has sealed follows from where it   *)
(* stands (Building), what abandon has removed from how far it is          *)
(* (Clearing), and a profile at work, or a refusal, is what load finds in  *)
(* the container (Answered); for these nothing is assumed of Parse.        *)
(***************************************************************************)
EXTENDS Profile, FiniteSetTheorems, SequenceTheorems, TLAPS

-----------------------------------------------------------------------------
(* Induction over the natural numbers, stated with sets.                   *)

\* A set of numbers has a least one: the strict order of the finite intervals from
\* zero is well-founded.
LEMMA LeastElement ==
  ASSUME NEW T, T \subseteq Nat, T # {}
  PROVE  \E x \in T : \A y \in T : x <= y
<1> DEFINE Below == {0..t : t \in T}
<1>1. Below \subseteq FiniteSubsetsOf(Nat)
  <2> SUFFICES ASSUME NEW t \in T PROVE IsFiniteSet(0..t)
    BY DEF FiniteSubsetsOf
  <2> QED  BY FS_Interval
<1>2. Below # {}  OBVIOUS
<1> HIDE DEF Below
<1>3. PICK X \in Below : \A Y \in Below : <<Y, X>> \notin StrictSubsetOrdering(Nat)
  BY <1>1, <1>2, FS_StrictSubsetOrderingWellFounded, WFMin
<1>4. PICK x \in T : X = 0..x  BY <1>3 DEF Below
<1>5. ASSUME NEW y \in T, y < x PROVE FALSE
  <2>1. 0..y \in Below  BY DEF Below
  <2>2. 0..y \subseteq 0..x /\ 0..y # 0..x /\ 0..x \subseteq Nat
    <3>1. x \in 0..x /\ x \notin 0..y  BY <1>5
    <3> QED  BY <3>1, <1>5
  <2>3. <<0..y, 0..x>> \in StrictSubsetOrdering(Nat)
    BY <2>2 DEF StrictSubsetOrdering
  <2> QED  BY <1>3, <1>4, <2>1, <2>3
<1> QED  BY <1>5

\* What holds at 0 and passes from n to n + 1 holds up to N.
LEMMA UpTo ==
  ASSUME NEW N \in Nat, NEW S, 0 \in S, \A n \in 0..N : n \in S /\ n # N => n + 1 \in S
  PROVE  \A n \in 0..N : n \in S
<1> DEFINE T == {n \in 0..N : n \notin S}
<1> SUFFICES ASSUME T # {} PROVE FALSE  OBVIOUS
<1>1. T \subseteq Nat  OBVIOUS
<1>2. PICK x \in T : \A y \in T : x <= y
  <2> HIDE DEF T
  <2> QED  BY <1>1, LeastElement
<1>3. x # 0 /\ x - 1 \in 0..N /\ x - 1 \notin T  BY <1>2
<1> QED  BY <1>2, <1>3

\* Least and Greatest are what they are called.
LEMMA LeastOf ==
  ASSUME NEW S, S \subseteq Nat, S # {}
  PROVE  Least(S) \in S /\ \A n \in S : Least(S) <= n
<1>1. \E n \in S : \A m \in S : n <= m  BY LeastElement
<1> QED  BY <1>1 DEF Least

LEMMA GreatestOf ==
  ASSUME NEW N \in Nat, NEW S, S \subseteq 0..N, S # {}
  PROVE  Greatest(S) \in S /\ \A n \in S : n <= Greatest(S)
<1> DEFINE T == {N - n : n \in S}
<1>1. \A n \in S : n \in 0..N /\ N - n \in Nat  OBVIOUS
<1>2. PICK x \in T : \A y \in T : x <= y
  <2>1. T \subseteq Nat  BY <1>1
  <2>2. T # {}  OBVIOUS
  <2> HIDE DEF T
  <2> QED  BY <2>1, <2>2, LeastElement
<1>3. PICK g \in S : x = N - g  BY <1>2
<1>4. \A n \in S : N - g <= N - n  BY <1>2, <1>3
<1>5. \E n \in S : \A m \in S : m <= n  BY <1>1, <1>4
<1> QED  BY <1>5 DEF Greatest

\* What n rounds of a loop make of its start, and that there is such a function.
Rounds(f, N, start, step) ==
  f = [n \in 0..N |-> IF n = 0 THEN start ELSE step[f[n - 1]]]

LEMMA Iterates ==
  ASSUME NEW N \in Nat, NEW start, NEW V, start \in V, NEW step \in [V -> V]
  PROVE  \E f \in [0..N -> V] : Rounds(f, N, start, step)
<1> DEFINE Upon(k, f) == \A n \in 0..k : f[n] = IF n = 0 THEN start ELSE step[f[n - 1]]
           Has == {k \in 0..N : \E f \in [0..k -> V] : Upon(k, f)}
<1>1. 0 \in Has
  <2> DEFINE g == [n \in 0..0 |-> start]
  <2>1. g \in [0..0 -> V] /\ Upon(0, g)  OBVIOUS
  <2> HIDE DEF g
  <2> QED  BY <2>1
<1>2. ASSUME NEW k \in 0..N, k \in Has, k # N PROVE k + 1 \in Has
  <2>1. PICK f \in [0..k -> V] : Upon(k, f)  BY <1>2
  <2> DEFINE g == [n \in 0..(k + 1) |-> IF n = k + 1 THEN step[f[k]] ELSE f[n]]
  <2>2. g \in [0..(k + 1) -> V]  BY <2>1
  <2>3. Upon(k + 1, g)
    <3> SUFFICES ASSUME NEW n \in 0..(k + 1)
                 PROVE  g[n] = IF n = 0 THEN start ELSE step[g[n - 1]]
      OBVIOUS
    <3>1. CASE n = k + 1  BY <3>1
    <3>2. CASE n = 0  BY <3>2, <2>1
    <3>3. CASE n \in 1..k
      <4>1. f[n] = step[f[n - 1]]  BY <2>1, <3>3
      <4>2. g[n] = f[n] /\ g[n - 1] = f[n - 1]  BY <3>3
      <4> QED  BY <3>3, <4>1, <4>2
    <3> QED  BY <3>1, <3>2, <3>3
  <2>4. k + 1 \in 0..N  BY <1>2
  <2> HIDE DEF g
  <2>5. \E h \in [0..(k + 1) -> V] : Upon(k + 1, h)  BY <2>2, <2>3
  <2> HIDE DEF Upon
  <2> QED  BY <2>4, <2>5
<1>3. N \in Has
  <2> HIDE DEF Has
  <2> QED  BY <1>1, <1>2, UpTo
<1>4. PICK f \in [0..N -> V] : Upon(N, f)  BY <1>3
<1>5. Rounds(f, N, start, step)  BY <1>4 DEF Rounds
<1> QED  BY <1>5

-----------------------------------------------------------------------------
(* orderCerts                                                              *)

InOrder(items) == Len(items) \in Nat /\ DOMAIN items = 1..Len(items)

\* What the loop has gathered: no certificate twice, issuer after issuer.
OnPath(items, leaf, path) ==
  /\ path \in Seq(Certs(items)) /\ Len(path) >= 1
  /\ path[1] = leaf
  /\ \A m, n \in 1..Len(path) : path[m] = path[n] => m = n
  /\ \A n \in 2..Len(path) :
       items[path[n]].cert.subject = items[path[n - 1]].cert.issuer

\* Why the loop ends.
Ended(items, path) ==
  \/ items[path[Len(path)]].cert.subject = items[path[Len(path)]].cert.issuer
  \/ Candidates(items, path) = {}

LEMMA CertsInNat == ASSUME NEW items, InOrder(items) PROVE Certs(items) \subseteq 1..Len(items)
BY DEF InOrder, Certs, Positions

\* A round keeps the path one, and makes it longer unless the loop has ended.
LEMMA OneRound ==
  ASSUME NEW items, InOrder(items), NEW leaf, NEW path, OnPath(items, leaf, path)
  PROVE  /\ OnPath(items, leaf, NextIssuer(items, path))
         /\ Ended(items, path) => NextIssuer(items, path) = path
         /\ ~Ended(items, path) => Len(NextIssuer(items, path)) = Len(path) + 1
<1>1. CASE Ended(items, path)
  BY <1>1 DEF Ended, NextIssuer
<1>2. CASE ~Ended(items, path)
  <2> DEFINE C == Candidates(items, path)
             next == Append(path, Least(C))
  <2>1. NextIssuer(items, path) = next /\ C # {}
    BY <1>2 DEF Ended, NextIssuer
  <2>2. Least(C) \in C
    <3>1. C \subseteq Nat  BY CertsInNat DEF Candidates, InOrder
    <3> HIDE DEF C
    <3> QED  BY <2>1, <3>1, LeastOf
  <2>3. /\ Least(C) \in Certs(items)
        /\ \A m \in DOMAIN path : path[m] # Least(C)
        /\ items[Least(C)].cert.subject = items[path[Len(path)]].cert.issuer
    BY <2>2 DEF Candidates
  <2>4. /\ next \in Seq(Certs(items)) /\ Len(next) = Len(path) + 1
        /\ \A n \in 1..Len(path) : next[n] = path[n]
        /\ next[Len(path) + 1] = Least(C)
    BY <2>3, AppendProperties DEF OnPath
  <2> HIDE DEF C, next
  <2>5. OnPath(items, leaf, next)
    <3> USE DEF OnPath
    <3>1. DOMAIN path = 1..Len(path) /\ Len(path) \in Nat  BY LenProperties
    <3>2. \A m, n \in 1..Len(next) : next[m] = next[n] => m = n
      BY <2>3, <2>4, <3>1
    <3>3. ASSUME NEW n \in 2..Len(next)
          PROVE  items[next[n]].cert.subject = items[next[n - 1]].cert.issuer
      <4>1. CASE n = Len(path) + 1  BY <2>3, <2>4, <3>1, <4>1
      <4>2. CASE n \in 2..Len(path)
        <5>1. next[n] = path[n] /\ next[n - 1] = path[n - 1]  BY <2>4, <3>1, <4>2
        <5> QED  BY <4>2, <5>1
      <4> QED  BY <2>4, <3>1, <4>1, <4>2
    <3> QED  BY <2>4, <3>1, <3>2, <3>3
  <2> QED  BY <1>2, <2>1, <2>4, <2>5
<1> QED  BY <1>1, <1>2

\* A path uses each item once at most.
LEMMA NoLongPath ==
  ASSUME NEW items, InOrder(items), NEW leaf, NEW path, OnPath(items, leaf, path)
  PROVE  Len(path) <= Len(items)
<1>1. /\ Len(path) \in Nat /\ path \in [1..Len(path) -> 1..Len(items)]
  BY LenProperties, CertsInNat DEF OnPath
<1>2. path \in Injection(1..Len(path), 1..Len(items))
  BY <1>1 DEF OnPath, Injection, IsInjective
<1>3. /\ IsFiniteSet(1..Len(items)) /\ Cardinality(1..Len(items)) = Len(items)
      /\ Cardinality(1..Len(path)) = Len(path)
  <2>1. Len(items) \in Nat /\ Len(path) \in Nat /\ 1 \in Int  BY <1>1 DEF InOrder
  <2>2. ASSUME NEW n \in Nat PROVE IsFiniteSet(1..n) /\ Cardinality(1..n) = n
    <3>1. 1 \in Int /\ n \in Int  OBVIOUS
    <3>2. /\ IsFiniteSet(1..n)
          /\ Cardinality(1..n) = IF 1 > n THEN 0 ELSE n - 1 + 1
      BY ONLY <3>1, FS_Interval, Zenon
    <3> QED  BY <3>2
  <2> QED  BY <2>1, <2>2
<1>4. Cardinality(1..Len(path)) <= Cardinality(1..Len(items))
  BY <1>2, <1>3, FS_Injection
<1> QED  BY <1>3, <1>4

\* The recursion in IssuerPaths defines a function.
LEMMA PathsAre ==
  ASSUME NEW items, InOrder(items), NEW leaf \in Certs(items)
  PROVE  IssuerPaths(items, leaf) =
           [n \in 0..Len(items) |->
              IF n = 0 THEN <<leaf>> ELSE NextIssuer(items, IssuerPaths(items, leaf)[n - 1])]
<1> DEFINE V == {path \in Seq(Certs(items)) : OnPath(items, leaf, path)}
           step == [path \in V |-> NextIssuer(items, path)]
           Is(f) == f = [n \in 0..Len(items) |->
                           IF n = 0 THEN <<leaf>> ELSE NextIssuer(items, f[n - 1])]
<1>1. step \in [V -> V]
  BY OneRound DEF OnPath
<1>2. <<leaf>> \in V
  BY DEF OnPath
<1>3. PICK f \in [0..Len(items) -> V] : Rounds(f, Len(items), <<leaf>>, step)
  <2>1. Len(items) \in Nat  BY DEF InOrder
  <2> HIDE DEF V, step
  <2> QED  BY ONLY <2>1, <1>1, <1>2, Iterates
<1>4. Is(f)
  <2>1. \A n \in 0..Len(items) : n # 0 => f[n - 1] \in V
    BY DEF InOrder
  <2> QED  BY <1>3, <2>1 DEF Rounds
<1>5. IssuerPaths(items, leaf) = CHOOSE g : Is(g)
  BY DEF IssuerPaths
<1> QED  BY <1>4, <1>5

\* After as many rounds as there are items the loop has ended.
LEMMA PathComplete ==
  ASSUME NEW items, InOrder(items), NEW leaf \in Certs(items)
  PROVE  LET path == IssuerPaths(items, leaf)[Len(items)]
         IN  OnPath(items, leaf, path) /\ Ended(items, path)
<1> DEFINE f == IssuerPaths(items, leaf)
           Good == {n \in 0..Len(items) :
                      /\ OnPath(items, leaf, f[n])
                      /\ Ended(items, f[n]) \/ Len(f[n]) = n + 1}
<1>0. Len(items) \in Nat  BY DEF InOrder
<1>1. 0 \in Good
  <2>1. f[0] = <<leaf>>  BY PathsAre DEF InOrder
  <2>2. OnPath(items, leaf, <<leaf>>) /\ Len(<<leaf>>) = 1  BY DEF OnPath
  <2> HIDE DEF f
  <2> QED  BY <2>1, <2>2 DEF InOrder
<1>2. ASSUME NEW n \in 0..Len(items), n \in Good, n # Len(items) PROVE n + 1 \in Good
  <2>1. n + 1 \in 0..Len(items) /\ n + 1 # 0
    <3> HIDE DEF Good, f
    <3> QED  BY <1>0, <1>2
  <2>2. f[n + 1] = NextIssuer(items, f[n])  BY <2>1, PathsAre DEF InOrder
  <2> HIDE DEF f
  <2>3. OnPath(items, leaf, f[n + 1])  BY <1>2, <2>2, OneRound
  <2>4. Ended(items, f[n + 1]) \/ Len(f[n + 1]) = (n + 1) + 1
    BY <1>2, <2>2, OneRound
  <2> QED  BY <2>1, <2>3, <2>4
<1>3. Len(items) \in Good
  <2> HIDE DEF Good
  <2>1. \A n \in 0..Len(items) : n \in Good /\ n # Len(items) => n + 1 \in Good  BY <1>2
  <2>2. \A n \in 0..Len(items) : n \in Good  BY ONLY <1>0, <1>1, <2>1, UpTo
  <2> QED  BY <1>0, <2>2
<1>4. Len(f[Len(items)]) # Len(items) + 1
  BY <1>3, NoLongPath DEF InOrder
<1> QED  BY <1>3, <1>4

LEMMA OrderedPath ==
  ASSUME NEW items, InOrder(items), NEW key, OrderCerts(key, items) # <<>>
  PROVE  \E leaf, path :
           /\ leaf \in Certs(items)
           /\ items[leaf].cert.key = key
           /\ OnPath(items, leaf, path) /\ Ended(items, path)
           /\ Len(path) \in Nat \ {0} /\ DOMAIN path = 1..Len(path)
           /\ \A n \in 1..Len(path) : path[n] \in Certs(items)
           /\ OrderCerts(key, items) = [n \in 1..Len(path) |-> items[path[n]].cert]
<1> DEFINE leaves == {n \in Certs(items) : items[n].cert.key = key}
           path == IssuerPaths(items, Least(leaves))[Len(items)]
<1>1. leaves # {} /\ OrderCerts(key, items) = [n \in DOMAIN path |-> items[path[n]].cert]
  BY DEF OrderCerts
<1>2. Least(leaves) \in leaves
  <2>1. leaves \subseteq Nat  BY CertsInNat DEF InOrder
  <2> HIDE DEF leaves
  <2> QED  BY <1>1, <2>1, LeastOf
<1>3. OnPath(items, Least(leaves), path) /\ Ended(items, path)
  BY <1>2, PathComplete
<1> HIDE DEF path
<1>4. /\ Len(path) \in Nat \ {0} /\ DOMAIN path = 1..Len(path)
      /\ \A n \in 1..Len(path) : path[n] \in Certs(items)
  BY <1>3, LenProperties, ElementOfSeq DEF OnPath
<1> QED  BY <1>1, <1>2, <1>3, <1>4

\* What orderCerts returns is a chain for the key, for every file without copies.
THEOREM OrderedChain ==
  ASSUME NEW items, InOrder(items), NEW key, OrderCerts(key, items) # <<>>, NoCopies(items)
  PROVE  IsChain(key, OrderCerts(key, items), items)
<1> DEFINE certs == OrderCerts(key, items)
<1>1. PICK leaf, path :
        /\ leaf \in Certs(items)
        /\ items[leaf].cert.key = key
        /\ OnPath(items, leaf, path) /\ Ended(items, path)
        /\ Len(path) \in Nat \ {0} /\ DOMAIN path = 1..Len(path)
        /\ \A n \in 1..Len(path) : path[n] \in Certs(items)
        /\ certs = [n \in 1..Len(path) |-> items[path[n]].cert]
  BY OrderedPath
<1> HIDE DEF certs
<1>2. leaf \in Certs(items) /\ items[leaf].cert.key = key  BY <1>1
<1>3. OnPath(items, leaf, path) /\ Ended(items, path)  BY <1>1
<1>4. /\ Len(path) \in Nat \ {0} /\ DOMAIN path = 1..Len(path)
      /\ \A n \in 1..Len(path) : path[n] \in Certs(items)
  BY <1>1
<1>5. /\ DOMAIN certs = 1..Len(path) /\ Len(certs) = Len(path)
      /\ \A n \in 1..Len(path) : certs[n] = items[path[n]].cert
  BY <1>1
<1>6. Fits(key, certs)
  <2>1. path[1] = leaf  BY <1>3 DEF OnPath
  <2>2. certs[1].key = key  BY <1>2, <1>4, <1>5, <2>1
  <2>3. certs # <<>>  BY <1>4, <1>5
  <2> QED  BY <2>2, <2>3 DEF Fits
<1>7. \A n \in DOMAIN certs \ {1} : certs[n].subject = certs[n - 1].issuer
  <2> SUFFICES ASSUME NEW n \in 2..Len(path)
               PROVE  certs[n].subject = certs[n - 1].issuer
    BY <1>4, <1>5
  <2>1. n \in 1..Len(path) /\ n - 1 \in 1..Len(path)  BY <1>4
  <2>2. items[path[n]].cert.subject = items[path[n - 1]].cert.issuer  BY <1>3 DEF OnPath
  <2> QED  BY <1>5, <2>1, <2>2
<1>8. Distinct(certs)
  <2> SUFFICES ASSUME NEW m \in 1..Len(path), NEW n \in 1..Len(path), certs[m] = certs[n]
               PROVE  m = n
    BY <1>5 DEF Distinct
  <2>1. path[m] = path[n]  BY <1>4, <1>5 DEF NoCopies
  <2> QED  BY <1>3, <2>1 DEF OnPath
<1>9. \/ certs[Len(certs)].subject = certs[Len(certs)].issuer
      \/ \A n \in Certs(items) : items[n].cert.subject = certs[Len(certs)].issuer =>
           items[n].cert \in {certs[m] : m \in DOMAIN certs}
  <2>1. certs[Len(certs)] = items[path[Len(path)]].cert  BY <1>4, <1>5
  <2>2. CASE Candidates(items, path) # {}  BY <1>3, <2>1, <2>2 DEF Ended
  <2>3. ASSUME Candidates(items, path) = {}, NEW n \in Certs(items),
               items[n].cert.subject = certs[Len(certs)].issuer
        PROVE  items[n].cert \in {certs[m] : m \in DOMAIN certs}
    <3>1. PICK m \in DOMAIN path : path[m] = n  BY <2>1, <2>3 DEF Candidates
    <3>2. certs[m] = items[n].cert /\ m \in DOMAIN certs  BY <1>4, <1>5, <3>1
    <3> QED  BY <3>2
  <2> QED  BY <2>2, <2>3
<1> QED  BY <1>6, <1>7, <1>8, <1>9 DEF IsChain, certs

CertSet(items) == {items[n].cert : n \in Certs(items)}

\* No two certificates have one subject, and at most one is of the key.
Unambiguous(key, items) ==
  /\ \A m, n \in Certs(items) : items[m].cert.subject = items[n].cert.subject => m = n
  /\ \A m, n \in Certs(items) :
       items[m].cert.key = key /\ items[n].cert.key = key => m = n

\* Nothing is returned only where no certificate is of the key.
LEMMA OrderEmpty ==
  ASSUME NEW items, InOrder(items), NEW key
  PROVE  OrderCerts(key, items) = <<>> <=> \A c \in CertSet(items) : c.key # key
<1> DEFINE leaves == {n \in Certs(items) : items[n].cert.key = key}
           path == IssuerPaths(items, Least(leaves))[Len(items)]
<1>1. leaves = {} <=> \A c \in CertSet(items) : c.key # key
  BY DEF CertSet
<1>2. leaves = {} => OrderCerts(key, items) = <<>>
  BY DEF OrderCerts
<1>3. ASSUME leaves # {} PROVE OrderCerts(key, items) # <<>>
  <2>1. OrderCerts(key, items) = [n \in DOMAIN path |-> items[path[n]].cert]
    BY <1>3 DEF OrderCerts
  <2>2. Least(leaves) \in leaves
    <3>1. leaves \subseteq Nat  BY CertsInNat DEF InOrder
    <3> HIDE DEF leaves
    <3> QED  BY <1>3, <3>1, LeastOf
  <2>3. OnPath(items, Least(leaves), path)  BY <2>2, PathComplete
  <2> HIDE DEF path
  <2>4. 1 \in DOMAIN path  BY <2>3, LenProperties DEF OnPath
  <2> QED  BY <2>1, <2>4
<1> QED  BY <1>1, <1>2, <1>3

\* The certificates of the result are from the file, and form a sequence.
LEMMA OrderedFrom ==
  ASSUME NEW items, InOrder(items), NEW key, OrderCerts(key, items) # <<>>
  PROVE  OrderCerts(key, items) \in Seq(CertSet(items))
<1>1. PICK leaf, path :
        /\ leaf \in Certs(items)
        /\ Len(path) \in Nat \ {0}
        /\ \A n \in 1..Len(path) : path[n] \in Certs(items)
        /\ OrderCerts(key, items) = [n \in 1..Len(path) |-> items[path[n]].cert]
  BY OrderedPath
<1>2. \A n \in 1..Len(path) : items[path[n]].cert \in CertSet(items)
  BY <1>1 DEF CertSet
<1>3. OrderCerts(key, items) \in [1..Len(path) -> CertSet(items)]  BY <1>1, <1>2
<1> HIDE DEF OrderCerts
<1> QED  BY <1>1, <1>3, IsASeq

\* Of two chains neither goes on where the other has ended, nor elsewhere.
LEMMA SameChain ==
  ASSUME NEW items, NEW other, NEW key, CertSet(items) = CertSet(other),
         Unambiguous(key, items),
         NEW s \in Seq(CertSet(items)), IsChain(key, s, items),
         NEW t \in Seq(CertSet(items)), IsChain(key, t, other)
  PROVE  /\ Len(s) <= Len(t)
         /\ \A n \in 1..Len(s) : s[n] = t[n]
<1> DEFINE Same == {n \in 0..Len(s) : n <= Len(t) /\ \A m \in 1..n : s[m] = t[m]}
<1>1. \A c, d \in CertSet(items) : \/ c.subject = d.subject
                                   \/ c.key = key /\ d.key = key
                                 => c = d
  BY DEF CertSet, Unambiguous
<1>2. /\ Len(s) \in Nat /\ DOMAIN s = 1..Len(s) /\ \A n \in 1..Len(s) : s[n] \in CertSet(items)
      /\ Len(t) \in Nat /\ DOMAIN t = 1..Len(t) /\ \A n \in 1..Len(t) : t[n] \in CertSet(items)
  BY LenProperties, ElementOfSeq
<1>3. 0 \in Same  BY <1>2
<1>4. ASSUME NEW n \in 0..Len(s), n \in Same, n # Len(s) PROVE n + 1 \in Same
  <2>1. n \in Nat /\ n + 1 \in 1..Len(s) /\ n <= Len(t) /\ \A m \in 1..n : s[m] = t[m]
    <3>1. n <= Len(t) /\ \A m \in 1..n : s[m] = t[m]  BY <1>4
    <3>2. Len(s) \in Nat  BY <1>2
    <3> HIDE DEF Same
    <3>3. n \in Nat /\ n + 1 \in 1..Len(s)  BY <3>2, <1>4
    <3> QED  BY <3>1, <3>3
  <2>2. n + 1 <= Len(t) /\ s[n + 1] = t[n + 1]
    <3>1. CASE n = 0
      <4>1. Len(t) # 0  BY <1>2 DEF IsChain, Fits
      <4>2. s[1].key = key /\ t[1].key = key  BY DEF IsChain, Fits
      <4> QED  BY <1>1, <1>2, <2>1, <3>1, <4>1, <4>2
    <3>2. CASE n # 0
      <4>1. n \in 1..Len(s) /\ n \in 1..Len(t) /\ s[n] = t[n]  BY <1>2, <2>1, <3>2
      <4>2. s[n + 1].subject = s[n].issuer
        <5>1. n + 1 \in DOMAIN s \ {1} /\ (n + 1) - 1 = n  BY <1>2, <2>1, <3>2
        <5>2. \A k \in DOMAIN s \ {1} : s[k].subject = s[k - 1].issuer  BY DEF IsChain
        <5> QED  BY <5>1, <5>2
      <4>3. n # Len(t)
        <5> SUFFICES ASSUME n = Len(t) PROVE FALSE  OBVIOUS
        <5>1. \A k \in 1..n : s[k] # s[n + 1]  BY <1>2, <2>1 DEF IsChain, Distinct
        <5>2. t[n].subject # t[n].issuer  BY <1>1, <1>2, <2>1, <4>1, <4>2, <5>1
        <5>3. \A k \in Certs(other) : other[k].cert.subject = t[n].issuer =>
                other[k].cert \in {t[m] : m \in DOMAIN t}
          BY <5>2 DEF IsChain
        <5>4. PICK k \in Certs(other) : other[k].cert = s[n + 1]
          BY <1>2, <2>1 DEF CertSet
        <5>5. PICK m \in 1..n : s[n + 1] = t[m]  BY <1>2, <4>1, <4>2, <5>3, <5>4
        <5> QED  BY <2>1, <5>1, <5>5
      <4>4. n + 1 \in 1..Len(t)
        <5>1. Len(t) \in Nat  BY <1>2
        <5>2. n \in Nat /\ n <= Len(t)  BY <2>1
        <5> QED  BY ONLY <4>3, <5>1, <5>2
      <4>5. t[n + 1].subject = t[n].issuer
        <5>1. n + 1 \in DOMAIN t \ {1} /\ (n + 1) - 1 = n  BY <1>2, <3>2, <4>4
        <5>2. \A k \in DOMAIN t \ {1} : t[k].subject = t[k - 1].issuer  BY DEF IsChain
        <5> QED  BY <5>1, <5>2
      <4> QED  BY <1>1, <1>2, <2>1, <4>1, <4>2, <4>4, <4>5
    <3> QED  BY <3>1, <3>2
  <2>3. \A m \in 1..(n + 1) : m \in 1..n \/ m = n + 1  BY <2>1
  <2> QED  BY <2>1, <2>2, <2>3
<1>5. Len(s) \in Same
  <2> HIDE DEF Same
  <2>1. \A n \in 0..Len(s) : n \in Same  BY ONLY <1>2, <1>3, <1>4, UpTo
  <2> QED  BY <1>2, <2>1
<1> QED  BY <1>5

\* orderCerts gives the same chain in whichever order the file has its certificates,
\* and whatever else is in it, unless two of them could follow the same one.
THEOREM OrderIndependent ==
  ASSUME NEW items, InOrder(items), NEW other, InOrder(other), NEW key,
         CertSet(items) = CertSet(other),
         Unambiguous(key, items), Unambiguous(key, other)
  PROVE  OrderCerts(key, items) = OrderCerts(key, other)
<1>1. OrderCerts(key, items) = <<>> <=> \A c \in CertSet(items) : c.key # key
  BY OrderEmpty
<1>2. OrderCerts(key, other) = <<>> <=> \A c \in CertSet(items) : c.key # key
  BY OrderEmpty
<1>3. CASE OrderCerts(key, items) = <<>>  BY <1>1, <1>2, <1>3
<1>4. CASE OrderCerts(key, items) # <<>>
  <2> DEFINE s == OrderCerts(key, items)
             t == OrderCerts(key, other)
  <2>1. t # <<>>  BY <1>1, <1>2, <1>4
  <2>2. NoCopies(items) /\ NoCopies(other)  BY DEF NoCopies, Unambiguous
  <2>3. IsChain(key, s, items) /\ IsChain(key, t, other)
    BY <1>4, <2>1, <2>2, OrderedChain
  <2>4. s \in Seq(CertSet(items)) /\ t \in Seq(CertSet(items))
    BY <1>4, <2>1, OrderedFrom
  <2> HIDE DEF s, t
  <2>5. Len(s) <= Len(t) /\ \A n \in 1..Len(s) : s[n] = t[n]
    BY <2>3, <2>4, SameChain
  <2>6. Len(t) <= Len(s)
    BY <2>3, <2>4, SameChain
  <2>7. Len(s) = Len(t)  BY <2>4, <2>5, <2>6, LenProperties
  <2> QED  BY <2>4, <2>5, <2>7, SeqEqual DEF s, t
<1> QED  BY <1>3, <1>4

-----------------------------------------------------------------------------
(* What is in the clear                                                    *)

\* The certificates of a PKCS#12 or PEM file are in order.
Findings(f, entries) ==
  /\ DOMAIN entries \subseteq DOMAIN f.items
  /\ f.format # "jks" => \A n \in DOMAIN entries :
       /\ entries[n].certs # <<>>
       /\ entries[n].certs = OrderCerts(entries[n].key, f.items)

LEMMA SingleFinding ==
  ASSUME NEW f, NEW n \in DOMAIN f.items, NEW alias, NEW key,
         OrderCerts(key, f.items) # <<>>
  PROVE  Findings(f, Single(n, Entry(alias, key, OrderCerts(key, f.items))))
BY DEF Findings, Single, Entry

LEMMA ParseFinds ==
  ASSUME NEW f \in Files, NEW typed, NEW keyPassword
  PROVE  Findings(f, Parse(f, typed, keyPassword).entries)
<1>1. \A why, left0 : Findings(f, Fails(why, left0).entries)
  BY DEF Findings, Fails
<1> DEFINE keys == Positions(f.items, {"key"})
<1>2. keys \subseteq DOMAIN f.items
  BY DEF Positions
<1>3. PICK N \in Nat : keys \subseteq 0..N
  BY <1>2, ItemsInOrder
<1> HIDE DEF keys
<1>4. keys \subseteq Nat  BY <1>3
<1>5. CASE f.format = "jks"
  <2>1. Findings(f, KeyEntries(f.items))
    <3>1. DOMAIN KeyEntries(f.items) = keys
      BY DEF KeyEntries, keys
    <3> QED  BY <1>2, <1>5, <3>1 DEF Findings
  <2>2. \A k : Findings(f, ParseJKS(f, typed, k).entries)
    BY <1>1, <2>1 DEF ParseJKS, Finds
  <2> QED  BY <1>5, <2>2 DEF Parse
<1>6. CASE f.format = "p12"
  <2>1. keys # {} => Least(keys) \in DOMAIN f.items  BY <1>2, <1>4, LeastOf
  <2>2. Findings(f, ParsePKCS12(f, typed).entries)
    <3>1. \A why, left0 : Findings(f, Fails(why, left0).entries)  BY <1>1
    <3>2. ReadBags(f.items, typed).err # "none" => Findings(f, ReadBags(f.items, typed).entries)
      BY <3>1 DEF ReadBags, Finds
    <3> QED  BY <3>1, <3>2, <2>1, SingleFinding DEF ParsePKCS12, Finds, keys
  <2> QED  BY <1>6, <2>2 DEF Parse
<1>7. CASE f.format \notin {"jks", "p12"}
  <2>1. ASSUME keys # {} PROVE Greatest(keys) \in DOMAIN f.items
    <3>1. Greatest(keys) \in keys  BY <1>3, <2>1, GreatestOf, Zenon
    <3> QED  BY <1>2, <3>1
  <2>2. Findings(f, ParsePEM(f).entries)
    BY <1>1, <2>1, SingleFinding DEF ParsePEM, Finds, keys
  <2> QED  BY <1>7, <2>2 DEF Parse
<1> QED  BY <1>5, <1>6, <1>7

\* What a first reading with the wrong key password has left behind: keys sealed
\* under the store's, with something else in the file that was not.
Stopped(f, typed, left0) ==
  /\ f.format = "jks" /\ f.store = typed
  /\ \A n \in left0 : n \in Positions(f.items, {"key"}) /\ DecryptsJKS(f.items[n], typed)
  /\ \E n \in DOMAIN f.items : ItemError(f.items[n], typed) # "none"

\* The key at a position before the first failing one was decrypted.
LEMMA StopsLeave ==
  ASSUME NEW f \in Files, NEW typed, Parse(f, typed, Empty).err = "keypassword"
  PROVE  Stopped(f, typed, Parse(f, typed, Empty).left)
<1> DEFINE failing == {n \in DOMAIN f.items : ItemError(f.items[n], typed) # "none"}
           first == Least(failing)
<1>1. f.format = "jks"
  <2>1. ASSUME f.format = "p12" PROVE FALSE
    <3>1. ReadBags(f.items, typed).err # "keypassword"
      BY DEF ReadBags, BagError, Fails, Finds
    <3> QED  BY <2>1, <3>1 DEF Parse, ParsePKCS12, Fails, Finds
  <2>2. ASSUME f.format \notin {"jks", "p12"} PROVE FALSE
    BY <2>2 DEF Parse, ParsePEM, Fails, Finds
  <2> QED  BY <2>1, <2>2
<1>2. ParseJKS(f, typed, typed).err = "keypassword" /\ Parse(f, typed, Empty) = ParseJKS(f, typed, typed)
  BY <1>1 DEF Parse
<1>3. f.store = typed /\ failing # {} /\ ParseJKS(f, typed, typed).left = KeysBefore(f.items, first)
  BY <1>2 DEF ParseJKS, Fails, Finds
<1>4. \A n \in failing : first <= n
  <2>1. failing \subseteq Nat  BY ItemsInOrder
  <2> HIDE DEF failing
  <2> QED  BY <1>3, <2>1, LeastOf
<1>5. ASSUME NEW n \in KeysBefore(f.items, first)
      PROVE  n \in Positions(f.items, {"key"}) /\ DecryptsJKS(f.items[n], typed)
  <2>1. n \in Positions(f.items, {"key"}) /\ n < first  BY DEF KeysBefore
  <2>2. n \in DOMAIN f.items /\ f.items[n].kind = "key"  BY <2>1 DEF Positions
  <2>3. first \in Nat /\ n \in Nat
    <3>1. failing \subseteq Nat  BY ItemsInOrder
    <3>2. n \in Nat  BY <2>2, ItemsInOrder
    <3> HIDE DEF failing
    <3> QED  BY <1>3, <3>1, <3>2, LeastOf
  <2>4. n \notin failing  BY ONLY <1>4, <2>1, <2>3
  <2>5. ItemError(f.items[n], typed) = "none"  BY <2>2, <2>4
  <2> QED  BY <2>1, <2>2, <2>5 DEF ItemError
<1> QED  BY <1>1, <1>2, <1>3, <1>5 DEF Stopped

\* A JKS is read only when no item of it fails, and then it leaves nothing behind.
LEMMA JKSFound ==
  ASSUME NEW f \in Files, NEW typed, NEW keyPassword,
         ParseJKS(f, typed, keyPassword).err = "none"
  PROVE  /\ ParseJKS(f, typed, keyPassword).left = {}
         /\ \A n \in DOMAIN f.items : ItemError(f.items[n], keyPassword) = "none"
<1> DEFINE failing == {n \in DOMAIN f.items : ItemError(f.items[n], keyPassword) # "none"}
<1>1. ASSUME failing # {} PROVE FALSE
  <2>1. Least(failing) \in failing
    <3>1. failing \subseteq Nat  BY ItemsInOrder
    <3> HIDE DEF failing
    <3> QED  BY <1>1, <3>1, LeastOf
  <2>2. ItemError(f.items[Least(failing)], keyPassword) # "none"  BY <2>1
  <2> QED  BY <1>1, <2>2 DEF ParseJKS, Fails
<1> QED  BY <1>1 DEF ParseJKS, Fails, Finds

\* A JKS or PKCS#12 file that is read leaves nothing behind.
LEMMA FoundLeaves ==
  ASSUME NEW f \in Files, NEW typed, NEW keyPassword, f.format # "pem",
         Parse(f, typed, keyPassword).err = "none"
  PROVE  Parse(f, typed, keyPassword).left = {}
<1>1. \A k : ParseJKS(f, typed, k).err = "none" => ParseJKS(f, typed, k).left = {}
  BY JKSFound
<1>2. ParsePKCS12(f, typed).err = "none" => ParsePKCS12(f, typed).left = {}
  BY DEF ParsePKCS12, Fails, Finds
<1> QED  BY <1>1, <1>2, KnownFormats DEF Parse

\* The second reading succeeds only where the first had left nothing.
LEMMA StoppedLeft ==
  ASSUME NEW f \in Files, NEW store0, NEW left0, Stopped(f, store0, left0),
         NEW typed, typed # Empty, Parse(f, store0, typed).err = "none"
  PROVE  left0 = {}
<1>1. ParseJKS(f, store0, typed).err = "none"  BY DEF Parse, Stopped
<1>2. \A n \in DOMAIN f.items : ItemError(f.items[n], typed) = "none"
  BY <1>1, JKSFound
<1>3. ASSUME NEW n \in left0 PROVE FALSE
  <2>1. n \in DOMAIN f.items /\ f.items[n].kind = "key" /\ f.items[n].pw = store0
    BY DEF Stopped, Positions, DecryptsJKS
  <2>2. f.items[n].pw = typed  BY <1>2, <2>1 DEF ItemError, DecryptsJKS
  <2>3. store0 = typed  BY <2>1, <2>2
  <2> QED  BY <1>2, <2>3 DEF Stopped
<1> QED  BY <1>3

\* Before a key is decrypted.
Reading == {"questions", "keystore", "store password", "key password"}

\* What readAndroidKey has, and which keys are in the clear, at each question.
Read ==
  /\ pc \in {"store password", "key password", "alias", "confirm"} => file \in Files
  /\ pc \in {"alias", "confirm"} => Findings(file, found)
  /\ pc = "confirm" => chosen \in DOMAIN found
  /\ pc \in Reading \cup {"idle"} => found = <<>>

InClear ==
  /\ pc \in Reading => plain = {}
  /\ pc = "alias" => plain = DOMAIN found
  /\ pc \notin Reading \cup {"alias", "idle"} =>
       \A n \in plain : n # chosen => n < chosen /\ found[n].alias = found[chosen].alias

Behind ==
  /\ pc \in Reading \ {"key password"} => left = {}
  /\ pc = "key password" => Stopped(file, store, left)
  /\ found # <<>> /\ file.format # "pem" => left = {}

KeyInv == Read /\ InClear /\ Behind

\* The steps after the questions do not touch the import.
Sealing == NewContainer \/ Add \/ LoadNew \/ RemoveContainer \/ RemoveBeside \/ Serve

LEMMA SealingKeeps ==
  Sealing => \/ UNCHANGED import /\ {pc, pc'} \cap (Reading \cup {"idle", "alias", "confirm"}) = {}
             \/ Leave({chosen}) /\ pc \notin Reading \cup {"idle", "alias"}
<1> USE DEF Reading
<1>1. NewContainer => \/ UNCHANGED import /\ {pc, pc'} \cap (Reading \cup {"idle", "alias", "confirm"}) = {}
                      \/ Leave({chosen}) /\ pc \notin Reading \cup {"idle", "alias"}
  BY DEF NewContainer
<1>2. Add => UNCHANGED import /\ {pc, pc'} \cap (Reading \cup {"idle", "alias", "confirm"}) = {}
  BY DEF Add, After, Names
<1>3. LoadNew => UNCHANGED import /\ {pc, pc'} \cap (Reading \cup {"idle", "alias", "confirm"}) = {}
  BY DEF LoadNew
<1>4. RemoveContainer => UNCHANGED import /\ {pc, pc'} \cap (Reading \cup {"idle", "alias", "confirm"}) = {}
  BY DEF RemoveContainer
<1>5. RemoveBeside => UNCHANGED import /\ {pc, pc'} \cap (Reading \cup {"idle", "alias", "confirm"}) = {}
  BY DEF RemoveBeside
<1>6. Serve => UNCHANGED import /\ {pc, pc'} \cap (Reading \cup {"idle", "alias", "confirm"}) = {}
  BY DEF Serve
<1> QED  BY <1>1, <1>2, <1>3, <1>4, <1>5, <1>6 DEF Sealing

\* With no process, or where it has returned, there is nothing to show.
LEMMA Returned ==
  ASSUME pc' = "idle", found' = <<>> PROVE KeyInv'
BY DEF KeyInv, Read, InClear, Behind, Reading

\* Parse returned, from either question for a password.
LEMMA ParsedKeeps ==
  ASSUME KeyInv, NEW p, NEW retry \in BOOLEAN,
         pc \in {"store password", "key password"},
         Findings(file, p.entries),
         p.err = "none" /\ file.format # "pem" => left \cup p.left = {},
         p.err = "keypassword" /\ retry => Stopped(file, store', left \cup p.left),
         Parsed(p, retry)
  PROVE  KeyInv'
<1>1. plain = {} /\ found = <<>> /\ file \in Files
  BY DEF KeyInv, Read, InClear, Reading
<1>2. CASE /\ p.err = "none" /\ pc' = "alias" /\ found' = p.entries
           /\ plain' = DOMAIN p.entries /\ file' = file /\ left' = left \cup p.left
  <2>1. Read'  BY <1>1, <1>2 DEF Read, Reading
  <2>2. InClear'  BY <1>2 DEF InClear, Reading
  <2>3. Behind'  BY <1>2 DEF Behind, Reading
  <2> QED  BY <2>1, <2>2, <2>3 DEF KeyInv
<1>3. CASE /\ retry /\ p.err = "keypassword" /\ pc' = "key password"
           /\ left' = left \cup p.left /\ UNCHANGED <<file, found, plain>>
  BY <1>1, <1>3 DEF KeyInv, Read, InClear, Behind, Reading
<1>4. CASE LeaveWith({}, p.left)
  BY <1>4, Returned DEF LeaveWith
<1> QED  BY <1>2, <1>3, <1>4 DEF Parsed

LEMMA KeyInvKept == KeyInv /\ [Next]_vars => KeyInv'
<1> SUFFICES ASSUME KeyInv, [Next]_vars PROVE KeyInv'  OBVIOUS
<1>0. ASSUME NEW wiped, Leave(wiped) PROVE KeyInv'
  BY <1>0, Returned DEF Leave, LeaveWith
<1>1. CASE CreatePath  BY <1>1 DEF CreatePath, Starts, KeyInv, Read, InClear, Behind, Reading
<1>2. CASE Questions  BY <1>2 DEF Questions, KeyInv, Read, InClear, Behind, Reading
<1>3. CASE Cancel  BY <1>0, <1>3 DEF Cancel
<1>4. CASE PickKeystore  BY <1>4 DEF PickKeystore, KeyInv, Read, InClear, Behind, Reading
<1>5. CASE StorePassword
  <2>1. PICK typed \in Passwords :
          /\ Parsed(Parse(file, typed, Empty), TRUE)
          /\ store' = IF pc' = "key password" THEN typed ELSE Empty
    BY <1>5 DEF StorePassword
  <2> DEFINE p == Parse(file, typed, Empty)
  <2>2. file \in Files /\ left = {} /\ pc = "store password"
    BY <1>5 DEF StorePassword, KeyInv, Read, Behind, Reading
  <2>3. Findings(file, p.entries)  BY <2>2, ParseFinds
  <2>4. p.err = "none" /\ file.format # "pem" => p.left = {}  BY <2>2, FoundLeaves
  <2>5. p.err = "keypassword" => Stopped(file, typed, p.left)  BY <2>2, StopsLeave
  <2> HIDE DEF p
  <2>6. p.err = "keypassword" => store' = typed
    BY <2>1 DEF Parsed, p
  <2> QED  BY <2>1, <2>2, <2>3, <2>4, <2>5, <2>6, ParsedKeeps DEF p
<1>6. CASE KeyPassword
  <2>1. PICK typed \in Passwords \ {Empty} : Parsed(Parse(file, store, typed), FALSE)
    BY <1>6 DEF KeyPassword
  <2> DEFINE p == Parse(file, store, typed)
  <2>2. file \in Files /\ Stopped(file, store, left) /\ pc = "key password"
    BY <1>6 DEF KeyPassword, KeyInv, Read, Behind
  <2>3. Findings(file, p.entries)  BY <2>2, ParseFinds
  <2>4. p.err = "none" /\ file.format # "pem" => p.left = {}  BY <2>2, FoundLeaves
  <2>5. p.err = "none" => left = {}  BY <2>1, <2>2, StoppedLeft
  <2> HIDE DEF p
  <2> QED  BY <2>1, <2>2, <2>3, <2>4, <2>5, ParsedKeeps DEF p
<1>7. CASE ChooseAlias
  <2>1. PICK n \in DOMAIN found :
          LET same == {m \in DOMAIN found : found[m].alias = found[n].alias}
          IN  chosen' = Greatest(same) /\ plain' = same
    BY <1>7 DEF ChooseAlias
  <2> DEFINE same == {m \in DOMAIN found : found[m].alias = found[n].alias}
  <2>2. pc = "alias" /\ pc' = "confirm" /\ UNCHANGED <<file, found, left>>
    BY <1>7 DEF ChooseAlias
  <2>3. file \in Files /\ Findings(file, found)  BY <2>2 DEF KeyInv, Read
  <2>4. chosen' \in same /\ plain' = same /\ \A m \in same : m <= chosen'
    <3>1. Len(file.items) \in Nat /\ same \subseteq 0..Len(file.items)
      BY <2>3, ItemsInOrder DEF Findings
    <3>2. n \in same  OBVIOUS
    <3>3. chosen' = Greatest(same) /\ plain' = same  BY <2>1
    <3> HIDE DEF same
    <3>4. PICK N \in Nat : same \subseteq 0..N  BY <3>1
    <3> QED  BY <3>2, <3>3, <3>4, GreatestOf
  <2>5. Read'  BY <2>2, <2>3, <2>4 DEF Read, Reading
  <2>6. InClear'
    <3> SUFFICES ASSUME NEW m \in same
                 PROVE  m # chosen' => m < chosen' /\ found[m].alias = found[chosen'].alias
      BY <2>2, <2>4 DEF InClear, Reading
    <3>1. m \in Nat /\ chosen' \in Nat /\ m <= chosen'
      BY <2>3, <2>4, ItemsInOrder DEF Findings
    <3>2. found[m].alias = found[chosen'].alias  BY <2>4
    <3> HIDE DEF same
    <3> QED  BY <3>1, <3>2
  <2>7. Behind'  BY <2>2 DEF KeyInv, Behind, Reading
  <2> QED  BY <2>5, <2>6, <2>7 DEF KeyInv
<1>8. CASE CancelAlias  BY <1>0, <1>8 DEF CancelAlias
<1>9. CASE Confirm
  <2>1. CASE Leave({chosen})  BY <1>0, <2>1
  <2>2. CASE UNCHANGED import /\ pc' = "create"
    BY <1>9, <2>2 DEF Confirm, import, KeyInv, Read, InClear, Behind, Reading
  <2> QED  BY <1>9, <2>1, <2>2 DEF Confirm
<1>10. CASE Sealing
  <2>1. CASE Leave({chosen})  BY <1>0, <2>1
  <2>2. CASE UNCHANGED import /\ {pc, pc'} \cap (Reading \cup {"idle", "alias", "confirm"}) = {}
    BY <2>2 DEF import, KeyInv, Read, InClear, Behind, Reading
  <2> QED  BY <1>10, <2>1, <2>2, SealingKeeps
<1>11. CASE CreateFails  BY <1>0, <1>11 DEF CreateFails
<1>12. CASE Stop  BY <1>0, <1>12 DEF Stop
<1>13. CASE Open  BY <1>13 DEF Open, Starts, KeyInv, Read, InClear, Behind, Reading
<1>14. CASE Crash  BY <1>14, Returned DEF Crash
<1>15. CASE Appear  BY <1>15 DEF Appear, import, KeyInv, Read, InClear, Behind, Reading
<1>16. CASE LoseBlob  BY <1>16 DEF LoseBlob, import, KeyInv, Read, InClear, Behind, Reading
<1>17. CASE UNCHANGED vars  BY <1>17 DEF vars, import, KeyInv, Read, InClear, Behind, Reading
<1> QED  BY <1>1, <1>2, <1>3, <1>4, <1>5, <1>6, <1>7, <1>8, <1>9,
            <1>10, <1>11, <1>12, <1>13, <1>14, <1>15, <1>16, <1>17 DEF Next, CreateStep, Sealing

LEMMA KeyInvInit == Init => KeyInv
BY DEF Init, KeyInv, Read, InClear, Behind, Reading

\* The strengthening of KeysWiped and ChainFits is inductive.
THEOREM KeyInductive == Spec => []KeyInv
BY KeyInvInit, KeyInvKept, PTL DEF Spec

\* createAndRun returns from its questions, from Create or from serve, by leaving
\* with the entry chosen wiped, or with all of them, or by a crash.
LEMMA Returns ==
  ASSUME KeyInv, Next, pc # "idle", pc' = "idle"
  PROVE  \/ Crash
         \/ Leave({chosen}) /\ pc \notin Reading \cup {"alias"}
         \/ Leave({}) /\ plain = {}
         \/ Leave(DOMAIN found) /\ plain = DOMAIN found
         \/ found = <<>> /\ plain = {} /\ plain' = {} /\ nsec' = nsec \ {"array"}
<1> USE DEF Reading
<1>1. CASE Cancel  BY <1>1 DEF Cancel, KeyInv, InClear
<1>2. CASE StorePassword \/ KeyPassword
  <2>1. found = <<>> /\ plain = {}
    BY <1>2 DEF StorePassword, KeyPassword, KeyInv, InClear, Read
  <2>2. \E copies : LeaveWith({}, copies)
    BY <1>2 DEF StorePassword, KeyPassword, Parsed
  <2> QED  BY <2>1, <2>2 DEF LeaveWith
<1>3. CASE CancelAlias  BY <1>3 DEF CancelAlias, KeyInv, InClear
<1>4. CASE Confirm  BY <1>4 DEF Confirm
<1>5. CASE Sealing  BY <1>5, SealingKeeps
<1>6. CASE CreateFails \/ Stop  BY <1>6 DEF CreateFails, Stop
<1>7. CASE Crash  BY <1>7
<1>8. ~(CreatePath \/ Questions \/ PickKeystore \/ ChooseAlias \/ Open \/ LoseBlob)
  BY DEF CreatePath, Questions, PickKeystore, ChooseAlias, Open, LoseBlob
<1>9. ~Appear  BY DEF Appear
<1> QED  BY <1>1, <1>2, <1>3, <1>4, <1>5, <1>6, <1>7, <1>8, <1>9 DEF Next, CreateStep, Sealing

\* However createAndRun returns, only what KeysWiped names stays in the clear.
THEOREM NoKeyLeft == Spec => KeysWiped
<1>1. Init => nsec \subseteq {"array", "input"}  BY DEF Init
<1> DEFINE OfNsec == nsec \subseteq {"array", "input"}
<1>2. OfNsec /\ [Next]_vars => OfNsec'
  <2> SUFFICES ASSUME OfNsec, [Next]_vars PROVE OfNsec'  OBVIOUS
  <2>1. \/ UNCHANGED nsec \/ nsec' = {} \/ nsec' = nsec \ {"array"}
        \/ nsec' \in {{"array"}, {"array", "input"}}
    <3> USE DEF Leave, LeaveWith, import
    <3>1. CASE CreatePath \/ Questions \/ Cancel \/ PickKeystore \/ Open \/ Crash
      BY <3>1 DEF CreatePath, Starts, Questions, Cancel, PickKeystore, Open, Crash
    <3>2. CASE StorePassword \/ KeyPassword
      BY <3>2 DEF StorePassword, KeyPassword, Parsed
    <3>3. CASE ChooseAlias \/ CancelAlias \/ Confirm \/ CreateFails \/ Stop
      BY <3>3 DEF ChooseAlias, CancelAlias, Confirm, CreateFails, Stop
    <3>4. CASE Sealing  BY <3>4, SealingKeeps
    <3>5. CASE Appear \/ LoseBlob \/ UNCHANGED vars
      BY <3>5 DEF Appear, LoseBlob, vars
    <3> QED  BY <3>1, <3>2, <3>3, <3>4, <3>5 DEF Next, CreateStep, Sealing
  <2> QED  BY <2>1
<1>3. KeyInv /\ OfNsec /\ [Next]_vars =>
        [pc # "idle" /\ pc' = "idle" =>
           /\ nsec' \subseteq {"input"}
           /\ \A n \in plain' : n < chosen /\ found[n].alias = found[chosen].alias
           /\ found # <<>> /\ file.format # "pem" => left' = {}]_vars
  <2> SUFFICES ASSUME KeyInv, OfNsec, Next, pc # "idle", pc' = "idle"
               PROVE  /\ nsec' \subseteq {"input"}
                      /\ \A n \in plain' : n < chosen /\ found[n].alias = found[chosen].alias
                      /\ found # <<>> /\ file.format # "pem" => left' = {}
    OBVIOUS
  <2>1. CASE Crash  BY <2>1 DEF Crash
  <2>2. CASE Leave({chosen}) /\ pc \notin Reading \cup {"alias"}
    BY <2>2 DEF Leave, LeaveWith, KeyInv, InClear, Behind
  <2>3. CASE Leave({}) /\ plain = {}
    BY <2>3 DEF Leave, LeaveWith, KeyInv, Behind
  <2>4. CASE Leave(DOMAIN found) /\ plain = DOMAIN found
    BY <2>4 DEF Leave, LeaveWith, KeyInv, Behind
  <2>5. CASE found = <<>> /\ plain = {} /\ plain' = {} /\ nsec' = nsec \ {"array"}
    BY <2>5
  <2> QED  BY <2>1, <2>2, <2>3, <2>4, <2>5, Returns
<1> QED  BY <1>1, <1>2, <1>3, KeyInductive, PTL DEF Spec, KeysWiped

\* The chain that the user confirms, and Create seals, is one for the key.
THEOREM ChainsAreWhole == Spec => []ChainFits
<1>1. KeyInv => ChainFits
  <2> SUFFICES ASSUME KeyInv, pc = "confirm", file.format # "jks", NoCopies(file.items)
               PROVE  IsChain(found[chosen].key, found[chosen].certs, file.items)
    BY DEF ChainFits
  <2>1. /\ file \in Files
        /\ found[chosen].certs # <<>>
        /\ found[chosen].certs = OrderCerts(found[chosen].key, file.items)
    BY DEF KeyInv, Read, Findings
  <2>2. InOrder(file.items)  BY <2>1, ItemsInOrder DEF InOrder
  <2> QED  BY <2>1, <2>2, OrderedChain
<1> QED  BY KeyInductive, <1>1, PTL

-----------------------------------------------------------------------------
(* What is in the container                                                *)

OnDisk ==
  /\ sealed \subseteq Names
  /\ gone \subseteq sealed
  /\ there = "no" => sealed = {} /\ pc \notin {"created", "serving", "refused"}

SealedAt(name) == CASE name = "nsec" -> {}
                    [] name = "bunker" -> {"nsec"}
                    [] name = "android" -> {"nsec", "bunker"}
                    [] name = "android-key" -> {"nsec", "bunker", "android"}

Asked == IF AndroidOmitted THEN {"nsec", "bunker"} ELSE Names

Building ==
  /\ pc \in Names \cup {"load", "abandon"} => mine
  /\ mine => /\ there = "file" /\ gone = {}
             /\ pc \in Names \cup {"load", "abandon", "created", "serving"}
  /\ pc \in Names => sealed = SealedAt(pc)
  /\ pc \in {"android", "android-key"} => ~AndroidOmitted
  /\ mine /\ pc \in {"load", "created", "serving"} => sealed = Asked

Clearing ==
  /\ pc \in {"lock", "writing", "key", "failed"} => sealed \in {{}} \cup Whole
  /\ pc \in {"writing", "key", "failed"} /\ there = "no" => "lock" \notin side
  /\ pc \in {"key", "failed"} /\ there = "no" => "writing" \notin side
  /\ pc = "failed" /\ there = "no" /\ storage = "file" => "key" \notin side

Answered ==
  /\ pc \in {"created", "serving"} => result = Load /\ Load.kind = "profile"
  /\ pc = "refused" => result \in {Load, Failure}

Inv == OnDisk /\ Building /\ Clearing /\ Answered

\* The steps that ask and read, which leave the container alone.
Asking == \/ CreatePath \/ Questions \/ Cancel
          \/ PickKeystore \/ StorePassword \/ KeyPassword
          \/ ChooseAlias \/ CancelAlias \/ Confirm

\* What such a step does to the container and to the place of the creation.
Aside ==
  /\ UNCHANGED <<there, sealed, gone, side>>
  /\ mine' \in {mine, FALSE}
  /\ pc \in {"idle", "questions", "keystore", "store password", "key password",
             "alias", "confirm"}
  /\ pc' \in {"idle", "questions", "keystore", "store password", "key password",
              "alias", "confirm", "create"}

LEMMA AskingIsAside == Asking => Aside
<1> USE DEF Aside, disk, import
<1>1. CreatePath => Aside  BY DEF CreatePath, Starts
<1>2. Questions => Aside  BY DEF Questions
<1>3. Cancel => Aside  BY DEF Cancel, Leave, LeaveWith
<1>4. PickKeystore => Aside  BY DEF PickKeystore
<1>5. StorePassword => Aside  BY DEF StorePassword, Parsed, Leave, LeaveWith
<1>6. KeyPassword => Aside  BY DEF KeyPassword, Parsed, Leave, LeaveWith
<1>7. ChooseAlias => Aside  BY DEF ChooseAlias
<1>8. CancelAlias => Aside  BY DEF CancelAlias, Leave, LeaveWith
<1>9. Confirm => Aside  BY DEF Confirm, Leave, LeaveWith
<1> QED  BY <1>1, <1>2, <1>3, <1>4, <1>5, <1>6, <1>7, <1>8, <1>9 DEF Asking

LEMMA NextIsSteps ==
  Next => \/ Asking \/ NewContainer \/ Add \/ LoadNew \/ RemoveContainer
          \/ RemoveBeside \/ CreateFails \/ Serve \/ Stop \/ Open \/ Crash
          \/ Appear \/ LoseBlob
BY DEF Next, CreateStep, Asking

-----------------------------------------------------------------------------

LEMMA InitInv == Init => Inv
<1> SUFFICES ASSUME Init PROVE Inv  OBVIOUS
<1>1. OnDisk  BY DEF Init, OnDisk, Whole, Names
<1>2. Building  BY DEF Init, Building, Names
<1>3. Clearing  BY DEF Init, Clearing
<1>4. Answered  BY DEF Init, Answered
<1> QED  BY <1>1, <1>2, <1>3, <1>4 DEF Inv

LEMMA OnDiskKept == Inv /\ [Next]_vars => OnDisk'
<1> SUFFICES ASSUME Inv, [Next]_vars PROVE OnDisk'  OBVIOUS
<1> USE DEF Inv, OnDisk
<1>1. CASE Asking  BY <1>1, AskingIsAside DEF Aside
<1>2. CASE NewContainer  BY <1>2 DEF NewContainer, Leave, LeaveWith
<1>3. CASE Add
  <2>1. there = "file"  BY <1>3 DEF Add, Building
  <2> QED  BY <1>3, <2>1 DEF Add, After
<1>4. CASE LoadNew  BY <1>4 DEF LoadNew, disk, Building
<1>5. CASE RemoveContainer  BY <1>5 DEF RemoveContainer
<1>6. CASE RemoveBeside  BY <1>6 DEF RemoveBeside
<1>7. CASE CreateFails  BY <1>7 DEF CreateFails, Leave, LeaveWith
<1>8. CASE Serve  BY <1>8 DEF Serve, disk
<1>9. CASE Stop  BY <1>9 DEF Stop, Leave, LeaveWith
<1>10. CASE Open  BY <1>10 DEF Open, Starts, disk
<1>11. CASE Crash  BY <1>11 DEF Crash
<1>12. CASE Appear  BY <1>12 DEF Appear, Names
<1>13. CASE LoseBlob  BY <1>13 DEF LoseBlob
<1>14. CASE UNCHANGED vars  BY <1>14 DEF vars, disk
<1> QED  BY NextIsSteps, <1>1, <1>2, <1>3, <1>4, <1>5, <1>6, <1>7, <1>8, <1>9,
            <1>10, <1>11, <1>12, <1>13, <1>14

LEMMA BuildingKept == Inv /\ [Next]_vars => Building'
<1> SUFFICES ASSUME Inv, [Next]_vars PROVE Building'  OBVIOUS
<1> USE DEF Inv, Building, Names, AndroidOmitted, Asked
<1>1. CASE Asking
  <2>1. Aside  BY <1>1, AskingIsAside
  <2>2. ~mine  BY <2>1 DEF Aside
  <2>3. ~mine'
    <3>1. mine' = mine \/ mine' = FALSE  BY <2>1 DEF Aside
    <3> HIDE DEF Building
    <3> QED  BY <2>2, <3>1, Zenon
  <2> QED  BY <2>1, <2>2, <2>3 DEF Aside
<1>2. CASE NewContainer  BY <1>2 DEF NewContainer, Leave, LeaveWith, import, SealedAt
<1>3. CASE Add
  <2>1. sealed = SealedAt(pc) /\ mine /\ pc \in Names /\ UNCHANGED <<chosen, mine, there, gone>>
    BY <1>3 DEF Add, import
  <2>2. CASE pc' = "abandon"  BY <2>1, <2>2
  <2>3. CASE sealed' = sealed \cup {pc} /\ pc' = After(pc)
    <3>1. CASE pc = "nsec"  BY <2>1, <2>3, <3>1 DEF SealedAt, After
    <3>2. CASE pc = "bunker"  BY <2>1, <2>3, <3>2 DEF SealedAt, After
    <3>3. CASE pc = "android"  BY <2>1, <2>3, <3>3 DEF SealedAt, After
    <3>4. CASE pc = "android-key"  BY <2>1, <2>3, <3>4 DEF SealedAt, After
    <3> QED  BY <2>1, <3>1, <3>2, <3>3, <3>4
  <2> QED  BY <1>3, <2>2, <2>3 DEF Add
<1>4. CASE LoadNew  BY <1>4 DEF LoadNew, disk, import
<1>5. CASE RemoveContainer  BY <1>5 DEF RemoveContainer
<1>6. CASE RemoveBeside  BY <1>6 DEF RemoveBeside
<1>7. CASE CreateFails  BY <1>7 DEF CreateFails, Leave, LeaveWith
<1>8. CASE Serve  BY <1>8 DEF Serve, disk, import
<1>9. CASE Stop  BY <1>9 DEF Stop, Leave, LeaveWith
<1>10. CASE Open  BY <1>10 DEF Open, Starts, disk, import
<1>11. CASE Crash  BY <1>11 DEF Crash
<1>12. CASE Appear  BY <1>12 DEF Appear, import
<1>13. CASE LoseBlob  BY <1>13 DEF LoseBlob, import
<1>14. CASE UNCHANGED vars  BY <1>14 DEF vars, disk, import
<1> QED  BY NextIsSteps, <1>1, <1>2, <1>3, <1>4, <1>5, <1>6, <1>7, <1>8, <1>9,
            <1>10, <1>11, <1>12, <1>13, <1>14

LEMMA ClearingKept == Inv /\ [Next]_vars => Clearing'
<1> SUFFICES ASSUME Inv, [Next]_vars PROVE Clearing'  OBVIOUS
<1> USE DEF Inv, Clearing
<1>1. CASE Asking  BY <1>1, AskingIsAside DEF Aside
<1>2. CASE NewContainer  BY <1>2 DEF NewContainer, Leave, LeaveWith
<1>3. CASE Add  BY <1>3 DEF Add, After, Names
<1>4. CASE LoadNew  BY <1>4 DEF LoadNew
<1>5. CASE RemoveContainer  BY <1>5 DEF RemoveContainer
<1>6. CASE RemoveBeside  BY <1>6 DEF RemoveBeside
<1>7. CASE CreateFails  BY <1>7 DEF CreateFails, Leave, LeaveWith
<1>8. CASE Serve  BY <1>8 DEF Serve
<1>9. CASE Stop  BY <1>9 DEF Stop, Leave, LeaveWith
<1>10. CASE Open  BY <1>10 DEF Open, Starts
<1>11. CASE Crash  BY <1>11 DEF Crash
<1>12. CASE Appear  BY <1>12 DEF Appear, Whole
<1>13. CASE LoseBlob  BY <1>13 DEF LoseBlob
<1>14. CASE UNCHANGED vars  BY <1>14 DEF vars, disk
<1> QED  BY NextIsSteps, <1>1, <1>2, <1>3, <1>4, <1>5, <1>6, <1>7, <1>8, <1>9,
            <1>10, <1>11, <1>12, <1>13, <1>14

\* What load finds depends on the container alone.
LEMMA LoadSame == UNCHANGED <<sealed, gone>> => Load' = Load
BY DEF Load, ConfirmSecret, ReadsBlobs, RefuseMissingKeys

LEMMA AnsweredKept == Inv /\ [Next]_vars => Answered'
<1> SUFFICES ASSUME Inv, [Next]_vars PROVE Answered'  OBVIOUS
<1> USE DEF Inv, Answered
<1>1. CASE Asking  BY <1>1, AskingIsAside DEF Aside
<1>2. CASE NewContainer  BY <1>2 DEF NewContainer, Leave, LeaveWith
<1>3. CASE Add  BY <1>3 DEF Add, After, Names
<1>4. CASE LoadNew  BY <1>4, LoadSame DEF LoadNew, disk
<1>5. CASE RemoveContainer  BY <1>5 DEF RemoveContainer
<1>6. CASE RemoveBeside  BY <1>6 DEF RemoveBeside
<1>7. CASE CreateFails  BY <1>7 DEF CreateFails, Leave, LeaveWith
<1>8. CASE Serve  BY <1>8, LoadSame DEF Serve, disk
<1>9. CASE Stop  BY <1>9 DEF Stop, Leave, LeaveWith
<1>10. CASE Open  BY <1>10, LoadSame DEF Open, Starts, disk, Failure, Outcome
<1>11. CASE Crash  BY <1>11 DEF Crash
<1>12. CASE Appear  BY <1>12 DEF Appear, OnDisk
<1>13. CASE LoseBlob  BY <1>13 DEF LoseBlob
<1>14. CASE UNCHANGED vars  BY <1>14, LoadSame DEF vars, disk
<1> QED  BY NextIsSteps, <1>1, <1>2, <1>3, <1>4, <1>5, <1>6, <1>7, <1>8, <1>9,
            <1>10, <1>11, <1>12, <1>13, <1>14
-----------------------------------------------------------------------------
(* Theorems                                                                *)

\* The strengthening of the invariants below is inductive.
THEOREM Inductive == Spec => []Inv
<1>1. Inv /\ [Next]_vars => Inv'
  BY OnDiskKept, BuildingKept, ClearingKept, AnsweredKept DEF Inv
<1> QED  BY InitInv, <1>1, PTL DEF Spec

\* A creation that fails after profile.Create has made the container leaves no
\* part of it behind.
THEOREM FailsClean == Spec => []AbandonLeavesNothing
<1>1. Inv => AbandonLeavesNothing
  <2> SUFFICES ASSUME Inv, pc = "failed" PROVE AbandonLeavesNothing
    BY DEF AbandonLeavesNothing
  <2>1. ~mine  BY DEF Inv, Building, Names
  <2>2. sealed \in {{}} \cup Whole  BY DEF Inv, Clearing
  <2>3. ASSUME there = "no" PROVE side \cap {"lock", "writing"} = {}
    BY <2>3 DEF Inv, Clearing
  <2>4. ASSUME there = "no", storage = "file" PROVE "key" \notin side
    BY <2>4 DEF Inv, Clearing
  <2>5. storage # "file" => "key" \notin SecondSecret
    BY DEF SecondSecret
  <2> QED  BY <2>1, <2>2, <2>3, <2>4, <2>5 DEF AbandonLeavesNothing, SecondSecret
<1> QED  BY Inductive, <1>1, PTL

\* load lets no profile through that is not whole.
LEMMA LoadWhole ==
  ASSUME OnDisk, Load.kind = "profile"
  PROVE  /\ {"nsec", "bunker"} \subseteq sealed \ gone
         /\ Load.android => Names \subseteq sealed \ gone
         /\ ~Load.android => {"android", "android-key"} \cap sealed = {}
         /\ Load.android <=> "android" \in sealed
<1>1. /\ ConfirmSecret /\ "bunker" \in sealed /\ ReadsBlobs /\ RefuseMissingKeys = {}
      /\ Load = Loaded("android" \in sealed)
  BY DEF Load, Failure, Missing, Outcome
<1>2. Load.android <=> "android" \in sealed  BY <1>1 DEF Loaded, Outcome
<1>3. {"nsec", "bunker"} \subseteq sealed \ gone
  BY <1>1 DEF ConfirmSecret, ReadsBlobs, RefuseMissingKeys, Secrets
<1>4. "android" \in sealed => Names \subseteq sealed \ gone
  BY <1>1 DEF ConfirmSecret, ReadsBlobs, RefuseMissingKeys, Secrets, Names
<1>5. "android" \notin sealed => {"android", "android-key"} \cap sealed = {}
  BY <1>1 DEF ConfirmSecret
<1> QED  BY <1>2, <1>3, <1>4, <1>5

\* A profile at work is whole, as load found it when it was created or opened.
THEOREM WholeProfile == Spec => []OpenedIsWhole
<1>1. Inv => OpenedIsWhole
  <2> SUFFICES ASSUME Inv, pc \in {"created", "serving"} PROVE OpenedIsWhole
    BY DEF OpenedIsWhole
  <2>1. OnDisk /\ result = Load /\ Load.kind = "profile"  BY DEF Inv, Answered
  <2>2. ASSUME mine PROVE "android" \in sealed <=> ~AndroidOmitted
    BY <2>2 DEF Inv, Building, Asked, Names
  <2> HIDE DEF Inv, Load
  <2> QED  BY <2>1, <2>2, LoadWhole DEF OpenedIsWhole
<1> QED  BY Inductive, <1>1, PTL

\* No step of a creation or of Open touches a vault that was there before.
THEOREM OthersKept == Spec => KeepsOthers
<1>1. Inv /\ [Next]_vars =>
        [~mine /\ there # "no" => there' = there /\ sealed' = sealed]_vars
  <2> SUFFICES ASSUME Inv, Next, ~mine, there # "no"
               PROVE  there' = there /\ sealed' = sealed
    OBVIOUS
  <2>1. CASE Asking  BY <2>1, AskingIsAside DEF Aside
  <2>2. ~Add /\ ~RemoveContainer
    BY DEF Inv, Building, Add, RemoveContainer
  <2> QED
    BY <2>1, <2>2, NextIsSteps
    DEF NewContainer, LoadNew, RemoveBeside, CreateFails, Serve, Stop, Open, Starts, Crash,
        Appear, LoseBlob, disk
<1> QED  BY Inductive, <1>1, PTL DEF Spec, KeepsOthers
=============================================================================
