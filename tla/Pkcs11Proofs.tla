---------------------------- MODULE Pkcs11Proofs ----------------------------
(***************************************************************************)
(* Proofs about Pkcs11, for any number of sessions, certificates, lengths,  *)
(* PINs and signers.  NothingKept, SignsWhatWasGiven and InfoIsCurrent are  *)
(* not inductive; they become so with three more facts: the cached PIN is   *)
(* that of the signer whose key is cached (Owned), what is buffered is what *)
(* was given, and nothing is when no operation is set up (Buffered), and a  *)
(* session that a C_GetSessionInfo has found is as it was found, until it   *)
(* is closed (Found).                                                       *)
(***************************************************************************)
EXTENDS Pkcs11, TLAPS

Sessions ==
  [open : BOOLEAN, rw : BOOLEAN, finding : BOOLEAN, left : BOOLEAN, signing : BOOLEAN,
   mech : KeyTypes \cup {"none"}, len : Nat, given : Nat]

Caches == [logged : BOOLEAN, pin : Pins \cup {NoPin}, of : Peers \cup {Down}, ncerts : Nat]

Lookings == [at : 0..MaxSessions, rw : BOOLEAN, closed : BOOLEAN, answered : BOOLEAN,
             told : BOOLEAN]

Types ==
  /\ initialized \in BOOLEAN
  /\ cache \in Caches
  /\ session \in [Handles -> Sessions]
  /\ looking \in Lookings
  /\ peer \in Peers \cup {Down}

Owned == cache.logged => cache.pin = cache.of.pin

Buffered == \A h \in Handles : /\ session[h].len = session[h].given
                               /\ session[h].len > 0 => session[h].signing

Found ==
  ~looking.answered =>
    /\ looking.at \in Handles
    /\ ~looking.closed => IsOpen(looking.at) /\ session[looking.at].rw = looking.rw

\* What all steps preserve but for the answers they give.
State == Types /\ NothingKept /\ Owned /\ Buffered

IInv == State /\ Found /\ SignsWhatWasGiven /\ InfoIsCurrent

-----------------------------------------------------------------------------
\* A cleared session is one.
LEMMA Cleared ==
  ASSUME NEW s \in Sessions
  PROVE  /\ Zero \in Sessions
         /\ ClearSign(s) \in Sessions
         /\ ClearSign(s).open = s.open /\ ClearSign(s).rw = s.rw
         /\ ~ClearSign(s).signing /\ ClearSign(s).len = 0 /\ ClearSign(s).given = 0
         /\ ~Zero.open /\ ~Zero.signing /\ Zero.len = 0 /\ Zero.given = 0
  BY DEF Sessions, Zero, ClearSign

\* Init establishes the invariant.
LEMMA InitInv == ASSUME Init PROVE IInv
  <1> USE Limits DEF Init, Empty, NoAttempt, NotLooking, Zero, Down
  <1>1. Types
    <2>1. Empty \in Caches /\ Zero \in Sessions
      BY DEF Caches, Sessions
    <2>2. NotLooking \in Lookings
      BY DEF Lookings
    <2> QED
      BY <2>1, <2>2 DEF Types
  <1>2. NothingKept
    BY DEF NothingKept, Holds, Handles
  <1>3. Owned /\ Buffered
    BY DEF Owned, Buffered
  <1>4. Found /\ SignsWhatWasGiven /\ InfoIsCurrent
    BY DEF Found, SignsWhatWasGiven, InfoIsCurrent
  <1> QED
    BY <1>1, <1>2, <1>3, <1>4 DEF IInv, State

\* A step of one session that stays open, as all its operations are: what it needs
\* to preserve the state of the others.
LEMMA OneSession ==
  ASSUME State, NEW h \in Handles, IsOpen(h), NEW s \in Sessions,
         session' = [session EXCEPT ![h] = s],
         s.open, s.rw = session[h].rw, s.len = s.given, s.len > 0 => s.signing,
         UNCHANGED <<initialized, cache, lost, looking, peer>>
  PROVE  State' /\ (Found => Found')
  <1> USE DEF State
  <1>1. \A g \in Handles : session'[g] = IF g = h THEN s ELSE session[g]
    BY DEF Types
  <1>2. Types'
    BY DEF Types
  <1>3. NothingKept'
    BY <1>1 DEF NothingKept, IsOpen, Holds
  <1>4. Owned' /\ Buffered'
    BY <1>1 DEF Owned, Buffered
  <1>5. Found => Found'
    BY <1>1 DEF Found, IsOpen
  <1> QED
    BY <1>2, <1>3, <1>4, <1>5

\* A step that touches no session.
LEMMA NoSession ==
  ASSUME State, UNCHANGED <<initialized, session, lost>>,
         cache' \in Caches, peer' \in Peers \cup {Down},
         IF cache'.logged
           THEN /\ cache'.pin \in Pins /\ cache'.of \in Peers /\ cache'.ncerts > 0
                /\ cache'.pin = cache'.of.pin
           ELSE cache' = Empty,
         cache' = cache \/ initialized,
         looking' \in Lookings
  PROVE  State'
  <1> USE DEF State
  <1>1. Types' /\ Owned' /\ Buffered'
    BY DEF Types, Owned, Buffered
  <1>2. NothingKept'
    BY DEF NothingKept, Holds
  <1> QED
    BY <1>1, <1>2

\* Sessions that are closed are all cleared.
LEMMA ManyClosed ==
  ASSUME State, NEW H \in SUBSET Handles,
         NEW t \in [Handles -> Sessions], session' = t,
         \A g \in Handles \ H : t[g] = session[g],
         \A g \in H : ~t[g].open /\ ~t[g].signing /\ t[g].len = 0 /\ t[g].given = 0,
         ~lost', Closing(H), peer' = peer,
         \/ cache' = cache /\ initialized' = initialized /\ initialized
         \/ cache' = Empty /\ initialized' = FALSE /\ H = Handles
  PROVE  State' /\ (Found => Found') /\ (InfoIsCurrent => InfoIsCurrent')
  <1> USE DEF State
  <1>1. looking' \in Lookings
    BY DEF Closing, Types, Lookings
  <1>2. Empty \in Caches
    BY DEF Empty, Caches
  <1>3. Types'
    BY <1>1, <1>2 DEF Types
  <1>4. NothingKept'
    BY <1>2 DEF NothingKept, Holds, Empty
  <1>5. Owned' /\ Buffered'
    BY DEF Owned, Buffered, Empty
  <1>6. Found => Found'
    BY DEF Found, Closing, IsOpen, Types, Lookings
  <1>7. InfoIsCurrent => InfoIsCurrent'
    BY DEF InfoIsCurrent, Closing, Types, Lookings
  <1> QED
    BY <1>3, <1>4, <1>5, <1>6, <1>7

\* No attempt, no property of one.
LEMMA NoneWasMade == ASSUME attempt' = NoAttempt PROVE SignsWhatWasGiven'
  BY DEF SignsWhatWasGiven, NoAttempt

-----------------------------------------------------------------------------
\* An attempt ends the operation, carries what was given, and is signed only by the
\* signer of the login: only that one has its PIN.
LEMMA AttemptSafe ==
  ASSUME IInv, NEW h \in Handles, IsOpen(h), NEW n \in Nat,
         SignRpc(h, n, n)
  PROVE  IInv'
  <1> USE DEF IInv
  <1>1. session[h] \in Sessions
    BY DEF State, Types
  <1>2. State' /\ Found'
    <2> DEFINE s == ClearSign(session[h])
    <2>1. /\ s \in Sessions /\ s.open = session[h].open /\ s.rw = session[h].rw
          /\ s.len = 0 /\ s.given = 0
      BY <1>1, Cleared
    <2>2. session' = [session EXCEPT ![h] = s]
          /\ UNCHANGED <<initialized, cache, lost, looking, peer>>
      BY DEF SignRpc, Put
    <2> HIDE DEF s
    <2>3. s.open /\ s.len = s.given /\ ~(s.len > 0)
      BY <2>1 DEF IsOpen
    <2> QED
      BY <2>1, <2>2, <2>3, OneSession
  <1>3. SignsWhatWasGiven'
    <2>1. PICK rv \in IF cache.pin = NoPin \/ n > MaxFrame THEN {"arguments bad"}
                      ELSE Response(cache.pin, session[h].mech, n) :
            \E told \in HandedOut(rv) :
              attempt' = [by |-> h, len |-> n, given |-> n, mech |-> session[h].mech,
                          login |-> cache, of |-> peer, rv |-> told]
      BY DEF SignRpc
    <2>4. PICK told \in HandedOut(rv) :
            attempt' = [by |-> h, len |-> n, given |-> n, mech |-> session[h].mech,
                        login |-> cache, of |-> peer, rv |-> told]
      BY <2>1
    <2>2. CASE rv = "ok"
      <3>1. /\ rv \in Response(cache.pin, session[h].mech, n) /\ cache.pin # NoPin
        BY <2>1, <2>2
      <3>2. peer # Down /\ peer.pin = cache.pin /\ peer.key = session[h].mech
            /\ n + Overhead <= MaxFrame
        BY <3>1, <2>2, Limits DEF Response
      <3>3. cache.of \in Peers /\ cache.of.pin = cache.pin /\ peer \in Peers
        <4>1. cache.logged
          <5>1. Empty.pin = NoPin
            BY DEF Empty
          <5> QED
            BY <3>1, <5>1 DEF State, NothingKept
        <4> QED
          BY <3>2, <4>1 DEF State, NothingKept, Owned, Types
      <3>4. peer = cache.of
        BY <3>2, <3>3, PeersAreSigners
      <3> QED
        BY <2>4, <3>2, <3>4 DEF SignsWhatWasGiven
    <2>3. CASE rv # "ok"
      <3>1. told # "ok"
        BY <2>3, <2>4 DEF HandedOut
      <3> QED
        BY <2>4, <3>1 DEF SignsWhatWasGiven
    <2> QED
      BY <2>2, <2>3
  <1>4. InfoIsCurrent'
    BY DEF SignRpc, Put, InfoIsCurrent
  <1> QED
    BY <1>2, <1>3, <1>4

\* A question for the length, or too short a buffer.
LEMMA FinishSafe ==
  ASSUME IInv, NEW h \in Handles, IsOpen(h), NEW n \in Nat,
         FinishSign(h, n, n)
  PROVE  IInv'
  <1>1. CASE SignRpc(h, n, n)
    BY <1>1, AttemptSafe
  <1>2. CASE Put(h, session[h]) /\ attempt' = NoAttempt
    <2>1. session' = session
      BY <1>2 DEF Put, IInv, State, Types
    <2>2. UNCHANGED <<initialized, cache, session, lost, looking, peer>>
      BY <1>2, <2>1 DEF Put
    <2>3. State' /\ Found'
      BY <2>2 DEF IInv, State, Types, NothingKept, Owned, Buffered, Found, Holds, IsOpen
    <2> QED
      BY <2>2, <2>3, <1>2, NoneWasMade DEF IInv, InfoIsCurrent
  <1> QED
    BY <1>1, <1>2 DEF FinishSign

\* The other operations of a session: each puts a session back.
LEMMA PutSafe ==
  ASSUME IInv, NEW h \in Handles, IsOpen(h), NEW s \in Sessions, Put(h, s),
         s.open, s.rw = session[h].rw, s.len = s.given, s.len > 0 => s.signing,
         attempt' = NoAttempt
  PROVE  IInv'
  <1>1. State' /\ Found'
    BY OneSession DEF Put, IInv
  <1> QED
    BY <1>1, NoneWasMade DEF Put, IInv, InfoIsCurrent

\* SignStep preserves the invariant.
LEMMA SignSafe == ASSUME IInv, NEW h \in Handles, SignStep(h) PROVE IInv'
  <1> DEFINE s == session[h]
  <1>0. s \in Sessions /\ s.len = s.given /\ s.len \in Nat
    BY DEF IInv, State, Types, Buffered, Sessions
  <1>1. ASSUME NEW m \in KeyTypes, C_SignInit(h, m) PROVE IInv'
    <2> DEFINE t == [s EXCEPT !.signing = TRUE, !.mech = m, !.len = 0, !.given = 0]
    <2>1. /\ t \in Sessions /\ t.open = s.open /\ t.rw = s.rw
          /\ t.len = 0 /\ t.given = 0
      BY <1>0 DEF Sessions
    <2> QED
      <3>1. s.open /\ IsOpen(h) /\ Put(h, t) /\ attempt' = NoAttempt
        BY <1>1 DEF C_SignInit, IsOpen
      <3>2. t.open /\ t.len = t.given /\ ~(t.len > 0)
        BY <2>1, <3>1
      <3> HIDE DEF t
      <3> QED
        BY <2>1, <3>1, <3>2, PutSafe
  <1>2. ASSUME NEW n \in Sizes, C_SignUpdate(h, n) PROVE IInv'
    <2> DEFINE t == [s EXCEPT !.len = @ + n, !.given = @ + n]
    <2>1. n \in Nat
      BY Limits
    <2>2. /\ t \in Sessions /\ t.open = s.open /\ t.rw = s.rw
          /\ t.len = t.given /\ t.signing = s.signing
      <3>1. s.len + n \in Nat /\ s.given + n \in Nat
        BY <1>0, <2>1
      <3>2. t = [s EXCEPT !.len = s.len + n, !.given = s.given + n]
        BY <1>0 DEF Sessions
      <3> QED
        BY <1>0, <3>1, <3>2 DEF Sessions
    <2>3. s.open /\ s.signing /\ IsOpen(h) /\ Put(h, t) /\ attempt' = NoAttempt
      BY <1>2 DEF C_SignUpdate, IsOpen
    <2> HIDE DEF t
    <2> QED
      BY <2>2, <2>3, PutSafe
  <1>3. ASSUME NEW n \in Sizes, C_Sign(h, n) PROVE IInv'
    <2>1. n \in Nat /\ s.given + n = n
      BY <1>0, <1>3, Limits DEF C_Sign
    <2> QED
      BY <1>3, <2>1, FinishSafe DEF C_Sign
  <1>4. ASSUME C_SignFinal(h) PROVE IInv'
    BY <1>0, <1>4, FinishSafe DEF C_SignFinal
  <1> QED
    BY <1>1, <1>2, <1>3, <1>4 DEF SignStep

\* C_Login and C_Logout preserve it.
LEMMA LoginSafe ==
  ASSUME IInv, NEW h \in Handles,
         (\E p \in Pins : C_Login(h, p)) \/ C_Logout(h)
  PROVE  IInv'
  <1>1. UNCHANGED <<initialized, session, lost, looking, peer>> /\ initialized
        /\ attempt' = NoAttempt
    BY DEF C_Login, C_Logout, IsOpen
  <1>2. Empty \in Caches /\ ~Empty.logged
    BY DEF Empty, Caches
  <1>3. /\ cache' \in Caches
        /\ IF cache'.logged
             THEN /\ cache'.pin \in Pins /\ cache'.of \in Peers /\ cache'.ncerts > 0
                  /\ cache'.pin = cache'.of.pin
             ELSE cache' = Empty
    <2>1. CASE cache' = Empty
      BY <1>2, <2>1
    <2>2. CASE \E p \in Pins, n \in 1..MaxCerts :
                  peer.pin = p /\ cache' = [logged |-> TRUE, pin |-> p, of |-> peer, ncerts |-> n]
      <3>1. peer \in Peers
        BY <2>2, Limits DEF IInv, State, Types, Down
      <3> QED
        BY <2>2, <3>1, Limits DEF Caches
    <2> QED
      BY <2>1, <2>2 DEF C_Login, C_Logout, LoginRpc
  <1>4. looking' \in Lookings /\ peer' \in Peers \cup {Down}
    BY <1>1 DEF IInv, State, Types
  <1>5. State'
    BY <1>1, <1>3, <1>4, NoSession DEF IInv
  <1> QED
    BY <1>1, <1>5, NoneWasMade DEF IInv, Found, IsOpen, InfoIsCurrent

\* The finding operations preserve it.
LEMMA FindSafe ==
  ASSUME IInv, NEW h \in Handles,
         C_FindObjectsInit(h) \/ C_FindObjects(h) \/ C_FindObjectsFinal(h)
  PROVE  IInv'
  <1>1. PICK t : /\ t \in Sessions /\ Put(h, t)
                 /\ t.open = session[h].open /\ t.rw = session[h].rw
                 /\ t.signing = session[h].signing
                 /\ t.len = session[h].len /\ t.given = session[h].given
    <2> DEFINE f(b, n) == [session[h] EXCEPT !.finding = b, !.left = n]
    <2>0. session[h] \in Sessions
      BY DEF IInv, State, Types
    <2>1. \A b \in BOOLEAN, n \in BOOLEAN :
             /\ f(b, n) \in Sessions /\ f(b, n).open = session[h].open
             /\ f(b, n).rw = session[h].rw /\ f(b, n).signing = session[h].signing
             /\ f(b, n).len = session[h].len /\ f(b, n).given = session[h].given
      BY <2>0 DEF Sessions
    <2>2. CASE C_FindObjectsInit(h)
      <3>1. PICK n \in {FALSE, cache.logged} : Put(h, f(TRUE, n))
        BY <2>2 DEF C_FindObjectsInit
      <3>2. n \in BOOLEAN
        BY DEF IInv, State, Types, Caches
      <3> QED
        BY <2>1, <3>1, <3>2
    <2>3. CASE C_FindObjects(h)
      <3>1. PICK n \in {FALSE, session[h].left} : Put(h, [session[h] EXCEPT !.left = n])
        BY <2>3 DEF C_FindObjects
      <3>2. n \in BOOLEAN /\ session[h].finding
        BY <2>0, <2>3 DEF Sessions, C_FindObjects
      <3>3. [session[h] EXCEPT !.left = n] = f(TRUE, n)
        BY <2>0, <3>2 DEF Sessions
      <3> QED
        BY <2>1, <3>1, <3>2, <3>3
    <2>4. CASE C_FindObjectsFinal(h)
      BY <2>1, <2>4 DEF C_FindObjectsFinal
    <2> QED
      BY <2>2, <2>3, <2>4
  <1>2. IsOpen(h) /\ attempt' = NoAttempt
    BY DEF C_FindObjectsInit, C_FindObjects, C_FindObjectsFinal
  <1>3. t.open /\ t.len = t.given /\ (t.len > 0 => t.signing)
    BY <1>1, <1>2 DEF IInv, State, Buffered, IsOpen
  <1> QED
    BY <1>1, <1>2, <1>3, PutSafe

\* C_GetSessionInfo preserves it, and so does what happens to hotbox.
LEMMA AsideSafe ==
  ASSUME IInv,
         (\E h \in Handles : LookUp(h)) \/ C_GetSessionInfo \/ PeerChanges
  PROVE  IInv'
  <1>1. /\ UNCHANGED <<initialized, cache, session, lost>> /\ attempt' = NoAttempt
        /\ peer' \in Peers \cup {Down}
    BY DEF LookUp, C_GetSessionInfo, PeerChanges, IInv, State, Types
  <1>2. looking' \in Lookings /\ Found' /\ InfoIsCurrent'
    <2> USE DEF IInv, State, Types, Lookings, Found, InfoIsCurrent, IsOpen, Sessions
    <2>1. CASE \E h \in Handles : LookUp(h)
      <3>1. PICK h \in Handles : LookUp(h)
        BY <2>1
      <3>2. session[h].rw \in BOOLEAN /\ h \in 0..MaxSessions
        BY Limits DEF Handles
      <3>3. looking' = [at |-> h, rw |-> session[h].rw, closed |-> FALSE,
                        answered |-> FALSE, told |-> FALSE]
        BY <3>1 DEF LookUp, NotLooking
      <3>4. UNCHANGED <<initialized, session>> /\ initialized /\ session[h].open
        BY <3>1 DEF LookUp
      <3> QED
        BY <3>2, <3>3, <3>4
    <2>2. CASE C_GetSessionInfo
      <3>1. looking.at \in Handles /\ ~looking.answered
        BY <2>2 DEF C_GetSessionInfo
      <3>2. CASE ~initialized
        <4>1. looking' = [at |-> 0, rw |-> FALSE, closed |-> FALSE,
                          answered |-> TRUE, told |-> FALSE]
          BY <2>2, <3>2 DEF C_GetSessionInfo, NotLooking
        <4> QED
          BY <4>1, Limits
      <3>3. CASE initialized
        <4>1. looking' = [looking EXCEPT !.answered = TRUE, !.told = session[looking.at].rw,
                                        !.at = 0]
          BY <2>2, <3>3 DEF C_GetSessionInfo
        <4>2. session[looking.at].rw \in BOOLEAN
          BY <3>1
        <4>3. looking'.answered /\ looking'.told = session[looking.at].rw
              /\ looking'.rw = looking.rw /\ looking'.closed = looking.closed
              /\ looking' \in Lookings
          <5>1. 0 \in 0..MaxSessions
            BY Limits
          <5> QED
            BY <4>1, <4>2, <5>1
        <4>4. InfoIsCurrent'
          BY <3>1, <4>3
        <4> QED
          BY <4>3, <4>4
      <3> QED
        BY <3>2, <3>3
    <2>3. CASE PeerChanges
      BY <2>3 DEF PeerChanges
    <2> QED
      BY <2>1, <2>2, <2>3
  <1>3. State'
    BY <1>1, <1>2, NoSession DEF IInv, State, NothingKept, Owned, Types
  <1> QED
    BY <1>1, <1>2, <1>3, NoneWasMade DEF IInv

\* Opening, closing, starting and ending preserve it.
LEMMA SessionsSafe ==
  ASSUME IInv,
         \/ C_Initialize \/ C_Finalize \/ C_CloseAllSessions
         \/ \E rw \in BOOLEAN : C_OpenSession(rw)
         \/ \E h \in Handles : C_CloseSession(h)
  PROVE  IInv'
  <1> USE DEF IInv
  <1>0. attempt' = NoAttempt
    BY DEF C_Initialize, C_Finalize, C_CloseAllSessions, C_OpenSession, OpenAt, C_CloseSession
  <1>s. \A h \in Handles : session[h] \in Sessions
    BY DEF State, Types
  <1>1. CASE C_Initialize
    <2>1. State'
      BY <1>1 DEF C_Initialize, State, Types, NothingKept, Owned, Buffered, Holds
    <2>2. Found'
      BY <1>1 DEF C_Initialize, Found, IsOpen
    <2> QED
      BY <1>0, <1>1, <2>1, <2>2, NoneWasMade DEF C_Initialize, InfoIsCurrent
  <1>2. CASE C_Finalize
    <2> DEFINE t == [h \in Handles |-> [ClearSign(session[h]) EXCEPT !.open = FALSE]]
    <2>1. \A h \in Handles : /\ t[h] \in Sessions /\ ~t[h].open /\ ~t[h].signing
                             /\ t[h].len = 0 /\ t[h].given = 0
      <3>1. ASSUME NEW h \in Handles
            PROVE  /\ t[h] \in Sessions /\ ~t[h].open /\ ~t[h].signing
                   /\ t[h].len = 0 /\ t[h].given = 0
        <4> DEFINE c == ClearSign(session[h])
        <4>1. c \in Sessions /\ ~c.signing /\ c.len = 0 /\ c.given = 0
          BY <1>s, Cleared
        <4>2. t[h] = [c EXCEPT !.open = FALSE]
          OBVIOUS
        <4> HIDE DEF c, t
        <4> QED
          BY <4>1, <4>2 DEF Sessions
      <3> QED
        BY <3>1
    <2>2. t \in [Handles -> Sessions]
      BY <2>1
    <2>3. State' /\ Found' /\ InfoIsCurrent'
      BY <1>2, <2>1, <2>2, ManyClosed DEF C_Finalize, State, NothingKept
    <2> QED
      BY <1>0, <2>3, NoneWasMade
  <1>3. CASE C_CloseAllSessions
    <2> DEFINE t == [h \in Handles |-> Zero]
    <2>1. /\ t \in [Handles -> Sessions]
          /\ \A h \in Handles : /\ ~t[h].open /\ ~t[h].signing
                                /\ t[h].len = 0 /\ t[h].given = 0
      BY <1>s DEF Zero, Sessions
    <2>2. ~lost'
      <3>1. \A h \in Handles : ~Holds(ClearSign(session[h]))
        BY <1>s, Cleared DEF Holds
      <3> QED
        BY <1>3, <3>1 DEF C_CloseAllSessions, State, NothingKept
    <2>3. State' /\ Found' /\ InfoIsCurrent'
      BY <1>3, <2>1, <2>2, ManyClosed DEF C_CloseAllSessions
    <2> QED
      BY <1>0, <2>3, NoneWasMade
  <1>4. ASSUME NEW h \in Handles, C_CloseSession(h) PROVE IInv'
    <2> DEFINE t == [session EXCEPT ![h] = Zero]
    <2>1. /\ t \in [Handles -> Sessions]
          /\ \A g \in Handles \ {h} : t[g] = session[g]
          /\ ~t[h].open /\ ~t[h].signing /\ t[h].len = 0 /\ t[h].given = 0
      BY <1>s, Cleared DEF State, Types
    <2>2. ~lost'
      <3>1. ~Holds(ClearSign(session[h]))
        BY <1>s, Cleared DEF Holds
      <3> QED
        BY <1>4, <3>1 DEF C_CloseSession, State, NothingKept
    <2>3. session' = t /\ Closing({h}) /\ UNCHANGED <<initialized, cache, peer>> /\ initialized
      BY <1>4 DEF C_CloseSession, IsOpen
    <2> HIDE DEF t
    <2>4. State' /\ Found' /\ InfoIsCurrent'
      BY <2>1, <2>2, <2>3, ManyClosed
    <2> QED
      BY <1>0, <2>4, NoneWasMade
  <1>5. ASSUME NEW rw \in BOOLEAN, C_OpenSession(rw) PROVE IInv'
    <2>1. PICK h \in Handles : ~session[h].open /\ OpenAt(h, rw)
      BY <1>5 DEF C_OpenSession
    <2>2. initialized
      BY <1>5 DEF C_OpenSession
    <2> DEFINE s == [Zero EXCEPT !.open = TRUE, !.rw = rw]
    <2>3. /\ s \in Sessions /\ s.open /\ ~s.signing /\ s.len = 0 /\ s.given = 0
      BY DEF Zero, Sessions
    <2>4. session' = [session EXCEPT ![h] = s] /\ UNCHANGED <<initialized, cache, looking, peer>>
      BY <2>1 DEF OpenAt
    <2>5. ~lost'
      BY <2>1 DEF OpenAt, State, NothingKept
    <2> HIDE DEF s
    <2>6. \A g \in Handles : session'[g] = IF g = h THEN s ELSE session[g]
      BY <2>4 DEF State, Types
    <2>7. Types'
      BY <2>3, <2>4 DEF State, Types
    <2>8. NothingKept'
      BY <2>2, <2>3, <2>4, <2>5, <2>6 DEF State, NothingKept, Holds
    <2>9. Owned' /\ Buffered'
      BY <2>3, <2>4, <2>6 DEF State, Owned, Buffered
    <2>10. Found' /\ InfoIsCurrent'
      BY <2>1, <2>2, <2>4, <2>6 DEF Found, IsOpen, InfoIsCurrent
    <2> QED
      BY <1>0, <2>7, <2>8, <2>9, <2>10, NoneWasMade DEF State
  <1> QED
    BY <1>1, <1>2, <1>3, <1>4, <1>5

\* The invariant holds of every reachable state.
THEOREM Inductive == Spec => []IInv
  <1>1. ASSUME IInv, [Next]_vars PROVE IInv'
    <2>1. CASE UNCHANGED vars
      BY <1>1, <2>1 DEF vars, IInv, State, Types, NothingKept, Owned, Buffered, Found,
           SignsWhatWasGiven, InfoIsCurrent, Holds, IsOpen
    <2>2. CASE Next
      BY <1>1, <2>2, SignSafe, LoginSafe, FindSafe, AsideSafe, SessionsSafe
         DEF Next, SessionStep
    <2> QED
      BY <1>1, <2>1, <2>2
  <1> QED
    BY <1>1, InitInv, PTL DEF Spec

-----------------------------------------------------------------------------
\* No PIN, key, sign operation or buffer outlives the login or the session it belongs
\* to, for any number of sessions.
THEOREM KeepsNothing == Spec => []NothingKept
  BY Inductive, PTL DEF IInv, State

\* A request carries what was given, and a signature is by the key that C_Login
\* showed, for any set of signers with PINs of their own.
THEOREM SignsGiven == Spec => []SignsWhatWasGiven
  BY Inductive, PTL DEF IInv

\* C_GetSessionInfo is wrong of no session that stays open.
THEOREM TellsTheTruth == Spec => []InfoIsCurrent
  BY Inductive, PTL DEF IInv

\* An operation ends with its attempt or with its session, and every attempt ends one.
THEOREM OneAttempt == Spec => SignOpEnds
  <1> DEFINE Ends ==
        \A h \in Handles :
          /\ session[h].signing /\ ~session'[h].signing =>
               ~session'[h].open \/ attempt'.by = h
          /\ attempt'.by = h /\ attempt' # attempt =>
               session[h].signing /\ ~session'[h].signing
  <1>1. ASSUME IInv, Next PROVE Ends
    <2>0. session \in [Handles -> Sessions] /\ Handles \subseteq Nat \ {0}
      BY <1>1 DEF IInv, State, Types, Handles
    <2>1. ASSUME NEW h \in Handles, NEW n, NEW total, session[h].signing, SignRpc(h, n, total)
          PROVE  Ends
      <3>1. session' = [session EXCEPT ![h] = ClearSign(session[h])] /\ attempt'.by = h
        <4>1. PICK rv : attempt' = [by |-> h, len |-> n, given |-> total,
                                    mech |-> session[h].mech, login |-> cache,
                                    of |-> peer, rv |-> rv]
          BY <2>1 DEF SignRpc
        <4> QED
          BY <2>1, <4>1 DEF SignRpc, Put
      <3> QED
        BY <2>0, <2>1, <3>1, Cleared
    <2>2. ASSUME attempt' = NoAttempt,
                 \A g \in Handles : session'[g].signing \/ ~session[g].signing
                                     \/ ~session'[g].open
          PROVE  Ends
      BY <2>0, <2>2 DEF NoAttempt
    <2>3. ASSUME NEW h \in Handles, NEW s, Put(h, s), attempt' = NoAttempt,
                 s.signing \/ ~session[h].signing
          PROVE  Ends
      <3>1. \A g \in Handles : session'[g] = IF g = h THEN s ELSE session[g]
        BY <2>0, <2>3 DEF Put
      <3> QED
        BY <2>2, <2>3, <3>1
    <2>4. ASSUME NEW h \in Handles, SignStep(h) PROVE Ends
      <3>1. ASSUME NEW m \in KeyTypes, C_SignInit(h, m) PROVE Ends
        BY <2>0, <2>3, <3>1 DEF C_SignInit, Sessions
      <3>2. ASSUME NEW n \in Sizes, C_SignUpdate(h, n) PROVE Ends
        BY <2>0, <2>3, <3>2 DEF C_SignUpdate, Sessions
      <3>3. ASSUME NEW n, NEW total, session[h].signing, FinishSign(h, n, total) PROVE Ends
        BY <2>1, <2>3, <3>3 DEF FinishSign
      <3> QED
        BY <2>4, <3>1, <3>2, <3>3 DEF SignStep, C_Sign, C_SignFinal
    <2>5. ASSUME NEW h \in Handles,
                 C_FindObjectsInit(h) \/ C_FindObjects(h) \/ C_FindObjectsFinal(h)
          PROVE  Ends
      BY <2>0, <2>3, <2>5 DEF C_FindObjectsInit, C_FindObjects, C_FindObjectsFinal, Sessions
    <2>6. ASSUME session' = session, attempt' = NoAttempt PROVE Ends
      BY <2>2, <2>6
    <2>7. CASE C_Finalize \/ C_CloseAllSessions
      <3>1. \A g \in Handles : ~session'[g].open
        <4>1. ASSUME NEW g \in Handles, C_Finalize PROVE ~session'[g].open
          <5> DEFINE c == ClearSign(session[g])
          <5>1. c \in Sessions /\ session'[g] = [c EXCEPT !.open = FALSE]
            BY <2>0, <4>1, Cleared DEF C_Finalize
          <5> HIDE DEF c
          <5> QED
            BY <5>1 DEF Sessions
        <4> QED
          BY <2>7, <4>1 DEF C_CloseAllSessions, Zero
      <3> QED
        BY <2>2, <2>7, <3>1 DEF C_Finalize, C_CloseAllSessions
    <2>8. ASSUME NEW h \in Handles, C_CloseSession(h) PROVE Ends
      <3>1. \A g \in Handles : session'[g] = IF g = h THEN Zero ELSE session[g]
        BY <2>0, <2>8 DEF C_CloseSession
      <3> QED
        BY <2>2, <2>8, <3>1 DEF C_CloseSession, Zero
    <2>9. ASSUME NEW rw \in BOOLEAN, C_OpenSession(rw) PROVE Ends
      <3>1. PICK h \in Handles : ~session[h].open /\ OpenAt(h, rw)
        BY <2>9 DEF C_OpenSession
      <3>2. ~session[h].signing
        BY <1>1, <3>1 DEF IInv, State, NothingKept
      <3>3. \A g \in Handles : g # h => session'[g] = session[g]
        BY <2>0, <3>1 DEF OpenAt
      <3> QED
        BY <2>2, <3>1, <3>2, <3>3 DEF OpenAt
    <2>10. CASE C_Initialize \/ C_GetSessionInfo \/ PeerChanges
      BY <2>6, <2>10 DEF C_Initialize, C_GetSessionInfo, PeerChanges
    <2>11. ASSUME NEW h \in Handles,
                  LookUp(h) \/ (\E p \in Pins : C_Login(h, p)) \/ C_Logout(h)
           PROVE  Ends
      BY <2>6, <2>11 DEF LookUp, C_Login, C_Logout
    <2> QED
      BY <1>1, <2>4, <2>5, <2>7, <2>8, <2>9, <2>10, <2>11 DEF Next, SessionStep
  <1>2. ASSUME IInv, [Next]_vars PROVE [Ends]_vars
    BY <1>1, <1>2
  <1> QED
    BY <1>2, Inductive, PTL DEF Spec, SignOpEnds
=============================================================================
