------------------------------- MODULE Pkcs11 -------------------------------
(***************************************************************************)
(* The PKCS#11 module of src/pkcs11/hotbox.c: its sessions, the key it has  *)
(* cached since C_Login, find and sign operations, and the signer behind    *)
(* HOTBOX_TOKEN, which may go down or come back as that of another vault.   *)
(* Every call runs under the mutex from its first check to its return, the  *)
(* exchange with the signer included, and is one step; C_GetSessionInfo     *)
(* reads the session after the unlock and is two.  A call that only returns *)
(* an error is no step.                                                     *)
(***************************************************************************)
EXTENDS Integers, FiniteSets

CONSTANTS
  MaxSessions,  \* MAX_SESSIONS, 4 in the code
  MaxCerts,     \* MAX_CERTS, 8
  MaxFrame,     \* MAX_FRAME, 2^20, and the frame limit of the signer
  Overhead,     \* what a sign request adds to its data: lengths, PIN, mechanism; 42
  Pins, NoPin,  \* PINs, and none cached
  Peers,        \* the signers that may be behind the socket
  Sizes         \* lengths of the data a caller passes

ASSUME Limits ==
  /\ MaxSessions \in Nat \ {0} /\ MaxCerts \in Nat \ {0}
  /\ MaxFrame \in Nat /\ Overhead \in Nat \ {0}
  /\ Sizes \subseteq Nat
  /\ NoPin \notin Pins

KeyTypes == {"rsa", "ec"}    \* also the families of mechanisms

\* Every hotbox draws its own PIN.
ASSUME PeersAreSigners ==
  /\ \A p \in Peers : p.pin \in Pins /\ p.key \in KeyTypes
  /\ \A p, q \in Peers : p.pin = q.pin => p = q

Down == [pin |-> NoPin, key |-> "none"]
Handles == 1..MaxSessions

VARIABLES
  initialized,
  cache,     \* of C_Login: logged, pin, of (whose key and certificates), ncerts
  session,   \* of each handle: open, rw, finding, left (some of the
             \* found objects are not handed out yet), signing, mech, len;
             \* and given, what its caller has passed since C_SignInit
  attempt,   \* the attempt to sign that the last call made
  lost,      \* a session was cleared over a buffer that was still allocated
  looking,   \* the last C_GetSessionInfo, under way or answered
  peer       \* the signer behind the socket

vars == <<initialized, cache, session, attempt, lost, looking, peer>>

\* free_cache
Empty == [logged |-> FALSE, pin |-> NoPin, of |-> Down, ncerts |-> 0]

Zero == [open |-> FALSE, rw |-> FALSE, finding |-> FALSE, left |-> FALSE,
         signing |-> FALSE, mech |-> "none", len |-> 0, given |-> 0]

NoAttempt == [by |-> 0, len |-> 0, given |-> 0, mech |-> "none", login |-> Empty,
              of |-> Down, rv |-> "none"]

\* told is what the answer says of rw.
NotLooking == [at |-> 0, rw |-> FALSE, closed |-> FALSE, answered |-> TRUE, told |-> FALSE]

\* session_clear_sign; mech stays in the code, where only a sign operation reads it
ClearSign(s) == [s EXCEPT !.len = 0, !.signing = FALSE, !.given = 0, !.mech = "none"]

Holds(s) == s.len > 0     \* buf is allocated

Init ==
  /\ initialized = FALSE
  /\ cache = Empty
  /\ session = [h \in Handles |-> Zero]
  /\ attempt = NoAttempt
  /\ lost = FALSE
  /\ looking = NotLooking
  /\ peer \in Peers \cup {Down}

\* session_get
IsOpen(h) == initialized /\ session[h].open

\* The sessions H are closed: a C_GetSessionInfo that has looked one up goes on,
\* and looking.closed records it.
Closing(H) ==
  looking' = IF ~looking.answered /\ looking.at \in H THEN [looking EXCEPT !.closed = TRUE]
                                                     ELSE looking

-----------------------------------------------------------------------------
(* The library and its sessions.                                           *)

C_Initialize ==
  /\ ~initialized
  /\ initialized' = TRUE
  /\ attempt' = NoAttempt
  /\ UNCHANGED <<cache, session, lost, looking, peer>>

\* The sessions are not cleared beyond their sign operations.
C_Finalize ==
  /\ initialized
  /\ session' = [h \in Handles |-> [ClearSign(session[h]) EXCEPT !.open = FALSE]]
  /\ cache' = Empty
  /\ initialized' = FALSE
  /\ Closing(Handles)
  /\ attempt' = NoAttempt
  /\ UNCHANGED <<lost, peer>>

\* The first free session is cleared and opened.
OpenAt(h, rw) ==
  /\ session' = [session EXCEPT ![h] = [Zero EXCEPT !.open = TRUE, !.rw = rw]]
  /\ lost' = (lost \/ Holds(session[h]))
  /\ attempt' = NoAttempt
  /\ UNCHANGED <<initialized, cache, looking, peer>>

OpenLast(rw) ==    \* mutant: the search stops at the last one, free or not
  /\ initialized
  /\ OpenAt(MaxSessions, rw)

C_OpenSession(rw) ==
  /\ initialized
  /\ \E h \in Handles : /\ ~session[h].open
                        /\ \A g \in 1..(h - 1) : session[g].open
                        /\ OpenAt(h, rw)

C_CloseSession(h) ==
  /\ IsOpen(h)
  /\ session' = [session EXCEPT ![h] = Zero]
  /\ lost' = (lost \/ Holds(ClearSign(session[h])))
  /\ Closing({h})
  /\ attempt' = NoAttempt
  /\ UNCHANGED <<initialized, cache, peer>>

C_CloseAllSessions ==
  /\ initialized
  /\ session' = [h \in Handles |-> Zero]
  /\ lost' = (lost \/ \E h \in Handles : Holds(ClearSign(session[h])))
  /\ Closing(Handles)
  /\ attempt' = NoAttempt
  /\ UNCHANGED <<initialized, cache, peer>>

\* C_GetSessionInfo finds the session under the mutex,
LookUp(h) ==
  /\ looking.answered /\ IsOpen(h)
  /\ looking' = [NotLooking EXCEPT !.at = h, !.rw = session[h].rw, !.answered = FALSE]
  /\ attempt' = NoAttempt
  /\ UNCHANGED <<initialized, cache, session, lost, peer>>

\* and reads initialized and the session after the unlock.
C_GetSessionInfo ==
  /\ ~looking.answered
  /\ looking' = IF initialized
                  THEN [looking EXCEPT !.answered = TRUE, !.told = session[looking.at].rw, !.at = 0]
                  ELSE NotLooking
  /\ attempt' = NoAttempt
  /\ UNCHANGED <<initialized, cache, session, lost, peer>>

-----------------------------------------------------------------------------
(* Login.                                                                  *)

\* parse_info stores a field before it has read the next: a reply that breaks off
\* leaves any part of these, which login_rpc frees.
HalfParsed(p) ==
  [logged : {FALSE}, pin : {NoPin}, of : {Down, p}, ncerts : 0..MaxCerts]

LoginKeepsHalf(pin) ==    \* mutant: a broken reply is not freed
  /\ peer.pin = pin
  /\ \/ cache' \in HalfParsed(peer)
     \/ \E n \in 1..MaxCerts :
          cache' = [logged |-> TRUE, pin |-> pin, of |-> peer, ncerts |-> n]

\* login_rpc: the signer takes only its own PIN.
LoginRpc(pin) ==
  /\ peer.pin = pin
  /\ \/ cache' = Empty
     \/ \E n \in 1..MaxCerts :
          cache' = [logged |-> TRUE, pin |-> pin, of |-> peer, ncerts |-> n]

C_Login(h, pin) ==
  /\ IsOpen(h)
  /\ ~cache.logged
  /\ LoginRpc(pin)
  /\ attempt' = NoAttempt
  /\ UNCHANGED <<initialized, session, lost, looking, peer>>

\* Only the cache is freed: find and sign operations stay.
C_Logout(h) ==
  /\ IsOpen(h)
  /\ cache.logged
  /\ cache' = Empty
  /\ attempt' = NoAttempt
  /\ UNCHANGED <<initialized, session, lost, looking, peer>>

-----------------------------------------------------------------------------
(* Operations of a session.                                                *)

Put(h, s) ==
  /\ session' = [session EXCEPT ![h] = s]
  /\ UNCHANGED <<initialized, cache, lost, looking, peer>>

\* Without a login nothing is found.
C_FindObjectsInit(h) ==
  /\ IsOpen(h) /\ ~session[h].finding
  /\ \E some \in {FALSE, cache.logged} :
       Put(h, [session[h] EXCEPT !.finding = TRUE, !.left = some])
  /\ attempt' = NoAttempt

C_FindObjects(h) ==
  /\ IsOpen(h) /\ session[h].finding
  /\ \E some \in {FALSE, session[h].left} : Put(h, [session[h] EXCEPT !.left = some])
  /\ attempt' = NoAttempt

C_FindObjectsFinal(h) ==
  /\ IsOpen(h)
  /\ Put(h, [session[h] EXCEPT !.finding = FALSE, !.left = FALSE])
  /\ attempt' = NoAttempt

C_SignInit(h, mech) ==
  /\ IsOpen(h)
  /\ cache.logged
  /\ ~session[h].signing
  /\ mech = cache.of.key
  /\ Put(h, [session[h] EXCEPT !.signing = TRUE, !.mech = mech, !.len = 0,
                            !.given = 0])
  /\ attempt' = NoAttempt

\* append_sign
C_SignUpdate(h, n) ==
  /\ IsOpen(h)
  /\ session[h].signing
  /\ session[h].len + n <= MaxFrame
  /\ Put(h, [session[h] EXCEPT !.len = @ + n, !.given = @ + n])
  /\ attempt' = NoAttempt

\* What comes back for a request: an error of the exchange, or the signer's word.
AnyPin(pin, mech, n) ==    \* mutant: the signer does not compare the PIN
  {"device error"} \cup
  IF peer = Down \/ n + Overhead > MaxFrame THEN {}
  ELSE IF peer.key # mech THEN {"mechanism invalid"}
  ELSE {"ok", "general error"}

Response(pin, mech, n) ==
  {"device error"} \cup
  IF peer = Down \/ n + Overhead > MaxFrame THEN {}
  ELSE IF peer.pin # pin THEN {"pin incorrect"}
  ELSE IF peer.key # mech THEN {"mechanism invalid"}
  ELSE {"ok", "general error"}

\* A signature that is longer than the caller's buffer is not handed out.
HandedOut(rv) == IF rv = "ok" THEN {"ok", "buffer too small"} ELSE {rv}

\* sign_rpc of n bytes, which ends the operation; without a PIN, or with too much
\* data, no request is sent.
SignRpc(h, n, total) ==
  /\ Put(h, ClearSign(session[h]))
  /\ \E rv \in IF cache.pin = NoPin \/ n > MaxFrame THEN {"arguments bad"}
               ELSE Response(cache.pin, session[h].mech, n) :
       \E told \in HandedOut(rv) :
         attempt' = [by |-> h, len |-> n, given |-> total, mech |-> session[h].mech,
                     login |-> cache, of |-> peer, rv |-> told]

\* finish_sign: a question for the length, or a buffer shorter than it, changes
\* nothing.  The length is 0 when nobody is logged in.
FinishAlways(h, n, total) ==    \* mutant: a short buffer ends the operation
  \/ Put(h, ClearSign(session[h])) /\ attempt' = NoAttempt
  \/ SignRpc(h, n, total)

FinishSign(h, n, total) ==
  \/ Put(h, session[h]) /\ attempt' = NoAttempt
  \/ SignRpc(h, n, total)

\* One part, only while nothing is buffered.
C_Sign(h, n) ==
  /\ IsOpen(h)
  /\ session[h].signing
  /\ session[h].len = 0
  /\ FinishSign(h, n, session[h].given + n)

C_SignFinal(h) ==
  /\ IsOpen(h)
  /\ session[h].signing
  /\ FinishSign(h, session[h].len, session[h].given)

-----------------------------------------------------------------------------
\* hotbox stops, or one with the same or another vault takes the socket.
PeerChanges ==
  /\ peer' \in (Peers \cup {Down}) \ {peer}
  /\ attempt' = NoAttempt
  /\ UNCHANGED <<initialized, cache, session, lost, looking>>

SignStep(h) == \/ \E m \in KeyTypes : C_SignInit(h, m)
               \/ \E n \in Sizes : C_SignUpdate(h, n) \/ C_Sign(h, n)
               \/ C_SignFinal(h)

SessionStep(h) == \/ C_CloseSession(h) \/ LookUp(h)
                  \/ \E p \in Pins : C_Login(h, p)
                  \/ C_Logout(h)
                  \/ C_FindObjectsInit(h) \/ C_FindObjects(h) \/ C_FindObjectsFinal(h)
                  \/ SignStep(h)

Next == \/ C_Initialize \/ C_Finalize
        \/ \E rw \in BOOLEAN : C_OpenSession(rw)
        \/ C_CloseAllSessions \/ C_GetSessionInfo
        \/ \E h \in Handles : SessionStep(h)
        \/ PeerChanges

Spec == Init /\ [][Next]_vars

-----------------------------------------------------------------------------
(* Properties                                                              *)

\* Nothing outlives what it belongs to: without a login no PIN and no part of a key
\* is cached, also after a reply that was broken in the middle, and with one the
\* cache is whole; a session that is not open has no sign operation and no data;
\* no buffer is ever lost.
NothingKept ==
  /\ IF cache.logged THEN cache.pin \in Pins /\ cache.of \in Peers /\ cache.ncerts > 0
                     ELSE cache = Empty
  /\ \A h \in Handles : ~session[h].open => ~session[h].signing /\ ~Holds(session[h])
  /\ ~initialized => cache = Empty /\ \A h \in Handles : ~session[h].open
  /\ ~lost

\* A sign request carries exactly the bytes passed since the C_SignInit of its
\* operation, whatever questions, short buffers, refused parts, logouts and logins
\* came between; and a signature is by the key whose certificates the last C_Login
\* showed, though hotbox may have been restarted, or another vault served, since.
SignsWhatWasGiven ==
  /\ attempt.len = attempt.given
  /\ attempt.rv = "ok" =>
       /\ attempt.of = attempt.login.of
       /\ attempt.of.key = attempt.mech
       /\ attempt.len + Overhead <= MaxFrame

\* An operation ends only with its attempt to sign or with its session, and an
\* attempt, also one that fails, always ends it: it is not repeated.
SignOpEnds ==
  [][\A h \in Handles :
       /\ session[h].signing /\ ~session'[h].signing =>
            ~session'[h].open \/ attempt'.by = h
       /\ attempt'.by = h /\ attempt' # attempt =>
            session[h].signing /\ ~session'[h].signing]_vars

\* C_GetSessionInfo tells of a session as it was when it was looked up, except when
\* the session was closed in between, and another perhaps opened in its place.
InfoIsCurrent == looking.answered => looking.told = looking.rw \/ looking.closed
=============================================================================
