------------------------------- MODULE Bunker -------------------------------
(***************************************************************************)
(* The life of one bunker (src/bunker/bunker.go): Start, the two serve     *)
(* loops, the handlers of WebSocket connections using the private key, and *)
(* Close called from any of them, with Wait.                               *)
(*                                                                         *)
(* Two mutexes matter.  b.mu (mu) guards b.use and the client table and is *)
(* held across the callback that receives the key; the profile's gate      *)
(* (gate) is taken inside that callback and is shared with the PKCS#11     *)
(* signer ("piv").  A critical section that cannot block is one step that  *)
(* needs mu free; the one that can block (useKey) holds mu over steps.     *)
(* What the relay does with the events is in module Relay.                 *)
(***************************************************************************)
EXTENDS Naturals, Sequences

CONSTANT Conns   \* WebSocket connections, each with one handler at a time

NoOne == "nobody"
ASSUME ConnsAssumption == Conns \cap {"nobody", "piv", "start"} = {}

Servers == {"ws", "wss"}
Routines == Servers \cup {"watch", "main"}   \* goroutines that call Close

VARIABLES
  stage,      \* progress of Start
  cancelled,  \* the context given to Start is done
  ln,         \* each listener is "open" or "closed"
  page,       \* the connect secret: "none", "live" or "destroyed"
  use,        \* b.use: "unset" before Start returns, "live", "nil" once closed
  mu,         \* the handler holding b.mu across a key use, or NoOne
  gate,       \* who holds the profile's gate, or NoOne
  piv,        \* the PKCS#11 signer is running with a key of this identity
  phase,      \* where each connection's handler is
  at,         \* its key use: "out", "locked" (holds b.mu), "inside" (runs with the key)
  signed,     \* the request being served had its event signed
  fate,       \* whether the relay will answer OK true or OK false
  once,       \* b.once: "idle", "running", "done"
  down,       \* Shutdown was called on each server
  outcome,    \* what each server.Serve returned
  gpc,        \* where each routine is
  errs,       \* b.errs, a channel of capacity 2
  exited,     \* b.exited is closed
  wpc,        \* the goroutine in Wait
  received,   \* how many results Wait has taken from errs
  reported    \* the servers whose error Wait will return

startVars == <<stage, ln, page>>
keyVars   == <<mu, gate, piv, at>>
connVars  == <<phase, signed, fate>>
closeVars == <<once, down, outcome, gpc, errs, exited>>
waitVars  == <<wpc, received, reported>>
vars == <<stage, cancelled, ln, page, use, mu, gate, piv, phase, at, signed, fate,
          once, down, outcome, gpc, errs, exited, wpc, received, reported>>

KeyPhases == {"derive", "sign", "respond"}
Phases == {"idle", "accepted", "read", "dispatch", "approve", "make", "answer",
           "publish", "leaving"} \cup KeyPhases

StartTypes == /\ stage \in {"check", "gate", "key", "page", "cert", "up", "failed"}
              /\ cancelled \in BOOLEAN
              /\ ln \in [Servers -> {"open", "closed"}]
              /\ page \in {"none", "live", "destroyed"}
              /\ use \in {"unset", "live", "nil"}
KeyTypes == /\ mu \in Conns \cup {NoOne}
            /\ gate \in Conns \cup {NoOne, "piv", "start"}
            /\ piv \in BOOLEAN
            /\ at \in [Conns -> {"out", "locked", "inside"}]
ConnTypes == /\ phase \in [Conns -> Phases]
             /\ signed \in [Conns -> BOOLEAN]
             /\ fate \in [Conns -> {"none", "accepted", "rejected"}]
CloseTypes == /\ once \in {"idle", "running", "done"}
              /\ down \in [Servers -> BOOLEAN]
              /\ outcome \in [Servers -> {"none", "closed", "failed"}]
              /\ gpc \in [Routines -> {"wait", "start", "serving", "push", "close", "shut_ws",
                                       "shut_wss", "retire", "exit", "closed"}]
              /\ exited \in BOOLEAN
\* The results of the two serve loops fit b.errs: no serve loop blocks on it.
ResultTypes == /\ errs \in Seq(Servers)
               /\ wpc \in {"blocked", "collect", "done"}
               /\ received \in 0..2
               /\ received + Len(errs) <= 2
               /\ reported \in SUBSET Servers

TypeOK == StartTypes /\ KeyTypes /\ ConnTypes /\ CloseTypes /\ ResultTypes

Init ==
  /\ stage = "check"
  /\ cancelled = FALSE
  /\ ln = [s \in Servers |-> "open"]
  /\ page = "none"
  /\ use = "unset"
  /\ mu = NoOne
  /\ gate = NoOne
  /\ piv = FALSE
  /\ phase = [c \in Conns |-> "idle"]
  /\ at = [c \in Conns |-> "out"]
  /\ signed = [c \in Conns |-> FALSE]
  /\ fate = [c \in Conns |-> "none"]
  /\ once = "idle"
  /\ down = [s \in Servers |-> FALSE]
  /\ outcome = [s \in Servers |-> "none"]
  /\ gpc = [g \in Routines |-> IF g \in Servers THEN "start" ELSE "wait"]
  /\ errs = <<>>
  /\ exited = FALSE
  /\ wpc = "blocked"
  /\ received = 0
  /\ reported = {}

-----------------------------------------------------------------------------
(* Start.  Until it returns there is no Bunker; every failure closes both  *)
(* listeners, and destroys the secret page when there is one.              *)

FailsWith(pageLeft) ==
  /\ stage' = "failed"
  /\ ln' = [s \in Servers |-> "closed"]
  /\ page' = pageLeft
  /\ UNCHANGED <<cancelled, use, connVars, closeVars, waitVars>>

StartFails == FailsWith(IF page = "live" THEN "destroyed" ELSE page)

\* The arguments are missing, or they are there and the key is asked for.
CheckArguments ==
  /\ stage = "check"
  /\ UNCHANGED keyVars
  /\ \/ StartFails
     \/ /\ stage' = "gate"
        /\ UNCHANGED <<ln, page, cancelled, use, connVars, closeVars, waitVars>>

\* use takes the profile's gate to hand out the key.
AskPublicKey ==
  /\ stage = "gate"
  /\ gate = NoOne
  /\ gate' = "start"
  /\ stage' = "key"
  /\ UNCHANGED <<cancelled, ln, page, use, mu, piv, at, connVars, closeVars, waitVars>>

\* The callback derives the public key, or use fails.
HavePublicKey ==
  /\ stage = "key"
  /\ gate' = NoOne
  /\ UNCHANGED <<mu, piv, at>>
  /\ \/ StartFails
     \/ /\ stage' = "page"
        /\ UNCHANGED <<ln, page, cancelled, use, connVars, closeVars, waitVars>>

MakeSecretPage ==
  /\ stage = "page"
  /\ UNCHANGED keyVars
  /\ \/ StartFails
     \/ /\ stage' = "cert"
        /\ page' = "live"
        /\ UNCHANGED <<ln, cancelled, use, connVars, closeVars, waitVars>>

\* localCertificate and LocalRelay; then the bunker exists and its three
\* goroutines are started.
GoServe ==
  /\ stage = "cert"
  /\ UNCHANGED keyVars
  /\ \/ StartFails
     \/ /\ stage' = "up"
        /\ use' = "live"
        /\ UNCHANGED <<ln, page, cancelled, connVars, closeVars, waitVars>>

Start == CheckArguments \/ AskPublicKey \/ HavePublicKey \/ MakeSecretPage \/ GoServe

-----------------------------------------------------------------------------
(* The serve loops and the routines that end in Close.                     *)

Goto(g, pc) == gpc' = [gpc EXCEPT ![g] = pc]

\* server.Serve: a server that was shut down before it began closes its listener
\* and returns at once.
Serve(s) ==
  /\ stage = "up"
  /\ gpc[s] = "start"
  /\ IF down[s]
       THEN /\ outcome' = [outcome EXCEPT ![s] = "closed"]
            /\ ln' = [ln EXCEPT ![s] = "closed"]
            /\ Goto(s, "push")
       ELSE /\ Goto(s, "serving")
            /\ UNCHANGED <<outcome, ln>>
  /\ UNCHANGED <<stage, page, cancelled, use, keyVars, connVars, once, down, errs, exited, waitVars>>

\* Accept fails: because of Shutdown (ErrServerClosed) or on its own.  Serve
\* closes its listener on the way out.
ServeReturns(s) ==
  /\ gpc[s] = "serving"
  /\ outcome' = [outcome EXCEPT ![s] = IF down[s] THEN "closed" ELSE "failed"]
  /\ ln' = [ln EXCEPT ![s] = "closed"]
  /\ Goto(s, "push")
  /\ UNCHANGED <<stage, page, cancelled, use, keyVars, connVars, once, down, errs, exited, waitVars>>

\* b.errs <- server.Serve(ln)
PushThen(s, next) ==
  /\ gpc[s] = "push"
  /\ Len(errs) < 2
  /\ errs' = Append(errs, s)
  /\ Goto(s, next)
  /\ UNCHANGED <<startVars, cancelled, use, keyVars, connVars, once, down, outcome, exited, waitVars>>

PushResultOnly(s) == PushThen(s, "closed")   \* mutant: serve does not call Close
PushResult(s) == PushThen(s, "close")

\* <-ctx.Done(), and the caller of Start deciding to close.
WatchContext ==
  /\ stage = "up"
  /\ cancelled
  /\ gpc["watch"] = "wait"
  /\ Goto("watch", "close")
  /\ UNCHANGED <<startVars, cancelled, use, keyVars, connVars, once, down, outcome, errs, exited, waitVars>>

MainCloses ==
  /\ stage = "up"
  /\ gpc["main"] = "wait"
  /\ Goto("main", "close")
  /\ UNCHANGED <<startVars, cancelled, use, keyVars, connVars, once, down, outcome, errs, exited, waitVars>>

\* once.Do: the first caller runs the body, a later one waits for it to end.
OnceDo(g, passWhen) ==
  /\ gpc[g] = "close"
  /\ \/ once = "idle" /\ once' = "running" /\ Goto(g, "shut_ws")
     \/ once \in passWhen /\ Goto(g, "closed") /\ UNCHANGED once
  /\ UNCHANGED <<startVars, cancelled, use, keyVars, connVars, down, outcome, errs, exited, waitVars>>

CloseEnterFlag(g) == OnceDo(g, {"running", "done"})   \* mutant: a flag, not a sync.Once
CloseEnter(g) == OnceDo(g, {"done"})

\* server.Shutdown closes the listener if Serve has begun with it (otherwise
\* Serve will); upgraded connections are not touched.
ShutdownAll(g, S, from, to) ==
  /\ gpc[g] = from
  /\ down' = [s \in Servers |-> down[s] \/ s \in S]
  /\ ln' = [s \in Servers |-> IF s \in S /\ gpc[s] = "serving" THEN "closed" ELSE ln[s]]
  /\ Goto(g, to)
  /\ UNCHANGED <<stage, page, cancelled, use, keyVars, connVars, once, outcome, errs, exited, waitVars>>

\* mutant: the second server is left running
ShutdownFirst(g, s, from, to) == ShutdownAll(g, {s} \cap {"ws"}, from, to)
ShutdownServer(g, s, from, to) == ShutdownAll(g, {s}, from, to)

DropKey(g) ==
  /\ gpc[g] = "retire"
  /\ use' = "nil"
  /\ page' = "destroyed"
  /\ Goto(g, "exit")
  /\ UNCHANGED <<stage, ln, cancelled, keyVars, connVars, once, down, outcome, errs, exited, waitVars>>

\* Under b.mu, so that an in-flight key use has ended.
CloseRetire(g) == mu = NoOne /\ DropKey(g)

\* close(b.exited); the once is done when its body returns.
CloseExit(g) ==
  /\ gpc[g] = "exit"
  /\ exited' = TRUE
  /\ once' = "done"
  /\ Goto(g, "closed")
  /\ UNCHANGED <<startVars, cancelled, use, keyVars, connVars, down, outcome, errs, waitVars>>

Close(g) == \/ CloseEnter(g)
            \/ ShutdownServer(g, "ws", "shut_ws", "shut_wss")
            \/ ShutdownServer(g, "wss", "shut_wss", "retire")
            \/ CloseRetire(g)
            \/ CloseExit(g)

-----------------------------------------------------------------------------
(* Wait: blocks on exited, then takes the results of both serve loops.     *)

WaitExited ==
  /\ wpc = "blocked"
  /\ exited
  /\ wpc' = "collect"
  /\ UNCHANGED <<startVars, cancelled, use, keyVars, connVars, closeVars, received, reported>>

CollectUpTo(n) ==
  /\ wpc = "collect"
  /\ errs # <<>>
  /\ errs' = Tail(errs)
  /\ received' = received + 1
  /\ reported' = IF outcome[Head(errs)] = "failed" THEN reported \cup {Head(errs)} ELSE reported
  /\ wpc' = IF received + 1 = n THEN "done" ELSE "collect"
  /\ UNCHANGED <<startVars, cancelled, use, keyVars, connVars, once, down, outcome, gpc, exited>>

WaitCollectOne == CollectUpTo(1)   \* mutant: one result for two serve loops
WaitCollect == CollectUpTo(2)

-----------------------------------------------------------------------------
(* serveWS and accept.                                                      *)

Move(c, p) == phase' = [phase EXCEPT ![c] = p]

\* A served listener accepts a connection and the handler upgrades it.
Connect(c) ==
  /\ phase[c] = "idle"
  /\ \E s \in Servers : gpc[s] = "serving" /\ ln[s] = "open"
  /\ Move(c, "accepted")
  /\ UNCHANGED <<startVars, cancelled, use, keyVars, signed, fate, closeVars, waitVars>>

\* Under b.mu: the table of clients has room or not (module Relay keeps it).
Admit(c) ==
  /\ phase[c] = "accepted"
  /\ mu = NoOne
  /\ Move(c, "read") \/ Move(c, "idle")
  /\ UNCHANGED <<startVars, cancelled, use, keyVars, signed, fate, closeVars, waitVars>>

\* OK false follows.
Reject(c) == /\ Move(c, "answer")
             /\ fate' = [fate EXCEPT ![c] = "rejected"]
             /\ UNCHANGED signed

\* An EVENT: its kind, target and signature are checked before the key is used.
ReadEvent(c) ==
  /\ phase[c] = "read"
  /\ \/ Reject(c)
     \/ Move(c, "derive") /\ UNCHANGED <<signed, fate>>
  /\ UNCHANGED <<startVars, cancelled, use, keyVars, closeVars, waitVars>>

\* wsjson.Read fails: the peer left, or the request's context is done.
ReadFails(c) ==
  /\ phase[c] = "read"
  /\ Move(c, "leaving")
  /\ UNCHANGED <<startVars, cancelled, use, keyVars, signed, fate, closeVars, waitVars>>

\* The deferred delete from the client table.
Leave(c) ==
  /\ phase[c] = "leaving"
  /\ mu = NoOne
  /\ Move(c, "idle")
  /\ UNCHANGED <<startVars, cancelled, use, keyVars, signed, fate, closeVars, waitVars>>

\* Where the handler goes after useKey succeeds (ok) or fails.  A request that
\* cannot be parsed is rejected too; a failed signature is an error response.
AfterUse(c, ok) ==
  \/ /\ phase[c] = "derive"
     /\ \/ ok /\ Move(c, "dispatch") /\ UNCHANGED <<signed, fate>>
        \/ Reject(c)
  \/ /\ phase[c] = "sign"
     /\ Move(c, "make")
     /\ signed' = [signed EXCEPT ![c] = ok]
     /\ UNCHANGED fate
  \/ /\ phase[c] = "respond"
     /\ ok
     /\ Move(c, "answer")
     /\ fate' = [fate EXCEPT ![c] = "accepted"]
     /\ UNCHANGED signed
  \/ /\ phase[c] = "respond"
     /\ ~ok
     /\ Reject(c)

\* useKey: lock b.mu and find b.use ...
LockKey(c) ==
  /\ phase[c] \in KeyPhases
  /\ at[c] = "out"
  /\ mu = NoOne
  /\ use = "live"
  /\ mu' = c
  /\ at' = [at EXCEPT ![c] = "locked"]
  /\ UNCHANGED <<startVars, cancelled, use, gate, piv, connVars, closeVars, waitVars>>

\* ... or find it nil ("bunker is closed"), and return with b.mu left at m.
Refuse(c, m) ==
  /\ phase[c] \in KeyPhases
  /\ at[c] = "out"
  /\ mu' = m
  /\ AfterUse(c, FALSE)
  /\ UNCHANGED <<startVars, cancelled, use, gate, piv, at, closeVars, waitVars>>

\* mutants: the early return leaves b.mu locked; a key in use
\* is refused, not awaited
KeyRefusedLocked(c) == mu = NoOne /\ use # "live" /\ Refuse(c, c)
KeyRefusedBusy(c) == mu = NoOne /\ (gate # NoOne \/ use # "live") /\ Refuse(c, NoOne)
KeyRefused(c) == mu = NoOne /\ use # "live" /\ Refuse(c, NoOne)

\* b.use runs the callback with the decrypted key, ...
RunWithKey(c) ==
  /\ at[c] = "locked"
  /\ gate' = c
  /\ at' = [at EXCEPT ![c] = "inside"]
  /\ UNCHANGED <<startVars, cancelled, use, mu, piv, connVars, closeVars, waitVars>>

\* ... under the profile's gate, ...
KeyEnter(c) == gate = NoOne /\ RunWithKey(c)

\* ... which succeeds or fails; both mutexes are released.
KeyLeave(c) ==
  /\ at[c] = "inside"
  /\ at' = [at EXCEPT ![c] = "out"]
  /\ gate' = NoOne
  /\ mu' = NoOne
  /\ \E ok \in BOOLEAN : AfterUse(c, ok)
  /\ UNCHANGED <<startVars, cancelled, use, piv, closeVars, waitVars>>

\* dispatch, under b.mu: sign_event unlocks and goes to signRequested, another
\* method has its result, or is refused, at once.
Dispatch(c) ==
  /\ phase[c] = "dispatch"
  /\ mu = NoOne
  /\ Move(c, "approve") \/ Move(c, "make")
  /\ UNCHANGED <<startVars, cancelled, use, keyVars, signed, fate, closeVars, waitVars>>

\* signRequested, outside b.mu, refuses params, pubkey or id, or the approver
\* denies; there may be none, or it allows.
Approve(c) ==
  /\ phase[c] = "approve"
  /\ Move(c, "sign") \/ Move(c, "make")
  /\ UNCHANGED <<startVars, cancelled, use, keyVars, signed, fate, closeVars, waitVars>>

\* session.MakeResponse encrypts the result, or cannot (it is too long).
MakeResponse(c) ==
  /\ phase[c] = "make"
  /\ \/ Move(c, "respond") /\ UNCHANGED <<signed, fate>>
     \/ Reject(c)
  /\ UNCHANGED <<startVars, cancelled, use, keyVars, closeVars, waitVars>>

Forget(c) == /\ signed' = [signed EXCEPT ![c] = FALSE]
             /\ fate' = [fate EXCEPT ![c] = "none"]

\* OK false ends the request; OK true is followed by publish.
Answer(c) ==
  /\ phase[c] = "answer"
  /\ \/ fate[c] = "rejected" /\ Move(c, "read") /\ Forget(c)
     \/ fate[c] = "accepted" /\ Move(c, "publish") /\ UNCHANGED <<signed, fate>>
  /\ UNCHANGED <<startVars, cancelled, use, keyVars, closeVars, waitVars>>

\* publish takes b.mu for the recent list and the client snapshot.
Publish(c) ==
  /\ phase[c] = "publish"
  /\ mu = NoOne
  /\ Move(c, "read")
  /\ Forget(c)
  /\ UNCHANGED <<startVars, cancelled, use, keyVars, closeVars, waitVars>>

UseKey(c) == LockKey(c) \/ KeyRefused(c) \/ KeyEnter(c) \/ KeyLeave(c)

Handle(c) == \/ Admit(c) \/ Leave(c) \/ UseKey(c)
             \/ Dispatch(c) \/ Approve(c) \/ MakeResponse(c) \/ Answer(c) \/ Publish(c)

-----------------------------------------------------------------------------
(* The environment: the context is cancelled; the PKCS#11 signer uses the  *)
(* same identity through the same gate.                                    *)

Cancel ==
  /\ ~cancelled
  /\ cancelled' = TRUE
  /\ UNCHANGED <<startVars, use, keyVars, connVars, closeVars, waitVars>>

PivTakesGate ==
  /\ gate = NoOne
  /\ gate' = "piv"
  /\ piv' = TRUE
  /\ UNCHANGED <<startVars, cancelled, use, mu, at, connVars, closeVars, waitVars>>

PivDropsGate ==
  /\ piv
  /\ gate' = NoOne
  /\ piv' = FALSE
  /\ UNCHANGED <<startVars, cancelled, use, mu, at, connVars, closeVars, waitVars>>

Next ==
  \/ Start
  \/ \E s \in Servers : Serve(s) \/ ServeReturns(s) \/ PushResult(s)
  \/ WatchContext
  \/ MainCloses
  \/ \E g \in Routines : Close(g)
  \/ WaitExited
  \/ WaitCollect
  \/ \E c \in Conns : Connect(c) \/ ReadEvent(c) \/ ReadFails(c) \/ Handle(c)
  \/ Cancel
  \/ PivTakesGate
  \/ PivDropsGate

Spec == Init /\ [][Next]_vars

\* The steps of the goroutines that each run once: there are finitely many of
\* them, so it is enough that some enabled one is taken.  Accept returns once
\* its server is shut down; a listener need not fail on its own.
OneShot == \/ \E s \in Servers : Serve(s) \/ (ServeReturns(s) /\ down[s]) \/ PushResult(s)
           \/ \E g \in Routines : Close(g)
           \/ WatchContext \/ WaitExited \/ WaitCollect

\* A goroutine that can run does.  A Go mutex does not starve a waiter
\* (starvation mode), so what waits for one is strongly fair.  A read whose
\* context is done fails sooner or later, and the other user of the gate
\* finishes its signature.
Fairness ==
  /\ WF_vars(OneShot)
  /\ SF_vars(\E g \in Routines : CloseRetire(g))
  /\ \A c \in Conns : SF_vars(Handle(c)) /\ SF_vars(ReadFails(c) /\ cancelled)
  /\ WF_vars(PivDropsGate)

FairSpec == Spec /\ Fairness

-----------------------------------------------------------------------------
(* Safety.                                                                  *)

\* Start that fails leaves no listener open and no secret in memory.
FailedStartReleases ==
  stage = "failed" => /\ \A s \in Servers : ln[s] = "closed"
                      /\ page # "live"

\* The decrypted key is with at most one user: a handler of this bunker, the
\* PKCS#11 signer of the same identity, or Start.
KeyExclusive ==
  /\ \A c \in Conns : at[c] = "inside" => gate = c /\ mu = c
  /\ piv => gate = "piv"
  /\ stage = "key" => gate = "start"

\* Once any call of Close has returned, to whichever routine, no handler is
\* inside or on its way into the key, the secret page is wiped and neither
\* listener accepts connections: the caller may close the vault.
ClosedIsQuiet ==
  \A g \in Routines : gpc[g] = "closed" =>
    /\ exited
    /\ use = "nil"
    /\ page = "destroyed"
    /\ \A c \in Conns : at[c] = "out"
    /\ \A s \in Servers : gpc[s] = "serving" => ln[s] = "closed"

\* Wait returns after both serve loops have ended and their ports are free
\* again, with the error of exactly those listeners that failed before they
\* were shut down.  (Close alone may return before a serve loop has begun, while
\* its listener is still open.)
WaitReportsFailures ==
  wpc = "done" => /\ \A s \in Servers : outcome[s] # "none" /\ ln[s] = "closed"
                  /\ reported = {s \in Servers : outcome[s] = "failed"}

\* A request whose event is already signed is answered OK false in three cases
\* only: its response cannot be made, the key fails while the response is being
\* signed, or Close came between the two signatures (b.use is nil).
SignedRefusedOnlyForCause ==
  [][\A c \in Conns :
       signed[c] /\ fate'[c] = "rejected" /\ fate[c] # "rejected"
         => phase[c] = "make" \/ at[c] = "inside" \/ use = "nil"]_vars

\* The bunker implements the signing oracle.
Oracle == INSTANCE SigningOracle WITH
  Users   <- Conns,
  Callers <- Routines,
  door    <- CASE use = "unset" -> "new" [] use = "live" -> "open" [] OTHER -> "shut",
  inUse   <- {c \in Conns : at[c] = "inside"},
  told    <- {g \in Routines : gpc[g] = "closed"}
ImplementsOracle == Oracle!Spec

-----------------------------------------------------------------------------
(* Liveness.                                                                *)

\* A done context or a failed listener stops the bunker: every call of Close
\* returns and so does Wait, whatever the handlers are doing with the key.
ShutdownCompletes ==
  (stage = "up" /\ (cancelled \/ \E s \in Servers : outcome[s] = "failed"))
    ~> (wpc = "done" /\ \A s \in Servers : gpc[s] = "closed")

\* Every event that reaches the key is answered, also when Close intervenes, and its
\* handler goes back to reading; and once the context is done, the connections drain
\* for good.
EventsServed ==
  /\ \A c \in Conns : phase[c] = "derive" ~> phase[c] = "read"
  /\ (stage = "up" /\ cancelled) ~> [](\A c \in Conns : phase[c] = "idle")
=============================================================================
