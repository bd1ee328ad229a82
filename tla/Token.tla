-------------------------------- MODULE Token --------------------------------
(***************************************************************************)
(* The PKCS#11 signer of one vault at work (src/token/token.go): the       *)
(* accept loop with its slots, the handlers that check a PIN and sign with *)
(* the Android key, Close, and the vault that main closes after it.        *)
(*                                                                         *)
(* A handler signs under the profile's gate, which it shares with the      *)
(* bunker, and inside a Use of the vault.  Close waits for no handler.     *)
(* How a signer starts, and its files, are in module SignerSocket.         *)
(***************************************************************************)
EXTENDS Naturals, FiniteSets

CONSTANTS Conns,    \* client connections
          Slots     \* handlers that may run at once, 4 in the code

NoConn == "none"
ASSUME TokenAssumption == /\ Conns \cap {"none", "bunker"} = {}
                          /\ IsFiniteSet(Conns)
                          /\ Slots \in Nat \ {0}

Closers == {"watch", "main"}      \* goroutines that call Close

VARIABLES
  listening,  \* t.ln is open
  loop,       \* the accept loop: "accept" or "ended"
  taken,      \* the connection it has accepted and not yet passed on
  sem,        \* how many slots are taken
  phase,      \* where each connection's handler is
  request,    \* what each handler has read
  answer,     \* the status it is going to write
  pin,        \* t.pin: "whole", "torn" while it is wiped, "wiped"
  gate,       \* who holds the profile's gate: a handler, "bunker" or NoConn
  vault,      \* "open" or "closed"
  once,       \* t.once: "idle", "running", "done"
  done,       \* t.done is closed
  cancelled,  \* the context given to Start is done
  gpc         \* where each closing goroutine is

loopVars  == <<listening, loop, taken>>
connVars  == <<phase, request, answer>>
closeVars == <<pin, once, done, gpc>>
vars == <<listening, loop, taken, sem, phase, request, answer, pin, gate, vault,
          once, done, cancelled, gpc>>

\* A client sends any 32 bytes for a PIN: the digits it was given, 32 zero bytes,
\* some of the digits and zeros for the rest, or others.
Pins == {"right", "zeros", "mixed", "other"}
Requests == [op : {"info", "sign", "proof"}, pin : Pins]
NoRequest == [op |-> "none", pin |-> "none"]
Statuses == {"ok", "pin", "mechanism", "bad", "failed"}
Handled == {"read", "check", "use", "gated", "inside", "answer", "done"}

TypeOK ==
  /\ listening \in BOOLEAN
  /\ loop \in {"accept", "ended"}
  /\ taken \in Conns \cup {NoConn}
  /\ sem \in 0..Slots
  /\ phase \in [Conns -> {"idle", "taken"} \cup Handled]
  /\ request \in [Conns -> Requests \cup {NoRequest}]
  /\ answer \in [Conns -> Statuses \cup {"none"}]
  /\ pin \in {"whole", "torn", "wiped"}
  /\ gate \in Conns \cup {NoConn, "bunker"}
  /\ vault \in {"open", "closed"}
  /\ once \in {"idle", "running", "done"}
  /\ done \in BOOLEAN
  /\ cancelled \in BOOLEAN
  /\ gpc \in [Closers -> {"wait", "close", "body", "unlisten", "wipe", "wiping",
                          "closed", "ended", "over"}]

\* What Start leaves behind.
Init ==
  /\ listening = TRUE
  /\ loop = "accept"
  /\ taken = NoConn
  /\ sem = 0
  /\ phase = [c \in Conns |-> "idle"]
  /\ request = [c \in Conns |-> NoRequest]
  /\ answer = [c \in Conns |-> "none"]
  /\ pin = "whole"
  /\ gate = NoConn
  /\ vault = "open"
  /\ once = "idle"
  /\ done = FALSE
  /\ cancelled = FALSE
  /\ gpc = [g \in Closers |-> "wait"]

Move(c, p) == phase' = [phase EXCEPT ![c] = p]
Goto(g, from, to) == gpc[g] = from /\ gpc' = [gpc EXCEPT ![g] = to]
Reply(c, status) == /\ Move(c, "answer")
                    /\ answer' = [answer EXCEPT ![c] = status]

-----------------------------------------------------------------------------
(* The accept loop.                                                         *)

AcceptConn(c) ==
  /\ loop = "accept"
  /\ taken = NoConn
  /\ listening
  /\ phase[c] = "idle"
  /\ taken' = c
  /\ Move(c, "taken")
  /\ UNCHANGED <<listening, loop, sem, request, answer, gate, vault, cancelled, closeVars>>

\* A connection finds a slot, or it is closed without an answer.
PassOnIf(room) ==
  /\ taken # NoConn
  /\ IF room
       THEN Move(taken, "read") /\ sem' = sem + 1
       ELSE Move(taken, "idle") /\ UNCHANGED sem
  /\ taken' = NoConn
  /\ UNCHANGED <<listening, loop, request, answer, gate, vault, cancelled, closeVars>>

PassOn == PassOnIf(sem < Slots)

\* Any error of Accept ends the loop, also one that Close did not cause.
AcceptFails ==
  /\ loop = "accept"
  /\ taken = NoConn
  /\ loop' = "ended"
  /\ UNCHANGED <<listening, taken, sem, connVars, gate, vault, cancelled, closeVars>>

-----------------------------------------------------------------------------
(* handle.                                                                  *)

\* A frame of a known operation, or of another one.
ReadRequest(c) ==
  /\ phase[c] = "read"
  /\ \/ \E r \in Requests : /\ request' = [request EXCEPT ![c] = r]
                            /\ Move(c, "check")
                            /\ UNCHANGED answer
     \/ Reply(c, "bad") /\ UNCHANGED request
  /\ UNCHANGED <<loopVars, sem, gate, vault, cancelled, closeVars>>

\* Another user, a bad frame, the end of the stream, or the deadline of 30 s.
ReadFails(c) ==
  /\ phase[c] = "read"
  /\ Move(c, "done")
  /\ UNCHANGED <<loopVars, sem, request, answer, gate, vault, cancelled, closeVars>>

\* Which PINs are equal to which t.pin, and which are not.  t.pin is read with no
\* lock: in the middle of being wiped it may be whole or zero, or a mixture of
\* both.  Wiped, it is 32 zero bytes, and compared like any other PIN.
PinMatches == {<<"right", "whole">>, <<"right", "torn">>, <<"mixed", "torn">>,
               <<"zeros", "torn">>, <<"zeros", "wiped">>}
PinDiffers == (Pins \X {"whole", "torn", "wiped"}) \ {<<"right", "whole">>, <<"zeros", "wiped">>}

\* A PIN that matches allows the certificates to be told (unless they are too
\* large, or the request is too long, which is answered like a wrong PIN), and a
\* signature to be tried (unless the request is malformed, or a proof's times are
\* out of the window: module ProofWindow).
CheckPin(c) ==
  /\ phase[c] = "check"
  /\ \/ /\ <<request[c].pin, pin>> \in PinDiffers
        /\ Reply(c, "pin")
     \/ /\ <<request[c].pin, pin>> \in PinMatches
        /\ \/ request[c].op = "info" /\ \E s \in {"ok", "failed", "pin"} : Reply(c, s)
           \/ request[c].op # "info" /\ Reply(c, "bad")
           \/ request[c].op # "info" /\ Move(c, "use") /\ UNCHANGED answer
  /\ UNCHANGED <<loopVars, sem, request, gate, vault, cancelled, closeVars>>

GoToVault(c) ==
  /\ phase[c] = "use"
  /\ gate' = c
  /\ Move(c, "gated")
  /\ UNCHANGED <<loopVars, sem, request, answer, vault, cancelled, closeVars>>
TakeGate(c) == gate = NoConn /\ GoToVault(c)

\* v.Use lends the key while the vault is open, or fails.
EnterKey(c) ==
  /\ phase[c] = "gated"
  /\ \/ /\ vault = "open"
        /\ Move(c, "inside")
        /\ UNCHANGED <<answer, gate>>
     \/ /\ Reply(c, "failed")
        /\ gate' = NoConn
  /\ UNCHANGED <<loopVars, sem, request, vault, cancelled, closeVars>>

\* The signature is made, or refused.
LeaveWith(c, gateAfter) ==
  /\ phase[c] = "inside"
  /\ \/ Reply(c, "ok")
     \/ Reply(c, "failed")
     \/ request[c].op = "sign" /\ Reply(c, "mechanism")
  /\ gate' = gateAfter
  /\ UNCHANGED <<loopVars, sem, request, vault, cancelled, closeVars>>

LeaveLocked(c) == LeaveWith(c, gate)          \* mutant: the gate is not released
LeaveKey(c) == LeaveWith(c, NoConn)

\* The answer is written, or it is too late for it or the client has left.
WriteAnswer(c) ==
  /\ phase[c] = "answer"
  /\ Move(c, "done")
  /\ UNCHANGED <<loopVars, sem, request, answer, gate, vault, cancelled, closeVars>>

\* The connection is closed and the slot given back.
FinishWith(c, slots) ==
  /\ phase[c] = "done"
  /\ sem' = slots
  /\ Move(c, "idle")
  /\ request' = [request EXCEPT ![c] = NoRequest]
  /\ answer' = [answer EXCEPT ![c] = "none"]
  /\ UNCHANGED <<loopVars, gate, vault, cancelled, closeVars>>

FinishAnswered(c) ==                          \* mutant: a slot is kept if nothing was answered
  FinishWith(c, IF answer[c] = "none" THEN sem ELSE sem - 1)
Finish(c) == FinishWith(c, sem - 1)

-----------------------------------------------------------------------------
(* Close.                                                                   *)

\* The watcher waits for the context and for t.done; main closes when it likes.
Watch ==
  /\ \/ cancelled /\ Goto("watch", "wait", "close")
     \/ done /\ Goto("watch", "wait", "ended")
  /\ UNCHANGED <<loopVars, sem, connVars, gate, vault, cancelled, pin, once, done>>

MainCloses ==
  /\ Goto("main", "wait", "close")
  /\ UNCHANGED <<loopVars, sem, connVars, gate, vault, cancelled, pin, once, done>>

\* once.Do: the first caller runs the body, another waits for its end.
OnceDo(g, passWhen) ==
  /\ \/ once = "idle" /\ once' = "running" /\ Goto(g, "close", "body")
     \/ once \in passWhen /\ Goto(g, "close", "closed") /\ UNCHANGED once
  /\ UNCHANGED <<loopVars, sem, connVars, gate, vault, cancelled, pin, done>>

CloseEnterFlag(g) == OnceDo(g, {"running", "done"})   \* mutant: a flag, not a sync.Once
CloseEnter(g) == OnceDo(g, {"done"})

TellWith(g, told) ==
  /\ Goto(g, "body", "unlisten")
  /\ done' = told
  /\ UNCHANGED <<loopVars, sem, connVars, gate, vault, cancelled, pin, once>>

TellNobody(g) == TellWith(g, done)            \* mutant: t.done stays open
TellDone(g) == TellWith(g, TRUE)

Unlisten(g) ==
  /\ Goto(g, "unlisten", "wipe")
  /\ listening' = FALSE
  /\ UNCHANGED <<loop, taken, sem, connVars, gate, vault, cancelled, pin, once, done>>

\* t.pin = [32]byte{}, while handlers may be reading it.
WipeBegins(g) ==
  /\ Goto(g, "wipe", "wiping")
  /\ pin' = "torn"
  /\ UNCHANGED <<loopVars, sem, connVars, gate, vault, cancelled, once, done>>

WipeEnds(g) ==
  /\ Goto(g, "wiping", "closed")
  /\ pin' = "wiped"
  /\ once' = "done"
  /\ UNCHANGED <<loopVars, sem, connVars, gate, vault, cancelled, done>>

Close(g) == CloseEnter(g) \/ TellDone(g) \/ Unlisten(g) \/ WipeBegins(g) \/ WipeEnds(g)

-----------------------------------------------------------------------------
(* The vault and the bunker.                                                *)

KeyLentToBunker == gate = "bunker"          \* mutant: nobody waits for a signature

KeyLent == \/ \E c \in Conns : phase[c] = "inside"
           \/ gate = "bunker"

\* Closing a vault waits for those who use it.
VaultCloses ==
  /\ vault = "open"
  /\ ~KeyLent
  /\ vault' = "closed"
  /\ UNCHANGED <<loopVars, sem, connVars, gate, cancelled, closeVars>>

\* main closes the vault after the signer.
CloseVault == gpc["main"] = "closed" /\ VaultCloses

MainEnds ==
  /\ vault = "closed"
  /\ Goto("main", "closed", "over")
  /\ UNCHANGED <<loopVars, sem, connVars, gate, vault, cancelled, pin, once, done>>

\* The bunker of the same profile uses its key under the same gate.
BunkerEnters ==
  /\ gate = NoConn
  /\ vault = "open"
  /\ gate' = "bunker"
  /\ UNCHANGED <<loopVars, sem, connVars, vault, cancelled, closeVars>>

BunkerLeaves ==
  /\ gate = "bunker"
  /\ gate' = NoConn
  /\ UNCHANGED <<loopVars, sem, connVars, vault, cancelled, closeVars>>

Cancel ==
  /\ ~cancelled
  /\ cancelled' = TRUE
  /\ UNCHANGED <<loopVars, sem, connVars, gate, vault, closeVars>>

Handle(c) == \/ ReadRequest(c) \/ ReadFails(c) \/ CheckPin(c) \/ TakeGate(c) \/ EnterKey(c)
             \/ LeaveKey(c) \/ WriteAnswer(c) \/ Finish(c)

Next ==
  \/ \E c \in Conns : AcceptConn(c) \/ Handle(c)
  \/ PassOn \/ AcceptFails
  \/ Watch \/ MainCloses
  \/ \E g \in Closers : Close(g)
  \/ CloseVault \/ MainEnds
  \/ BunkerEnters \/ BunkerLeaves
  \/ Cancel

Spec == Init /\ [][Next]_vars

\* The goroutines that can run do.  A read ends at the deadline.  What waits
\* for the gate, a Go mutex, or for the vault is not starved by the bunker.
Fairness ==
  /\ \A c \in Conns : /\ WF_vars(ReadFails(c))
                      /\ WF_vars(CheckPin(c) \/ EnterKey(c) \/ LeaveKey(c) \/ WriteAnswer(c) \/ Finish(c))
                      /\ SF_vars(TakeGate(c))
  /\ WF_vars(PassOn) /\ WF_vars(AcceptFails /\ ~listening)
  /\ WF_vars(Watch) /\ \A g \in Closers : WF_vars(Close(g))
  /\ SF_vars(CloseVault) /\ WF_vars(MainEnds) /\ WF_vars(BunkerLeaves)

FairSpec == Spec /\ Fairness

-----------------------------------------------------------------------------
(* Safety.                                                                  *)

\* A slot is taken for exactly as long as a handler runs, whichever way the
\* handler ends, so that a connection is turned away only when Slots of them run.
SlotsExact == sem = Cardinality({c \in Conns : phase[c] \in Handled})

\* A handler goes for the key only with the signer's PIN until Close wipes it, and
\* at no time with a PIN that has nothing of it.  Once a call of Close has returned
\* to anybody the PIN opens nothing any more: of the connections that were accepted
\* before, and that Close does not wait for, the only ones not turned down are
\* those that send 32 zero bytes, which the wiped t.pin is equal to.
KeyNeedsPin ==
  [][\A c \in Conns :
       phase[c] # "use" /\ phase'[c] = "use" =>
         /\ request[c].pin # "other"
         /\ pin = "whole" => request[c].pin = "right"
         /\ (\E g \in Closers : gpc[g] = "closed") => request[c].pin = "zeros"]_vars

\* The vault is the door of the signing oracle: what the comment on Close says,
\* that Use holds the vault until an in-flight signature returns.
Oracle == INSTANCE SigningOracle WITH
  Users   <- Conns \cup {"bunker"},
  Callers <- {"main"},
  door    <- IF vault = "open" THEN "open" ELSE "shut",
  inUse   <- {c \in Conns : phase[c] = "inside"} \cup (IF gate = "bunker" THEN {"bunker"} ELSE {}),
  told    <- IF gpc["main"] = "over" THEN {"main"} ELSE {}
ImplementsOracle == Oracle!Spec

-----------------------------------------------------------------------------
(* Liveness.                                                                *)

\* A connection that got a slot gives it back, whoever uses the key meanwhile.
HandlerEnds == \A c \in Conns : phase[c] = "read" ~> phase[c] = "idle"

\* Once main closes the signer, the vault is closed, the accept loop and the
\* watcher end, though the context may never be done, and no handler is left.
EverythingEnds ==
  gpc["main"] = "close" ~> [](/\ vault = "closed"
                              /\ loop = "ended"
                              /\ gpc["watch"] \in {"closed", "ended"}
                              /\ \A c \in Conns : phase[c] = "idle")
=============================================================================
