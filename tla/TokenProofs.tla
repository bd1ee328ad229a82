----------------------------- MODULE TokenProofs -----------------------------
(***************************************************************************)
(* Proofs about Token, for any number of connections and slots: the types, *)
(* the slots, the PIN, and the simulation of the signing oracle by the     *)
(* vault.                                                                  *)
(***************************************************************************)
EXTENDS Token, FiniteSetTheorems, TLAPS

Running == {c \in Conns : phase[c] \in Handled}

\* The accept loop and the connection it holds.
TakenInv == \A c \in Conns : phase[c] = "taken" <=> taken = c

\* The handler with the gate is the one that tries to use the key or does; the
\* vault is open for as long as somebody uses it.
GateInv ==
  /\ \A c \in Conns : phase[c] \in {"gated", "inside"} <=> gate = c
  /\ KeyLent => vault = "open"
  /\ gpc["main"] = "over" => vault = "closed"

InBody(g) == gpc[g] \in {"body", "unlisten", "wipe", "wiping"}

\* sync.Once: one goroutine runs the body; nobody is past Close before the PIN
\* is wiped, and it is wiped after the listener is closed.
OnceInv ==
  /\ \A g \in Closers : gpc[g] \in {"closed", "over"} => once = "done"
  /\ once = "done" => pin = "wiped" /\ ~listening
  /\ \A g \in Closers : InBody(g) => once = "running"
  /\ \A g \in Closers : gpc[g] \in {"wipe", "wiping"} => ~listening
  /\ \A g, h \in Closers : InBody(g) /\ InBody(h) => g = h

IInv == TypeOK /\ SlotsExact /\ TakenInv /\ GateInv /\ OnceInv

CloseStep == \/ Watch \/ MainCloses \/ MainEnds
             \/ \E g \in Closers : Close(g)
VaultStep == CloseVault \/ BunkerEnters \/ BunkerLeaves \/ Cancel

\* Next, by the kind of step.
LEMMA StepKinds ==
  ASSUME [Next]_vars
  PROVE  \/ \E c \in Conns : AcceptConn(c) \/ Handle(c)
         \/ PassOn \/ AcceptFails
         \/ CloseStep \/ VaultStep \/ UNCHANGED vars
BY DEF Next, CloseStep, VaultStep

LEMMA CloseFrame ==
  ASSUME CloseStep
  PROVE  UNCHANGED <<loop, taken, sem, connVars, gate, vault, cancelled>>
BY DEF CloseStep, Watch, MainCloses, MainEnds, Close, CloseEnter, OnceDo, TellDone, TellWith,
       Unlisten, WipeBegins, WipeEnds, loopVars

LEMMA VaultFrame ==
  ASSUME VaultStep
  PROVE  UNCHANGED <<loopVars, sem, connVars, closeVars>>
BY DEF VaultStep, CloseVault, VaultCloses, BunkerEnters, BunkerLeaves, Cancel

LEMMA HandlerFrame ==
  ASSUME NEW c \in Conns, AcceptConn(c) \/ Handle(c)
  PROVE  UNCHANGED <<listening, loop, vault, cancelled, closeVars>>
BY DEF AcceptConn, Handle, ReadRequest, ReadFails, CheckPin, TakeGate, GoToVault, EnterKey,
       LeaveKey, LeaveWith, WriteAnswer, Finish, FinishWith, loopVars

LEMMA InitIInv == Init => IInv
<1> SUFFICES ASSUME Init PROVE IInv
  OBVIOUS
<1> USE TokenAssumption DEF Init
<1>1. TypeOK
  <2>1. sem \in 0..Slots
    OBVIOUS
  <2>2. request \in [Conns -> Requests \cup {NoRequest}]
    OBVIOUS
  <2>3. phase \in [Conns -> {"idle", "taken"} \cup Handled]
    OBVIOUS
  <2> QED
    BY <2>1, <2>2, <2>3 DEF TypeOK, Closers
<1>2. SlotsExact
  <2>1. {c \in Conns : phase[c] \in Handled} = {}
    BY DEF Handled
  <2> QED
    BY <2>1, FS_EmptySet DEF SlotsExact
<1>3. TakenInv /\ GateInv /\ OnceInv
  BY DEF TakenInv, GateInv, OnceInv, InBody, KeyLent, NoConn, Closers
<1> QED
  BY <1>1, <1>2, <1>3 DEF IInv

-----------------------------------------------------------------------------
(* The slots.                                                               *)

\* Every step but two leaves the set of running handlers as it is.
LEMMA SlotStep ==
  ASSUME IInv, [Next]_vars
  PROVE  SlotsExact' /\ sem' \in 0..Slots
<1> USE TokenAssumption DEF IInv, TypeOK, Handled
<1>1. IsFiniteSet(Running) /\ Cardinality(Running) \in Nat /\ sem = Cardinality(Running)
  <2>1. IsFiniteSet(Running)
    BY FS_Subset DEF Running
  <2> QED
    BY <2>1, FS_CardinalityType DEF SlotsExact, Running
<1>2. ASSUME Running' = Running, sem' = sem PROVE SlotsExact' /\ sem' \in 0..Slots
  BY <1>1, <1>2 DEF SlotsExact, Running
<1>3. ASSUME NEW c \in Conns, Finish(c) PROVE SlotsExact' /\ sem' \in 0..Slots
  <2>1. c \in Running /\ Running' = Running \ {c} /\ sem' = sem - 1
    BY <1>3 DEF Finish, FinishWith, Move, Running
  <2>2. Cardinality(Running \ {c}) = Cardinality(Running) - 1 /\ Cardinality(Running \ {c}) \in Nat
    BY <1>1, <2>1, FS_RemoveElement, FS_CardinalityType
  <2>3. sem' = Cardinality(Running') /\ sem' \in 0..Slots
    BY <1>1, <2>1, <2>2
  <2> QED
    BY <2>3 DEF SlotsExact, Running
<1>4. ASSUME NEW c \in Conns, AcceptConn(c) \/ (Handle(c) /\ ~Finish(c))
      PROVE  SlotsExact' /\ sem' \in 0..Slots
  <2>1. Running' = Running /\ sem' = sem
    BY <1>4 DEF AcceptConn, Handle, ReadRequest, ReadFails, CheckPin, TakeGate, GoToVault, EnterKey,
                LeaveKey, LeaveWith, WriteAnswer, Reply, Move, Running, connVars
  <2> QED
    BY <1>2, <2>1
<1>5. ASSUME PassOn PROVE SlotsExact' /\ sem' \in 0..Slots
  <2>1. CASE sem < Slots
    <3>1. taken \in Conns /\ taken \notin Running /\ Running' = Running \cup {taken} /\ sem' = sem + 1
      BY <1>5, <2>1 DEF PassOn, PassOnIf, TakenInv, Move, Running, NoConn
    <3>2. Cardinality(Running \cup {taken}) = Cardinality(Running) + 1
      BY <1>1, <3>1, FS_AddElement
    <3> QED
      BY <1>1, <2>1, <3>1, <3>2 DEF SlotsExact, Running
  <2>2. CASE ~(sem < Slots)
    <3>1. Running' = Running /\ sem' = sem
      BY <1>5, <2>2 DEF PassOn, PassOnIf, TakenInv, Move, Running, NoConn
    <3> QED
      BY <1>2, <3>1
  <2> QED
    BY <2>1, <2>2
<1>6. CASE AcceptFails \/ CloseStep \/ VaultStep \/ UNCHANGED vars
  <2>1. UNCHANGED <<phase, sem>>
    BY <1>6, CloseFrame, VaultFrame DEF AcceptFails, connVars, vars
  <2> QED
    BY <1>2, <2>1 DEF Running
<1> QED
  BY <1>3, <1>4, <1>5, <1>6, StepKinds

-----------------------------------------------------------------------------
(* The other parts of the invariant.                                        *)

LEMMA TypeStep ==
  ASSUME IInv, [Next]_vars
  PROVE  TypeOK'
<1>0. sem' \in 0..Slots
  BY SlotStep
<1> USE <1>0 DEF IInv, TypeOK
<1>1. ASSUME NEW c \in Conns, AcceptConn(c) PROVE TypeOK'
  BY <1>1 DEF AcceptConn, Move, closeVars
<1>2. ASSUME NEW c \in Conns, Handle(c) PROVE TypeOK'
  <2> USE DEF Move, Reply, Statuses, Handled, loopVars, closeVars
  <2>1. CASE ReadRequest(c)
    BY <2>1 DEF ReadRequest
  <2>2. CASE ReadFails(c) \/ CheckPin(c)
    BY <2>2 DEF ReadFails, CheckPin
  <2>3. CASE TakeGate(c) \/ EnterKey(c) \/ LeaveKey(c)
    BY <2>3 DEF TakeGate, GoToVault, EnterKey, LeaveKey, LeaveWith
  <2>4. CASE WriteAnswer(c) \/ Finish(c)
    BY <2>4 DEF WriteAnswer, Finish, FinishWith
  <2> QED
    BY <1>2, <2>1, <2>2, <2>3, <2>4 DEF Handle
<1>3. CASE PassOn \/ AcceptFails
  BY <1>3 DEF PassOn, PassOnIf, AcceptFails, Move, Handled, connVars, closeVars
<1>4. CASE Watch \/ MainCloses \/ MainEnds
  BY <1>4 DEF Watch, MainCloses, MainEnds, Goto, loopVars, connVars
<1>5. ASSUME NEW g \in Closers, Close(g) PROVE TypeOK'
  BY <1>5 DEF Close, CloseEnter, OnceDo, TellDone, TellWith, Unlisten, WipeBegins, WipeEnds, Goto,
              loopVars, connVars
<1>6. CASE VaultStep
  BY <1>6 DEF VaultStep, CloseVault, VaultCloses, BunkerEnters, BunkerLeaves, Cancel, loopVars,
              connVars, closeVars
<1>7. CASE UNCHANGED vars
  BY <1>7 DEF vars
<1> QED
  BY <1>1, <1>2, <1>3, <1>4, <1>5, <1>6, <1>7, StepKinds DEF CloseStep

LEMMA TakenStep ==
  ASSUME IInv, [Next]_vars
  PROVE  TakenInv'
<1> USE TokenAssumption DEF IInv, TypeOK, TakenInv, NoConn
<1>1. ASSUME NEW c \in Conns, AcceptConn(c) PROVE TakenInv'
  BY <1>1 DEF AcceptConn, Move
<1>2. ASSUME NEW c \in Conns, Handle(c) PROVE TakenInv'
  <2>1. /\ UNCHANGED taken
        /\ phase[c] # "taken" /\ phase'[c] # "taken"
        /\ \A d \in Conns : d # c => phase'[d] = phase[d]
    BY <1>2 DEF Handle, ReadRequest, ReadFails, CheckPin, TakeGate, GoToVault, EnterKey, LeaveKey,
                LeaveWith, WriteAnswer, Finish, FinishWith, Reply, Move, loopVars
  <2> QED
    BY <2>1
<1>3. CASE PassOn
  BY <1>3 DEF PassOn, PassOnIf, Move
<1>4. CASE AcceptFails \/ CloseStep \/ VaultStep \/ UNCHANGED vars
  <2>1. UNCHANGED <<phase, taken>>
    BY <1>4, CloseFrame, VaultFrame DEF AcceptFails, connVars, loopVars, vars
  <2> QED
    BY <2>1
<1> QED
  BY <1>1, <1>2, <1>3, <1>4, StepKinds

LEMMA GateStep ==
  ASSUME IInv, [Next]_vars
  PROVE  GateInv'
<1> USE TokenAssumption DEF IInv, TypeOK, GateInv, NoConn, KeyLent
<1>1. ASSUME NEW c \in Conns, AcceptConn(c) \/ Handle(c) PROVE GateInv'
  <2>1. UNCHANGED <<vault, gpc>>
    BY <1>1, HandlerFrame DEF closeVars
  <2>2. \A d \in Conns : d # c => phase'[d] = phase[d]
    BY <1>1 DEF AcceptConn, Handle, ReadRequest, ReadFails, CheckPin, TakeGate, GoToVault, EnterKey,
                LeaveKey, LeaveWith, WriteAnswer, Finish, FinishWith, Reply, Move
  <2>3. \/ UNCHANGED gate /\ phase[c] \notin {"gated", "inside"} /\ phase'[c] \notin {"gated", "inside"}
        \/ gate = NoConn /\ gate' = c /\ phase'[c] = "gated"
        \/ gate' = gate /\ phase[c] = "gated" /\ phase'[c] = "inside" /\ vault = "open"
        \/ gate = c /\ gate' = NoConn /\ phase'[c] \notin {"gated", "inside"}
    BY <1>1 DEF AcceptConn, Handle, ReadRequest, ReadFails, CheckPin, TakeGate, GoToVault, EnterKey,
                LeaveKey, LeaveWith, WriteAnswer, Finish, FinishWith, Reply, Move
  <2>4. CASE UNCHANGED gate /\ phase[c] \notin {"gated", "inside"} /\ phase'[c] \notin {"gated", "inside"}
    BY <2>1, <2>2, <2>4
  <2>5. CASE gate = NoConn /\ gate' = c /\ phase'[c] = "gated"
    BY <2>1, <2>2, <2>5
  <2>6. CASE gate' = gate /\ phase[c] = "gated" /\ phase'[c] = "inside" /\ vault = "open"
    BY <2>1, <2>2, <2>6
  <2>7. CASE gate = c /\ gate' = NoConn /\ phase'[c] \notin {"gated", "inside"}
    BY <2>1, <2>2, <2>7
  <2> QED
    BY <2>3, <2>4, <2>5, <2>6, <2>7
<1>2. CASE PassOn
  <2>1. UNCHANGED <<gate, vault, gpc>> /\ taken \in Conns /\ phase[taken] = "taken"
    BY <1>2 DEF PassOn, PassOnIf, TakenInv, closeVars
  <2>2. /\ phase'[taken] \in {"read", "idle"}
        /\ \A d \in Conns : d # taken => phase'[d] = phase[d]
    BY <1>2, <2>1 DEF PassOn, PassOnIf, Move
  <2> QED
    BY <2>1, <2>2
<1>3. CASE AcceptFails \/ UNCHANGED vars
  BY <1>3 DEF AcceptFails, connVars, closeVars, vars
<1>4. CASE CloseStep
  <2>1. UNCHANGED <<phase, gate, vault>>
    BY <1>4, CloseFrame DEF connVars
  <2>2. gpc'["main"] = "over" => gpc["main"] = "over" \/ vault = "closed"
    BY <1>4 DEF CloseStep, Watch, MainCloses, MainEnds, Close, CloseEnter, OnceDo, TellDone, TellWith,
                Unlisten, WipeBegins, WipeEnds, Goto, Closers
  <2> QED
    BY <2>1, <2>2
<1>5. CASE VaultStep
  <2>1. UNCHANGED <<phase, gpc>>
    BY <1>5, VaultFrame DEF connVars, closeVars
  <2> QED
    BY <1>5, <2>1 DEF VaultStep, CloseVault, VaultCloses, BunkerEnters, BunkerLeaves, Cancel
<1> QED
  BY <1>1, <1>2, <1>3, <1>4, <1>5, StepKinds

LEMMA OnceStep ==
  ASSUME IInv, [Next]_vars
  PROVE  OnceInv'
<1> USE DEF IInv, TypeOK, OnceInv, InBody, Closers
<1>1. CASE CloseStep
  <2> USE DEF Goto, loopVars
  <2>1. CASE Watch \/ MainCloses \/ MainEnds
    BY <2>1 DEF Watch, MainCloses, MainEnds
  <2>2. ASSUME NEW g \in Closers, CloseEnter(g) PROVE OnceInv'
    BY <2>2 DEF CloseEnter, OnceDo
  <2>3. ASSUME NEW g \in Closers, TellDone(g) \/ Unlisten(g) \/ WipeBegins(g) \/ WipeEnds(g)
        PROVE  OnceInv'
    BY <2>3 DEF TellDone, TellWith, Unlisten, WipeBegins, WipeEnds
  <2> QED
    BY <1>1, <2>1, <2>2, <2>3 DEF CloseStep, Close
<1>2. CASE ~CloseStep
  <2>1. UNCHANGED <<gpc, once, pin, listening>>
    BY <1>2, StepKinds, HandlerFrame, VaultFrame
       DEF PassOn, PassOnIf, AcceptFails, closeVars, loopVars, vars
  <2> QED
    BY <2>1
<1> QED
  BY <1>1, <1>2

LEMMA IInvStep == IInv /\ [Next]_vars => IInv'
BY TypeStep, SlotStep, TakenStep, GateStep, OnceStep DEF IInv

LEMMA Inductive == Spec => []IInv
BY InitIInv, IInvStep, PTL DEF Spec

-----------------------------------------------------------------------------
\* Every variable keeps its type; no more than Slots slots are ever taken.
THEOREM TypeCorrect == Spec => []TypeOK
BY Inductive, PTL DEF IInv

\* The slots taken are those of the running handlers, whichever way they end.
THEOREM SlotsAreExact == Spec => []SlotsExact
BY Inductive, PTL DEF IInv

\* Which PIN leads to the key, while t.pin is whole and once it is wiped.
LEMMA PinStep ==
  ASSUME IInv, [Next]_vars, NEW c \in Conns, phase[c] # "use", phase'[c] = "use"
  PROVE  /\ request[c].pin # "other"
         /\ pin = "whole" => request[c].pin = "right"
         /\ once = "done" => request[c].pin = "zeros"
         /\ (\E g \in Closers : gpc[g] = "closed") => request[c].pin = "zeros"
<1> USE DEF IInv, TypeOK
<1>1. CheckPin(c)
  <2>1. ~UNCHANGED phase
    OBVIOUS
  <2>2. \/ \E d \in Conns : AcceptConn(d) \/ Handle(d)
        \/ PassOn
    BY <2>1, StepKinds, CloseFrame, VaultFrame DEF AcceptFails, connVars, vars
  <2>3. ~PassOn
    BY DEF PassOn, PassOnIf, Move
  <2> QED
    BY <2>2, <2>3 DEF AcceptConn, Handle, ReadRequest, ReadFails, CheckPin, TakeGate,
         GoToVault, EnterKey, LeaveKey, LeaveWith, WriteAnswer, Finish, FinishWith, Reply, Move
<1>2. <<request[c].pin, pin>> \in PinMatches
  BY <1>1 DEF CheckPin, Reply, Move
<1>3. /\ request[c].pin # "other"
      /\ pin = "whole" => request[c].pin = "right"
      /\ pin = "wiped" => request[c].pin = "zeros"
  BY <1>2 DEF PinMatches
<1>4. /\ once = "done" => pin = "wiped"
      /\ (\E g \in Closers : gpc[g] = "closed") => once = "done"
  BY DEF OnceInv
<1> QED
  BY <1>3, <1>4

\* Until Close wipes the PIN only the PIN leads to the key; once a call of Close
\* has returned it does not any more, and nothing but 32 zero bytes does.
THEOREM PinIsNeeded == Spec => KeyNeedsPin
<1>1. IInv /\ [Next]_vars =>
        [\A c \in Conns :
           phase[c] # "use" /\ phase'[c] = "use" =>
             /\ request[c].pin # "other"
             /\ pin = "whole" => request[c].pin = "right"
             /\ (\E g \in Closers : gpc[g] = "closed") => request[c].pin = "zeros"]_vars
  BY PinStep
<1> QED
  BY <1>1, Inductive, PTL DEF Spec, KeyNeedsPin

-----------------------------------------------------------------------------
(* Who waits for whom, and for how long.                                    *)

\* The body of Close is somebody's.
BodyInv == once = "running" => \E g \in Closers : InBody(g)

LEMMA BodyStep == IInv /\ BodyInv /\ [Next]_vars => BodyInv'
<1> SUFFICES ASSUME IInv, BodyInv, [Next]_vars PROVE BodyInv'
  OBVIOUS
<1> USE DEF IInv, TypeOK, BodyInv, InBody
<1>1. ASSUME NEW g \in Closers, Close(g) PROVE BodyInv'
  BY <1>1 DEF Close, CloseEnter, OnceDo, TellDone, TellWith, Unlisten, WipeBegins, WipeEnds, Goto
<1>2. CASE Watch \/ MainCloses \/ MainEnds
  BY <1>2 DEF Watch, MainCloses, MainEnds, Goto, Closers
<1>3. CASE ~CloseStep
  <2>1. UNCHANGED <<gpc, once>>
    BY <1>3, StepKinds, HandlerFrame, VaultFrame DEF PassOn, PassOnIf, AcceptFails, closeVars, vars
  <2> QED
    BY <2>1
<1> QED
  BY <1>1, <1>2, <1>3 DEF CloseStep

\* Nobody waits, directly or not, for somebody who waits for him: a second caller
\* of Close waits for the one in the body of the once, who waits for nobody, not for
\* a handler nor the accept loop; a handler and the bunker wait for the holder of
\* the gate; main waits for the key's user, who has the gate and waits for nobody;
\* an accepted connection waits for the accept loop, which holds it.
NoCircularWait ==
  /\ once = "running" => \E g \in Closers : InBody(g)
  /\ gate # NoConn => \/ gate = "bunker"
                      \/ gate \in Conns /\ phase[gate] \in {"gated", "inside"}
  /\ KeyLent => /\ vault = "open"
                /\ \/ gate = "bunker"
                   \/ gate \in Conns /\ phase[gate] = "inside"
  /\ \A c \in Conns : phase[c] = "taken" => taken = c

\* No deadlock: the waits form a chain that ends at somebody who can go on.
THEOREM WaitsAreOrdered == Spec => []NoCircularWait
<1>1. ASSUME IInv, BodyInv PROVE NoCircularWait
  <2> USE <1>1 DEF IInv, TypeOK
  <2>1. once = "running" => \E g \in Closers : InBody(g)
    BY DEF BodyInv
  <2>2. gate # NoConn => \/ gate = "bunker"
                         \/ gate \in Conns /\ phase[gate] \in {"gated", "inside"}
    BY DEF GateInv
  <2>3. KeyLent => /\ vault = "open"
                   /\ \/ gate = "bunker"
                      \/ gate \in Conns /\ phase[gate] = "inside"
    BY DEF GateInv, KeyLent
  <2>4. \A c \in Conns : phase[c] = "taken" => taken = c
    BY DEF TakenInv
  <2> QED
    BY <2>1, <2>2, <2>3, <2>4 DEF NoCircularWait
<1>2. Init => BodyInv
  BY DEF Init, BodyInv
<1> QED
  BY <1>1, <1>2, BodyStep, Inductive, PTL DEF Spec

\* How many steps a handler has left at most, and a goroutine that closes.
StepsFrom(p) == CASE p = "read" -> 7
                  [] p = "check" -> 6
                  [] p = "use" -> 5
                  [] p = "gated" -> 4
                  [] p = "inside" -> 3
                  [] p = "answer" -> 2
                  [] p = "done" -> 1
                  [] OTHER -> 0
CloserStepsFrom(p) == CASE p = "wait" -> 7
                        [] p = "close" -> 6
                        [] p = "body" -> 5
                        [] p = "unlisten" -> 4
                        [] p = "wipe" -> 3
                        [] p = "wiping" -> 2
                        [] p = "closed" -> 1
                        [] OTHER -> 0

\* A connection that got a slot gives it back after seven steps of its handler at
\* most, and a goroutine that closes ends after seven.
OnlyForward ==
  [][/\ \A c \in Conns : phase[c] \in Handled /\ phase'[c] # phase[c] =>
          StepsFrom(phase'[c]) < StepsFrom(phase[c])
     /\ \A g \in Closers : gpc'[g] # gpc[g] =>
          CloserStepsFrom(gpc'[g]) < CloserStepsFrom(gpc[g])]_vars

LEMMA HandlerForward ==
  ASSUME IInv, [Next]_vars, NEW c \in Conns, phase[c] \in Handled, phase'[c] # phase[c]
  PROVE  StepsFrom(phase'[c]) < StepsFrom(phase[c])
<1> USE DEF IInv, TypeOK
<1>1. ~PassOn
  BY DEF PassOn, PassOnIf, TakenInv, Move, Handled
<1>2. PICK d \in Conns : AcceptConn(d) \/ Handle(d)
  BY <1>1, StepKinds, CloseFrame, VaultFrame DEF AcceptFails, connVars, vars
<1>3. \/ phase[c] = "read" /\ phase'[c] \in {"check", "answer", "done"}
      \/ phase[c] = "check" /\ phase'[c] \in {"use", "answer"}
      \/ phase[c] = "use" /\ phase'[c] = "gated"
      \/ phase[c] = "gated" /\ phase'[c] \in {"inside", "answer"}
      \/ phase[c] = "inside" /\ phase'[c] = "answer"
      \/ phase[c] = "answer" /\ phase'[c] = "done"
      \/ phase[c] = "done" /\ phase'[c] = "idle"
  BY <1>2 DEF AcceptConn, Handle, ReadRequest, ReadFails, CheckPin, TakeGate, GoToVault, EnterKey,
              LeaveKey, LeaveWith, WriteAnswer, Finish, FinishWith, Reply, Move, Handled
<1> QED
  BY <1>3 DEF StepsFrom

LEMMA CloserForward ==
  ASSUME IInv, [Next]_vars, NEW g \in Closers, gpc'[g] # gpc[g]
  PROVE  CloserStepsFrom(gpc'[g]) < CloserStepsFrom(gpc[g])
<1> USE DEF IInv, TypeOK
<1>1. CloseStep
  BY StepKinds, HandlerFrame, VaultFrame DEF PassOn, PassOnIf, AcceptFails, closeVars, vars
<1>2. \/ gpc[g] = "wait" /\ gpc'[g] \in {"close", "ended"}
      \/ gpc[g] = "close" /\ gpc'[g] \in {"body", "closed"}
      \/ gpc[g] = "body" /\ gpc'[g] = "unlisten"
      \/ gpc[g] = "unlisten" /\ gpc'[g] = "wipe"
      \/ gpc[g] = "wipe" /\ gpc'[g] = "wiping"
      \/ gpc[g] = "wiping" /\ gpc'[g] = "closed"
      \/ gpc[g] = "closed" /\ gpc'[g] = "over"
  BY <1>1 DEF CloseStep, Watch, MainCloses, MainEnds, Close, CloseEnter, OnceDo, TellDone, TellWith,
              Unlisten, WipeBegins, WipeEnds, Goto
<1> QED
  BY <1>2 DEF CloserStepsFrom

\* No livelock inside the signer: no handler and no Close goes round in circles.
THEOREM HandlersGoOn == Spec => OnlyForward
<1> DEFINE Forward ==
      /\ \A c \in Conns : phase[c] \in Handled /\ phase'[c] # phase[c] =>
           StepsFrom(phase'[c]) < StepsFrom(phase[c])
      /\ \A g \in Closers : gpc'[g] # gpc[g] =>
           CloserStepsFrom(gpc'[g]) < CloserStepsFrom(gpc[g])
<1>1. IInv /\ [Next]_vars => [Forward]_vars
  BY HandlerForward, CloserForward
<1> QED
  BY <1>1, Inductive, PTL DEF Spec, OnlyForward

\* A Close that has returned, to whichever caller, is for good: from then on no
\* connection is accepted, and of those accepted before only one that sends 32 zero
\* bytes gets past the wiped PIN.
THEOREM ClosedForGood ==
  Spec => []((\E g \in Closers : gpc[g] = "closed") =>
               [][\A c \in Conns :
                    /\ phase[c] = "idle" => phase'[c] = "idle"
                    /\ phase[c] # "use" /\ phase'[c] = "use" => request[c].pin = "zeros"]_vars)
<1> DEFINE Closed == \E g \in Closers : gpc[g] = "closed"
           OnlyZeros == \A c \in Conns :
             /\ phase[c] = "idle" => phase'[c] = "idle"
             /\ phase[c] # "use" /\ phase'[c] = "use" => request[c].pin = "zeros"
           Returned == once = "done" /\ ~listening
<1>1. IInv => (Closed => Returned)
  BY DEF IInv, OnceInv
<1>2. ASSUME IInv, Returned, [Next]_vars PROVE Returned'
  <2>1. CASE CloseStep
    <3>1. ~\E g \in Closers : InBody(g)
      BY <1>2 DEF IInv, OnceInv
    <3>2. UNCHANGED <<once, listening>>
      BY <1>2, <2>1, <3>1 DEF CloseStep, Watch, MainCloses, MainEnds, Close, CloseEnter, OnceDo,
         TellDone, TellWith, Unlisten, WipeBegins, WipeEnds, Goto, InBody, loopVars
    <3> QED
      BY <1>2, <3>2
  <2>2. CASE ~CloseStep
    <3>1. UNCHANGED <<once, listening>>
      BY <1>2, <2>2, StepKinds, HandlerFrame, VaultFrame
         DEF PassOn, PassOnIf, AcceptFails, closeVars, loopVars, vars
    <3> QED
      BY <1>2, <3>1
  <2> QED
    BY <2>1, <2>2
<1>3. ASSUME IInv, Returned, [Next]_vars, NEW c \in Conns, phase[c] = "idle"
      PROVE  phase'[c] = "idle"
  <2>1. ASSUME NEW d \in Conns, Handle(d) PROVE phase'[c] = "idle"
    BY <1>3, <2>1 DEF Handle, ReadRequest, ReadFails, CheckPin, TakeGate, GoToVault, EnterKey,
                      LeaveKey, LeaveWith, WriteAnswer, Finish, FinishWith, Reply, Move, IInv, TypeOK
  <2>2. \A d \in Conns : ~AcceptConn(d)
    BY <1>3 DEF AcceptConn
  <2>3. CASE PassOn
    BY <1>3, <2>3 DEF PassOn, PassOnIf, Move, IInv, TypeOK, TakenInv
  <2>4. CASE AcceptFails \/ CloseStep \/ VaultStep \/ UNCHANGED vars
    BY <1>3, <2>4, CloseFrame, VaultFrame DEF AcceptFails, connVars, vars
  <2> QED
    BY <1>3, <2>1, <2>2, <2>3, <2>4, StepKinds
<1>4. IInv /\ Returned /\ [Next]_vars => [OnlyZeros]_vars
  BY <1>3, PinStep
<1> HIDE DEF Closed, Returned, OnlyZeros
<1>5. Spec => [](Closed => [][OnlyZeros]_vars)
  BY <1>1, <1>2, <1>4, Inductive, PTL DEF Spec
<1> QED
  BY <1>5 DEF Closed, OnlyZeros

\* The vault that main closes after the signer is closed for good, and its key is
\* with nobody from then on.
THEOREM VaultClosedForGood == Spec => [](vault = "closed" => [](vault = "closed" /\ ~KeyLent))
<1> DEFINE Shut == vault = "closed"
           Home == vault = "closed" /\ ~KeyLent
<1>1. IInv /\ Shut => Home
  BY DEF IInv, GateInv
<1>2. Shut /\ [Next]_vars => Shut'
  BY StepKinds, HandlerFrame, CloseFrame
     DEF PassOn, PassOnIf, AcceptFails, VaultStep, CloseVault, VaultCloses, BunkerEnters,
         BunkerLeaves, Cancel, vars
<1> HIDE DEF Shut, Home
<1>3. Spec => [](Shut => []Home)
  BY <1>1, <1>2, Inductive, PTL DEF Spec
<1> QED
  BY <1>3 DEF Shut, Home

-----------------------------------------------------------------------------
(* The refinement.                                                          *)

Inside == {c \in Conns : phase[c] = "inside"}

LEMMA OracleInit == Init => Oracle!Init
<1> SUFFICES ASSUME Init PROVE Oracle!Init
  OBVIOUS
<1>1. Inside = {} /\ gate # "bunker" /\ gpc["main"] = "wait" /\ vault = "open"
  BY DEF Init, Inside, NoConn, Closers
<1> QED
  BY <1>1 DEF Oracle!Init, Inside

\* What lends no key, closes no vault and does not end main is a stutter.
LEMMA OracleStutter ==
  ASSUME Inside' = Inside, UNCHANGED <<gate = "bunker", vault>>,
         gpc'["main"] = "over" <=> gpc["main"] = "over"
  PROVE  UNCHANGED Oracle!oracleVars
BY DEF Oracle!oracleVars, Inside

LEMMA OracleHandler ==
  ASSUME IInv, NEW c \in Conns, AcceptConn(c) \/ Handle(c)
  PROVE  [Oracle!Next]_(Oracle!oracleVars)
<1> USE TokenAssumption DEF IInv, TypeOK, GateInv, NoConn
<1>0. UNCHANGED <<vault, gpc>>
  BY HandlerFrame DEF closeVars
<1>1. CASE phase[c] = "gated" /\ phase'[c] = "inside"
  <2>1. /\ vault = "open" /\ gate = c /\ gate' = c
        /\ Inside = {} /\ Inside' = {c}
    BY <1>1 DEF AcceptConn, Handle, ReadRequest, ReadFails, CheckPin, TakeGate, GoToVault, EnterKey,
                LeaveKey, LeaveWith, WriteAnswer, Finish, FinishWith, Reply, Move, Inside
  <2>2. Oracle!Begin(c)
    BY <1>0, <2>1 DEF Oracle!Begin, Inside
  <2> QED
    BY <2>2 DEF Oracle!Next
<1>2. CASE LeaveKey(c)
  <2>1. /\ gate = c /\ gate' = "none"
        /\ Inside = {c} /\ Inside' = {}
    BY <1>2 DEF LeaveKey, LeaveWith, Reply, Move, Inside
  <2>2. Oracle!End(c)
    BY <1>0, <2>1 DEF Oracle!End, Inside
  <2> QED
    BY <2>2 DEF Oracle!Next
<1>3. CASE ~(phase[c] = "gated" /\ phase'[c] = "inside") /\ ~LeaveKey(c)
  <2>1. Inside' = Inside /\ (gate' = "bunker" <=> gate = "bunker")
    BY <1>3 DEF AcceptConn, Handle, ReadRequest, ReadFails, CheckPin, TakeGate, GoToVault, EnterKey,
                WriteAnswer, Finish, FinishWith, Reply, Move, Inside, loopVars, connVars
  <2> QED
    BY <1>0, <2>1, OracleStutter
<1> QED
  BY <1>1, <1>2, <1>3

LEMMA OracleVault ==
  ASSUME IInv, VaultStep
  PROVE  [Oracle!Next]_(Oracle!oracleVars)
<1> USE TokenAssumption DEF IInv, TypeOK, GateInv, NoConn
<1>0. UNCHANGED <<phase, gpc>> /\ Inside' = Inside
  BY VaultFrame DEF connVars, closeVars, Inside
<1>1. CASE CloseVault
  <2>1. vault = "open" /\ vault' = "closed" /\ UNCHANGED gate /\ gate # "bunker" /\ Inside = {}
    BY <1>1 DEF CloseVault, VaultCloses, KeyLent, Inside
  <2>2. Oracle!Shut
    BY <1>0, <2>1 DEF Oracle!Shut, Inside
  <2> QED
    BY <2>2 DEF Oracle!Next
<1>2. CASE BunkerEnters
  <2>1. vault = "open" /\ UNCHANGED vault /\ gate # "bunker" /\ gate' = "bunker" /\ Inside = {}
    BY <1>2 DEF BunkerEnters, Inside
  <2>2. Oracle!Begin("bunker")
    BY <1>0, <2>1 DEF Oracle!Begin, Inside
  <2> QED
    BY <2>2 DEF Oracle!Next
<1>3. CASE BunkerLeaves
  <2>1. UNCHANGED vault /\ gate = "bunker" /\ gate' # "bunker" /\ Inside = {}
    BY <1>3 DEF BunkerLeaves, Inside
  <2>2. Oracle!End("bunker")
    BY <1>0, <2>1 DEF Oracle!End, Inside
  <2> QED
    BY <2>2 DEF Oracle!Next
<1>4. CASE Cancel
  <2>1. UNCHANGED <<gate, vault>>
    BY <1>4 DEF Cancel
  <2> QED
    BY <1>0, <2>1, OracleStutter
<1> QED
  BY <1>1, <1>2, <1>3, <1>4 DEF VaultStep

LEMMA OracleStep ==
  ASSUME IInv, [Next]_vars
  PROVE  [Oracle!Next]_(Oracle!oracleVars)
<1> USE DEF IInv, TypeOK
<1>1. CASE PassOn \/ AcceptFails \/ UNCHANGED vars
  <2>1. UNCHANGED <<gate, vault, gpc>> /\ Inside' = Inside
    BY <1>1 DEF PassOn, PassOnIf, AcceptFails, TakenInv, Move, Inside, connVars, closeVars, vars
  <2> QED
    BY <2>1, OracleStutter
<1>2. CASE CloseStep
  <2>1. UNCHANGED <<gate, vault>> /\ Inside' = Inside
    BY <1>2, CloseFrame DEF connVars, Inside
  <2>2. CASE MainEnds
    <3>1. vault = "closed" /\ gpc["main"] # "over" /\ gpc'["main"] = "over"
      BY <2>2 DEF MainEnds, Goto, Closers
    <3>2. Oracle!Tell("main")
      BY <2>1, <3>1 DEF Oracle!Tell, Inside
    <3> QED
      BY <3>2 DEF Oracle!Next
  <2>3. CASE ~MainEnds
    <3>1. gpc'["main"] = "over" <=> gpc["main"] = "over"
      BY <1>2, <2>3 DEF CloseStep, Watch, MainCloses, Close, CloseEnter, OnceDo, TellDone, TellWith,
           Unlisten, WipeBegins, WipeEnds, Goto, Closers
    <3> QED
      BY <2>1, <3>1, OracleStutter
  <2> QED
    BY <2>2, <2>3
<1> QED
  BY <1>1, <1>2, OracleHandler, OracleVault, StepKinds

\* The vault that is closed after the signer is the door of a signing oracle:
\* the key is with one user at a time, the vault is never closed under a user,
\* and main goes on only when it is closed.
THEOREM Refinement == Spec => ImplementsOracle
<1>1. IInv /\ [Next]_vars => [Oracle!Next]_(Oracle!oracleVars)
  BY OracleStep
<1> QED
  BY <1>1, OracleInit, Inductive, PTL DEF Spec, ImplementsOracle, Oracle!Spec
=============================================================================
