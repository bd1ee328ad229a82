---------------------------- MODULE BunkerProofs ----------------------------
(***************************************************************************)
(* Proofs about module Bunker, for any set of connections: the inductive   *)
(* invariant IInv, the safety properties that follow from it, and the step *)
(* simulation of the signing oracle.                                       *)
(***************************************************************************)
EXTENDS Bunker, TLAPS

\* The two mutexes and the key: who is inside holds both, and only while the
\* bunker is open.
LockInv ==
  /\ \A c \in Conns : /\ (at[c] # "out") <=> (mu = c)
                      /\ (at[c] = "inside") <=> (gate = c)
                      /\ at[c] # "out" => phase[c] \in KeyPhases /\ use = "live"
  /\ piv <=> (gate = "piv")
  /\ (stage = "key") <=> (gate = "start")

\* Before Start has succeeded nothing of the bunker runs.
StartInv ==
  /\ stage # "up" => /\ use = "unset"
                     /\ once = "idle"
                     /\ \A g \in Routines : gpc[g] \in {"start", "wait"}
                     /\ \A c \in Conns : phase[c] = "idle"
  /\ stage = "up" => use # "unset" /\ page # "none"
  /\ stage = "cert" => page = "live"
  /\ stage = "failed" => /\ \A s \in Servers : ln[s] = "closed"
                         /\ page # "live"

InClose(g) == gpc[g] \in {"shut_ws", "shut_wss", "retire", "exit"}

\* sync.Once: one routine runs the body of Close, step by step, and the others
\* pass only after its end.
OnceInv ==
  /\ once = "idle" => \A g \in Routines : ~InClose(g) /\ gpc[g] # "closed"
  /\ once = "running" => \A g \in Routines : gpc[g] # "closed"
  /\ once = "done" => /\ \A g \in Routines : ~InClose(g)
                      /\ exited /\ use = "nil" /\ page = "destroyed"
                      /\ \A s \in Servers : down[s]
  /\ \A g, h \in Routines : InClose(g) /\ InClose(h) => g = h
  /\ \A g \in Routines :
       /\ gpc[g] \in {"shut_wss", "retire", "exit"} => down["ws"]
       /\ gpc[g] \in {"retire", "exit"} => down["wss"]
       /\ InClose(g) => (use = "nil" <=> gpc[g] = "exit")
       /\ gpc[g] = "exit" => page = "destroyed"
  /\ \A s \in Servers : down[s] \/ gpc[s] # "serving" => ln[s] = "closed" \/ gpc[s] = "start"
  /\ use = "nil" => once = "done" \/ \E g \in Routines : gpc[g] = "exit"
  /\ exited => once = "done"

Pushed(s) == gpc[s] \notin {"start", "serving", "push"}

\* The results of the serve loops: each is in b.errs or was taken by Wait.
ResultInv ==
  /\ received + Len(errs) = (IF Pushed("ws") THEN 1 ELSE 0) + (IF Pushed("wss") THEN 1 ELSE 0)
  /\ \A s \in Servers : /\ (outcome[s] = "none") <=> (gpc[s] \in {"start", "serving"})
                        /\ gpc[s] # "wait"
  /\ \A i \in 1..Len(errs) : Pushed(errs[i])
  /\ \A i, j \in 1..Len(errs) : errs[i] = errs[j] => i = j
  /\ reported = {s \in Servers : /\ outcome[s] = "failed"
                                 /\ Pushed(s)
                                 /\ \A i \in 1..Len(errs) : errs[i] # s}
  /\ wpc = "blocked" => received = 0
  /\ wpc = "collect" => received < 2
  /\ wpc = "done" => received = 2

\* The answer is settled only while it is on its way; so is a signature.
FateInv ==
  \A c \in Conns : /\ fate[c] # "none" => phase[c] \in {"answer", "publish"}
                   /\ signed[c] => phase[c] \in {"make", "respond", "answer", "publish"}

IInv == TypeOK /\ LockInv /\ StartInv /\ OnceInv /\ ResultInv /\ FateInv

-----------------------------------------------------------------------------
(* What the three kinds of step leave alone.                                *)

HandlerStep(c) == Connect(c) \/ ReadEvent(c) \/ ReadFails(c) \/ Handle(c)
ServerStep(s)  == Serve(s) \/ ServeReturns(s) \/ PushResult(s)
RoutineStep    == \/ \E s \in Servers : ServerStep(s)
                  \/ WatchContext \/ MainCloses
                  \/ \E g \in Routines : Close(g)
                  \/ WaitExited \/ WaitCollect
EnvironmentStep == Cancel \/ PivTakesGate \/ PivDropsGate

\* Next, by the kind of step.
LEMMA StepKinds ==
  ASSUME [Next]_vars
  PROVE  \/ Start \/ RoutineStep \/ \E c \in Conns : HandlerStep(c)
         \/ EnvironmentStep \/ UNCHANGED vars
BY DEF Next, RoutineStep, ServerStep, HandlerStep, EnvironmentStep

\* A handler touches neither Start's state, nor Close's, nor Wait's.
LEMMA HandlerFrame ==
  ASSUME NEW c \in Conns, HandlerStep(c)
  PROVE  UNCHANGED <<startVars, cancelled, use, piv, closeVars, waitVars>>
BY DEF HandlerStep, Handle, UseKey, Connect, Admit, ReadEvent, ReadFails, Leave, LockKey,
       KeyRefused, Refuse, KeyEnter, RunWithKey, KeyLeave, Dispatch, Approve,
       MakeResponse, Answer, Publish,
       keyVars

\* Start leaves the handlers, Close and Wait alone, and no mutex but the gate.
LEMMA StartFrame ==
  ASSUME Start
  PROVE  UNCHANGED <<cancelled, mu, piv, at, connVars, closeVars, waitVars>>
BY DEF Start, CheckArguments, AskPublicKey, HavePublicKey, MakeSecretPage, GoServe,
       StartFails, FailsWith, keyVars

\* The routines that close, and Wait, leave the handlers and the mutexes alone.
LEMMA RoutineFrame ==
  ASSUME RoutineStep
  PROVE  UNCHANGED <<stage, cancelled, keyVars, connVars>>
BY DEF RoutineStep, ServerStep, Serve, ServeReturns, PushResult, PushThen, WatchContext,
       MainCloses, Close, CloseEnter, OnceDo, ShutdownServer, ShutdownAll, CloseRetire, DropKey,
       CloseExit, WaitExited, WaitCollect, CollectUpTo, startVars

\* Only Close drops the key, and only when nobody holds b.mu.
LEMMA RoutineUse ==
  ASSUME RoutineStep
  PROVE  UNCHANGED use \/ (mu = NoOne /\ use' = "nil")
BY DEF RoutineStep, ServerStep, Serve, ServeReturns, PushResult, PushThen, WatchContext,
       MainCloses, Close, CloseEnter, OnceDo, ShutdownServer, ShutdownAll, CloseRetire, DropKey,
       CloseExit, WaitExited, WaitCollect, CollectUpTo

LEMMA EnvironmentFrame ==
  ASSUME EnvironmentStep
  PROVE  UNCHANGED <<startVars, use, mu, at, connVars, closeVars, waitVars>>
BY DEF EnvironmentStep, Cancel, PivTakesGate, PivDropsGate, keyVars

-----------------------------------------------------------------------------
(* The parts of the inductive invariant, one lemma each.                    *)

LEMMA InitIInv == Init => IInv
<1> SUFFICES ASSUME Init PROVE IInv
  OBVIOUS
<1> USE DEF Init, Routines, Servers, NoOne
<1>1. TypeOK
  <2>1. StartTypes /\ KeyTypes /\ ConnTypes
    BY DEF StartTypes, KeyTypes, ConnTypes, Phases
  <2>2. CloseTypes
    BY DEF CloseTypes
  <2>3. ResultTypes
    BY DEF ResultTypes
  <2> QED
    BY <2>1, <2>2, <2>3 DEF TypeOK
<1>2. LockInv
  BY ConnsAssumption DEF LockInv
<1>3. StartInv /\ OnceInv /\ FateInv
  BY DEF StartInv, OnceInv, FateInv, InClose
<1>4. ResultInv
  BY DEF ResultInv, Pushed
<1> QED
  BY <1>1, <1>2, <1>3, <1>4 DEF IInv

\* The types: those of the routines' variables ...
LEMMA RoutineType ==
  ASSUME IInv, RoutineStep
  PROVE  TypeOK'
<1> USE DEF IInv, TypeOK
<1>1. KeyTypes' /\ ConnTypes'
  BY RoutineFrame DEF KeyTypes, ConnTypes, keyVars, connVars
<1>2. StartTypes'
  BY DEF StartTypes, RoutineStep, ServerStep, Serve, ServeReturns, PushResult, PushThen,
         WatchContext, MainCloses, Close, CloseEnter, OnceDo, ShutdownServer, ShutdownAll,
         CloseRetire, DropKey, CloseExit, WaitExited, WaitCollect, CollectUpTo, startVars
<1>3. CloseTypes'
  <2> USE DEF CloseTypes, Goto
  <2>1. ASSUME NEW s \in Servers, ServerStep(s) PROVE CloseTypes'
    BY <2>1 DEF ServerStep, Serve, ServeReturns, PushResult, PushThen
  <2>2. CASE WatchContext \/ MainCloses
    BY <2>2 DEF WatchContext, MainCloses
  <2>3. ASSUME NEW g \in Routines, Close(g) PROVE CloseTypes'
    <3>1. CASE CloseEnter(g) \/ CloseRetire(g) \/ CloseExit(g)
      BY <3>1 DEF CloseEnter, OnceDo, CloseRetire, DropKey, CloseExit
    <3>2. ASSUME NEW s, NEW from, NEW to \in {"shut_wss", "retire"},
                 ShutdownServer(g, s, from, to)
          PROVE  CloseTypes'
      BY <3>2 DEF ShutdownServer, ShutdownAll
    <3> QED
      BY <2>3, <3>1, <3>2 DEF Close
  <2>4. CASE WaitExited \/ WaitCollect
    BY <2>4 DEF WaitExited, WaitCollect, CollectUpTo, closeVars
  <2> QED
    BY <2>1, <2>2, <2>3, <2>4 DEF RoutineStep
<1>4. ResultTypes'
  <2> USE DEF ResultTypes, waitVars, closeVars
  <2>1. ASSUME NEW s \in Servers, PushResult(s) PROVE ResultTypes'
    BY <2>1 DEF PushResult, PushThen, ResultInv, Pushed, Servers
  <2>2. CASE WaitExited
    BY <2>2 DEF WaitExited
  <2>3. CASE WaitCollect
    BY <2>3 DEF WaitCollect, CollectUpTo, ResultInv
  <2>4. (\E s \in Servers : PushResult(s)) \/ WaitExited \/ WaitCollect \/ UNCHANGED <<errs, waitVars>>
    BY DEF RoutineStep, ServerStep, Serve, ServeReturns, WatchContext, MainCloses, Close,
           CloseEnter, OnceDo, ShutdownServer, ShutdownAll, CloseRetire, DropKey, CloseExit
  <2> QED
    BY <2>1, <2>2, <2>3, <2>4
<1> QED
  BY <1>1, <1>2, <1>3, <1>4

\* ... those of the handlers' ...
LEMMA HandlerType ==
  ASSUME IInv, NEW c \in Conns, HandlerStep(c)
  PROVE  TypeOK'
<1> USE DEF IInv, TypeOK
<1>1. StartTypes' /\ CloseTypes' /\ ResultTypes'
  BY HandlerFrame DEF StartTypes, CloseTypes, ResultTypes, startVars, closeVars, waitVars
<1>2. KeyTypes'
  BY DEF KeyTypes, HandlerStep, Handle, UseKey, Connect, Admit, ReadEvent, ReadFails, Leave,
         LockKey, KeyRefused, Refuse, KeyEnter, RunWithKey, KeyLeave, Dispatch, Approve,
         MakeResponse, Answer,
         Publish, keyVars
<1>3. ConnTypes'
  BY DEF ConnTypes, HandlerStep, Handle, UseKey, Connect, Admit, ReadEvent, ReadFails, Leave,
         LockKey, KeyRefused, Refuse, KeyEnter, RunWithKey, KeyLeave, AfterUse, Dispatch, Approve,
         MakeResponse,
         Answer, Publish, Reject, Forget, Move, connVars, Phases, KeyPhases
<1> QED
  BY <1>1, <1>2, <1>3

\* ... and those of Start and the environment.
LEMMA TypeStep ==
  ASSUME IInv, [Next]_vars
  PROVE  TypeOK'
<1> USE DEF IInv, TypeOK
<1>1. CASE Start
  <2>1. ConnTypes' /\ CloseTypes' /\ ResultTypes'
    BY <1>1, StartFrame DEF ConnTypes, CloseTypes, ResultTypes, connVars, closeVars, waitVars
  <2>2. StartTypes' /\ KeyTypes'
    BY <1>1 DEF StartTypes, KeyTypes, Start, CheckArguments, AskPublicKey, HavePublicKey,
                MakeSecretPage, GoServe, StartFails, FailsWith, keyVars, NoOne
  <2> QED
    BY <2>1, <2>2
<1>2. CASE EnvironmentStep
  <2>1. ConnTypes' /\ CloseTypes' /\ ResultTypes'
    BY <1>2, EnvironmentFrame DEF ConnTypes, CloseTypes, ResultTypes, connVars, closeVars, waitVars
  <2>2. StartTypes' /\ KeyTypes'
    BY <1>2 DEF StartTypes, KeyTypes, EnvironmentStep, Cancel, PivTakesGate, PivDropsGate,
                startVars, keyVars, NoOne
  <2> QED
    BY <2>1, <2>2
<1>3. CASE UNCHANGED vars
  BY <1>3 DEF vars, StartTypes, KeyTypes, ConnTypes, CloseTypes, ResultTypes
<1> QED
  BY <1>1, <1>2, <1>3, StepKinds, RoutineType, HandlerType

\* The mutexes.
LEMMA LockStep ==
  ASSUME IInv, [Next]_vars
  PROVE  LockInv'
<1> USE ConnsAssumption DEF IInv, TypeOK, StartTypes, KeyTypes, ConnTypes, LockInv, NoOne, keyVars, connVars
<1>1. CASE Start
  BY <1>1, StartFrame
     DEF Start, CheckArguments, AskPublicKey, HavePublicKey, MakeSecretPage, GoServe,
         StartFails, FailsWith
<1>2. CASE RoutineStep
  BY <1>2, RoutineFrame, RoutineUse
<1>3. ASSUME NEW c \in Conns, HandlerStep(c) PROVE LockInv'
  <2> USE DEF Move, Reject, Forget, startVars
  <2>1. UNCHANGED <<stage, use, piv>>
    BY <1>3, HandlerFrame
  <2>2. CASE Connect(c) \/ Admit(c) \/ ReadEvent(c) \/ ReadFails(c) \/ Leave(c)
    BY <2>1, <2>2 DEF Connect, Admit, ReadEvent, ReadFails, Leave, KeyPhases
  <2>3. CASE LockKey(c)
    BY <2>1, <2>3 DEF LockKey
  <2>4. CASE KeyEnter(c)
    BY <2>1, <2>4 DEF KeyEnter, RunWithKey
  <2>5. CASE KeyRefused(c)
    BY <2>1, <2>5 DEF KeyRefused, Refuse, AfterUse
  <2>6. CASE KeyLeave(c)
    BY <2>1, <2>6 DEF KeyLeave, AfterUse
  <2>7. CASE Dispatch(c) \/ Approve(c) \/ MakeResponse(c) \/ Answer(c) \/ Publish(c)
    BY <2>1, <2>7 DEF Dispatch, Approve, MakeResponse, Reject, Answer, Publish, KeyPhases
  <2> QED
    BY <1>3, <2>2, <2>3, <2>4, <2>5, <2>6, <2>7 DEF HandlerStep, Handle, UseKey
<1>4. CASE EnvironmentStep
  BY <1>4 DEF EnvironmentStep, Cancel, PivTakesGate, PivDropsGate, startVars
<1>5. CASE UNCHANGED vars
  BY <1>5 DEF vars
<1> QED
  BY <1>1, <1>2, <1>3, <1>4, <1>5, StepKinds

\* Start and what waits for it.
LEMMA StartStep ==
  ASSUME IInv, [Next]_vars
  PROVE  StartInv'
<1> USE DEF IInv, TypeOK, StartTypes, CloseTypes, StartInv, Routines, Servers, startVars
<1>1. CASE Start
  BY <1>1, StartFrame
     DEF Start, CheckArguments, AskPublicKey, HavePublicKey, MakeSecretPage, GoServe,
         StartFails, FailsWith, connVars, closeVars
<1>2. CASE RoutineStep
  BY <1>2 DEF RoutineStep, ServerStep, Serve, ServeReturns, PushResult, PushThen, WatchContext,
       MainCloses, Close, CloseEnter, OnceDo, ShutdownServer, ShutdownAll, CloseRetire, DropKey,
       CloseExit, WaitExited, WaitCollect, CollectUpTo, Goto, connVars, closeVars
<1>3. ASSUME NEW c \in Conns, HandlerStep(c) PROVE StartInv'
  <2>1. UNCHANGED <<startVars, use, once, gpc>>
    BY <1>3, HandlerFrame DEF closeVars
  <2>2. stage = "up" \/ UNCHANGED phase
    BY <1>3 DEF HandlerStep, Handle, UseKey, Connect, Admit, ReadEvent, ReadFails, Leave, LockKey,
         KeyRefused, Refuse, KeyEnter, RunWithKey, KeyLeave, Dispatch, Approve,
       MakeResponse, Answer, Publish,
         connVars, LockInv, KeyPhases
  <2> QED
    BY <2>1, <2>2
<1>4. CASE EnvironmentStep
  BY <1>4, EnvironmentFrame DEF connVars, closeVars
<1>5. CASE UNCHANGED vars
  BY <1>5 DEF vars
<1> QED
  BY <1>1, <1>2, <1>3, <1>4, <1>5, StepKinds

\* The body of Close.
LEMMA OnceStep ==
  ASSUME IInv, [Next]_vars
  PROVE  OnceInv'
<1> USE DEF IInv, TypeOK, StartTypes, CloseTypes, OnceInv, InClose, Routines, Servers, Goto
<1>1. CASE Start
  <2>1. UNCHANGED <<once, gpc, down, exited>>
    BY <1>1, StartFrame DEF closeVars
  <2>2. stage # "up"
    BY <1>1 DEF Start, CheckArguments, AskPublicKey, HavePublicKey, MakeSecretPage, GoServe
  <2>3. once = "idle" /\ use = "unset" /\ use' # "nil" /\ (\A s \in Servers : ln'[s] = ln[s] \/ ln'[s] = "closed")
    BY <1>1, <2>2 DEF StartInv, Start, CheckArguments, AskPublicKey, HavePublicKey, MakeSecretPage,
         GoServe, StartFails, FailsWith
  <2> QED
    BY <2>1, <2>3
<1>2. ASSUME NEW s \in Servers, ServerStep(s) PROVE OnceInv'
  BY <1>2 DEF ServerStep, Serve, ServeReturns, PushResult, PushThen, startVars
<1>3. CASE WatchContext \/ MainCloses
  BY <1>3 DEF WatchContext, MainCloses, startVars
<1>4. ASSUME NEW g \in Routines, Close(g) PROVE OnceInv'
  <2>1. CASE CloseEnter(g)
    BY <2>1 DEF CloseEnter, OnceDo, startVars
  <2>2. CASE ShutdownServer(g, "ws", "shut_ws", "shut_wss")
    BY <2>2 DEF ShutdownServer, ShutdownAll
  <2>3. CASE ShutdownServer(g, "wss", "shut_wss", "retire")
    BY <2>3 DEF ShutdownServer, ShutdownAll
  <2>4. CASE CloseRetire(g)
    BY <2>4 DEF CloseRetire, DropKey
  <2>5. CASE CloseExit(g)
    BY <2>5 DEF CloseExit, startVars
  <2> QED
    BY <1>4, <2>1, <2>2, <2>3, <2>4, <2>5 DEF Close
<1>5. CASE WaitExited \/ WaitCollect
  BY <1>5 DEF WaitExited, WaitCollect, CollectUpTo, startVars, closeVars
<1>6. ASSUME NEW c \in Conns, HandlerStep(c) PROVE OnceInv'
  BY <1>6, HandlerFrame DEF startVars, closeVars
<1>7. CASE EnvironmentStep
  BY <1>7, EnvironmentFrame DEF startVars, closeVars
<1>8. CASE UNCHANGED vars
  BY <1>8 DEF vars
<1> QED
  BY <1>1, <1>2, <1>3, <1>4, <1>5, <1>6, <1>7, <1>8, StepKinds DEF RoutineStep

\* The results of the serve loops.
LEMMA ResultStep ==
  ASSUME IInv, [Next]_vars
  PROVE  ResultInv'
<1> USE DEF IInv, TypeOK, CloseTypes, ResultTypes, ResultInv, Pushed, Routines, Servers, Goto
<1>1. CASE Start
  BY <1>1, StartFrame DEF closeVars, waitVars
<1>2. ASSUME NEW s \in Servers, Serve(s) PROVE ResultInv'
  BY <1>2 DEF Serve, waitVars
<1>3. ASSUME NEW s \in Servers, ServeReturns(s) PROVE ResultInv'
  BY <1>3 DEF ServeReturns, waitVars
<1>4. ASSUME NEW s \in Servers, PushResult(s) PROVE ResultInv'
  BY <1>4 DEF PushResult, PushThen, waitVars
<1>5. CASE WatchContext \/ MainCloses
  BY <1>5 DEF WatchContext, MainCloses, waitVars
<1>6. ASSUME NEW g \in Routines, Close(g) PROVE ResultInv'
  BY <1>6 DEF Close, CloseEnter, OnceDo, ShutdownServer, ShutdownAll, CloseRetire, DropKey, CloseExit, waitVars
<1>7. CASE WaitExited
  BY <1>7 DEF WaitExited, closeVars
<1>8. CASE WaitCollect
  BY <1>8 DEF WaitCollect, CollectUpTo
<1>9. ASSUME NEW c \in Conns, HandlerStep(c) PROVE ResultInv'
  BY <1>9, HandlerFrame DEF waitVars, closeVars
<1>10. CASE EnvironmentStep
  BY <1>10, EnvironmentFrame DEF waitVars, closeVars
<1>11. CASE UNCHANGED vars
  BY <1>11 DEF vars
<1> QED
  BY <1>1, <1>2, <1>3, <1>4, <1>5, <1>6, <1>7, <1>8, <1>9, <1>10, <1>11, StepKinds
     DEF RoutineStep, ServerStep

\* The answers on their way.
LEMMA FateStep ==
  ASSUME IInv, [Next]_vars
  PROVE  FateInv'
<1> USE DEF IInv, TypeOK, ConnTypes, FateInv
<1>1. ASSUME NEW c \in Conns, HandlerStep(c) PROVE FateInv'
  BY <1>1 DEF HandlerStep, Handle, UseKey, Connect, Admit, ReadEvent, ReadFails, Leave, LockKey,
         KeyRefused, Refuse, KeyEnter, RunWithKey, KeyLeave, AfterUse, Dispatch, Approve,
         MakeResponse, Answer,
         Publish, Reject, Forget, Move, connVars, KeyPhases
<1>2. CASE Start \/ RoutineStep \/ EnvironmentStep
  BY <1>2, StartFrame, RoutineFrame, EnvironmentFrame DEF connVars
<1>3. CASE UNCHANGED vars
  BY <1>3 DEF vars
<1> QED
  BY <1>1, <1>2, <1>3, StepKinds

LEMMA IInvStep == IInv /\ [Next]_vars => IInv'
BY TypeStep, LockStep, StartStep, OnceStep, ResultStep, FateStep DEF IInv

LEMMA Inductive == Spec => []IInv
BY InitIInv, IInvStep, PTL DEF Spec

-----------------------------------------------------------------------------
(* The theorems.                                                            *)

\* Every variable keeps its type, and b.errs is never full when a serve loop
\* reports to it (src/bunker/bunker.go, serve and Wait).
THEOREM TypeCorrect == Spec => []TypeOK
BY Inductive, PTL DEF IInv

\* Start's failure paths close both listeners and wipe the secret page.
THEOREM StartReleases == Spec => []FailedStartReleases
<1>1. IInv => FailedStartReleases
  BY DEF IInv, StartInv, FailedStartReleases
<1> QED
  BY <1>1, Inductive, PTL

\* The decrypted key is with one user at a time.
THEOREM KeyIsExclusive == Spec => []KeyExclusive
<1>1. IInv => KeyExclusive
  BY DEF IInv, LockInv, KeyExclusive
<1> QED
  BY <1>1, Inductive, PTL

\* A Close that has returned, to any caller, leaves no use of the key behind:
\* what main.go relies on when it closes the vault after the bunkers.
THEOREM CloseQuiets == Spec => []ClosedIsQuiet
<1>1. IInv => ClosedIsQuiet
  BY DEF IInv, TypeOK, CloseTypes, KeyTypes, LockInv, OnceInv, ClosedIsQuiet
<1> QED
  BY <1>1, Inductive, PTL

\* Wait returns the errors of exactly the listeners that failed by themselves.
THEOREM WaitTellsTheTruth == Spec => []WaitReportsFailures
<1>1. ASSUME IInv PROVE WaitReportsFailures
  <2> SUFFICES ASSUME wpc = "done" PROVE /\ \A s \in Servers : outcome[s] # "none" /\ ln[s] = "closed"
                                        /\ reported = {s \in Servers : outcome[s] = "failed"}
    BY DEF WaitReportsFailures
  <2>1. Len(errs) = 0 /\ Pushed("ws") /\ Pushed("wss")
    BY <1>1 DEF IInv, TypeOK, ResultTypes, ResultInv
  <2> QED
    BY <1>1, <2>1 DEF IInv, OnceInv, ResultInv, Pushed, Servers
<1> QED
  BY <1>1, Inductive, PTL

\* A signed request is turned down only for a response that cannot be made, by
\* Close, or by the key itself.
THEOREM SignedRefused == Spec => SignedRefusedOnlyForCause
<1>1. ASSUME IInv, NEW c \in Conns, NEW d \in Conns, HandlerStep(d),
             signed[c], fate'[c] = "rejected", fate[c] # "rejected"
      PROVE  phase[c] = "make" \/ at[c] = "inside" \/ use = "nil"
  <2> USE DEF IInv, TypeOK, StartTypes, ConnTypes
  <2>1. use # "unset" /\ phase[c] \in {"make", "respond", "answer", "publish"}
    BY <1>1 DEF StartInv, FateInv
  <2>2. d = c /\ (MakeResponse(c) \/ KeyRefused(c) \/ KeyLeave(c))
    BY <1>1, <2>1 DEF HandlerStep, Handle, UseKey, Connect, Admit, ReadEvent, ReadFails, Leave,
         LockKey, KeyRefused, Refuse, KeyEnter, RunWithKey, KeyLeave, AfterUse, Dispatch, Approve,
         MakeResponse,
         Answer, Publish, Reject, Forget, connVars
  <2> QED
    BY <1>1, <2>1, <2>2 DEF MakeResponse, KeyRefused, KeyLeave
<1>2. ASSUME IInv, [Next]_vars, ~\E d \in Conns : HandlerStep(d)
      PROVE  UNCHANGED fate
  BY <1>2, StepKinds, StartFrame, RoutineFrame, EnvironmentFrame DEF connVars, vars
<1>3. IInv /\ [Next]_vars =>
        [\A c \in Conns :
           signed[c] /\ fate'[c] = "rejected" /\ fate[c] # "rejected"
             => phase[c] = "make" \/ at[c] = "inside" \/ use = "nil"]_vars
  BY <1>1, <1>2
<1> QED
  BY <1>3, Inductive, PTL DEF Spec, SignedRefusedOnlyForCause

-----------------------------------------------------------------------------
(* The refinement.                                                          *)

InUse == {c \in Conns : at[c] = "inside"}
Told  == {g \in Routines : gpc[g] = "closed"}

LEMMA OracleInit == Init => Oracle!Init
BY DEF Init, Oracle!Init, Routines, Servers

\* A step that moves neither the key nor the end of a Close is a stutter.
LEMMA OracleStutter ==
  ASSUME UNCHANGED <<use, at, gpc>>
  PROVE  UNCHANGED Oracle!oracleVars
BY DEF Oracle!oracleVars

LEMMA OracleHandler ==
  ASSUME IInv, NEW c \in Conns, HandlerStep(c)
  PROVE  [Oracle!Next]_(Oracle!oracleVars)
<1> USE DEF IInv, TypeOK, KeyTypes, LockInv
<1>1. UNCHANGED <<use, gpc>>
  BY HandlerFrame DEF closeVars
<1>2. CASE KeyEnter(c)
  <2>1. use = "live" /\ InUse = {} /\ InUse' = {c}
    BY <1>2, ConnsAssumption DEF KeyEnter, RunWithKey, InUse, NoOne
  <2>2. Oracle!Begin(c)
    BY <1>1, <2>1 DEF Oracle!Begin, InUse
  <2> QED
    BY <2>2 DEF Oracle!Next
<1>3. CASE KeyLeave(c)
  <2>1. c \in InUse /\ InUse' = {}
    BY <1>3 DEF KeyLeave, InUse
  <2>2. Oracle!End(c)
    BY <1>1, <2>1 DEF Oracle!End, InUse
  <2> QED
    BY <2>2 DEF Oracle!Next
<1>4. CASE LockKey(c)
  <2>1. InUse' = InUse
    BY <1>4 DEF LockKey, InUse
  <2> QED
    BY <1>1, <2>1 DEF Oracle!oracleVars, InUse
<1>5. CASE ~(KeyEnter(c) \/ KeyLeave(c) \/ LockKey(c))
  <2>1. UNCHANGED at
    BY <1>5 DEF HandlerStep, Handle, UseKey, Connect, Admit, ReadEvent, ReadFails, Leave,
         KeyRefused, Refuse, Dispatch, Approve, MakeResponse, Answer, Publish, keyVars
  <2> QED
    BY <1>1, <2>1, OracleStutter
<1> QED
  BY <1>2, <1>3, <1>4, <1>5

LEMMA OracleClose ==
  ASSUME IInv, NEW g \in Routines, Close(g)
  PROVE  [Oracle!Next]_(Oracle!oracleVars)
<1> USE DEF IInv, TypeOK, CloseTypes, KeyTypes, LockInv, OnceInv, InClose, Goto
<1>1. UNCHANGED at
  BY RoutineFrame DEF RoutineStep, keyVars
<1>2. CASE CloseRetire(g)
  <2>1. use = "live" /\ use' = "nil"
    BY <1>2 DEF CloseRetire, DropKey, StartTypes, StartInv
  <2>2. InUse = {}
    <3> SUFFICES ASSUME NEW c \in Conns, at[c] = "inside" PROVE FALSE
      BY DEF InUse
    <3>1. mu = c /\ mu = "nobody"
      BY <1>2 DEF CloseRetire, NoOne
    <3> QED
      BY <3>1, ConnsAssumption
  <2>3. Told' = Told
    BY <1>2 DEF CloseRetire, DropKey, Told
  <2>4. Oracle!Shut
    BY <1>1, <2>1, <2>2, <2>3 DEF Oracle!Shut, InUse, Told
  <2> QED
    BY <2>4 DEF Oracle!Next
<1>3. CASE gpc[g] # "closed" /\ gpc'[g] = "closed"
  <2>1. UNCHANGED use /\ use = "nil" /\ Told' = Told \cup {g}
    BY <1>3 DEF Close, CloseEnter, OnceDo, ShutdownServer, ShutdownAll, CloseRetire, DropKey,
                CloseExit, Told
  <2>2. Oracle!Tell(g)
    BY <1>1, <2>1 DEF Oracle!Tell, Told
  <2> QED
    BY <2>2 DEF Oracle!Next
<1>4. CASE ~CloseRetire(g) /\ gpc'[g] # "closed"
  <2>1. UNCHANGED use /\ Told' = Told
    BY <1>4 DEF Close, CloseEnter, OnceDo, ShutdownServer, ShutdownAll, CloseExit, Told
  <2> QED
    BY <1>1, <2>1 DEF Oracle!oracleVars, Told
<1>5. gpc[g] # "closed"
  BY DEF Close, CloseEnter, OnceDo, ShutdownServer, ShutdownAll, CloseRetire, DropKey, CloseExit
<1> QED
  BY <1>2, <1>3, <1>4, <1>5

LEMMA OracleStep ==
  ASSUME IInv, [Next]_vars
  PROVE  [Oracle!Next]_(Oracle!oracleVars)
<1> USE DEF IInv, TypeOK, CloseTypes
<1>1. CASE Start
  <2>1. UNCHANGED <<at, gpc>>
    BY <1>1, StartFrame DEF closeVars
  <2>2. UNCHANGED use \/ (use = "unset" /\ use' = "live")
    BY <1>1 DEF StartInv, Start, CheckArguments, AskPublicKey, HavePublicKey, MakeSecretPage,
                GoServe, StartFails, FailsWith
  <2>3. CASE use = "unset" /\ use' = "live"
    BY <2>1, <2>3 DEF Oracle!Open, Oracle!Next
  <2> QED
    BY <2>1, <2>2, <2>3, OracleStutter
<1>2. ASSUME NEW c \in Conns, HandlerStep(c) PROVE [Oracle!Next]_(Oracle!oracleVars)
  BY <1>2, OracleHandler
<1>3. ASSUME NEW g \in Routines, Close(g) PROVE [Oracle!Next]_(Oracle!oracleVars)
  BY <1>3, OracleClose
<1>4. CASE (\E s \in Servers : ServerStep(s)) \/ WatchContext \/ MainCloses
  <2>1. UNCHANGED <<use, at>> /\ Told' = Told
    BY <1>4 DEF ServerStep, Serve, ServeReturns, PushResult, PushThen, WatchContext, MainCloses,
                Goto, Told, keyVars, Servers, Routines
  <2> QED
    BY <2>1 DEF Oracle!oracleVars, Told
<1>5. CASE WaitExited \/ WaitCollect \/ EnvironmentStep \/ UNCHANGED vars
  BY <1>5, OracleStutter, EnvironmentFrame
     DEF WaitExited, WaitCollect, CollectUpTo, closeVars, keyVars, vars
<1> QED
  BY <1>1, <1>2, <1>3, <1>4, <1>5, StepKinds DEF RoutineStep

\* The bunker, with its locks, goroutines and sync.Once, implements the oracle:
\* the key is lent to one handler at a time while the bunker is open, never
\* after Close, and Close returns to nobody while it is lent.
THEOREM Refinement == Spec => ImplementsOracle
BY OracleInit, OracleStep, Inductive, PTL DEF Spec, ImplementsOracle, Oracle!Spec
-----------------------------------------------------------------------------
(* Who waits for whom, and for how long.                                    *)

\* Wait goes on after the body of Close, and that body is somebody's.
BodyInv ==
  /\ wpc # "blocked" => exited
  /\ once = "running" => \E g \in Routines : InClose(g)

LEMMA BodyStep ==
  ASSUME IInv, BodyInv, [Next]_vars
  PROVE  BodyInv'
<1> USE DEF IInv, TypeOK, CloseTypes, BodyInv, InClose, Goto
<1>1. CASE Start
  BY <1>1, StartFrame DEF closeVars, waitVars
<1>2. ASSUME NEW s \in Servers, ServerStep(s) PROVE BodyInv'
  <2>1. UNCHANGED <<once, exited, waitVars>>
    BY <1>2 DEF ServerStep, Serve, ServeReturns, PushResult, PushThen
  <2>2. \A g \in Routines : InClose(g) => gpc'[g] = gpc[g]
    BY <1>2 DEF ServerStep, Serve, ServeReturns, PushResult, PushThen
  <2> QED
    BY <2>1, <2>2 DEF waitVars
<1>3. CASE WatchContext \/ MainCloses
  BY <1>3 DEF WatchContext, MainCloses, waitVars
<1>4. ASSUME NEW g \in Routines, Close(g) PROVE BodyInv'
  <2>1. UNCHANGED waitVars /\ (exited => exited')
    BY <1>4 DEF Close, CloseEnter, OnceDo, ShutdownServer, ShutdownAll, CloseRetire, DropKey, CloseExit
  <2>2. once' = "running" => \E h \in Routines : InClose(h)'
    <3>1. CASE CloseEnter(g)
      BY <3>1 DEF CloseEnter, OnceDo
    <3>2. CASE CloseExit(g)
      BY <3>2 DEF CloseExit
    <3>3. CASE ~CloseEnter(g) /\ ~CloseExit(g)
      BY <1>4, <3>3 DEF Close, ShutdownServer, ShutdownAll, CloseRetire, DropKey
    <3> QED
      BY <3>1, <3>2, <3>3
  <2> QED
    BY <2>1, <2>2 DEF waitVars
<1>5. CASE WaitExited \/ WaitCollect
  BY <1>5 DEF WaitExited, WaitCollect, CollectUpTo, closeVars
<1>6. ASSUME NEW c \in Conns, HandlerStep(c) PROVE BodyInv'
  BY <1>6, HandlerFrame DEF closeVars, waitVars
<1>7. CASE EnvironmentStep
  BY <1>7, EnvironmentFrame DEF closeVars, waitVars
<1>8. CASE UNCHANGED vars
  BY <1>8 DEF vars
<1> QED
  BY <1>1, <1>2, <1>3, <1>4, <1>5, <1>6, <1>7, <1>8, StepKinds DEF RoutineStep

\* Nobody waits, directly or not, for somebody who waits for him.  A serve loop
\* never waits to report.  Wait waits for a serve loop that was told to stop; a
\* second caller of Close for the one in the body of the once; that one for the
\* holder of b.mu; the holder of b.mu for the signer, or is himself inside; and
\* the holder of the gate for nobody.
NoCircularWait ==
  /\ \A s \in Servers : gpc[s] = "push" => Len(errs) < 2
  /\ wpc = "collect" /\ errs = <<>> =>
       \E s \in Servers : gpc[s] \in {"start", "serving", "push"} /\ down[s]
  /\ once = "running" => \E g \in Routines : InClose(g)
  /\ mu # NoOne => /\ mu \in Conns
                   /\ \/ at[mu] = "inside" /\ gate = mu
                      \/ at[mu] = "locked" /\ (gate = NoOne \/ (gate = "piv" /\ piv))
  /\ gate # NoOne => \/ gate = "piv" /\ piv
                     \/ gate = "start" /\ stage = "key"
                     \/ gate = mu /\ at[mu] = "inside"

\* No deadlock: the waits form a chain that ends at somebody who can go on.
THEOREM WaitsAreOrdered == Spec => []NoCircularWait
<1>1. ASSUME IInv, BodyInv PROVE NoCircularWait
  <2> USE <1>1 DEF IInv, TypeOK
  <2>1. ASSUME NEW s \in Servers, gpc[s] = "push" PROVE Len(errs) < 2
    BY <2>1 DEF ResultTypes, ResultInv, Pushed, Servers
  <2>2. ASSUME wpc = "collect", errs = <<>>
        PROVE  \E s \in Servers : gpc[s] \in {"start", "serving", "push"} /\ down[s]
    <3>1. PICK s \in Servers : ~Pushed(s)
      BY <2>2 DEF ResultTypes, ResultInv, Servers
    <3>2. down[s]
      BY <2>2 DEF BodyInv, OnceInv
    <3> QED
      BY <3>1, <3>2 DEF Pushed
  <2>3. once = "running" => \E g \in Routines : InClose(g)
    BY DEF BodyInv
  <2>4. ASSUME mu # NoOne
        PROVE  /\ mu \in Conns
               /\ \/ at[mu] = "inside" /\ gate = mu
                  \/ at[mu] = "locked" /\ (gate = NoOne \/ (gate = "piv" /\ piv))
    <3>1. mu \in Conns /\ at[mu] \in {"locked", "inside"}
      BY <2>4 DEF KeyTypes, LockInv
    <3>2. ASSUME at[mu] = "locked" PROVE gate \notin Conns
      BY <3>1, <3>2 DEF LockInv
    <3>3. gate # "start"
      BY <3>1, ConnsAssumption DEF LockInv, StartInv
    <3> QED
      BY <3>1, <3>2, <3>3 DEF KeyTypes, LockInv
  <2>5. gate # NoOne => \/ gate = "piv" /\ piv
                        \/ gate = "start" /\ stage = "key"
                        \/ gate = mu /\ at[mu] = "inside"
    BY ConnsAssumption DEF KeyTypes, LockInv
  <2> QED
    BY <2>1, <2>2, <2>3, <2>4, <2>5 DEF NoCircularWait
<1>2. Init => BodyInv
  BY DEF Init, BodyInv
<1>3. IInv /\ BodyInv /\ [Next]_vars => BodyInv'
  BY BodyStep
<1>4. Spec => []BodyInv
  BY <1>2, <1>3, Inductive, PTL DEF Spec
<1> QED
  BY <1>1, <1>4, Inductive, PTL

\* How many steps a routine has left at most, from each place, and Wait.
StepsFrom(pc) == CASE pc = "start" -> 8
                   [] pc = "serving" -> 7
                   [] pc \in {"wait", "push"} -> 6
                   [] pc = "close" -> 5
                   [] pc = "shut_ws" -> 4
                   [] pc = "shut_wss" -> 3
                   [] pc = "retire" -> 2
                   [] pc = "exit" -> 1
                   [] OTHER -> 0
WaitLeft == IF wpc = "blocked" THEN 3 ELSE 2 - received
Left == StepsFrom(gpc["ws"]) + StepsFrom(gpc["wss"]) + StepsFrom(gpc["watch"])
        + StepsFrom(gpc["main"]) + WaitLeft

\* The serve loops, the callers of Close and Wait only go forward: each of their
\* steps leaves fewer to be made, and no other step adds any.  So they make 31
\* at most, whatever the handlers do: what weak fairness of OneShot rests on.
OnlyForward == [][Left' <= Left /\ (RoutineStep => Left' < Left)]_vars

LEMMA StepsNat == \A pc : StepsFrom(pc) \in 0..8
BY DEF StepsFrom

LEMMA RoutineForward ==
  ASSUME IInv, RoutineStep
  PROVE  Left' \in Nat /\ Left' < Left
<1> USE DEF IInv, TypeOK, CloseTypes, ResultTypes, Goto, Routines, Servers
<1>1. WaitLeft \in 0..3
  BY DEF WaitLeft
<1>2. ASSUME NEW g \in Routines, NEW to, StepsFrom(to) < StepsFrom(gpc[g]),
             gpc' = [gpc EXCEPT ![g] = to], UNCHANGED waitVars
      PROVE  Left' \in Nat /\ Left' < Left
  <2>1. gpc'[g] = to /\ \A h \in Routines \ {g} : gpc'[h] = gpc[h]
    BY <1>2
  <2>2. WaitLeft' = WaitLeft
    BY <1>2 DEF waitVars, WaitLeft
  <2>3. /\ gpc'["ws"] = IF g = "ws" THEN to ELSE gpc["ws"]
        /\ gpc'["wss"] = IF g = "wss" THEN to ELSE gpc["wss"]
        /\ gpc'["watch"] = IF g = "watch" THEN to ELSE gpc["watch"]
        /\ gpc'["main"] = IF g = "main" THEN to ELSE gpc["main"]
    BY <2>1
  <2>4. g \in {"ws", "wss", "watch", "main"}
    OBVIOUS
  <2> QED
    BY ONLY <1>1, <1>2, <2>2, <2>3, <2>4, StepsNat DEF Left
<1>3. ASSUME NEW s \in Servers, ServerStep(s) PROVE Left' \in Nat /\ Left' < Left
  <2>1. PICK to : /\ gpc' = [gpc EXCEPT ![s] = to] /\ UNCHANGED waitVars
                  /\ \/ gpc[s] = "start" /\ to \in {"push", "serving"}
                     \/ gpc[s] = "serving" /\ to = "push"
                     \/ gpc[s] = "push" /\ to = "close"
    BY <1>3 DEF ServerStep, Serve, ServeReturns, PushResult, PushThen
  <2>2. StepsFrom(to) < StepsFrom(gpc[s])
    BY <2>1 DEF StepsFrom
  <2> QED
    BY <1>2, <2>1, <2>2
<1>4. CASE WatchContext \/ MainCloses
  <2>1. PICK g \in {"watch", "main"} : /\ gpc' = [gpc EXCEPT ![g] = "close"] /\ UNCHANGED waitVars
                                       /\ gpc[g] = "wait"
    BY <1>4 DEF WatchContext, MainCloses
  <2>2. StepsFrom("close") < StepsFrom(gpc[g])
    BY <2>1 DEF StepsFrom
  <2> QED
    BY <1>2, <2>1, <2>2
<1>5. ASSUME NEW g \in Routines, Close(g) PROVE Left' \in Nat /\ Left' < Left
  <2>1. PICK to : /\ gpc' = [gpc EXCEPT ![g] = to] /\ UNCHANGED waitVars
                  /\ \/ gpc[g] = "close" /\ to \in {"shut_ws", "closed"}
                     \/ gpc[g] = "shut_ws" /\ to = "shut_wss"
                     \/ gpc[g] = "shut_wss" /\ to = "retire"
                     \/ gpc[g] = "retire" /\ to = "exit"
                     \/ gpc[g] = "exit" /\ to = "closed"
    BY <1>5 DEF Close, CloseEnter, OnceDo, ShutdownServer, ShutdownAll, CloseRetire, DropKey,
                CloseExit
  <2>2. StepsFrom(to) < StepsFrom(gpc[g])
    BY <2>1 DEF StepsFrom
  <2> QED
    BY <1>2, <2>1, <2>2
<1>6. CASE WaitExited \/ WaitCollect
  <2>1. UNCHANGED gpc
    BY <1>6 DEF WaitExited, WaitCollect, CollectUpTo, closeVars
  <2>2. WaitLeft' < WaitLeft /\ WaitLeft' \in Nat
    BY <1>6 DEF WaitExited, WaitCollect, CollectUpTo, WaitLeft, ResultInv
  <2> QED
    BY ONLY <1>1, <2>1, <2>2, StepsNat DEF Left
<1> QED
  BY <1>3, <1>4, <1>5, <1>6 DEF RoutineStep

\* No livelock: 31 steps at the start, fewer with every step they make.
THEOREM RoutinesEnd == Spec => Left = 31 /\ [](Left \in Nat) /\ OnlyForward
<1>1. Init => Left = 31
  BY DEF Init, Left, StepsFrom, WaitLeft, Routines, Servers
<1>2. IInv => Left \in Nat
  <2>1. IInv => WaitLeft \in 0..3
    BY DEF IInv, TypeOK, ResultTypes, WaitLeft
  <2> QED
    BY <2>1, StepsNat DEF Left
<1>3. ASSUME IInv, [Next]_vars PROVE Left' <= Left /\ (RoutineStep => Left' < Left)
  <2>1. RoutineStep \/ UNCHANGED <<gpc, wpc, received>>
    BY <1>3, StepKinds, StartFrame, HandlerFrame, EnvironmentFrame DEF closeVars, waitVars, vars
  <2>2. UNCHANGED <<gpc, wpc, received>> => Left' = Left
    BY DEF Left, WaitLeft
  <2> QED
    BY <1>2, <1>3, <2>1, <2>2, RoutineForward
<1>4. IInv /\ [Next]_vars => [Left' <= Left /\ (RoutineStep => Left' < Left)]_vars
  BY <1>3
<1> QED
  BY <1>1, <1>2, <1>4, Inductive, PTL DEF Spec, OnlyForward

\* A Close that has returned, to whichever routine, is for good: from then on no
\* handler has the key or gets it, and no listener accepts a connection.
THEOREM ClosedForGood ==
  ASSUME NEW g \in Routines
  PROVE  Spec => [](gpc[g] = "closed" =>
                      [](/\ use = "nil"
                         /\ \A c \in Conns : at[c] = "out"
                         /\ \A s \in Servers : gpc[s] = "serving" => ln[s] = "closed"))
<1> DEFINE Closed == gpc[g] = "closed"
           Quiet  == /\ use = "nil"
                     /\ \A c \in Conns : at[c] = "out"
                     /\ \A s \in Servers : gpc[s] = "serving" => ln[s] = "closed"
<1>1. ClosedIsQuiet => (Closed => Quiet)
  BY DEF ClosedIsQuiet
<1>2. Closed /\ IInv /\ [Next]_vars => Closed'
  <2> SUFFICES ASSUME Closed, IInv, [Next]_vars PROVE Closed'
    OBVIOUS
  <2>1. CASE RoutineStep
    BY <2>1 DEF RoutineStep, ServerStep, Serve, ServeReturns, PushResult, PushThen, WatchContext,
       MainCloses, Close, CloseEnter, OnceDo, ShutdownServer, ShutdownAll, CloseRetire, DropKey,
       CloseExit, WaitExited, WaitCollect, CollectUpTo, Goto, closeVars, IInv, TypeOK, CloseTypes
  <2> QED
    BY <2>1, StepKinds, StartFrame, HandlerFrame, EnvironmentFrame DEF closeVars, vars
<1> HIDE DEF Closed, Quiet
<1> SUFFICES Spec => [](Closed => []Quiet)
  BY DEF Closed, Quiet
<1> QED
  BY <1>1, <1>2, Inductive, CloseQuiets, PTL DEF Spec
=============================================================================
