-------------------------- MODULE SignerSocketProofs --------------------------
(***************************************************************************)
(* Proofs about module SignerSocket, for any number of runs: what holds    *)
(* when two vaults may share a name, and what needs runs of one vault.     *)
(***************************************************************************)
EXTENDS SignerSocket, TLAPS

IInv == TypeOK /\ NoStaleSocket /\ BindsFreePath

\* Every action of one run.
Act(r) == OpenVault(r) \/ LockFails(r) \/ Step(r) \/ AskClose(r) \/ Crash(r)

LEMMA InitIInv == Init => IInv
BY RunsAssumption DEF Init, IInv, TypeOK, NoStaleSocket, BindsFreePath, MayOwn, Locked

LEMMA IInvStep == IInv /\ [Next]_vars => IInv'
<1> SUFFICES ASSUME IInv, [Next]_vars PROVE IInv'
  OBVIOUS
<1> USE RunsAssumption DEF IInv, TypeOK, Locked, Closing, Active, Goto
<1>1. ASSUME NEW r \in Runs, Act(r) PROVE TypeOK'
  <2>1. CASE OpenVault(r) \/ LockFails(r) \/ AskClose(r) \/ Crash(r)
    BY <2>1 DEF OpenVault, LockFails, AskClose, Crash
  <2>2. CASE Flock(r) \/ Dial(r) \/ RemoveOld(r) \/ Listen(r) \/ Chmod(r)
    BY <2>2 DEF Flock, FlockShared, Dial, DialThen, RemoveOld, Listen, Chmod, ChmodOr
  <2>3. CASE WriteConfig(r)
    BY <2>3 DEF WriteConfig
  <2>4. CASE Unlink(r) \/ CloseListener(r) \/ RemoveSocket(r) \/ RemoveConfig(r) \/ CloseVault(r)
    BY <2>4 DEF Unlink, CloseListener, RemoveSocket, RemoveConfig, CloseVault
  <2> QED
    BY <1>1, <2>1, <2>2, <2>3, <2>4 DEF Act, Step, StartStep, CloseStep
<1>2. ASSUME NEW r \in Runs, Act(r) PROVE NoStaleSocket'
  <2> USE DEF NoStaleSocket, MayOwn
  <2>1. CASE OpenVault(r) \/ LockFails(r) \/ AskClose(r) \/ Crash(r)
    BY <2>1 DEF OpenVault, LockFails, AskClose, Crash
  <2>2. CASE Flock(r) \/ Dial(r) \/ RemoveOld(r) \/ Listen(r) \/ Chmod(r)
    BY <2>2 DEF Flock, FlockShared, Dial, DialThen, RemoveOld, Listen, Chmod, ChmodOr
  <2>3. CASE WriteConfig(r)
    BY <2>3 DEF WriteConfig
  <2>4. CASE Unlink(r) \/ CloseListener(r) \/ RemoveSocket(r) \/ RemoveConfig(r) \/ CloseVault(r)
    BY <2>4 DEF Unlink, CloseListener, RemoveSocket, RemoveConfig, CloseVault
  <2> QED
    BY <1>2, <2>1, <2>2, <2>3, <2>4 DEF Act, Step, StartStep, CloseStep
\* Only a run that holds the lock binds the path, and it is not at "listen" after.
<1>3. ASSUME NEW r \in Runs, Act(r) PROVE BindsFreePath'
  <2> USE DEF BindsFreePath
  <2>1. CASE OpenVault(r) \/ LockFails(r) \/ AskClose(r) \/ Crash(r)
    BY <2>1 DEF OpenVault, LockFails, AskClose, Crash
  <2>2. CASE Flock(r) \/ Dial(r) \/ RemoveOld(r) \/ Chmod(r)
    BY <2>2 DEF Flock, FlockShared, Dial, DialThen, RemoveOld, Chmod, ChmodOr
  <2>3. CASE Listen(r)
    <3>1. \A s \in Runs : pc[s] = "listen" => s = r
      BY <2>3 DEF Listen
    <3> QED
      BY <2>3, <3>1 DEF Listen
  <2>4. CASE WriteConfig(r)
    BY <2>4 DEF WriteConfig
  <2>5. CASE Unlink(r) \/ CloseListener(r) \/ RemoveSocket(r) \/ RemoveConfig(r) \/ CloseVault(r)
    BY <2>5 DEF Unlink, CloseListener, RemoveSocket, RemoveConfig, CloseVault
  <2> QED
    BY <1>3, <2>1, <2>2, <2>3, <2>4, <2>5 DEF Act, Step, StartStep, CloseStep
<1>4. CASE UNCHANGED vars
  BY <1>4 DEF vars, NoStaleSocket, BindsFreePath
<1> QED
  BY <1>1, <1>2, <1>3, <1>4 DEF Next, Act

LEMMA Inductive == Spec => []IInv
BY InitIInv, IInvStep, PTL DEF Spec

\* The variables keep their types, and the lock is with the one run that is
\* between flock and return in listenUnix.
THEOREM TypeCorrect == Spec => []TypeOK
BY Inductive, PTL DEF IInv

\* A signer that was closed or did not start leaves no socket behind.
THEOREM NothingStale == Spec => []NoStaleSocket
BY Inductive, PTL DEF IInv

\* net.Listen in listenUnix finds the path free.
THEOREM BindsFree == Spec => []BindsFreePath
BY Inductive, PTL DEF IInv

-----------------------------------------------------------------------------
(* Runs of one vault.                                                       *)

Bound == {"chmod", "config", "up", "unlink"}

\* One run at a time is active; from binding to unlinking the path is its own.
AloneInv ==
  /\ \A r, s \in Runs : pc[r] \in Active /\ pc[s] \in Active => r = s
  /\ \A r \in Runs : pc[r] \in Bound => socket = r /\ r \in listening
  /\ \A r \in Runs : pc[r] \in {"idle", "opened", "config"} \cup Locked => r \notin wrote
  /\ \A r \in Runs : pc[r] = "up" /\ r \in wrote => config

\* A run that has begun never becomes idle again: who is alone was so before.
LEMMA AloneBefore == ASSUME IInv, [Next]_vars, OneVault' PROVE OneVault
<1> USE RunsAssumption DEF IInv, TypeOK, Goto
<1>1. \A r \in Runs : pc[r] # "idle" => pc'[r] # "idle"
  BY DEF Next, vars, Step, StartStep, CloseStep, OpenVault, LockFails, AskClose, Crash, Flock, FlockShared, Dial, DialThen,
     RemoveOld, Listen, Chmod, ChmodOr, WriteConfig, Unlink, CloseListener, RemoveSocket,
     RemoveConfig, CloseVault
<1> QED
  BY <1>1 DEF OneVault

\* A step of runs that are alone keeps their lives apart.
LEMMA AloneStep ==
  ASSUME OneVault', IInv, AloneInv, [Next]_vars
  PROVE  AloneInv'
<1> USE RunsAssumption DEF IInv, TypeOK, AloneInv, Bound, Locked, Closing, Active, Goto
<1>1. ASSUME NEW r \in Runs, OpenVault(r) PROVE AloneInv'
  <2>1. \A s \in Runs : pc[s] \notin Active
    <3>1. ASSUME NEW s \in Runs, pc[s] \in Active PROVE FALSE
      <4>1. pc'[r] = "opened" /\ pc'[s] # "idle"
        BY <1>1, <3>1 DEF OpenVault
      <4> QED
        BY <1>1, <3>1, <4>1 DEF OpenVault, HoldsVault, OneVault
    <3> QED
      BY <3>1
  <2> QED
    BY <1>1, <2>1 DEF OpenVault
<1>2. ASSUME NEW r \in Runs, LockFails(r) \/ AskClose(r) \/ Crash(r) PROVE AloneInv'
  BY <1>2 DEF LockFails, AskClose, Crash
<1>3. ASSUME NEW r \in Runs, Flock(r) \/ Dial(r) \/ RemoveOld(r) \/ Listen(r) \/ Chmod(r)
      PROVE  AloneInv'
  BY <1>3 DEF Flock, FlockShared, Dial, DialThen, RemoveOld, Listen, Chmod, ChmodOr
<1>4. ASSUME NEW r \in Runs, WriteConfig(r) PROVE AloneInv'
  <2>1. CASE Goto(r, "config", "up") /\ config' = TRUE /\ wrote' = wrote \cup {r}
    BY <1>4, <2>1 DEF WriteConfig
  <2>2. CASE Goto(r, "config", "up") /\ UNCHANGED <<config, wrote>>
    BY <1>4, <2>2 DEF WriteConfig
  <2>3. CASE Goto(r, "config", "unlink") /\ UNCHANGED wrote
    BY <1>4, <2>3 DEF WriteConfig
  <2> QED
    BY <1>4, <2>1, <2>2, <2>3 DEF WriteConfig
<1>5. ASSUME NEW r \in Runs, Unlink(r) \/ CloseListener(r) \/ RemoveSocket(r) \/ RemoveConfig(r) \/ CloseVault(r)
      PROVE  AloneInv'
  BY <1>5 DEF Unlink, CloseListener, RemoveSocket, RemoveConfig, CloseVault
<1>6. CASE UNCHANGED vars
  BY <1>6 DEF vars
<1> QED
  BY <1>1, <1>2, <1>3, <1>4, <1>5, <1>6 DEF Next, Step, StartStep, CloseStep

\* Successive runs of one vault, killed or closed at any point, never take the
\* socket or the config away from the one that is up.
THEOREM ReachableAlone == Spec => []Reachable
<1> DEFINE Alone == OneVault => AloneInv
<1>1. Init => Alone
  BY DEF Init, AloneInv, Active, Bound, Locked, Closing
<1>2. IInv /\ Alone /\ [Next]_vars => Alone'
  BY AloneStep, AloneBefore
<1>3. Alone => Reachable
  BY DEF AloneInv, Bound, Reachable
<1> QED
  BY Inductive, <1>1, <1>2, <1>3, PTL DEF Spec
=============================================================================
