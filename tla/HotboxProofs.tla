---------------------------- MODULE HotboxProofs ----------------------------
(***************************************************************************)
(* Proofs about Hotbox for any vaults and any command lines: what is open  *)
(* or running at each point of the start follows from where the main       *)
(* goroutine is, and every way out closes it in the right order.           *)
(***************************************************************************)
EXTENDS Hotbox, SequenceTheorems, TLAPS

Idle(v) == /\ vault[v] = "shut" /\ bunker[v] = "none" /\ token[v] = "none"
           /\ lsn[v] = {} /\ v \notin secret /\ v \notin fault
           /\ use[v] = "nobody"

Differ(j, k) == args[j] # args[k] /\ Label[args[j]] # Label[args[k]]

\* What the two ways to run have to themselves.
Modes ==
  /\ mode = "create" => args = <<New>> /\ pc \notin {"check", "unlock", "open", "claim"}
  /\ mode = "open" => pc \notin {"ask", "create", "report"}

\* Vaults that differ are taken one after the other: those before cur were
\* started, those after it and those not named are untouched.
Order ==
  /\ pc = "check" => /\ \A v \in Vaults : Idle(v)
                     /\ \A j, k \in 1..(i - 1) : j # k => Differ(j, k)
  /\ pc \in (Starting \ {"check"}) \cup Serving =>
       \A j, k \in 1..Len(args) : j # k => Differ(j, k)
  /\ pc \in Starting => \A k \in 1..Len(args) : k > i => Idle(args[k])
  /\ pc \in Starting \ {"check"} => \A k \in 1..(i - 1) : bunker[args[k]] # "none"
  /\ pc \in Serving => \A k \in 1..Len(args) : bunker[args[k]] # "none"
  /\ \A v \in Vaults : Idle(v) \/ \E k \in 1..Len(args) : v = args[k]

\* What main has of the vault it is at.
Holding == {"claim", "listen_ws", "listen_wss", "create", "report", "token", "bunker"}
Stage ==
  /\ pc \in Prompts \cup {"open"} => Idle(cur)
  /\ pc \in Holding =>
       /\ bunker[cur] = "none" /\ cur \notin fault
       /\ vault[cur] = IF mode = "create" /\ pc \in {"listen_ws", "listen_wss", "create"}
                         THEN "shut" ELSE "open"
       /\ lsn[cur] = IF pc \in {"claim", "listen_ws"} THEN {}
                     ELSE IF pc = "listen_wss" THEN {"ws"} ELSE Sockets
       /\ pc # "bunker" => token[cur] = "none"

\* Who is responsible for a listener, a signer and a capability.
Owned ==
  \A v \in Vaults :
    /\ lsn[v] # {} => \/ bunker[v] = "up"
                      \/ bunker[v] = "none" /\ v = cur /\ pc \in Holding
                      \/ bunker[v] = "none" /\ mode = "create" /\ pc \in Ending
    /\ token[v] = "up" => bunker[v] # "none" \/ (v = cur /\ pc = "bunker")
    /\ v \in secret => \/ v = cur /\ pc \in Holding
                       \/ /\ pc \in Ending /\ mode = "create"
                          /\ bunker[v] = "none" /\ token[v] = "none"

\* What each step of the way out has closed.
Closing ==
  /\ pc \in {"vaults", "release", "ended"} =>
       \A v \in Vaults : bunker[v] # "up" /\ token[v] # "up"
  /\ pc \in {"release", "ended"} => \A v \in Vaults : vault[v] # "open"
  /\ pc = "ended" => \A v \in Vaults : lsn[v] = {}

\* Started vaults have claimed their ports.
Claims ==
  /\ \A v, w \in Vaults : v # w /\ bunker[v] # "none" /\ bunker[w] # "none" =>
       Ports(v) \cap Ports(w) = {} /\ Label[v] # Label[w]
  /\ mode = "open" => \A v \in Vaults : bunker[v] # "none" => Ports(v) \subseteq claimed
  /\ mode = "open" /\ pc \in Holding \ {"claim"} =>
       /\ Ports(cur) \subseteq claimed
       /\ \A v \in Vaults : bunker[v] # "none" => Ports(v) \cap Ports(cur) = {}

\* A started bunker listens, or was stopped for a reason.
Listening ==
  \A v \in Vaults :
    /\ bunker[v] = "up" => lsn[v] = Sockets \/ v \in fault
    /\ bunker[v] = "closed" /\ pc \in Starting \cup {"print", "notify"} => cancelled \/ v \in fault

\* What of the bunkers' results main has.
Results ==
  /\ pc \in Starting \cup {"print", "notify"} => ~err /\ ~ready
  /\ pc \in {"wait", "close", "collect"} => ready
  /\ ~ready => \A v \in Vaults : waiter[v] = "none"
  /\ ~ready /\ pc \in Ending => err
  /\ ready => (err <=> \E v \in Vaults : waiter[v] = "taken" /\ v \in fault)
  /\ \A v \in Vaults : waiter[v] \in {"sent", "taken"} => bunker[v] = "closed"
  /\ ready /\ pc \in Ending => \A k \in 1..Len(args) : waiter[args[k]] = "taken"

IInv == /\ TypeOK /\ Modes /\ Order /\ Stage /\ VaultsLast
        /\ Owned /\ Closing /\ Claims /\ Listening /\ Results

-----------------------------------------------------------------------------

\* The arguments are vaults.
LEMMA ArgsAreVaults == TypeOK => /\ Len(args) \in Nat
                                 /\ \A k \in 1..Len(args) : args[k] \in Vaults
                                 /\ i \in 1..Len(args) /\ cur \in Vaults
  BY DEF TypeOK, cur

\* The steps that close something, by what they close and when.
Closes(v) == \/ CloseBunkerOf(v) /\ (cancelled \/ v \in fault \/ pc \in {"close", "unwind"})
             \/ CloseTokenOf(v)
Stopped == MainGoes("close", "collect") /\ \A k \in 1..Len(args) : bunker[args[k]] # "up"
Quiet == /\ MainGoes("unwind", "vaults")
         /\ \A k \in 1..Len(args) : /\ bunker[args[k]] # "up"
                                    /\ token[args[k]] # "up" \/ bunker[args[k]] = "none"
ClosesVault(v) == pc = "vaults" /\ vault[v] = "open" /\ CloseVaultOf(v)
AllShut == MainGoes("vaults", "release") /\ \A k \in 1..Len(args) : vault[args[k]] # "open"

Steps == \/ CheckArgument \/ Prompt \/ OpenProfile \/ ReportKey \/ ClaimPorts \/ ListenPorts
         \/ StartToken \/ StartBunker \/ PrintEnv \/ NotifyReady
         \/ FirstResult \/ CollectRest \/ Collected
         \/ \E v \in Vaults : Closes(v)
         \/ Stopped \/ Quiet
         \/ \E v \in Vaults : ClosesVault(v)
         \/ AllShut \/ Release \/ Cancel
         \/ \E v \in Vaults : WaitReturns(v)
         \/ \E v \in Vaults : ListenerFails(v)
         \/ \E v \in Vaults : BunkerUse(v) \/ TokenRequest(v) \/ TokenUse(v) \/ KeyDone(v)

LEMMA NextIsSteps == TypeOK /\ Next => Steps
<1> SUFFICES ASSUME TypeOK, Next PROVE Steps
  OBVIOUS
<1> USE ArgsAreVaults DEF Steps
<1>1. CASE CloseBunkers
  BY <1>1 DEF CloseBunkers, Closes, Stopped, BunkersUp, FirstOf
<1>2. CASE CloseRunning
  <2>1. CASE pc = "unwind" /\ \E k \in BunkersUp \cup TokensUp :
                CloseBunkerOf(args[k]) \/ CloseTokenOf(args[k])
    BY <2>1 DEF Closes, BunkersUp, TokensUp
  <2>2. CASE BunkersUp \cup TokensUp = {} /\ MainGoes("unwind", "vaults")
    BY <2>2 DEF Quiet, BunkersUp, TokensUp
  <2> QED BY <1>2, <2>1, <2>2 DEF CloseRunning
<1>3. CASE CloseVaults
  <2>1. CASE pc = "vaults" /\ \E k \in VaultsOpen : CloseVaultOf(args[k])
    BY <2>1 DEF ClosesVault, VaultsOpen
  <2>2. CASE VaultsOpen = {} /\ MainGoes("vaults", "release")
    BY <2>2 DEF AllShut, VaultsOpen
  <2> QED BY <1>3, <2>1, <2>2 DEF CloseVaults
<1>4. CASE \E v \in Vaults : WatchBunker(v) \/ WatchToken(v)
  BY <1>4 DEF WatchBunker, WatchContext, ServeReturns, WatchToken, Closes
<1> QED BY <1>1, <1>2, <1>3, <1>4 DEF Next, Main

USE DEF Sockets, Prompts, Starting, Serving, Ending

\* Every step keeps TypeOK: what has its type keeps it.
LEMMA TypeOKKept == IInv /\ [Next]_vars => TypeOK'
<1> SUFFICES ASSUME IInv, [Next]_vars PROVE TypeOK'
  OBVIOUS
<1> USE ArgsAreVaults DEF IInv, TypeOK, cur, vars, mainVars, vaultVars, serveVars
<1>1. CASE CheckArgument
  <2>1. i' \in 1..Len(args') /\ args' = args
    BY <1>1 DEF CheckArgument, CheckWith, SamePath, SameLabel, Fail
  <2>2. pc' \in {"unwind", "unlock", "check"} /\ err' \in BOOLEAN
    BY <1>1 DEF CheckArgument, CheckWith, SamePath, SameLabel, Fail
  <2> QED BY <1>1, <2>1, <2>2 DEF CheckArgument, CheckWith
<1>2. CASE Prompt
  BY <1>2 DEF Prompt, Goto, Fail
<1>3. CASE OpenProfile
  BY <1>3 DEF OpenProfile, HoldCapability, Goto, Fail
<1>4. CASE ReportKey
  BY <1>4 DEF ReportKey, Goto, Fail
<1>5. CASE ClaimPorts
  <2>1. claimed' \subseteq UNION {Ports(v) : v \in Vaults}
    BY <1>5 DEF ClaimPorts, ClaimUnless, WipeAnd, Goto, Fail
  <2>2. pc' \in {"unwind", "listen_ws"} /\ err' \in BOOLEAN /\ i' = i /\ secret' \subseteq Vaults
    BY <1>5 DEF ClaimPorts, ClaimUnless, WipeAnd, Goto, Fail
  <2> QED BY <1>5, <2>1, <2>2 DEF ClaimPorts, ClaimUnless
<1>6. CASE ListenPorts
  <2>1. lsn' \in [Vaults -> SUBSET Sockets]
    BY <1>6 DEF ListenPorts, Listen, WipeAnd, Goto, Fail
  <2>2. /\ pc' \in {"unwind", "listen_wss", "create", "token"} /\ err' \in BOOLEAN /\ i' = i
        /\ secret' \subseteq Vaults
    BY <1>6 DEF ListenPorts, Listen, WipeAnd, Goto, Fail
  <2> QED BY <1>6, <2>1, <2>2 DEF ListenPorts, Listen
<1>7. CASE StartToken
  <2>1. lsn' \in [Vaults -> SUBSET Sockets] /\ token' \in [Vaults -> {"none", "up", "closed"}]
    BY <1>7 DEF StartToken, StartTokenLeaving, WipeAnd, Goto, Fail
  <2>2. pc' \in {"unwind", "bunker"} /\ err' \in BOOLEAN /\ i' = i /\ secret' \subseteq Vaults
    BY <1>7 DEF StartToken, StartTokenLeaving, WipeAnd, Goto, Fail
  <2> QED BY <1>7, <2>1, <2>2 DEF StartToken, StartTokenLeaving
<1>8. CASE StartBunker
  <2>1. /\ lsn' \in [Vaults -> SUBSET Sockets]
        /\ token' \in [Vaults -> {"none", "up", "closed"}]
        /\ bunker' \in [Vaults -> {"none", "up", "closed"}]
    BY <1>8 DEF StartBunker, StartBunkerOr, Closed, WipeAnd, Fail
  <2>2. pc' \in {"unwind", "print", "unlock"} /\ err' \in BOOLEAN /\ secret' \subseteq Vaults
    BY <1>8 DEF StartBunker, StartBunkerOr, WipeAnd, Fail
  <2>3. i' = i \/ (i # Len(args) /\ i' = i + 1)
    BY <1>8 DEF StartBunker, StartBunkerOr, Fail
  <2>4. i' \in 1..Len(args)
    BY <2>3
  <2> QED BY <1>8, <2>1, <2>2, <2>4 DEF StartBunker, StartBunkerOr
<1>9. CASE PrintEnv
  BY <1>9 DEF PrintEnv, Goto
<1>10. CASE NotifyReady
  BY <1>10 DEF NotifyReady, Goto, Fail
<1>11. CASE FirstResult
  BY <1>11 DEF FirstResult, TakeResult
<1>12. CASE CollectRest
  BY <1>12 DEF CollectRest, TakeResult
<1>13. CASE Collected
  BY <1>13 DEF Collected, MainGoes, Goto
<1>14. CASE \E v \in Vaults : Closes(v)
  BY <1>14 DEF Closes, CloseBunkerOf, CloseTokenOf
<1>15. CASE Stopped
  BY <1>15 DEF Stopped, MainGoes, Goto
<1>16. CASE Quiet
  BY <1>16 DEF Quiet, MainGoes, Goto
<1>17. CASE \E v \in Vaults : ClosesVault(v)
  BY <1>17 DEF ClosesVault, CloseVaultOf
<1>18. CASE AllShut
  BY <1>18 DEF AllShut, MainGoes, Goto
<1>19. CASE Release
  BY <1>19 DEF Release, Goto
<1>20. CASE Cancel
  BY <1>20 DEF Cancel
<1>21. CASE \E v \in Vaults : WaitReturns(v)
  BY <1>21 DEF WaitReturns
<1>22. CASE \E v \in Vaults : ListenerFails(v)
  BY <1>22 DEF ListenerFails
<1>23. CASE \E v \in Vaults : BunkerUse(v) \/ TokenRequest(v) \/ TokenUse(v) \/ KeyDone(v)
  <2>1. /\ use' \in [Vaults -> {"nobody", "bunker", "token"}]
        /\ request' \in [Vaults -> BOOLEAN]
    BY <1>23 DEF BunkerUse, TokenRequest, TokenUse, TokenUseWhen, KeyDone, SetUse
  <2>2. UNCHANGED <<mainVars, vault, secret, serveVars, waiter, cancelled, ready>>
    BY <1>23 DEF BunkerUse, TokenRequest, TokenUse, TokenUseWhen, KeyDone, SetUse
  <2> QED BY <2>1, <2>2
<1>24. CASE UNCHANGED vars
  BY <1>24
<1> QED BY NextIsSteps, <1>1, <1>2, <1>3, <1>4, <1>5, <1>6, <1>7, <1>8, <1>9, <1>10, <1>11, <1>12, <1>13, <1>14, <1>15, <1>16, <1>17, <1>18, <1>19, <1>20, <1>21, <1>22, <1>23, <1>24 DEF Steps

\* Every step keeps Modes: the two ways to run keep apart.
LEMMA ModesKept == IInv /\ [Next]_vars => Modes'
<1> SUFFICES ASSUME IInv, [Next]_vars PROVE Modes'
  OBVIOUS
<1> USE ArgsAreVaults DEF IInv, TypeOK, cur, vars, mainVars, vaultVars, serveVars
<1>1. CASE CheckArgument
  BY <1>1 DEF CheckArgument, CheckWith, SamePath, SameLabel, Fail, Modes
<1>2. CASE Prompt
  BY <1>2 DEF Prompt, Goto, Fail, Modes
<1>3. CASE OpenProfile
  BY <1>3 DEF OpenProfile, HoldCapability, Goto, Fail, Modes
<1>4. CASE ReportKey
  BY <1>4 DEF ReportKey, Goto, Fail, Modes
<1>5. CASE ClaimPorts
  BY <1>5 DEF ClaimPorts, ClaimUnless, WipeAnd, Goto, Fail, Modes
<1>6. CASE ListenPorts
  BY <1>6 DEF ListenPorts, Listen, WipeAnd, Goto, Fail, Modes
<1>7. CASE StartToken
  BY <1>7 DEF StartToken, StartTokenLeaving, WipeAnd, Goto, Fail, Modes
<1>8. CASE StartBunker
  BY <1>8 DEF StartBunker, StartBunkerOr, Closed, WipeAnd, Fail, Modes
<1>9. CASE PrintEnv
  BY <1>9 DEF PrintEnv, Goto, Modes
<1>10. CASE NotifyReady
  BY <1>10 DEF NotifyReady, Goto, Fail, Modes
<1>11. CASE FirstResult
  BY <1>11 DEF FirstResult, TakeResult, Modes
<1>12. CASE CollectRest
  BY <1>12 DEF CollectRest, TakeResult, Modes
<1>13. CASE Collected
  BY <1>13 DEF Collected, MainGoes, Goto, Modes
<1>14. CASE \E v \in Vaults : Closes(v)
  BY <1>14 DEF Closes, CloseBunkerOf, CloseTokenOf, Modes
<1>15. CASE Stopped
  BY <1>15 DEF Stopped, MainGoes, Goto, Modes
<1>16. CASE Quiet
  BY <1>16 DEF Quiet, MainGoes, Goto, Modes
<1>17. CASE \E v \in Vaults : ClosesVault(v)
  BY <1>17 DEF ClosesVault, CloseVaultOf, Modes
<1>18. CASE AllShut
  BY <1>18 DEF AllShut, MainGoes, Goto, Modes
<1>19. CASE Release
  BY <1>19 DEF Release, Goto, Modes
<1>20. CASE Cancel
  BY <1>20 DEF Cancel, Modes
<1>21. CASE \E v \in Vaults : WaitReturns(v)
  BY <1>21 DEF WaitReturns, Modes
<1>22. CASE \E v \in Vaults : ListenerFails(v)
  BY <1>22 DEF ListenerFails, Modes
<1>23. CASE \E v \in Vaults : BunkerUse(v) \/ TokenRequest(v) \/ TokenUse(v) \/ KeyDone(v)
  BY <1>23 DEF BunkerUse, TokenRequest, TokenUse, TokenUseWhen, KeyDone, SetUse, Modes
<1>24. CASE UNCHANGED vars
  BY <1>24 DEF Modes
<1> QED BY NextIsSteps, <1>1, <1>2, <1>3, <1>4, <1>5, <1>6, <1>7, <1>8, <1>9, <1>10, <1>11, <1>12, <1>13, <1>14, <1>15, <1>16, <1>17, <1>18, <1>19, <1>20, <1>21, <1>22, <1>23, <1>24 DEF Steps

\* Every step keeps Order: vaults are taken one after the other.
LEMMA OrderKept == IInv /\ [Next]_vars => Order'
<1> SUFFICES ASSUME IInv, [Next]_vars PROVE Order'
  OBVIOUS
<1> USE ArgsAreVaults DEF IInv, TypeOK, cur, vars, mainVars, vaultVars, serveVars
<1>1. CASE CheckArgument
  BY <1>1 DEF CheckArgument, CheckWith, SamePath, SameLabel, Fail, Order, Idle, Differ, Modes, Stage, Holding
<1>2. CASE Prompt
  BY <1>2 DEF Prompt, Goto, Fail, Order, Idle, Differ, Modes, Stage, Holding
<1>3. CASE OpenProfile
  BY <1>3 DEF OpenProfile, HoldCapability, Goto, Fail, Order, Idle, Differ, Modes, Stage, Holding
<1>4. CASE ReportKey
  BY <1>4 DEF ReportKey, Goto, Fail, Order, Idle, Differ, Modes, Stage, Holding
<1>5. CASE ClaimPorts
  BY <1>5 DEF ClaimPorts, ClaimUnless, WipeAnd, Goto, Fail, Order, Idle, Differ, Modes, Stage, Holding
<1>6. CASE ListenPorts
  BY <1>6 DEF ListenPorts, Listen, WipeAnd, Goto, Fail, Order, Idle, Differ, Modes, Stage, Holding
<1>7. CASE StartToken
  BY <1>7 DEF StartToken, StartTokenLeaving, WipeAnd, Goto, Fail, Order, Idle, Differ, Modes, Stage, Holding
<1>8. CASE StartBunker
  BY <1>8 DEF StartBunker, StartBunkerOr, Closed, WipeAnd, Fail, Order, Idle, Differ, Modes, Stage, Holding
<1>9. CASE PrintEnv
  BY <1>9 DEF PrintEnv, Goto, Order, Idle, Differ, Modes, Stage, Holding
<1>10. CASE NotifyReady
  BY <1>10 DEF NotifyReady, Goto, Fail, Order, Idle, Differ, Modes, Stage, Holding
<1>11. CASE FirstResult
  BY <1>11 DEF FirstResult, TakeResult, Order, Idle, Differ, Modes, Stage, Holding
<1>12. CASE CollectRest
  BY <1>12 DEF CollectRest, TakeResult, Order, Idle, Differ, Modes, Stage, Holding
<1>13. CASE Collected
  BY <1>13 DEF Collected, MainGoes, Goto, Order, Idle, Differ, Modes, Stage, Holding
<1>14. CASE \E v \in Vaults : Closes(v)
  <2>1. \A w \in Vaults : (Idle(w) => Idle(w)') /\ (bunker[w] # "none" => bunker'[w] # "none")
    BY <1>14 DEF Closes, CloseBunkerOf, CloseTokenOf, Idle
  <2>2. UNCHANGED <<mode, args, pc, i>>
    BY <1>14 DEF Closes, CloseBunkerOf, CloseTokenOf
  <2>3. \A k \in 1..Len(args) : args'[k] \in Vaults
    BY <2>2
  <2> QED BY <2>1, <2>2, <2>3 DEF Order, Differ, Idle
<1>15. CASE Stopped
  BY <1>15 DEF Stopped, MainGoes, Goto, Order, Idle, Differ, Modes, Stage, Holding
<1>16. CASE Quiet
  BY <1>16 DEF Quiet, MainGoes, Goto, Order, Idle, Differ, Modes, Stage, Holding
<1>17. CASE \E v \in Vaults : ClosesVault(v)
  BY <1>17 DEF ClosesVault, CloseVaultOf, Order, Idle, Differ, Modes, Stage, Holding
<1>18. CASE AllShut
  BY <1>18 DEF AllShut, MainGoes, Goto, Order, Idle, Differ, Modes, Stage, Holding
<1>19. CASE Release
  BY <1>19 DEF Release, Goto, Order, Idle, Differ, Modes, Stage, Holding
<1>20. CASE Cancel
  BY <1>20 DEF Cancel, Order, Idle, Differ, Modes, Stage, Holding
<1>21. CASE \E v \in Vaults : WaitReturns(v)
  BY <1>21 DEF WaitReturns, Order, Idle, Differ, Modes, Stage, Holding
<1>22. CASE \E v \in Vaults : ListenerFails(v)
  BY <1>22 DEF ListenerFails, Order, Idle, Differ, Modes, Stage, Holding
<1>23. CASE \E v \in Vaults : BunkerUse(v) \/ TokenRequest(v) \/ TokenUse(v) \/ KeyDone(v)
  BY <1>23 DEF BunkerUse, TokenRequest, TokenUse, TokenUseWhen, KeyDone, SetUse, Order, Idle, Differ, Modes, Stage, Holding
<1>24. CASE UNCHANGED vars
  BY <1>24 DEF Order, Idle, Differ, Modes, Stage, Holding
<1> QED BY NextIsSteps, <1>1, <1>2, <1>3, <1>4, <1>5, <1>6, <1>7, <1>8, <1>9, <1>10, <1>11, <1>12, <1>13, <1>14, <1>15, <1>16, <1>17, <1>18, <1>19, <1>20, <1>21, <1>22, <1>23, <1>24 DEF Steps

\* Every step keeps Stage: main has of a vault what its place says.
LEMMA StageKept == IInv /\ [Next]_vars => Stage'
<1> SUFFICES ASSUME IInv, [Next]_vars PROVE Stage'
  OBVIOUS
<1> USE ArgsAreVaults DEF IInv, TypeOK, cur, vars, mainVars, vaultVars, serveVars
<1>1. CASE CheckArgument
  BY <1>1 DEF CheckArgument, CheckWith, SamePath, SameLabel, Fail, Stage, Idle, Differ, Modes, Order, Holding
<1>2. CASE Prompt
  BY <1>2 DEF Prompt, Goto, Fail, Stage, Idle, Differ, Modes, Order, Holding
<1>3. CASE OpenProfile
  <2>1. CASE pc' = "unwind"
    BY <1>3, <2>1 DEF OpenProfile, HoldCapability, Fail, Stage, Holding
  <2>2. CASE pc' = "claim" /\ pc = "open"
    BY <1>3, <2>2 DEF OpenProfile, HoldCapability, Goto, Fail, Stage, Idle, Modes, Holding
  <2>3. CASE pc' = "report" /\ pc = "create"
    BY <1>3, <2>3 DEF OpenProfile, HoldCapability, Goto, Fail, Stage, Modes, Holding
  <2> QED BY <1>3, <2>1, <2>2, <2>3 DEF OpenProfile, HoldCapability, Goto, Fail
<1>4. CASE ReportKey
  BY <1>4 DEF ReportKey, Goto, Fail, Stage, Idle, Differ, Modes, Order, Holding
<1>5. CASE ClaimPorts
  BY <1>5 DEF ClaimPorts, ClaimUnless, WipeAnd, Goto, Fail, Stage, Idle, Differ, Modes, Order, Holding
<1>6. CASE ListenPorts
  <2>1. CASE pc' = "unwind"
    BY <1>6, <2>1 DEF ListenPorts, Listen, Goto, Fail, Stage, Holding
  <2>2. CASE pc' = "listen_wss" /\ pc = "listen_ws"
    BY <1>6, <2>2 DEF ListenPorts, Listen, Goto, Fail, Stage, Holding
  <2>3. CASE pc' \in {"create", "token"} /\ pc = "listen_wss"
    <3>1. lsn'[cur] = Sockets /\ pc' = (IF mode = "create" THEN "create" ELSE "token")
      BY <1>6, <2>3 DEF ListenPorts, Listen, Goto, Fail, Stage, Holding
    <3>2. UNCHANGED <<mode, args, i, vault, bunker, token, fault>>
      BY <1>6, <2>3 DEF ListenPorts, Listen, Goto, Fail
    <3> QED BY <2>3, <3>1, <3>2 DEF Stage, Holding
  <2> QED BY <1>6, <2>1, <2>2, <2>3 DEF ListenPorts, Listen, Goto, Fail
<1>7. CASE StartToken
  BY <1>7 DEF StartToken, StartTokenLeaving, WipeAnd, Goto, Fail, Stage, Idle, Differ, Modes, Order, Holding
<1>8. CASE StartBunker
  BY <1>8 DEF StartBunker, StartBunkerOr, Closed, WipeAnd, Fail, Stage, Idle, Differ, Modes, Order, Holding
<1>9. CASE PrintEnv
  BY <1>9 DEF PrintEnv, Goto, Stage, Idle, Differ, Modes, Order, Holding
<1>10. CASE NotifyReady
  BY <1>10 DEF NotifyReady, Goto, Fail, Stage, Idle, Differ, Modes, Order, Holding
<1>11. CASE FirstResult
  BY <1>11 DEF FirstResult, TakeResult, Stage, Idle, Differ, Modes, Order, Holding
<1>12. CASE CollectRest
  BY <1>12 DEF CollectRest, TakeResult, Stage, Idle, Differ, Modes, Order, Holding
<1>13. CASE Collected
  BY <1>13 DEF Collected, MainGoes, Goto, Stage, Idle, Differ, Modes, Order, Holding
<1>14. CASE \E v \in Vaults : Closes(v)
  BY <1>14 DEF Closes, CloseBunkerOf, CloseTokenOf, Stage, Idle, Differ, Modes, Order, Holding
<1>15. CASE Stopped
  BY <1>15 DEF Stopped, MainGoes, Goto, Stage, Idle, Differ, Modes, Order, Holding
<1>16. CASE Quiet
  BY <1>16 DEF Quiet, MainGoes, Goto, Stage, Idle, Differ, Modes, Order, Holding
<1>17. CASE \E v \in Vaults : ClosesVault(v)
  BY <1>17 DEF ClosesVault, CloseVaultOf, Stage, Idle, Differ, Modes, Order, Holding
<1>18. CASE AllShut
  BY <1>18 DEF AllShut, MainGoes, Goto, Stage, Idle, Differ, Modes, Order, Holding
<1>19. CASE Release
  BY <1>19 DEF Release, Goto, Stage, Idle, Differ, Modes, Order, Holding
<1>20. CASE Cancel
  BY <1>20 DEF Cancel, Stage, Idle, Differ, Modes, Order, Holding
<1>21. CASE \E v \in Vaults : WaitReturns(v)
  BY <1>21 DEF WaitReturns, Stage, Idle, Differ, Modes, Order, Holding
<1>22. CASE \E v \in Vaults : ListenerFails(v)
  BY <1>22 DEF ListenerFails, Stage, Idle, Differ, Modes, Order, Holding
<1>23. CASE \E v \in Vaults : BunkerUse(v) \/ TokenRequest(v) \/ TokenUse(v) \/ KeyDone(v)
  BY <1>23 DEF BunkerUse, TokenRequest, TokenUse, TokenUseWhen, KeyDone, SetUse, Stage, Idle, Differ, Modes, Order, Holding
<1>24. CASE UNCHANGED vars
  BY <1>24 DEF Stage, Idle, Differ, Modes, Order, Holding
<1> QED BY NextIsSteps, <1>1, <1>2, <1>3, <1>4, <1>5, <1>6, <1>7, <1>8, <1>9, <1>10, <1>11, <1>12, <1>13, <1>14, <1>15, <1>16, <1>17, <1>18, <1>19, <1>20, <1>21, <1>22, <1>23, <1>24 DEF Steps

\* Every step keeps VaultsLast: a vault outlives its bunker, signer and callbacks.
LEMMA VaultsLastKept == IInv /\ [Next]_vars => VaultsLast'
<1> SUFFICES ASSUME IInv, [Next]_vars PROVE VaultsLast'
  OBVIOUS
<1> USE ArgsAreVaults DEF IInv, TypeOK, cur, vars, mainVars, vaultVars, serveVars
<1>1. CASE CheckArgument
  BY <1>1 DEF CheckArgument, CheckWith, SamePath, SameLabel, Fail, VaultsLast, Stage, Order, Idle, Closing, Holding
<1>2. CASE Prompt
  BY <1>2 DEF Prompt, Goto, Fail, VaultsLast, Stage, Order, Idle, Closing, Holding
<1>3. CASE OpenProfile
  BY <1>3 DEF OpenProfile, HoldCapability, Goto, Fail, VaultsLast, Stage, Order, Idle, Closing, Holding
<1>4. CASE ReportKey
  BY <1>4 DEF ReportKey, Goto, Fail, VaultsLast, Stage, Order, Idle, Closing, Holding
<1>5. CASE ClaimPorts
  BY <1>5 DEF ClaimPorts, ClaimUnless, WipeAnd, Goto, Fail, VaultsLast, Stage, Order, Idle, Closing, Holding
<1>6. CASE ListenPorts
  BY <1>6 DEF ListenPorts, Listen, WipeAnd, Goto, Fail, VaultsLast, Stage, Order, Idle, Closing, Holding
<1>7. CASE StartToken
  BY <1>7 DEF StartToken, StartTokenLeaving, WipeAnd, Goto, Fail, VaultsLast, Stage, Order, Idle, Closing, Holding
<1>8. CASE StartBunker
  BY <1>8 DEF StartBunker, StartBunkerOr, Closed, WipeAnd, Fail, VaultsLast, Stage, Order, Idle, Closing, Holding
<1>9. CASE PrintEnv
  BY <1>9 DEF PrintEnv, Goto, VaultsLast, Stage, Order, Idle, Closing, Holding
<1>10. CASE NotifyReady
  BY <1>10 DEF NotifyReady, Goto, Fail, VaultsLast, Stage, Order, Idle, Closing, Holding
<1>11. CASE FirstResult
  BY <1>11 DEF FirstResult, TakeResult, VaultsLast, Stage, Order, Idle, Closing, Holding
<1>12. CASE CollectRest
  BY <1>12 DEF CollectRest, TakeResult, VaultsLast, Stage, Order, Idle, Closing, Holding
<1>13. CASE Collected
  BY <1>13 DEF Collected, MainGoes, Goto, VaultsLast, Stage, Order, Idle, Closing, Holding
<1>14. CASE \E v \in Vaults : Closes(v)
  BY <1>14 DEF Closes, CloseBunkerOf, CloseTokenOf, VaultsLast, Stage, Order, Idle, Closing, Holding
<1>15. CASE Stopped
  BY <1>15 DEF Stopped, MainGoes, Goto, VaultsLast, Stage, Order, Idle, Closing, Holding
<1>16. CASE Quiet
  BY <1>16 DEF Quiet, MainGoes, Goto, VaultsLast, Stage, Order, Idle, Closing, Holding
<1>17. CASE \E v \in Vaults : ClosesVault(v)
  BY <1>17 DEF ClosesVault, CloseVaultOf, VaultsLast, Stage, Order, Idle, Closing, Holding
<1>18. CASE AllShut
  BY <1>18 DEF AllShut, MainGoes, Goto, VaultsLast, Stage, Order, Idle, Closing, Holding
<1>19. CASE Release
  BY <1>19 DEF Release, Goto, VaultsLast, Stage, Order, Idle, Closing, Holding
<1>20. CASE Cancel
  BY <1>20 DEF Cancel, VaultsLast, Stage, Order, Idle, Closing, Holding
<1>21. CASE \E v \in Vaults : WaitReturns(v)
  BY <1>21 DEF WaitReturns, VaultsLast, Stage, Order, Idle, Closing, Holding
<1>22. CASE \E v \in Vaults : ListenerFails(v)
  BY <1>22 DEF ListenerFails, VaultsLast, Stage, Order, Idle, Closing, Holding
<1>23. CASE \E v \in Vaults : BunkerUse(v) \/ TokenRequest(v) \/ TokenUse(v) \/ KeyDone(v)
  BY <1>23 DEF BunkerUse, TokenRequest, TokenUse, TokenUseWhen, KeyDone, SetUse, VaultsLast, Stage, Order, Idle, Closing, Holding
<1>24. CASE UNCHANGED vars
  BY <1>24 DEF VaultsLast, Stage, Order, Idle, Closing, Holding
<1> QED BY NextIsSteps, <1>1, <1>2, <1>3, <1>4, <1>5, <1>6, <1>7, <1>8, <1>9, <1>10, <1>11, <1>12, <1>13, <1>14, <1>15, <1>16, <1>17, <1>18, <1>19, <1>20, <1>21, <1>22, <1>23, <1>24 DEF Steps

\* Every step keeps Owned: somebody closes every listener, signer and capability.
LEMMA OwnedKept == IInv /\ [Next]_vars => Owned'
<1> SUFFICES ASSUME IInv, [Next]_vars PROVE Owned'
  OBVIOUS
<1> USE ArgsAreVaults DEF IInv, TypeOK, cur, vars, mainVars, vaultVars, serveVars
<1>1. CASE CheckArgument
  BY <1>1 DEF CheckArgument, CheckWith, SamePath, SameLabel, Fail, Owned, Stage, Order, Idle, Modes, Holding
<1>2. CASE Prompt
  BY <1>2 DEF Prompt, Goto, Fail, Owned, Stage, Order, Idle, Modes, Holding
<1>3. CASE OpenProfile
  BY <1>3 DEF OpenProfile, HoldCapability, Goto, Fail, Owned, Stage, Order, Idle, Modes, Holding
<1>4. CASE ReportKey
  BY <1>4 DEF ReportKey, Goto, Fail, Owned, Stage, Order, Idle, Modes, Holding
<1>5. CASE ClaimPorts
  BY <1>5 DEF ClaimPorts, ClaimUnless, WipeAnd, Goto, Fail, Owned, Stage, Order, Idle, Modes, Holding
<1>6. CASE ListenPorts
  BY <1>6 DEF ListenPorts, Listen, WipeAnd, Goto, Fail, Owned, Stage, Order, Idle, Modes, Holding
<1>7. CASE StartToken
  BY <1>7 DEF StartToken, StartTokenLeaving, WipeAnd, Goto, Fail, Owned, Stage, Order, Idle, Modes, Holding
<1>8. CASE StartBunker
  BY <1>8 DEF StartBunker, StartBunkerOr, Closed, WipeAnd, Fail, Owned, Stage, Order, Idle, Modes, Holding
<1>9. CASE PrintEnv
  BY <1>9 DEF PrintEnv, Goto, Owned, Stage, Order, Idle, Modes, Holding
<1>10. CASE NotifyReady
  BY <1>10 DEF NotifyReady, Goto, Fail, Owned, Stage, Order, Idle, Modes, Holding
<1>11. CASE FirstResult
  BY <1>11 DEF FirstResult, TakeResult, Owned, Stage, Order, Idle, Modes, Holding
<1>12. CASE CollectRest
  BY <1>12 DEF CollectRest, TakeResult, Owned, Stage, Order, Idle, Modes, Holding
<1>13. CASE Collected
  BY <1>13 DEF Collected, MainGoes, Goto, Owned, Stage, Order, Idle, Modes, Holding
<1>14. CASE \E v \in Vaults : Closes(v)
  BY <1>14 DEF Closes, CloseBunkerOf, CloseTokenOf, Owned, Stage, Order, Idle, Modes, Holding
<1>15. CASE Stopped
  BY <1>15 DEF Stopped, MainGoes, Goto, Owned, Stage, Order, Idle, Modes, Holding
<1>16. CASE Quiet
  BY <1>16 DEF Quiet, MainGoes, Goto, Owned, Stage, Order, Idle, Modes, Holding
<1>17. CASE \E v \in Vaults : ClosesVault(v)
  BY <1>17 DEF ClosesVault, CloseVaultOf, Owned, Stage, Order, Idle, Modes, Holding
<1>18. CASE AllShut
  BY <1>18 DEF AllShut, MainGoes, Goto, Owned, Stage, Order, Idle, Modes, Holding
<1>19. CASE Release
  BY <1>19 DEF Release, Goto, Owned, Stage, Order, Idle, Modes, Holding
<1>20. CASE Cancel
  BY <1>20 DEF Cancel, Owned, Stage, Order, Idle, Modes, Holding
<1>21. CASE \E v \in Vaults : WaitReturns(v)
  BY <1>21 DEF WaitReturns, Owned, Stage, Order, Idle, Modes, Holding
<1>22. CASE \E v \in Vaults : ListenerFails(v)
  BY <1>22 DEF ListenerFails, Owned, Stage, Order, Idle, Modes, Holding
<1>23. CASE \E v \in Vaults : BunkerUse(v) \/ TokenRequest(v) \/ TokenUse(v) \/ KeyDone(v)
  BY <1>23 DEF BunkerUse, TokenRequest, TokenUse, TokenUseWhen, KeyDone, SetUse, Owned, Stage, Order, Idle, Modes, Holding
<1>24. CASE UNCHANGED vars
  BY <1>24 DEF Owned, Stage, Order, Idle, Modes, Holding
<1> QED BY NextIsSteps, <1>1, <1>2, <1>3, <1>4, <1>5, <1>6, <1>7, <1>8, <1>9, <1>10, <1>11, <1>12, <1>13, <1>14, <1>15, <1>16, <1>17, <1>18, <1>19, <1>20, <1>21, <1>22, <1>23, <1>24 DEF Steps

\* Every step keeps Closing: every step of the way out has closed its part.
LEMMA ClosingKept == IInv /\ [Next]_vars => Closing'
<1> SUFFICES ASSUME IInv, [Next]_vars PROVE Closing'
  OBVIOUS
<1> USE ArgsAreVaults DEF IInv, TypeOK, cur, vars, mainVars, vaultVars, serveVars
<1>1. CASE CheckArgument
  BY <1>1 DEF CheckArgument, CheckWith, SamePath, SameLabel, Fail, Closing, Owned, Order, Idle, Modes, Holding
<1>2. CASE Prompt
  BY <1>2 DEF Prompt, Goto, Fail, Closing, Owned, Order, Idle, Modes, Holding
<1>3. CASE OpenProfile
  BY <1>3 DEF OpenProfile, HoldCapability, Goto, Fail, Closing, Owned, Order, Idle, Modes, Holding
<1>4. CASE ReportKey
  BY <1>4 DEF ReportKey, Goto, Fail, Closing, Owned, Order, Idle, Modes, Holding
<1>5. CASE ClaimPorts
  BY <1>5 DEF ClaimPorts, ClaimUnless, WipeAnd, Goto, Fail, Closing, Owned, Order, Idle, Modes, Holding
<1>6. CASE ListenPorts
  BY <1>6 DEF ListenPorts, Listen, WipeAnd, Goto, Fail, Closing, Owned, Order, Idle, Modes, Holding
<1>7. CASE StartToken
  BY <1>7 DEF StartToken, StartTokenLeaving, WipeAnd, Goto, Fail, Closing, Owned, Order, Idle, Modes, Holding
<1>8. CASE StartBunker
  BY <1>8 DEF StartBunker, StartBunkerOr, Closed, WipeAnd, Fail, Closing, Owned, Order, Idle, Modes, Holding
<1>9. CASE PrintEnv
  BY <1>9 DEF PrintEnv, Goto, Closing, Owned, Order, Idle, Modes, Holding
<1>10. CASE NotifyReady
  BY <1>10 DEF NotifyReady, Goto, Fail, Closing, Owned, Order, Idle, Modes, Holding
<1>11. CASE FirstResult
  BY <1>11 DEF FirstResult, TakeResult, Closing, Owned, Order, Idle, Modes, Holding
<1>12. CASE CollectRest
  BY <1>12 DEF CollectRest, TakeResult, Closing, Owned, Order, Idle, Modes, Holding
<1>13. CASE Collected
  BY <1>13 DEF Collected, MainGoes, Goto, Closing, Owned, Order, Idle, Modes, Holding
<1>14. CASE \E v \in Vaults : Closes(v)
  BY <1>14 DEF Closes, CloseBunkerOf, CloseTokenOf, Closing, Owned, Order, Idle, Modes, Holding
<1>15. CASE Stopped
  BY <1>15 DEF Stopped, MainGoes, Goto, Closing, Owned, Order, Idle, Modes, Holding
<1>16. CASE Quiet
  BY <1>16 DEF Quiet, MainGoes, Goto, Closing, Owned, Order, Idle, Modes, Holding
<1>17. CASE \E v \in Vaults : ClosesVault(v)
  BY <1>17 DEF ClosesVault, CloseVaultOf, Closing, Owned, Order, Idle, Modes, Holding
<1>18. CASE AllShut
  BY <1>18 DEF AllShut, MainGoes, Goto, Closing, Owned, Order, Idle, Modes, Holding
<1>19. CASE Release
  <2>1. pc = "release" /\ UNCHANGED <<mode, args, i, vault, bunker, token>>
    BY <1>19 DEF Release, Goto
  <2>2. \A v \in Vaults : lsn[v] # {} => v \in Named /\ mode = "create" /\ bunker[v] = "none"
    BY <2>1 DEF Owned, Closing, Order, Idle, Named, Holding
  <2>3. \A v \in Vaults : lsn'[v] = {}
    BY <1>19, <2>2 DEF Release
  <2> QED BY <2>1, <2>3 DEF Closing
<1>20. CASE Cancel
  BY <1>20 DEF Cancel, Closing, Owned, Order, Idle, Modes, Holding
<1>21. CASE \E v \in Vaults : WaitReturns(v)
  BY <1>21 DEF WaitReturns, Closing, Owned, Order, Idle, Modes, Holding
<1>22. CASE \E v \in Vaults : ListenerFails(v)
  BY <1>22 DEF ListenerFails, Closing, Owned, Order, Idle, Modes, Holding
<1>23. CASE \E v \in Vaults : BunkerUse(v) \/ TokenRequest(v) \/ TokenUse(v) \/ KeyDone(v)
  BY <1>23 DEF BunkerUse, TokenRequest, TokenUse, TokenUseWhen, KeyDone, SetUse, Closing, Owned, Order, Idle, Modes, Holding
<1>24. CASE UNCHANGED vars
  BY <1>24 DEF Closing, Owned, Order, Idle, Modes, Holding
<1> QED BY NextIsSteps, <1>1, <1>2, <1>3, <1>4, <1>5, <1>6, <1>7, <1>8, <1>9, <1>10, <1>11, <1>12, <1>13, <1>14, <1>15, <1>16, <1>17, <1>18, <1>19, <1>20, <1>21, <1>22, <1>23, <1>24 DEF Steps

\* Every step keeps Claims: ports and labels of started vaults differ.
LEMMA ClaimsKept == IInv /\ [Next]_vars => Claims'
<1> SUFFICES ASSUME IInv, [Next]_vars PROVE Claims'
  OBVIOUS
<1> USE ArgsAreVaults DEF IInv, TypeOK, cur, vars, mainVars, vaultVars, serveVars
<1>1. CASE CheckArgument
  BY <1>1 DEF CheckArgument, CheckWith, SamePath, SameLabel, Fail, Claims, Order, Idle, Differ, Modes, Stage, Holding
<1>2. CASE Prompt
  BY <1>2 DEF Prompt, Goto, Fail, Claims, Order, Idle, Differ, Modes, Stage, Holding
<1>3. CASE OpenProfile
  BY <1>3 DEF OpenProfile, HoldCapability, Goto, Fail, Claims, Order, Idle, Differ, Modes, Stage, Holding
<1>4. CASE ReportKey
  BY <1>4 DEF ReportKey, Goto, Fail, Claims, Order, Idle, Differ, Modes, Stage, Holding
<1>5. CASE ClaimPorts
  BY <1>5 DEF ClaimPorts, ClaimUnless, WipeAnd, Goto, Fail, Claims, Order, Idle, Differ, Modes, Stage, Holding
<1>6. CASE ListenPorts
  BY <1>6 DEF ListenPorts, Listen, WipeAnd, Goto, Fail, Claims, Order, Idle, Differ, Modes, Stage, Holding
<1>7. CASE StartToken
  BY <1>7 DEF StartToken, StartTokenLeaving, WipeAnd, Goto, Fail, Claims, Order, Idle, Differ, Modes, Stage, Holding
<1>8. CASE StartBunker
  <2>1. CASE pc' = "unwind" /\ UNCHANGED <<bunker, mode, args, i, claimed>>
    BY <2>1 DEF Claims, Holding
  <2>2. CASE pc' # "unwind" /\ bunker' = [bunker EXCEPT ![cur] = "up"]
    <3>1. pc = "bunker" /\ pc' \notin Holding /\ UNCHANGED <<mode, claimed>>
      BY <1>8, <2>2 DEF StartBunker, StartBunkerOr, Fail, Holding
    <3>2. \A w \in Vaults : w # cur /\ bunker[w] # "none" =>
             Ports(w) \cap Ports(cur) = {} /\ Label[w] # Label[cur]
      <4> SUFFICES ASSUME NEW w \in Vaults, w # cur, bunker[w] # "none"
                   PROVE  Ports(w) \cap Ports(cur) = {} /\ Label[w] # Label[cur]
        OBVIOUS
      <4>1. PICK k \in 1..Len(args) : w = args[k]
        BY DEF Order, Idle
      <4>2. Label[w] # Label[cur]
        BY <3>1, <4>1 DEF Order, Differ
      <4>3. mode = "open"
        BY <4>1 DEF Modes
      <4> QED BY <3>1, <4>2, <4>3 DEF Claims, Holding
    <3>3. mode = "open" => Ports(cur) \subseteq claimed
      BY <3>1 DEF Claims, Holding
    <3> QED BY <2>2, <3>1, <3>2, <3>3 DEF Claims
  <2> QED BY <1>8, <2>1, <2>2 DEF StartBunker, StartBunkerOr, Fail
<1>9. CASE PrintEnv
  BY <1>9 DEF PrintEnv, Goto, Claims, Order, Idle, Differ, Modes, Stage, Holding
<1>10. CASE NotifyReady
  BY <1>10 DEF NotifyReady, Goto, Fail, Claims, Order, Idle, Differ, Modes, Stage, Holding
<1>11. CASE FirstResult
  BY <1>11 DEF FirstResult, TakeResult, Claims, Order, Idle, Differ, Modes, Stage, Holding
<1>12. CASE CollectRest
  BY <1>12 DEF CollectRest, TakeResult, Claims, Order, Idle, Differ, Modes, Stage, Holding
<1>13. CASE Collected
  BY <1>13 DEF Collected, MainGoes, Goto, Claims, Order, Idle, Differ, Modes, Stage, Holding
<1>14. CASE \E v \in Vaults : Closes(v)
  <2>1. \A w \in Vaults : bunker'[w] # "none" => bunker[w] # "none"
    BY <1>14 DEF Closes, CloseBunkerOf, CloseTokenOf
  <2>2. UNCHANGED <<mode, args, pc, i, claimed>>
    BY <1>14 DEF Closes, CloseBunkerOf, CloseTokenOf
  <2> QED BY <2>1, <2>2 DEF Claims
<1>15. CASE Stopped
  BY <1>15 DEF Stopped, MainGoes, Goto, Claims, Order, Idle, Differ, Modes, Stage, Holding
<1>16. CASE Quiet
  BY <1>16 DEF Quiet, MainGoes, Goto, Claims, Order, Idle, Differ, Modes, Stage, Holding
<1>17. CASE \E v \in Vaults : ClosesVault(v)
  BY <1>17 DEF ClosesVault, CloseVaultOf, Claims, Order, Idle, Differ, Modes, Stage, Holding
<1>18. CASE AllShut
  BY <1>18 DEF AllShut, MainGoes, Goto, Claims, Order, Idle, Differ, Modes, Stage, Holding
<1>19. CASE Release
  BY <1>19 DEF Release, Goto, Claims, Order, Idle, Differ, Modes, Stage, Holding
<1>20. CASE Cancel
  BY <1>20 DEF Cancel, Claims, Order, Idle, Differ, Modes, Stage, Holding
<1>21. CASE \E v \in Vaults : WaitReturns(v)
  BY <1>21 DEF WaitReturns, Claims, Order, Idle, Differ, Modes, Stage, Holding
<1>22. CASE \E v \in Vaults : ListenerFails(v)
  BY <1>22 DEF ListenerFails, Claims, Order, Idle, Differ, Modes, Stage, Holding
<1>23. CASE \E v \in Vaults : BunkerUse(v) \/ TokenRequest(v) \/ TokenUse(v) \/ KeyDone(v)
  BY <1>23 DEF BunkerUse, TokenRequest, TokenUse, TokenUseWhen, KeyDone, SetUse, Claims, Order, Idle, Differ, Modes, Stage, Holding
<1>24. CASE UNCHANGED vars
  BY <1>24 DEF Claims, Order, Idle, Differ, Modes, Stage, Holding
<1> QED BY NextIsSteps, <1>1, <1>2, <1>3, <1>4, <1>5, <1>6, <1>7, <1>8, <1>9, <1>10, <1>11, <1>12, <1>13, <1>14, <1>15, <1>16, <1>17, <1>18, <1>19, <1>20, <1>21, <1>22, <1>23, <1>24 DEF Steps

\* Every step keeps Listening: a started bunker listens or was stopped.
LEMMA ListeningKept == IInv /\ [Next]_vars => Listening'
<1> SUFFICES ASSUME IInv, [Next]_vars PROVE Listening'
  OBVIOUS
<1> USE ArgsAreVaults DEF IInv, TypeOK, cur, vars, mainVars, vaultVars, serveVars
<1>1. CASE CheckArgument
  BY <1>1 DEF CheckArgument, CheckWith, SamePath, SameLabel, Fail, Listening, Stage, Order, Idle, Holding
<1>2. CASE Prompt
  BY <1>2 DEF Prompt, Goto, Fail, Listening, Stage, Order, Idle, Holding
<1>3. CASE OpenProfile
  BY <1>3 DEF OpenProfile, HoldCapability, Goto, Fail, Listening, Stage, Order, Idle, Holding
<1>4. CASE ReportKey
  BY <1>4 DEF ReportKey, Goto, Fail, Listening, Stage, Order, Idle, Holding
<1>5. CASE ClaimPorts
  BY <1>5 DEF ClaimPorts, ClaimUnless, WipeAnd, Goto, Fail, Listening, Stage, Order, Idle, Holding
<1>6. CASE ListenPorts
  BY <1>6 DEF ListenPorts, Listen, WipeAnd, Goto, Fail, Listening, Stage, Order, Idle, Holding
<1>7. CASE StartToken
  BY <1>7 DEF StartToken, StartTokenLeaving, WipeAnd, Goto, Fail, Listening, Stage, Order, Idle, Holding
<1>8. CASE StartBunker
  BY <1>8 DEF StartBunker, StartBunkerOr, Closed, WipeAnd, Fail, Listening, Stage, Order, Idle, Holding
<1>9. CASE PrintEnv
  BY <1>9 DEF PrintEnv, Goto, Listening, Stage, Order, Idle, Holding
<1>10. CASE NotifyReady
  BY <1>10 DEF NotifyReady, Goto, Fail, Listening, Stage, Order, Idle, Holding
<1>11. CASE FirstResult
  BY <1>11 DEF FirstResult, TakeResult, Listening, Stage, Order, Idle, Holding
<1>12. CASE CollectRest
  BY <1>12 DEF CollectRest, TakeResult, Listening, Stage, Order, Idle, Holding
<1>13. CASE Collected
  BY <1>13 DEF Collected, MainGoes, Goto, Listening, Stage, Order, Idle, Holding
<1>14. CASE \E v \in Vaults : Closes(v)
  BY <1>14 DEF Closes, CloseBunkerOf, CloseTokenOf, Listening, Stage, Order, Idle, Holding
<1>15. CASE Stopped
  BY <1>15 DEF Stopped, MainGoes, Goto, Listening, Stage, Order, Idle, Holding
<1>16. CASE Quiet
  BY <1>16 DEF Quiet, MainGoes, Goto, Listening, Stage, Order, Idle, Holding
<1>17. CASE \E v \in Vaults : ClosesVault(v)
  BY <1>17 DEF ClosesVault, CloseVaultOf, Listening, Stage, Order, Idle, Holding
<1>18. CASE AllShut
  BY <1>18 DEF AllShut, MainGoes, Goto, Listening, Stage, Order, Idle, Holding
<1>19. CASE Release
  BY <1>19 DEF Release, Goto, Listening, Stage, Order, Idle, Holding
<1>20. CASE Cancel
  BY <1>20 DEF Cancel, Listening, Stage, Order, Idle, Holding
<1>21. CASE \E v \in Vaults : WaitReturns(v)
  BY <1>21 DEF WaitReturns, Listening, Stage, Order, Idle, Holding
<1>22. CASE \E v \in Vaults : ListenerFails(v)
  BY <1>22 DEF ListenerFails, Listening, Stage, Order, Idle, Holding
<1>23. CASE \E v \in Vaults : BunkerUse(v) \/ TokenRequest(v) \/ TokenUse(v) \/ KeyDone(v)
  BY <1>23 DEF BunkerUse, TokenRequest, TokenUse, TokenUseWhen, KeyDone, SetUse, Listening, Stage, Order, Idle, Holding
<1>24. CASE UNCHANGED vars
  BY <1>24 DEF Listening, Stage, Order, Idle, Holding
<1> QED BY NextIsSteps, <1>1, <1>2, <1>3, <1>4, <1>5, <1>6, <1>7, <1>8, <1>9, <1>10, <1>11, <1>12, <1>13, <1>14, <1>15, <1>16, <1>17, <1>18, <1>19, <1>20, <1>21, <1>22, <1>23, <1>24 DEF Steps

\* Every step keeps Results: main has the results it counts.
LEMMA ResultsKept == IInv /\ [Next]_vars => Results'
<1> SUFFICES ASSUME IInv, [Next]_vars PROVE Results'
  OBVIOUS
<1> USE ArgsAreVaults DEF IInv, TypeOK, cur, vars, mainVars, vaultVars, serveVars
<1>1. CASE CheckArgument
  BY <1>1 DEF CheckArgument, CheckWith, SamePath, SameLabel, Fail, Results, Order, Idle, Stage, Holding, Named
<1>2. CASE Prompt
  BY <1>2 DEF Prompt, Goto, Fail, Results, Order, Idle, Stage, Holding, Named
<1>3. CASE OpenProfile
  BY <1>3 DEF OpenProfile, HoldCapability, Goto, Fail, Results, Order, Idle, Stage, Holding, Named
<1>4. CASE ReportKey
  BY <1>4 DEF ReportKey, Goto, Fail, Results, Order, Idle, Stage, Holding, Named
<1>5. CASE ClaimPorts
  BY <1>5 DEF ClaimPorts, ClaimUnless, WipeAnd, Goto, Fail, Results, Order, Idle, Stage, Holding, Named
<1>6. CASE ListenPorts
  BY <1>6 DEF ListenPorts, Listen, WipeAnd, Goto, Fail, Results, Order, Idle, Stage, Holding, Named
<1>7. CASE StartToken
  BY <1>7 DEF StartToken, StartTokenLeaving, WipeAnd, Goto, Fail, Results, Order, Idle, Stage, Holding, Named
<1>8. CASE StartBunker
  BY <1>8 DEF StartBunker, StartBunkerOr, Closed, WipeAnd, Fail, Results, Order, Idle, Stage, Holding, Named
<1>9. CASE PrintEnv
  BY <1>9 DEF PrintEnv, Goto, Results, Order, Idle, Stage, Holding, Named
<1>10. CASE NotifyReady
  <2>1. CASE pc' = "unwind"
    BY <1>10, <2>1 DEF NotifyReady, Goto, Fail, Results
  <2>2. CASE pc' = "wait"
    BY <1>10, <2>2 DEF NotifyReady, Goto, Fail, Results
  <2> QED BY <1>10, <2>1, <2>2 DEF NotifyReady, Goto, Fail
<1>11. CASE FirstResult
  <2>1. PICK v \in Vaults : TakeResult(v)
    BY <1>11 DEF FirstResult, Named
  <2>2. pc = "wait" /\ pc' \in {"close", "collect"} /\ ready /\ ready'
    BY <1>11, <2>1 DEF FirstResult, TakeResult, Results
  <2>3. \A w \in Vaults : waiter'[w] = IF w = v THEN "taken" ELSE waiter[w]
    BY <2>1 DEF TakeResult
  <2>4. UNCHANGED <<args, bunker, fault>> /\ err' = (err \/ v \in fault) /\ waiter[v] = "sent"
    BY <2>1 DEF TakeResult
  <2>5. err' <=> \E w \in Vaults : waiter'[w] = "taken" /\ w \in fault'
    BY <2>2, <2>3, <2>4 DEF Results
  <2> QED BY <2>2, <2>3, <2>4, <2>5 DEF Results
<1>12. CASE CollectRest
  <2>1. PICK v \in Vaults : TakeResult(v)
    BY <1>12 DEF CollectRest, Named
  <2>2. pc = "collect" /\ pc' \in {"close", "collect"} /\ ready /\ ready'
    BY <1>12, <2>1 DEF CollectRest, TakeResult, Results
  <2>3. \A w \in Vaults : waiter'[w] = IF w = v THEN "taken" ELSE waiter[w]
    BY <2>1 DEF TakeResult
  <2>4. UNCHANGED <<args, bunker, fault>> /\ err' = (err \/ v \in fault) /\ waiter[v] = "sent"
    BY <2>1 DEF TakeResult
  <2>5. err' <=> \E w \in Vaults : waiter'[w] = "taken" /\ w \in fault'
    BY <2>2, <2>3, <2>4 DEF Results
  <2> QED BY <2>2, <2>3, <2>4, <2>5 DEF Results
<1>13. CASE Collected
  BY <1>13 DEF Collected, MainGoes, Goto, Results, Order, Idle, Stage, Holding, Named
<1>14. CASE \E v \in Vaults : Closes(v)
  BY <1>14 DEF Closes, CloseBunkerOf, CloseTokenOf, Results, Order, Idle, Stage, Holding, Named
<1>15. CASE Stopped
  BY <1>15 DEF Stopped, MainGoes, Goto, Results, Order, Idle, Stage, Holding, Named
<1>16. CASE Quiet
  BY <1>16 DEF Quiet, MainGoes, Goto, Results, Order, Idle, Stage, Holding, Named
<1>17. CASE \E v \in Vaults : ClosesVault(v)
  BY <1>17 DEF ClosesVault, CloseVaultOf, Results, Order, Idle, Stage, Holding, Named
<1>18. CASE AllShut
  BY <1>18 DEF AllShut, MainGoes, Goto, Results, Order, Idle, Stage, Holding, Named
<1>19. CASE Release
  BY <1>19 DEF Release, Goto, Results, Order, Idle, Stage, Holding, Named
<1>20. CASE Cancel
  BY <1>20 DEF Cancel, Results, Order, Idle, Stage, Holding, Named
<1>21. CASE \E v \in Vaults : WaitReturns(v)
  BY <1>21 DEF WaitReturns, Results, Order, Idle, Stage, Holding, Named
<1>22. CASE \E v \in Vaults : ListenerFails(v)
  BY <1>22 DEF ListenerFails, Results, Order, Idle, Stage, Holding, Named
<1>23. CASE \E v \in Vaults : BunkerUse(v) \/ TokenRequest(v) \/ TokenUse(v) \/ KeyDone(v)
  BY <1>23 DEF BunkerUse, TokenRequest, TokenUse, TokenUseWhen, KeyDone, SetUse, Results, Order, Idle, Stage, Holding, Named
<1>24. CASE UNCHANGED vars
  BY <1>24 DEF Results, Order, Idle, Stage, Holding, Named
<1> QED BY NextIsSteps, <1>1, <1>2, <1>3, <1>4, <1>5, <1>6, <1>7, <1>8, <1>9, <1>10, <1>11, <1>12, <1>13, <1>14, <1>15, <1>16, <1>17, <1>18, <1>19, <1>20, <1>21, <1>22, <1>23, <1>24 DEF Steps

-----------------------------------------------------------------------------

LEMMA InitInv == Init => IInv
<1> SUFFICES ASSUME Init PROVE IInv
  OBVIOUS
<1>1. TypeOK
  <2>1. args \in Seq(Vaults) /\ args # <<>>
    <3>1. CASE args \in ArgLists
      BY <3>1, ArgListsAssumption
    <3>2. CASE args = <<New>>
      BY <3>2, NewAssumption
    <3> QED BY <3>1, <3>2 DEF Init
  <2>2. 1 \in 1..Len(args)
    BY <2>1, EmptySeq
  <2> QED BY <2>1, <2>2 DEF Init, TypeOK
<1> USE ArgsAreVaults, <1>1 DEF Init, cur
<1>2. \A v \in Vaults : Idle(v)
  BY DEF Idle
<1>3. Modes /\ VaultsLast /\ Owned /\ Closing /\ Listening
  BY DEF Modes, VaultsLast, Owned, Closing, Listening
<1>4. Order
  BY <1>2 DEF Order
<1>5. Stage
  BY <1>2 DEF Stage, Holding
<1>6. Claims
  BY DEF Claims, Holding
<1>7. Results
  BY DEF Results
<1> QED BY <1>3, <1>4, <1>5, <1>6, <1>7 DEF IInv

\* The inductive invariant.
THEOREM Inductive == Spec => []IInv
<1>1. IInv /\ [Next]_vars => IInv'
  BY TypeOKKept, ModesKept, OrderKept, StageKept, VaultsLastKept, OwnedKept, ClosingKept,
     ClaimsKept, ListeningKept, ResultsKept DEF IInv
<1> QED BY InitInv, <1>1, PTL DEF Spec

\* Every state is well typed: the loops over the vaults stay in range.
THEOREM TypeCorrect == Spec => []TypeOK
<1>1. IInv => TypeOK
  BY DEF IInv
<1> QED BY Inductive, <1>1, PTL

\* A vault is closed after its bunker, its signer and every callback.
THEOREM VaultsOutlive == Spec => []VaultsLast
<1>1. IInv => VaultsLast
  BY DEF IInv
<1> QED BY Inductive, <1>1, PTL

\* Whatever fails, at whichever vault, nothing is left when the run ends.
THEOREM EndsClean == Spec => []NothingLeft
<1>1. IInv => NothingLeft
  BY DEF IInv, NothingLeft, Owned, Closing, Holding
<1> QED BY Inductive, <1>1, PTL

\* Ports and labels are never shared by vaults of a run.
THEOREM Apart == Spec => []VaultsApart
<1>1. IInv => VaultsApart
  BY ArgsAreVaults DEF IInv, VaultsApart, Claims, Named
<1> QED BY Inductive, <1>1, PTL

\* The error of the run tells of every listener that failed.
THEOREM WholeResult == Spec => []ResultIsWhole
<1>1. IInv => ResultIsWhole
  <2> SUFFICES ASSUME IInv, pc = "ended" PROVE err <=> ~ready \/ fault # {}
    BY DEF ResultIsWhole
  <2>1. CASE ~ready
    BY <2>1 DEF IInv, Results
  <2>2. CASE ready
    <3>1. \A v \in fault : v \in Vaults /\ waiter[v] = "taken"
      <4> SUFFICES ASSUME NEW v \in fault PROVE v \in Vaults /\ waiter[v] = "taken"
        OBVIOUS
      <4>1. v \in Vaults
        BY DEF IInv, TypeOK
      <4>2. PICK k \in 1..Len(args) : v = args[k]
        BY <4>1 DEF IInv, Order, Idle
      <4> QED BY <2>2, <4>1, <4>2 DEF IInv, Results
    <3> QED BY <2>2, <3>1 DEF IInv, Results
  <2> QED BY <2>1, <2>2
<1> QED BY Inductive, <1>1, PTL

\* READY=1 is sent only when every vault listens, is being stopped or failed.
THEOREM ReadyInTime == Spec => ReadyWhenListening
<1>1. IInv /\ [Next]_vars => [ReadyStep]_vars
  <2> SUFFICES ASSUME IInv, [Next]_vars, ready' /\ ~ready, NEW v \in Named
               PROVE  lsn[v] = Sockets \/ (bunker[v] # "none" /\ (cancelled \/ v \in fault))
    BY DEF ReadyStep
  <2>1. NotifyReady
    BY NextIsSteps DEF IInv, Steps, vars, mainVars, vaultVars, serveVars, CheckArgument, CheckWith,
       Prompt, OpenProfile, ReportKey, ClaimPorts, ClaimUnless, ListenPorts, Listen, StartToken,
       StartTokenLeaving, StartBunker, StartBunkerOr, PrintEnv, FirstResult, CollectRest, TakeResult,
       Collected, Closes, CloseBunkerOf, CloseTokenOf, MainGoes, Stopped, Quiet, ClosesVault, CloseVaultOf,
       AllShut, Release, Cancel, WaitReturns, ListenerFails, BunkerUse, TokenRequest, TokenUse,
       TokenUseWhen, KeyDone, SetUse
  <2>2. pc = "notify"
    BY <2>1 DEF NotifyReady
  <2>3. v \in Vaults /\ bunker[v] \in {"up", "closed"}
    <3>1. PICK k \in 1..Len(args) : v = args[k]
      BY DEF Named
    <3> QED BY <2>2, <3>1, ArgsAreVaults DEF IInv, TypeOK, Order
  <2>4. CASE bunker[v] = "up"
    BY <2>3, <2>4 DEF IInv, Listening
  <2>5. CASE bunker[v] = "closed"
    BY <2>2, <2>3, <2>5 DEF IInv, Listening
  <2> QED BY <2>3, <2>4, <2>5
<1> QED BY Inductive, <1>1, PTL DEF Spec, ReadyWhenListening

\* Each vault lends its keys as the signing oracle does: start, failures, the
\* watchers and the way out never close it on a user nor lend it twice.
THEOREM Oracles == Spec => ImplementsOracles
<1>1. Init => \A v \in Vaults : Oracle(v)!Init
  BY DEF Init, Oracle!Init
<1>2. IInv /\ [Next]_vars => [\A v \in Vaults : [Oracle(v)!Next]_(Oracle(v)!oracleVars)]_vars
  <2> SUFFICES ASSUME IInv, [Next]_vars, NEW v \in Vaults
               PROVE  [Oracle(v)!Next]_(Oracle(v)!oracleVars)
    OBVIOUS
  <2> USE ArgsAreVaults DEF IInv, TypeOK, Oracle!Next, Oracle!oracleVars
  <2>1. CASE /\ UNCHANGED <<vault[v], use[v]>>
             /\ (pc = "ended" /\ vault[v] = "closed") <=> (pc' = "ended" /\ vault'[v] = "closed")
    BY <2>1
  <2>2. CASE OpenProfile
    <3>1. vault'[v] = vault[v] \/ (vault[v] = "shut" /\ vault'[v] = "open")
      BY <2>2 DEF OpenProfile, HoldCapability, Stage, Idle, Holding, cur
    <3>2. use'[v] = use[v] /\ pc # "ended" /\ pc' # "ended"
      BY <2>2 DEF OpenProfile, HoldCapability, Goto, Fail
    <3> QED BY <2>1, <3>1, <3>2 DEF Oracle!Open
  <2>3. CASE Release
    <3>1. UNCHANGED <<vault[v], use[v]>> /\ pc = "release" /\ pc' = "ended" /\ vault[v] # "open"
      BY <2>3 DEF Release, Goto, vaultVars, Closing
    <3> QED BY <2>1, <3>1 DEF Oracle!Tell
  <2>4. CASE \E w \in Vaults : ClosesVault(w)
    <3>1. vault'[v] = vault[v] \/ (use[v] = "nobody" /\ vault[v] = "open" /\ vault'[v] = "closed")
      BY <2>4 DEF ClosesVault, CloseVaultOf
    <3>2. use'[v] = use[v] /\ pc # "ended" /\ pc' # "ended"
      BY <2>4 DEF ClosesVault, CloseVaultOf, mainVars
    <3> QED BY <2>1, <3>1, <3>2 DEF Oracle!Shut
  <2>5. CASE \E w \in Vaults : BunkerUse(w) \/ TokenRequest(w) \/ TokenUse(w) \/ KeyDone(w)
    <3>1. UNCHANGED <<vault[v], pc>>
      BY <2>5 DEF BunkerUse, TokenRequest, TokenUse, TokenUseWhen, KeyDone, SetUse, mainVars
    <3>2. \/ use'[v] = use[v]
          \/ use[v] = "nobody" /\ use'[v] \in {"bunker", "token"} /\ vault[v] = "open"
          \/ use[v] # "nobody" /\ use'[v] = "nobody"
      BY <2>5 DEF BunkerUse, TokenRequest, TokenUse, TokenUseWhen, KeyDone, SetUse, VaultsLast
    <3> QED BY <2>1, <3>1, <3>2 DEF Oracle!Begin, Oracle!End
  <2>6. CASE UNCHANGED <<vault, use>> /\ pc # "ended" /\ pc' # "ended"
    BY <2>1, <2>6
  <2>7. CASE UNCHANGED <<vault, use, pc>>
    BY <2>1, <2>7
  <2> QED
    BY <2>2, <2>3, <2>4, <2>5, <2>6, <2>7, NextIsSteps DEF Steps, vars, mainVars, vaultVars,
       CheckArgument, CheckWith, Prompt, ReportKey, ClaimPorts, ClaimUnless, ListenPorts, Listen,
       StartToken, StartTokenLeaving, StartBunker, StartBunkerOr, PrintEnv, NotifyReady,
       FirstResult, CollectRest, TakeResult, Collected, Closes, CloseBunkerOf, CloseTokenOf,
       MainGoes, Stopped, Quiet, AllShut, Cancel, WaitReturns, ListenerFails, Goto, Fail
<1> QED BY Inductive, <1>1, <1>2, PTL DEF ImplementsOracles, Spec
-----------------------------------------------------------------------------
(* Who waits for whom, and for how long.                                    *)

\* What the goroutines in bunker.Wait have done while main waits for them.
WaitersInv ==
  /\ pc \in {"wait", "close", "collect"} => \A v \in Named : waiter[v] # "none"
  /\ pc = "wait" => \A v \in Named : waiter[v] # "taken"
  /\ pc = "collect" => \A v \in Named : bunker[v] = "closed"

\* The steps that touch neither the goroutines nor the bunkers main waits for.
Aside == /\ UNCHANGED <<args, waiter, bunker>>
         /\ pc' = pc \/ pc' \notin {"wait", "close", "collect"}

LEMMA WaitersKept == IInv /\ WaitersInv /\ [Next]_vars => WaitersInv'
<1> SUFFICES ASSUME IInv, WaitersInv, [Next]_vars PROVE WaitersInv'
  OBVIOUS
<1> USE ArgsAreVaults DEF IInv, TypeOK, mainVars, vaultVars, serveVars
<1>1. Named \subseteq Vaults
  BY DEF Named
<1>2. CASE NotifyReady
  <2>1. \A v \in Named : waiter[v] = "none"
    BY <1>1, <1>2 DEF NotifyReady, Results
  <2>2. args' = args /\ pc' \in {"wait", "unwind"}
    BY <1>2 DEF NotifyReady, Goto, Fail
  <2>3. pc' = "wait" => \A v \in Named : waiter'[v] = "waiting"
    BY <1>1, <1>2 DEF NotifyReady, Goto, Fail
  <2> QED
    BY <2>2, <2>3 DEF WaitersInv, Named
<1>3. CASE FirstResult \/ CollectRest
  <2>1. PICK v \in Named : TakeResult(v)
    BY <1>3 DEF FirstResult, CollectRest
  <2>2. args' = args /\ bunker' = bunker /\ \A w \in Named : waiter'[w] \in {waiter[w], "taken"}
    BY <1>1, <2>1 DEF TakeResult
  <2>3. \/ pc = "wait" /\ pc' = "close"
        \/ pc = "collect" /\ pc' = "collect"
    BY <1>3 DEF FirstResult, CollectRest
  <2> QED
    BY <2>2, <2>3 DEF WaitersInv, Named
<1>4. CASE Stopped
  <2>1. UNCHANGED <<args, waiter, bunker>> /\ pc = "close" /\ pc' = "collect"
    BY <1>4 DEF Stopped, MainGoes, Goto
  <2>2. \A k \in 1..Len(args) : bunker[args[k]] = "closed"
    BY <1>4, <2>1 DEF Stopped, Order
  <2> QED
    BY <2>1, <2>2 DEF WaitersInv, Named
<1>5. CASE \E v \in Vaults : WaitReturns(v)
  <2>1. PICK v \in Vaults : WaitReturns(v)
    BY <1>5
  <2>2. /\ UNCHANGED <<args, pc, bunker>>
        /\ \A w \in Named : waiter'[w] = IF w = v THEN "sent" ELSE waiter[w]
    BY <1>1, <2>1 DEF WaitReturns
  <2> QED
    BY <2>2 DEF WaitersInv, Named
<1>6. CASE StartBunker
  <2>1. args' = args /\ pc' \notin {"wait", "close", "collect"}
    BY <1>6 DEF StartBunker, StartBunkerOr, Fail
  <2> QED
    BY <2>1 DEF WaitersInv
<1>7. CASE \E v \in Vaults : Closes(v)
  <2>1. /\ UNCHANGED <<args, pc, waiter>>
        /\ \A w \in Vaults : bunker'[w] \in {bunker[w], "closed"}
    BY <1>7 DEF Closes, CloseBunkerOf, CloseTokenOf
  <2> QED
    BY <1>1, <2>1 DEF WaitersInv, Named
<1>8. CASE Aside
  BY <1>8 DEF Aside, WaitersInv, Named
<1>9. CASE \/ CheckArgument \/ Prompt \/ OpenProfile \/ ReportKey \/ ClaimPorts
  BY <1>8, <1>9 DEF Aside, CheckArgument, CheckWith, Prompt, OpenProfile, HoldCapability, ReportKey,
                    ClaimPorts, ClaimUnless, Goto, Fail
<1>10. CASE \/ ListenPorts \/ StartToken \/ PrintEnv \/ Collected \/ Quiet \/ AllShut \/ Release
  BY <1>8, <1>10 DEF Aside, ListenPorts, Listen, StartToken, StartTokenLeaving, PrintEnv, Collected,
                     Quiet, AllShut, Release, MainGoes, Goto, Fail
<1>11. CASE \/ \E v \in Vaults : ClosesVault(v) \/ ListenerFails(v)
            \/ \E v \in Vaults : BunkerUse(v) \/ TokenRequest(v) \/ TokenUse(v) \/ KeyDone(v)
            \/ Cancel \/ UNCHANGED vars
  BY <1>8, <1>11 DEF Aside, ClosesVault, CloseVaultOf, ListenerFails, BunkerUse, TokenRequest,
                     TokenUse, TokenUseWhen, KeyDone, SetUse, Cancel, vars
<1> QED
  BY NextIsSteps, <1>2, <1>3, <1>4, <1>5, <1>6, <1>7, <1>9, <1>10, <1>11 DEF Steps

\* Nobody waits, directly or not, for somebody who waits for him: serve waits for
\* goroutines that are in bunker.Wait or have its result; those wait for a Close,
\* which has come when serve collects them; a Close, of a bunker or a vault, waits
\* for a user of the key, who has an open vault and waits for nobody.
NoCircularWait ==
  /\ pc = "wait" => \A v \in Named : \/ waiter[v] = "sent"
                                     \/ waiter[v] = "waiting" /\ bunker[v] # "none"
  /\ pc = "collect" => \A v \in Named : waiter[v] # "none" /\ bunker[v] = "closed"
  /\ \A v \in Vaults : use[v] # "nobody" => vault[v] = "open"

\* No deadlock: whoever main waits for can go on without it.
THEOREM WaitsAreOrdered == Spec => []NoCircularWait
<1>1. ASSUME IInv, WaitersInv PROVE NoCircularWait
  <2> USE <1>1, ArgsAreVaults DEF IInv, TypeOK
  <2>1. \A v \in Named : v \in Vaults /\ (pc = "wait" => bunker[v] # "none")
    <3>1. \A k \in 1..Len(args) : args[k] \in Vaults /\ (pc = "wait" => bunker[args[k]] # "none")
      BY DEF Order
    <3> QED
      BY ONLY <3>1 DEF Named
  <2>2. pc = "wait" => \A v \in Named : \/ waiter[v] = "sent"
                                        \/ waiter[v] = "waiting" /\ bunker[v] # "none"
    BY <2>1 DEF WaitersInv
  <2>3. pc = "collect" => \A v \in Named : waiter[v] # "none" /\ bunker[v] = "closed"
    BY DEF WaitersInv
  <2>4. \A v \in Vaults : use[v] # "nobody" => vault[v] = "open"
    BY DEF VaultsLast
  <2> QED
    BY <2>2, <2>3, <2>4 DEF NoCircularWait
<1>2. Init => WaitersInv
  BY DEF Init, WaitersInv
<1> QED
  BY <1>1, <1>2, WaitersKept, Inductive, PTL DEF Spec

\* How many steps main has left at most, at a place and the k-th of n vaults:
\* every vault that is still to come costs nine.
PlacesFrom(p) == CASE p \in Prompts -> 9 [] p = "open" -> 8 [] p = "claim" -> 7
                   [] p = "listen_ws" -> 6 [] p = "listen_wss" -> 5 [] p = "create" -> 4
                   [] p = "report" -> 3 [] p = "token" -> 2 [] p = "bunker" -> 1
                   [] p = "print" -> 8 [] p = "notify" -> 7 [] p = "wait" -> 6
                   [] p = "close" -> 5 [] p = "collect" -> 4 [] p = "unwind" -> 3
                   [] p = "vaults" -> 2 [] p = "release" -> 1 [] OTHER -> 0
MainLeft(p, k, n) == CASE p = "check" -> 10 + 9 * n + (n - k)
                       [] p \in Starting \ {"check"} -> 9 + 9 * (n - k) + PlacesFrom(p)
                       [] OTHER -> PlacesFrom(p)

\* Main never goes back to a place it has left, and no vault, bunker, signer or
\* waiting goroutine to a state it has left: nothing is started a second time.
OnlyForward ==
  [][/\ <<pc, i>>' # <<pc, i>> => MainLeft(pc', i', Len(args')) < MainLeft(pc, i, Len(args))
     /\ \A v \in Vaults :
          /\ vault'[v] # vault[v] => <<vault[v], vault'[v]>> \in {<<"shut", "open">>, <<"open", "closed">>}
          /\ bunker'[v] # bunker[v] => <<bunker[v], bunker'[v]>> \in {<<"none", "up">>, <<"up", "closed">>}
          /\ token'[v] # token[v] => <<token[v], token'[v]>> \in {<<"none", "up">>, <<"up", "closed">>}
          /\ waiter'[v] # waiter[v] =>
               <<waiter[v], waiter'[v]>> \in {<<"none", "waiting">>, <<"waiting", "sent">>, <<"sent", "taken">>}]_vars

\* Where a step takes main.
LEMMA MainForward ==
  ASSUME IInv, [Next]_vars, <<pc, i>>' # <<pc, i>>
  PROVE  MainLeft(pc', i', Len(args')) < MainLeft(pc, i, Len(args))
<1> USE ArgsAreVaults DEF IInv, TypeOK, mainVars, vaultVars, serveVars
<1>1. args' = args
  BY NextIsSteps
     DEF Steps, vars, CheckArgument, CheckWith, Prompt, OpenProfile, ReportKey, ClaimPorts,
         ClaimUnless, ListenPorts, Listen, StartToken, StartTokenLeaving, StartBunker, StartBunkerOr,
         PrintEnv, NotifyReady, FirstResult, CollectRest, TakeResult, Collected, Closes,
         CloseBunkerOf, CloseTokenOf, MainGoes, Stopped, Quiet, ClosesVault, CloseVaultOf, AllShut,
         Release, Cancel, WaitReturns, ListenerFails, BunkerUse, TokenRequest, TokenUse,
         TokenUseWhen, KeyDone, SetUse
<1> DEFINE n == Len(args)
<1>2. n \in Nat /\ i \in 1..n
  OBVIOUS
<1>3. CASE CheckArgument
  <2>1. pc = "check"
    BY <1>3 DEF CheckArgument, CheckWith
  <2>2. \/ pc' = "unwind" /\ i' = i
        \/ pc' = "unlock" /\ i' = 1
        \/ pc' = "check" /\ i' = i + 1 /\ i # n
    BY <1>3 DEF CheckArgument, CheckWith, Fail
  <2> HIDE DEF n
  <2> QED
    BY <1>1, <1>2, <2>1, <2>2 DEF MainLeft, PlacesFrom, n
<1>4. CASE StartBunker
  <2>1. pc = "bunker"
    BY <1>4 DEF StartBunker, StartBunkerOr
  <2>2. \/ pc' = "unwind" /\ i' = i
        \/ pc' = "print" /\ i' = i
        \/ pc' = "unlock" /\ i' = i + 1 /\ i # n
    BY <1>4 DEF StartBunker, StartBunkerOr, Fail
  <2> QED
    BY <1>1, <1>2, <2>1, <2>2 DEF MainLeft, PlacesFrom
<1>5. CASE ~CheckArgument /\ ~StartBunker
  <2>1. i' = i
    BY <1>5, NextIsSteps
       DEF Steps, vars, Prompt, OpenProfile, HoldCapability, ReportKey, ClaimPorts, ClaimUnless,
           ListenPorts, Listen, StartToken, StartTokenLeaving, PrintEnv, NotifyReady, FirstResult,
           CollectRest, TakeResult, Collected, Closes, CloseBunkerOf, CloseTokenOf, MainGoes, Stopped,
           Quiet, ClosesVault, CloseVaultOf, AllShut, Release, Cancel, WaitReturns, ListenerFails,
           BunkerUse, TokenRequest, TokenUse, TokenUseWhen, KeyDone, SetUse, Goto, Fail
  <2>2. \/ pc \in Starting \ {"check"} /\ pc' = "unwind"
        \/ pc \in Prompts /\ pc' \in {"open", "listen_ws"}
        \/ pc = "open" /\ pc' = "claim"
        \/ pc = "create" /\ pc' = "report"
        \/ pc = "report" /\ pc' = "token"
        \/ pc = "claim" /\ pc' = "listen_ws"
        \/ pc = "listen_ws" /\ pc' = "listen_wss"
        \/ pc = "listen_wss" /\ pc' \in {"create", "token"}
        \/ pc = "token" /\ pc' = "bunker"
        \/ pc = "print" /\ pc' = "notify"
        \/ pc = "notify" /\ pc' \in {"wait", "unwind"}
        \/ pc = "wait" /\ pc' = "close"
        \/ pc = "close" /\ pc' = "collect"
        \/ pc = "collect" /\ pc' = "unwind"
        \/ pc = "unwind" /\ pc' = "vaults"
        \/ pc = "vaults" /\ pc' = "release"
        \/ pc = "release" /\ pc' = "ended"
    BY <1>5, <2>1, NextIsSteps
       DEF Steps, vars, Prompt, OpenProfile, HoldCapability, ReportKey, ClaimPorts, ClaimUnless,
           ListenPorts, Listen, StartToken, StartTokenLeaving, PrintEnv, NotifyReady, FirstResult,
           CollectRest, TakeResult, Collected, Closes, CloseBunkerOf, CloseTokenOf, MainGoes, Stopped,
           Quiet, ClosesVault, CloseVaultOf, AllShut, Release, Cancel, WaitReturns, ListenerFails,
           BunkerUse, TokenRequest, TokenUse, TokenUseWhen, KeyDone, SetUse, Goto, Fail
  <2>3. PICK m \in Nat : m = 9 * (n - i)
    BY <1>2
  <2>4. \/ /\ {pc, pc'} \subseteq Starting \ {"check"}
           /\ PlacesFrom(pc') \in Nat /\ PlacesFrom(pc) \in Nat /\ PlacesFrom(pc') < PlacesFrom(pc)
        \/ /\ pc \in Starting \ {"check"} /\ pc' \notin Starting
           /\ PlacesFrom(pc') = 3 /\ PlacesFrom(pc) \in Nat
        \/ /\ pc \notin Starting /\ pc' \notin Starting
           /\ PlacesFrom(pc') < PlacesFrom(pc)
    BY ONLY <2>2 DEF PlacesFrom, Starting, Prompts
  <2>5. \A q : q # "check" =>
          MainLeft(q, i, n) = IF q \in Starting \ {"check"} THEN 9 + m + PlacesFrom(q) ELSE PlacesFrom(q)
    BY ONLY <2>3 DEF MainLeft
  <2>6. pc # "check" /\ pc' # "check"
    BY ONLY <2>2 DEF Prompts, Starting
  <2>7. MainLeft(pc', i, n) < MainLeft(pc, i, n)
    BY ONLY <2>3, <2>4, <2>5, <2>6
  <2> QED
    BY ONLY <1>1, <2>1, <2>7
<1> QED
  BY <1>3, <1>4, <1>5
\* Where a step takes a vault, its bunker, its signer and the goroutine in Wait.
LEMMA VaultForward ==
  ASSUME IInv, [Next]_vars, NEW v \in Vaults
  PROVE  /\ vault'[v] # vault[v] => <<vault[v], vault'[v]>> \in {<<"shut", "open">>, <<"open", "closed">>}
         /\ bunker'[v] # bunker[v] => <<bunker[v], bunker'[v]>> \in {<<"none", "up">>, <<"up", "closed">>}
         /\ token'[v] # token[v] => <<token[v], token'[v]>> \in {<<"none", "up">>, <<"up", "closed">>}
         /\ waiter'[v] # waiter[v] =>
              <<waiter[v], waiter'[v]>> \in {<<"none", "waiting">>, <<"waiting", "sent">>, <<"sent", "taken">>}
<1> USE ArgsAreVaults DEF IInv, TypeOK, mainVars, vaultVars, serveVars
<1>1. CASE OpenProfile
  <2>1. UNCHANGED <<bunker, token, waiter>>
    BY <1>1 DEF OpenProfile
  <2>2. vault[cur] = "shut"
    BY <1>1 DEF OpenProfile, HoldCapability, Stage, Idle, Holding, Modes
  <2>3. vault' = vault \/ vault' = [vault EXCEPT ![cur] = "open"]
    BY <1>1 DEF OpenProfile, HoldCapability
  <2>4. vault'[v] = vault[v] \/ (vault[v] = "shut" /\ vault'[v] = "open")
    BY <2>2, <2>3
  <2> QED
    BY <2>1, <2>4
<1>2. CASE StartToken
  <2>1. UNCHANGED <<vault, bunker, waiter>>
    BY <1>2 DEF StartToken, StartTokenLeaving
  <2>2. token'[v] = token[v] \/ (token[v] = "none" /\ token'[v] = "up")
    BY <1>2 DEF StartToken, StartTokenLeaving, Stage, Holding, cur
  <2> QED
    BY <2>1, <2>2
<1>3. CASE StartBunker
  <2>1. UNCHANGED <<vault, waiter>>
    BY <1>3 DEF StartBunker, StartBunkerOr
  <2>2. bunker'[v] = bunker[v] \/ (bunker[v] = "none" /\ bunker'[v] = "up")
    BY <1>3 DEF StartBunker, StartBunkerOr, Stage, Holding, cur
  <2>3. token'[v] = token[v] \/ (token[v] = "up" /\ token'[v] = "closed")
    BY <1>3 DEF StartBunker, StartBunkerOr, Closed
  <2> QED
    BY <2>1, <2>2, <2>3
<1>4. CASE NotifyReady
  <2>1. UNCHANGED <<vault, bunker, token>>
    BY <1>4 DEF NotifyReady
  <2>2. waiter'[v] = waiter[v] \/ (waiter[v] = "none" /\ waiter'[v] = "waiting")
    BY <1>4 DEF NotifyReady, Results
  <2> QED
    BY <2>1, <2>2
<1>5. CASE FirstResult \/ CollectRest \/ \E w \in Vaults : WaitReturns(w)
  <2>1. PICK w : TakeResult(w) \/ WaitReturns(w)
    BY <1>5 DEF FirstResult, CollectRest
  <2>2. UNCHANGED <<vault, bunker, token>>
    BY <2>1 DEF TakeResult, WaitReturns
  <2>3. \/ waiter'[v] = waiter[v]
        \/ waiter[v] = "waiting" /\ waiter'[v] = "sent"
        \/ waiter[v] = "sent" /\ waiter'[v] = "taken"
    BY <2>1 DEF TakeResult, WaitReturns
  <2> QED
    BY <2>2, <2>3
<1>6. CASE \E w \in Vaults : Closes(w) \/ ClosesVault(w)
  <2>1. PICK w \in Vaults : CloseBunkerOf(w) \/ CloseTokenOf(w) \/ ClosesVault(w)
    BY <1>6 DEF Closes
  <2>2. waiter' = waiter
    BY <2>1 DEF CloseBunkerOf, CloseTokenOf, ClosesVault, CloseVaultOf
  <2>3. /\ vault'[v] = vault[v] \/ (vault[v] = "open" /\ vault'[v] = "closed")
        /\ bunker'[v] = bunker[v] \/ (bunker[v] = "up" /\ bunker'[v] = "closed")
        /\ token'[v] = token[v] \/ (token[v] = "up" /\ token'[v] = "closed")
    BY <2>1 DEF CloseBunkerOf, CloseTokenOf, ClosesVault, CloseVaultOf
  <2> QED
    BY <2>2, <2>3
<1>7. CASE UNCHANGED <<vault, bunker, token, waiter>>
  BY <1>7
<1> QED
  BY NextIsSteps, <1>1, <1>2, <1>3, <1>4, <1>5, <1>6, <1>7
     DEF Steps, vars, CheckArgument, CheckWith, Prompt, ReportKey, ClaimPorts, ClaimUnless,
         ListenPorts, Listen, PrintEnv, Collected, MainGoes, Stopped, Quiet, AllShut, Release, Cancel,
         ListenerFails, BunkerUse, TokenRequest, TokenUse, TokenUseWhen, KeyDone, SetUse

\* The way of a run is finite: main changes its place at most 10n + 9 times over n
\* vaults, and nothing that was closed is opened again.
THEOREM RunGoesOn == Spec => OnlyForward
<1> DEFINE Forward ==
      /\ <<pc, i>>' # <<pc, i>> => MainLeft(pc', i', Len(args')) < MainLeft(pc, i, Len(args))
      /\ \A v \in Vaults :
           /\ vault'[v] # vault[v] => <<vault[v], vault'[v]>> \in {<<"shut", "open">>, <<"open", "closed">>}
           /\ bunker'[v] # bunker[v] => <<bunker[v], bunker'[v]>> \in {<<"none", "up">>, <<"up", "closed">>}
           /\ token'[v] # token[v] => <<token[v], token'[v]>> \in {<<"none", "up">>, <<"up", "closed">>}
           /\ waiter'[v] # waiter[v] =>
                <<waiter[v], waiter'[v]>> \in {<<"none", "waiting">>, <<"waiting", "sent">>, <<"sent", "taken">>}
<1>1. IInv /\ [Next]_vars => [Forward]_vars
  BY MainForward, VaultForward
<1> QED
  BY <1>1, Inductive, PTL DEF Spec, OnlyForward

\* A vault that was closed stays closed, and from then on nothing of it runs: no
\* bunker, no signer, and nobody with its key.
THEOREM VaultClosedForGood ==
  ASSUME NEW v \in Vaults
  PROVE  Spec => [](vault[v] = "closed" =>
                      [](/\ vault[v] = "closed" /\ use[v] = "nobody"
                         /\ bunker[v] # "up" /\ token[v] # "up"))
<1> DEFINE Shut == vault[v] = "closed"
           Still == /\ vault[v] = "closed" /\ use[v] = "nobody"
                    /\ bunker[v] # "up" /\ token[v] # "up"
<1>1. IInv /\ Shut => Still
  BY DEF IInv, VaultsLast
<1>2. IInv /\ Shut /\ [Next]_vars => Shut'
  BY VaultForward
<1> HIDE DEF Shut, Still
<1>3. Spec => [](Shut => []Still)
  BY <1>1, <1>2, Inductive, PTL DEF Spec
<1> QED
  BY <1>3 DEF Shut, Still
=============================================================================
