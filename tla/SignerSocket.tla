----------------------------- MODULE SignerSocket -----------------------------
(***************************************************************************)
(* The files of the PKCS#11 signer (src/token/token.go: Start, listenUnix, *)
(* Close): the Unix socket and the SunPKCS11 config of one name, which     *)
(* runs of hotbox bind, remove and replace.                                *)
(*                                                                         *)
(* Each run opens a vault, starts the signer under the name sealed in it,  *)
(* closes the signer and then the vault (src/main.go).  A vault is open in *)
(* one process at a time, but two vaults may hold the same name.  Start    *)
(* binds the socket under a file lock; Close removes it without the lock.  *)
(***************************************************************************)
EXTENDS Naturals

CONSTANTS Runs,       \* runs of hotbox whose signers share one name
          Vaults,     \* vault files
          VaultOf     \* the vault each run opens

NoRun == "none"
ASSUME RunsAssumption == /\ NoRun \notin Runs
                         /\ VaultOf \in [Runs -> Vaults]

VARIABLES
  pc,         \* where each run is in Start or Close
  flock,      \* the run that holds the lock on <name>.lock
  socket,     \* the run whose socket the path leads to
  listening,  \* runs whose listener is open
  config,     \* the config file exists
  wrote       \* runs whose Token.Config is not empty

vars == <<pc, flock, socket, listening, config, wrote>>

Locked == {"dial", "clear", "listen", "chmod"}
Closing == {"unlink", "shut", "remove", "forget", "release"}
Active == {"opened", "config", "up"} \cup Locked \cup Closing

\* The lock is held by the one run inside listenUnix.
TypeOK == /\ pc \in [Runs -> {"idle", "ended", "crashed"} \cup Active]
          /\ flock \in Runs \cup {NoRun}
          /\ \A r \in Runs : flock = r <=> pc[r] \in Locked
          /\ socket \in Runs \cup {NoRun}
          /\ listening \in SUBSET Runs
          /\ config \in BOOLEAN
          /\ wrote \in SUBSET Runs

Init == /\ pc = [r \in Runs |-> "idle"]
        /\ flock = NoRun
        /\ socket = NoRun
        /\ listening = {}
        /\ config = FALSE
        /\ wrote = {}

Goto(r, from, to) == pc[r] = from /\ pc' = [pc EXCEPT ![r] = to]

-----------------------------------------------------------------------------
(* Start.                                                                   *)

\* main defers the close of the vaults before that of the signers.
HoldsVaultLess(r) == pc[r] \in Active \ {"shut", "remove", "forget", "release"}   \* mutant: after it
HoldsVault(r) == pc[r] \in Active

\* A vault that is open elsewhere is refused (ErrBusy).
OpenVault(r) ==
  /\ \A s \in Runs : VaultOf[s] = VaultOf[r] => ~HoldsVault(s)
  /\ Goto(r, "idle", "opened")
  /\ UNCHANGED <<flock, socket, listening, config, wrote>>

\* listenUnix: the lock is waited for.
FlockShared(r) ==                              \* mutant: LOCK_SH
  /\ Goto(r, "opened", "dial")
  /\ flock' = r
  /\ UNCHANGED <<socket, listening, config, wrote>>
Flock(r) == flock = NoRun /\ FlockShared(r)

\* Start refuses before it, or the lock file cannot be opened or locked.
LockFails(r) ==
  /\ Goto(r, "opened", "release")
  /\ UNCHANGED <<flock, socket, listening, config, wrote>>

\* A listener answers: "already running".  The lock is left to after.
DialThen(r, after) ==
  /\ IF socket \in listening
       THEN Goto(r, "dial", "release") /\ flock' = after
       ELSE Goto(r, "dial", "clear") /\ UNCHANGED flock
  /\ UNCHANGED <<socket, listening, config, wrote>>

DialKeepsLock(r) == DialThen(r, flock)         \* mutant: no deferred unlock
Dial(r) == DialThen(r, NoRun)

\* Nobody answers: what is at the path is left over and goes.
RemoveOld(r) ==
  /\ Goto(r, "clear", "listen")
  /\ socket' = NoRun
  /\ UNCHANGED <<flock, listening, config, wrote>>

\* net.Listen binds the path, unless there is a file or the system refuses.
Listen(r) ==
  /\ \/ /\ socket = NoRun
        /\ Goto(r, "listen", "chmod")
        /\ socket' = r
        /\ listening' = listening \cup {r}
        /\ UNCHANGED flock
     \/ /\ Goto(r, "listen", "release")
        /\ flock' = NoRun
        /\ UNCHANGED <<socket, listening>>
  /\ UNCHANGED <<config, wrote>>

\* Chmod fails when the path is gone already (or the system refuses): the
\* listener is closed and the path removed.  The lock is released on return.
ChmodOr(r, pathAfter, listeningAfter) ==
  /\ \/ /\ socket # NoRun
        /\ Goto(r, "chmod", "config")
        /\ UNCHANGED <<socket, listening>>
     \/ /\ Goto(r, "chmod", "release")
        /\ socket' = pathAfter
        /\ listening' = listeningAfter
  /\ flock' = NoRun
  /\ UNCHANGED <<config, wrote>>

ChmodLeaks(r) == ChmodOr(r, socket, listening)     \* mutant: returns without cleaning up
Chmod(r) == ChmodOr(r, NoRun, listening \ {r})

\* The config is written when there is a PKCS#11 module.  A failed write may
\* leave a file; the listener is closed and the path removed, without the lock.
WriteConfig(r) ==
  /\ \/ /\ Goto(r, "config", "up")
        /\ \/ config' = TRUE /\ wrote' = wrote \cup {r}
           \/ UNCHANGED <<config, wrote>>
     \/ /\ Goto(r, "config", "unlink")
        /\ config' \in {config, TRUE}
        /\ UNCHANGED wrote
  /\ UNCHANGED <<flock, socket, listening>>

-----------------------------------------------------------------------------
(* Close, by main or when the context is done.                              *)

AskClose(r) ==
  /\ Goto(r, "up", "unlink")
  /\ UNCHANGED <<flock, socket, listening, config, wrote>>

\* ln.Close unlinks the path, whatever is there, and then closes the listener.
Unlink(r) ==
  /\ Goto(r, "unlink", "shut")
  /\ socket' = NoRun
  /\ UNCHANGED <<flock, listening, config, wrote>>

CloseListener(r) ==
  /\ Goto(r, "shut", "remove")
  /\ listening' = listening \ {r}
  /\ UNCHANGED <<flock, socket, config, wrote>>

\* os.Remove(t.Path), again whatever is there.
RemoveSocket(r) ==
  /\ Goto(r, "remove", IF r \in wrote THEN "forget" ELSE "release")
  /\ socket' = NoRun
  /\ UNCHANGED <<flock, listening, config, wrote>>

RemoveConfig(r) ==
  /\ Goto(r, "forget", "release")
  /\ config' = FALSE
  /\ UNCHANGED <<flock, socket, listening, wrote>>

\* The vault is closed last, after the signer.
CloseVault(r) ==
  /\ Goto(r, "release", "ended")
  /\ UNCHANGED <<flock, socket, listening, config, wrote>>

\* The process is killed: the system closes its files, the path stays.
Crash(r) ==
  /\ pc[r] \in Active
  /\ pc' = [pc EXCEPT ![r] = "crashed"]
  /\ flock' = IF flock = r THEN NoRun ELSE flock
  /\ listening' = listening \ {r}
  /\ UNCHANGED <<socket, config, wrote>>

StartStep(r) == \/ Flock(r) \/ Dial(r) \/ RemoveOld(r) \/ Listen(r) \/ Chmod(r)
                \/ WriteConfig(r)
CloseStep(r) == \/ Unlink(r) \/ CloseListener(r) \/ RemoveSocket(r) \/ RemoveConfig(r)
                \/ CloseVault(r)
Step(r) == StartStep(r) \/ CloseStep(r)

Next == \E r \in Runs : OpenVault(r) \/ LockFails(r) \/ Step(r) \/ AskClose(r) \/ Crash(r)

Spec == Init /\ [][Next]_vars

\* A run that can take a step takes it, when to close apart; there are finitely
\* many steps, so it is enough that some enabled one is taken.  Nothing makes the
\* lock fail.
FairSpec == Spec /\ WF_vars(\E r \in Runs : Step(r))

-----------------------------------------------------------------------------
(* Properties.                                                              *)

\* Where a run's socket may be at the path: from binding it to unlinking it, or
\* for ever if the run was killed.
MayOwn == {"chmod", "config", "up", "unlink", "crashed"}

\* A run that closed its signer, or failed to start it, leaves no socket behind,
\* whatever other runs of the name were doing.
NoStaleSocket == \A r \in Runs : socket = r => pc[r] \in MayOwn

\* net.Listen finds the path free, although runs that close touch it without
\* the lock: what a killed run left over never stops the next one.
BindsFreePath == \A r \in Runs : pc[r] = "listen" => socket = NoRun

\* Only runs of one vault so far.
OneVault == \A r, s \in Runs : pc[r] # "idle" /\ pc[s] # "idle" => VaultOf[r] = VaultOf[s]

\* While a signer is up, the path leads to it, and its config is there, also after
\* restarts and crashes.  This takes runs of one vault: the vault keeps their lives
\* apart.
Reachable ==
  OneVault =>
    \A r \in Runs : pc[r] = "up" => socket = r /\ r \in listening /\ (r \in wrote => config)

\* What TestSignerRestart (src/token/token_test.go) asserts and listenUnix says
\* with "already running": a second signer of a name does not start.
OneSigner == \A r, s \in Runs : pc[r] = "up" /\ pc[s] = "up" => r = s

\* A start that waits for the lock comes to an end: no path out of listenUnix,
\* and no killed run, keeps it locked.
StartDecides == \A r \in Runs : pc[r] = "opened" ~> pc[r] \in {"up", "ended", "crashed"}
=============================================================================
