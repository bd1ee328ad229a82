------------------------------- MODULE Hotbox -------------------------------
(***************************************************************************)
(* One run of hotbox (src/main.go): openAndRun over the vaults named on    *)
(* the command line, or createAndRun for a new one, then serve and the     *)
(* deferred releases.  The main goroutine is pc; beside it run, for every  *)
(* vault, the bunker (module Bunker, here one step per Start or Close),    *)
(* the signer (modules Token and SignerSocket), and their handlers, which  *)
(* borrow the vault's key one at a time through the profile's gate.        *)
(***************************************************************************)
EXTENDS Naturals, Sequences

CONSTANTS Vaults,    \* the containers, by resolved path
          ArgLists,  \* the command lines: non-empty sequences of vaults
          New,       \* the vault a run without arguments creates
          Label,     \* of each vault, from its file name
          SealedName,\* the profile name sealed inside it, which names the socket
          Port,      \* the ws and the wss port sealed inside it
          Android    \* the vaults that hold an Android key

ASSUME ArgListsAssumption == ArgLists \subseteq Seq(Vaults) \ {<<>>}
ASSUME NewAssumption == New \in Vaults

VARIABLES
  mode,      \* "open" or "create"
  args,      \* the vaults of this run, in order
  pc,        \* where the main goroutine is
  i,         \* the vault it is at
  err,       \* the run ends with an error
  claimed,   \* the ports of openAndRun's ports map
  vault,     \* each vault: "shut", "open", "closed"
  lsn,       \* its listeners that are open
  secret,    \* the vaults whose Profile still holds the capability and PIN
  bunker,    \* "none", "up", "closed"
  fault,     \* the bunkers one of whose listeners failed by itself
  token,     \* "none", "up", "closed"
  request,   \* its signer has a request whose PIN was accepted
  use,       \* who runs with a key of the vault: "nobody", "bunker", "token"
  waiter,    \* the goroutine in bunker.Wait: "none", "waiting", "sent", "taken"
  cancelled, \* the context is done
  ready      \* the service manager was told READY=1

mainVars  == <<mode, args, pc, i, err, claimed>>
vaultVars == <<vault, secret, request, use>>
serveVars == <<lsn, bunker, fault, token>>
vars == <<mainVars, vaultVars, serveVars, waiter, cancelled, ready>>

Sockets == {"ws", "wss"}
Prompts == {"ask", "unlock"}
Starting == {"check", "open", "create", "claim", "listen_ws", "listen_wss", "report",
             "token", "bunker"} \cup Prompts
Serving == {"print", "notify", "wait", "close", "collect"}
Ending == {"unwind", "vaults", "release", "ended"}

Ports(v) == {Port[v][s] : s \in Sockets}

TypeOK ==
  /\ mode \in {"open", "create"}
  /\ args \in Seq(Vaults)
  /\ pc \in Starting \cup Serving \cup Ending
  /\ i \in 1..Len(args)
  /\ err \in BOOLEAN
  /\ claimed \subseteq UNION {Ports(v) : v \in Vaults}
  /\ vault \in [Vaults -> {"shut", "open", "closed"}]
  /\ lsn \in [Vaults -> SUBSET Sockets]
  /\ secret \subseteq Vaults
  /\ bunker \in [Vaults -> {"none", "up", "closed"}]
  /\ fault \subseteq Vaults
  /\ token \in [Vaults -> {"none", "up", "closed"}]
  /\ request \in [Vaults -> BOOLEAN]
  /\ use \in [Vaults -> {"nobody", "bunker", "token"}]
  /\ waiter \in [Vaults -> {"none", "waiting", "sent", "taken"}]
  /\ cancelled \in BOOLEAN
  /\ ready \in BOOLEAN

Init ==
  /\ \/ mode = "open" /\ args \in ArgLists /\ pc = "check"
     \/ mode = "create" /\ args = <<New>> /\ pc = "ask"
  /\ i = 1
  /\ err = FALSE
  /\ claimed = {}
  /\ vault = [v \in Vaults |-> "shut"]
  /\ lsn = [v \in Vaults |-> {}]
  /\ secret = {}
  /\ bunker = [v \in Vaults |-> "none"]
  /\ fault = {}
  /\ token = [v \in Vaults |-> "none"]
  /\ request = [v \in Vaults |-> FALSE]
  /\ use = [v \in Vaults |-> "nobody"]
  /\ waiter = [v \in Vaults |-> "none"]
  /\ cancelled = FALSE
  /\ ready = FALSE

Named == {args[k] : k \in 1..Len(args)}
cur == args[i]

Goto(p) == pc' = p /\ UNCHANGED <<i, err>>
Fail == pc' = "unwind" /\ err' = TRUE /\ UNCHANGED i

-----------------------------------------------------------------------------
(* Before anything is opened.                                               *)

\* A path or a label that an earlier argument has, or a file that is missing or
\* is no container, ends the run.
CheckWith(repeated, isLast) ==
  /\ pc = "check"
  /\ \/ Fail
     \/ /\ ~repeated
        /\ pc' = IF isLast THEN "unlock" ELSE "check"
        /\ i' = IF isLast THEN 1 ELSE i + 1
        /\ UNCHANGED err
  /\ UNCHANGED <<mode, args, claimed, vaultVars, serveVars, waiter, cancelled, ready>>

SamePath(k) == args[k] = cur
SameLabel(k) == Label[args[k]] = Label[cur]

CheckArgument == CheckWith(\E k \in 1..(i - 1) : SamePath(k) \/ SameLabel(k), i = Len(args))

\* unlockPassword, and the questions of createAndRun.  They wait for the user
\* and know nothing of the context.
Prompt ==
  /\ pc \in Prompts
  /\ \/ Fail
     \/ Goto(IF mode = "create" THEN "listen_ws" ELSE "open")
  /\ UNCHANGED <<mode, args, claimed, vaultVars, serveVars, waiter, cancelled, ready>>

-----------------------------------------------------------------------------
(* One vault.                                                               *)

HoldCapability(p) == /\ vault' = [vault EXCEPT ![cur] = "open"]
                     /\ secret' = secret \cup {cur}
                     /\ Goto(p)

\* openKeyArgs and profile.Open; profile.Create.
OpenProfile ==
  /\ \/ pc = "open" /\ HoldCapability("claim")
     \/ pc = "create" /\ HoldCapability("report")
     \/ pc \in {"open", "create"} /\ Fail /\ UNCHANGED <<vault, secret>>
  /\ UNCHANGED <<mode, args, claimed, request, use, serveVars, waiter, cancelled, ready>>

\* keyReport copies a keychain key out of the vault and may fail; the profile
\* is not wiped then.
ReportKey ==
  /\ pc = "report"
  /\ Fail \/ Goto("token")
  /\ UNCHANGED <<mode, args, claimed, vaultVars, serveVars, waiter, cancelled, ready>>

WipeAnd == secret' = secret \ {cur}

ClaimUnless(taken) ==
  /\ pc = "claim"
  /\ IF taken
       THEN Fail /\ WipeAnd /\ UNCHANGED claimed
       ELSE /\ Goto("listen_ws")
            /\ claimed' = claimed \cup Ports(cur)
            /\ UNCHANGED secret
  /\ UNCHANGED <<mode, args, vault, request, use, serveVars, waiter, cancelled, ready>>

ClaimAny == ClaimUnless(FALSE)     \* mutant: listening finds out
Repeated == Port[cur]["ws"] = Port[cur]["wss"]
ClaimPorts == ClaimUnless(Repeated \/ Ports(cur) \cap claimed # {})

\* listenVault or listenPair: one listener after the other.  The port may be in
\* use, by another program or by this one; a failure closes the first listener.
Listen(from, sock, next) ==
  /\ pc = from
  /\ \/ /\ \A v \in Vaults : \A s \in lsn[v] : Port[v][s] # Port[cur][sock]
        /\ Goto(next)
        /\ lsn' = [lsn EXCEPT ![cur] = @ \cup {sock}]
        /\ UNCHANGED secret
     \/ /\ Fail
        /\ lsn' = [lsn EXCEPT ![cur] = {}]
        /\ IF mode = "open" THEN WipeAnd ELSE UNCHANGED secret
  /\ UNCHANGED <<mode, args, claimed, vault, request, use, bunker, fault, token, waiter,
                 cancelled, ready>>

ListenWsOnly == Listen("listen_ws", "ws", "token")     \* mutant: no second listener
ListenPorts == \/ Listen("listen_ws", "ws", "listen_wss")
               \/ Listen("listen_wss", "wss", IF mode = "create" THEN "create" ELSE "token")

\* startToken: nothing to do without an Android key.  A socket that another
\* signer serves under this sealed name is refused, and any step of it may fail.
StartTokenLeaving(left) ==
  /\ pc = "token"
  /\ \/ /\ cur \notin Android
        /\ Goto("bunker")
        /\ UNCHANGED <<token, lsn, secret>>
     \/ /\ cur \in Android
        /\ \A w \in Vaults : SealedName[w] = SealedName[cur] => token[w] # "up"
        /\ Goto("bunker")
        /\ token' = [token EXCEPT ![cur] = "up"]
        /\ UNCHANGED <<lsn, secret>>
     \/ /\ cur \in Android
        /\ Fail
        /\ WipeAnd
        /\ lsn' = [lsn EXCEPT ![cur] = left]
        /\ UNCHANGED token
  /\ UNCHANGED <<mode, args, claimed, vault, request, use, bunker, fault, waiter, cancelled, ready>>

StartTokenKeepsPorts == StartTokenLeaving(lsn[cur])    \* mutant: the listeners stay open
StartToken == StartTokenLeaving(IF mode = "open" THEN {} ELSE lsn[cur])

\* bunker.Start closes the listeners when it fails; the profile is wiped either
\* way.  The bunker joins the running ones, and the next vault follows.
StartBunkerOr(tokenLeft) ==
  /\ pc = "bunker"
  /\ WipeAnd
  /\ \/ /\ bunker' = [bunker EXCEPT ![cur] = "up"]
        /\ pc' = IF i = Len(args) THEN "print" ELSE "unlock"
        /\ i' = IF i = Len(args) THEN i ELSE i + 1
        /\ UNCHANGED err
        /\ UNCHANGED <<lsn, token>>
     \/ /\ Fail
        /\ lsn' = [lsn EXCEPT ![cur] = {}]
        /\ token' = [token EXCEPT ![cur] = tokenLeft]
        /\ UNCHANGED bunker
  /\ UNCHANGED <<mode, args, claimed, vault, request, use, fault, waiter, cancelled, ready>>

Closed(state) == IF state = "up" THEN "closed" ELSE state
StartBunkerKeepsToken == StartBunkerOr(token[cur])     \* mutant: the signer stays up
StartBunker == StartBunkerOr(Closed(token[cur]))

-----------------------------------------------------------------------------
(* serve.                                                                   *)

PrintEnv ==
  /\ pc = "print"
  /\ Goto("notify")
  /\ UNCHANGED <<mode, args, claimed, vaultVars, serveVars, waiter, cancelled, ready>>

\* READY=1 goes out and every bunker gets a goroutine that waits for it, or the
\* message cannot be sent.
NotifyReady ==
  /\ pc = "notify"
  /\ \/ /\ Goto("wait")
        /\ ready' = TRUE
        /\ waiter' = [v \in Vaults |-> IF v \in Named THEN "waiting" ELSE waiter[v]]
     \/ Fail /\ UNCHANGED <<ready, waiter>>
  /\ UNCHANGED <<mode, args, claimed, vaultVars, serveVars, cancelled>>

\* errc <- b.Wait(): the channel has room for every result.
WaitReturns(v) ==
  /\ waiter[v] = "waiting"
  /\ bunker[v] = "closed"
  /\ waiter' = [waiter EXCEPT ![v] = "sent"]
  /\ UNCHANGED <<mainVars, vaultVars, serveVars, cancelled, ready>>

TakeResult(v) ==
  /\ waiter[v] = "sent"
  /\ waiter' = [waiter EXCEPT ![v] = "taken"]
  /\ err' = (err \/ v \in fault)
  /\ UNCHANGED <<mode, args, i, claimed, vaultVars, serveVars, cancelled, ready>>

FirstResult == pc = "wait" /\ pc' = "close" /\ \E v \in Named : TakeResult(v)
CollectRest == pc = "collect" /\ pc' = "collect" /\ \E v \in Named : TakeResult(v)

MainGoes(from, to) ==
  /\ pc = from
  /\ Goto(to)
  /\ UNCHANGED <<mode, args, claimed, vaultVars, serveVars, waiter, cancelled, ready>>

CollectOneOnly == MainGoes("collect", "unwind")     \* mutant: the other results are dropped
Collected == (\A v \in Named : waiter[v] = "taken") /\ MainGoes("collect", "unwind")

-----------------------------------------------------------------------------
(* Closing.  Bunker.Close waits for a handler that is using the key;       *)
(* Token.Close waits for nobody; Vault.Close waits for the key's user.      *)

CloseBunkerOf(v) ==
  /\ bunker[v] = "up"
  /\ use[v] # "bunker"
  /\ bunker' = [bunker EXCEPT ![v] = "closed"]
  /\ lsn' = [lsn EXCEPT ![v] = {}]
  /\ UNCHANGED <<mainVars, vaultVars, fault, token, waiter, cancelled, ready>>

CloseTokenOf(v) ==
  /\ token[v] = "up"
  /\ token' = [token EXCEPT ![v] = "closed"]
  /\ UNCHANGED <<mainVars, vaultVars, lsn, bunker, fault, waiter, cancelled, ready>>

\* The loops over running (a signer joins it with its bunker) and over opened go
\* in order.
FirstOf(k, S) == k \in S /\ \A j \in S : k <= j
BunkersUp == {k \in 1..Len(args) : bunker[args[k]] = "up"}
TokensUp == {k \in 1..Len(args) : token[args[k]] = "up" /\ bunker[args[k]] # "none"}
VaultsOpen == {k \in 1..Len(args) : vault[args[k]] = "open"}

CloseBunkers ==
  \/ pc = "close" /\ \E k \in BunkersUp : FirstOf(k, BunkersUp) /\ CloseBunkerOf(args[k])
  \/ BunkersUp = {} /\ MainGoes("close", "collect")

\* The deferred loops of serve and of its caller.
CloseRunning ==
  \/ /\ pc = "unwind"
     /\ \E k \in BunkersUp \cup TokensUp :
          /\ FirstOf(k, BunkersUp \cup TokensUp)
          /\ CloseBunkerOf(args[k]) \/ (k \notin BunkersUp /\ CloseTokenOf(args[k]))
  \/ BunkersUp \cup TokensUp = {} /\ MainGoes("unwind", "vaults")

CloseVaultOf(v) ==
  /\ use[v] = "nobody"
  /\ vault' = [vault EXCEPT ![v] = "closed"]
  /\ UNCHANGED <<mainVars, secret, request, use, serveVars, waiter, cancelled, ready>>

CloseVaults ==
  \/ pc = "vaults" /\ \E k \in VaultsOpen : FirstOf(k, VaultsOpen) /\ CloseVaultOf(args[k])
  \/ VaultsOpen = {} /\ MainGoes("vaults", "release")

\* createAndRun's listeners, when the bunker never started.
Release ==
  /\ pc = "release"
  /\ Goto("ended")
  /\ lsn' = [v \in Vaults |-> IF v \in Named /\ mode = "create" /\ bunker[v] = "none" THEN {} ELSE lsn[v]]
  /\ UNCHANGED <<mode, args, claimed, vaultVars, bunker, fault, token, waiter, cancelled, ready>>

-----------------------------------------------------------------------------
(* Beside the main goroutine.                                               *)

Cancel ==
  /\ ~cancelled
  /\ cancelled' = TRUE
  /\ UNCHANGED <<mainVars, vaultVars, serveVars, waiter, ready>>

\* A listener fails while nobody asked it to stop.
ListenerFails(v) ==
  /\ bunker[v] = "up"
  /\ v \notin fault
  /\ fault' = fault \cup {v}
  /\ \E s \in Sockets : lsn' = [lsn EXCEPT ![v] = @ \ {s}]
  /\ UNCHANGED <<mainVars, vaultVars, bunker, token, waiter, cancelled, ready>>

\* Bunker and signer close themselves when the context is done, the bunker also
\* after a listener failed.
WatchContext(v) == cancelled /\ CloseBunkerOf(v)
ServeReturns(v) == v \in fault /\ CloseBunkerOf(v)
WatchBunker(v) == WatchContext(v) \/ ServeReturns(v)
WatchToken(v) == cancelled /\ CloseTokenOf(v)

SetUse(v, u) == /\ use' = [use EXCEPT ![v] = u]
                /\ UNCHANGED <<mainVars, vault, secret, serveVars, waiter, cancelled, ready>>

\* A handler of the bunker finds b.use set, which holds off Close.
BunkerUse(v) == /\ bunker[v] = "up"
                /\ use[v] = "nobody"
                /\ SetUse(v, "bunker")
                /\ UNCHANGED request

\* A request that passed its PIN goes on whatever Close does; Use on a closed
\* vault is an error.
TokenRequest(v) == /\ token[v] = "up"
                   /\ ~request[v]
                   /\ request' = [request EXCEPT ![v] = TRUE]
                   /\ SetUse(v, use[v])

TokenUseWhen(v, free) ==
  /\ request[v]
  /\ free
  /\ request' = [request EXCEPT ![v] = FALSE]
  /\ SetUse(v, IF vault[v] = "open" THEN "token" ELSE "nobody")

TokenUseUngated(v) == TokenUseWhen(v, TRUE)     \* mutant: the callback takes no gate
TokenUse(v) == TokenUseWhen(v, use[v] = "nobody")

KeyDone(v) == use[v] # "nobody" /\ SetUse(v, "nobody") /\ UNCHANGED request

\* What the main goroutine does by itself, once a prompt is answered.
Main == \/ CheckArgument \/ OpenProfile \/ ReportKey \/ ClaimPorts \/ ListenPorts
        \/ StartToken \/ StartBunker \/ PrintEnv \/ NotifyReady
        \/ FirstResult \/ CollectRest \/ Collected
        \/ CloseBunkers \/ CloseRunning \/ CloseVaults \/ Release

Next == \/ Main \/ Prompt \/ Cancel
        \/ \E v \in Vaults : \/ WaitReturns(v) \/ ListenerFails(v)
                             \/ WatchBunker(v) \/ WatchToken(v)
                             \/ BunkerUse(v) \/ TokenRequest(v) \/ TokenUse(v) \/ KeyDone(v)

Spec == Init /\ [][Next]_vars

\* Goroutines that can run do, and a key use ends.  Whoever waits for the key
\* waits for a Go mutex, which starves nobody, so closing is strongly fair.
\* Nothing makes the user answer.
Fairness ==
  /\ SF_vars(Main)
  /\ \A v \in Vaults : /\ WF_vars(WaitReturns(v)) /\ WF_vars(KeyDone(v))
                       /\ SF_vars(WatchBunker(v)) /\ WF_vars(WatchToken(v))

FairSpec == Spec /\ Fairness

-----------------------------------------------------------------------------
(* Properties.                                                              *)

\* A vault is open for as long as anything can ask it for a key: it is closed
\* only after its bunker and its signer, and no callback outlives it.
VaultsLast ==
  \A v \in Vaults :
    /\ bunker[v] = "up" \/ token[v] = "up" => vault[v] = "open"
    /\ use[v] # "nobody" => vault[v] = "open"

\* However the run ends, no listener, bunker, signer or vault is left, and no
\* capability in memory.  A creation that could not report its key is the one
\* exception: nothing was started, but the profile was not wiped.
NothingLeft ==
  pc = "ended" =>
    \A v \in Vaults : /\ lsn[v] = {} /\ vault[v] # "open"
                      /\ bunker[v] # "up" /\ token[v] # "up"
                      /\ v \in secret => mode = "create" /\ bunker[v] = "none" /\ token[v] = "none"

\* The run ends without an error exactly when it became ready and no listener
\* of any vault failed by itself, not only that of the vault that ended first.
ResultIsWhole == pc = "ended" => (err <=> ~ready \/ fault # {})

\* READY=1 is sent when every vault of the command line has been listening, and
\* listens still unless the run is being stopped or a listener has failed.
ReadyStep ==
  ready' /\ ~ready =>
    \A v \in Named : \/ lsn[v] = Sockets
                     \/ bunker[v] # "none" /\ (cancelled \/ v \in fault)
ReadyWhenListening == [][ReadyStep]_vars

\* Two vaults of one run never share a port or a label, not even after one of
\* them has stopped: a URL printed for one cannot reach the other.
VaultsApart ==
  \A v, w \in Named : v # w /\ bunker[v] # "none" /\ bunker[w] # "none" =>
    Ports(v) \cap Ports(w) = {} /\ Label[v] # Label[w]

\* What each vault promises about its keys (module SigningOracle): one user at a
\* time while it is open, closed with the key at home, and only then is main told.
Oracle(v) == INSTANCE SigningOracle WITH
  Users   <- {"bunker", "token"},
  Callers <- {"main"},
  door    <- CASE vault[v] = "shut" -> "new" [] vault[v] = "open" -> "open" [] OTHER -> "shut",
  inUse   <- {use[v]} \ {"nobody"},
  told    <- IF vault[v] = "closed" /\ pc = "ended" THEN {"main"} ELSE {}
ImplementsOracles ==
  /\ \A v \in Vaults : Oracle(v)!Init
  /\ [][\A v \in Vaults : [Oracle(v)!Next]_(Oracle(v)!oracleVars)]_vars

\* A signal, or the failure of one listener of one vault, ends the whole run,
\* or leaves it waiting for the user at a prompt, which nothing interrupts.
StopsForGood == cancelled \/ fault # {} ~> pc = "ended" \/ pc \in Prompts
=============================================================================
