# Verification of Hotbox

Hotbox unlocks encrypted vaults and lets other programs on the computer use the
keys in them: Nostr clients through a NIP-46 *bunker* (a relay on a loopback
WebSocket), and Java signing tools through a PKCS#11 module that talks to a
*signer* on a Unix socket. This directory holds TLA+ models of the program, TLC
runs over small instances of them, and theorems checked by TLAPS.

    tlc -workers 2 -config MCBunker.cfg MCBunker            # a run
    tlapm BunkerProofs.tla                                  # the proofs of a module

`PROJECT.json` lists the runs, for each definition the source lines it models,
the hazards the properties are aimed at, and for each property a mutated
definition that breaks it (the operators commented `mutant` in the modules).

## 1. The system

| component | source | state | operations | module |
|---|---|---|---|---|
| bunker lifecycle and key use | `bunker/{bunker,page}.go` | listeners, `use`, `connect`, `mu`, `once`, `errs`, `exited` | `Start`, `serve`, `Close`, `Wait`, `accept`, `useKey`, `dispatch`, `signRequested` | Bunker |
| bunker relay | `bunker/bunker.go` | `clients`, each client's `subs`, `recent` | `serveWS` (REQ, CLOSE, EVENT), `publish`, `replay`, `send`, `write` | Relay |
| signer socket files | `token/token.go` | socket, lock file, config file, listener | `Start`, `listenUnix`, `Close` | SignerSocket |
| signer requests | `token/{token,sign,protocol}.go` | PIN, four handler slots, connections | `accept`, `handle`, `serveInfo`, `serveSign`, `serveProof`, `proofWindow` | Token, ProofWindow |
| program lifecycle, notification | `main.go`, `notify.go` | open vaults, bunkers, signers, ports, the error of the run | `openAndRun`, `createAndRun`, `serve`, `startToken`, `claimPorts`, `notifyReady` | Hotbox |
| profile | `profile/{profile,android}.go`, `main.go` | a vault's entries, files beside it; keys in the clear during a creation | `Create`, `abandon`, `Open`, `load`, `readAndroidKey` | Profile |
| keystore readers | `keystore/*.go` | none | `Parse`: JKS, PKCS#12 and PEM; `orderCerts` | Keystore |
| PKCS#11 module | `pkcs11/hotbox.c` | sessions, their sign and find operations, what `C_Login` cached | `C_Initialize` to `C_SignFinal` | Pkcs11 |
| bunker cryptography, loopback checks | `bunker/{crypto,local}.go` | none | key derivation, event signature, `LocalRelay` | - |
| peer checks, module file | `token/{peer_*,module}.go` | none | one `getsockopt` per connection; an embedded file | - |
| APK signing command | `sign.go` | none | `.env` reader, runs external tools | - |
| terminal and password | `path.go`, `password.go` | terminal | vault picker, password prompt | - |

`vaultcore` (the encrypted container: a second opener gets `ErrBusy`), go-nostr,
the WebSocket library, `net/http` and the operating system are external.

**Interaction.** `main` opens the vaults, hands each bunker and signer a function
that lends the private key, and closes things in the order bunkers, signers,
vaults. A bunker's two HTTP servers run a goroutine per connection; each uses the
key under `b.mu` and, inside it, the profile's gate. The same gate is taken by the
signer for the Android key. `Close` of a bunker is called by the watcher of the
context, by both serve loops and by `main`. Runs of Hotbox share a directory of
sockets, lock files and config files. The PKCS#11 module is a client of the signer,
one connection per request. A creation reads a keystore file once and seals the
chosen key.

**What is hard**, and what makes each component correct:

- *Bunker*: four routines close it while handlers hold the key. No return of
  `Close` may leave a handler with the key, or `main` would close the vault under
  it; the key is with one user at a time; two nested mutexes must not stop
  anybody for ever; `Wait` must tell the error of a listener that failed.
- *Relay*: `publish` works from copies of the tables, and replays from copies of
  the ring, while clients subscribe, leave and break. No reply may be lost
  between them, replies come in order and after the OK, and a slot is given back.
- *Signer files*: `Start` locks, `Close` does not, a killed run cleans up nothing.
  A later start must find the path free, a signer that is up must be reachable.
- *Signer requests*: int64 durations saturate and wrap; four slots; a deadline that
  may pass during a signature; the PIN wiped by `Close` while it is compared.
- *Program*: one vault, bunker or signer of several fails to start, or stops while
  others are being started; everything must be undone, the vaults last, and the
  error of each bunker told.
- *Profile*: `Create` adds entries one by one and may fail or be killed between two;
  another Hotbox may use the path; decrypted keys must be wiped on every path.
- *Keystore*: three formats that ask for two passwords at different moments; a chain
  of certificates in any order, with cross-signing.
- *PKCS#11 module*: which calls end a sign operation; size queries; a reply that breaks
  off; a signer that comes back with another key; a session read after the unlock.

## 2. The modules

### Bunker (and SigningOracle)

State is that of `Bunker` in `bunker.go`: `use`, `ln` (listeners), `page` (the
connect secret), `once`, `errs`, `exited`; `mu` and `gate` name who holds `b.mu` and
the profile's gate; the rest are program counters: `stage` of `Start`, `gpc` of the
four goroutines that call `Close` (`ws`, `wss`, the context watcher, `main`), `wpc` of
the goroutine in `Wait`, `phase` and `at` of each connection's handler.

| code | actions |
|---|---|
| `Start` | `CheckArguments`, `AskPublicKey`, `HavePublicKey`, `MakeSecretPage`, `GoServe`, each of which may fail |
| `serve` | `Serve`, `ServeReturns`, `PushResult`, then `Close` |
| `Close` | `CloseEnter` (`once.Do`), `ShutdownServer` twice, `CloseRetire` (under `b.mu`), `CloseExit` |
| `Wait` | `WaitExited`, `WaitCollect` |
| `serveWS`, `accept` | `Connect`, `Admit`, `ReadEvent`, `ReadFails`, `Leave`, `MakeResponse`, `Answer`, `Publish` |
| `useKey` | `LockKey` or `KeyRefused`, `KeyEnter` (the gate), `KeyLeave` |
| `dispatch`, `signRequested` | `Dispatch`, `Approve`, then a key use |

A critical section that cannot block is one step that needs `b.mu` free. `useKey` holds
`b.mu` while it waits for the gate, so it is three steps. An event's contents are
abstracted to whether each check passes. `SigningOracle` is what a bunker promises,
without locks: a key that is lent to one user while a door is open, a door that shuts
only when the key is at home, and callers who are told only after that.

### Relay

`serveWS`'s message loop, `publish`, `replay`, `send`: the client table, subscriptions
(a filter is the set of publishers it matches), the ring `recent`, and per handler
what is left to write (`queue` of a replay; `targets` and `writing` of a publish). Every
critical section of `b.mu` and `c.mu` is a step, every write is a step; other handlers
run in between. A connection breaks at any moment (`Break`), after which writes to it
are lost, as `write` ignores errors. A handler's context outlives its connection,
so a publisher whose own connection broke goes on publishing. `acked`, `delivered` and
`due` are history variables.

Bunker and Relay meet in `accept` and in `publish`: the phases `derive` to `respond` of
Bunker are the one step `Event` of Relay, and Relay's phases `publish` and `sending` are
the one step `Publish` of Bunker. Nothing else is shared: the tables of Relay do not
influence key use, and a reply's contents do not influence delivery.

### SignerSocket

`Start`, `listenUnix` and `Close` of `token.go` for runs of Hotbox whose vaults hold one
name: the lock file, the path of the socket and whose socket it leads to, the
listeners, the config file. Each run opens its vault before and closes it after its
signer, as `main` does, and may be killed at any step. That a vault is open in one
process only comes from `vaultcore`.

### Token

The signer at work, from the state `Start` leaves: the accept loop (`taken` is the
connection it holds between `Accept` and the slot), the semaphore, a handler per
connection, `Close` called by the watcher of the context and by `main`, and the vault
that `main` closes afterwards.

| code | actions |
|---|---|
| `accept` | `AcceptConn`, `PassOn` (a slot or none), `AcceptFails`, `Finish` (the slot comes back) |
| `handle` | `ReadRequest`, `ReadFails` (also the deadline), `WriteAnswer` |
| `serveInfo`, `serveSign`, `serveProof` | `CheckPin`, `TakeGate` (the profile's gate), `EnterKey` (`Use` of the vault), `LeaveKey` |
| `Start`'s watcher, `Close` | `Watch`, `CloseEnter`, `TellDone`, `Unlisten`, `WipeBegins`, `WipeEnds` |
| `main`, `vaultcore` | `MainCloses`, `CloseVault`, `MainEnds`; `KeyLent` says when the vault may close |
| the bunker of the profile | `BunkerEnters`, `BunkerLeaves` |

`Close` wipes the PIN with no lock while handlers compare it: while it is `torn` the right PIN
may or may not match, and so may a mixture of its digits and zeros. `takePin` accepts any 32 bytes, so a client
sends the PIN it was given, 32 zero bytes, such a mixture, or something else (`Pins`). Once wiped, `t.pin`
is 32 zero bytes and compared like any PIN (`PinMatches`). Token also refines
`SigningOracle`, with the *vault* as the door and handlers and the bunker as users: that is
what the comment on `Close` promises ("Use holds the vault until that signature returns").

### ProofWindow

`proofWindow` of `sign.go`, with Go's arithmetic: `time.Time.Sub` saturates, `int64`
multiplication wraps. The width is the parameter `Half` (2^63 in the code).

### Hotbox

One run of the program over the vaults of its command line, or over the one it creates.
`pc` and `i` are where the main goroutine is and at which vault; per vault there are its
container, its listeners, bunker, signer, the capability in `prof`, the goroutine in
`Wait`, and who uses a key.

| code | actions |
|---|---|
| `openAndRun`'s first loop | `CheckArgument` |
| prompts (`unlockPassword`, the questions of a creation) | `Prompt` |
| the second loop, per vault | `OpenProfile`, `ClaimPorts`, `ListenPorts`, `StartToken`, `StartBunker` |
| `createAndRun` | `ListenPorts`, `OpenProfile` (`profile.Create`), `ReportKey`, `StartToken`, `StartBunker` |
| `serve` | `PrintEnv`, `NotifyReady`, `WaitReturns`, `FirstResult`, `CloseBunkers`, `CollectRest`, `Collected` |
| deferred functions | `CloseRunning`, `CloseVaults`, `Release` |
| beside it | `Cancel`, `ListenerFails`, `WatchBunker`, `WatchToken`, `BunkerUse`, `TokenRequest`, `TokenUse`, `KeyDone` |

Every step may fail, and whatever was started is then closed by the deferred loops, one at a
time. Bunker and signer are seen as their modules show them: `Close` of a bunker waits for
its handler (`ClosedIsQuiet`), `Close` of a signer waits for nobody (a `request` that passed
its PIN may use the key later), `Close` of a vault waits for the key's user. Each vault
refines `SigningOracle`, whatever happens to the others.

### Keystore

`Parse` as operators: a file is its format, the password of its MAC, and a sequence of
items (keys with the password they are sealed under, certificates, or something the reader
cannot take). Decryption is the comparison of passwords. The order in which items are read
decides which error is returned, and so whether the key password is asked for, and which decrypted keys are dropped
unwiped: those before the item that fails (`KeysBefore`), for PKCS#12 those of the content at hand (`ReadBags`), for PEM every one.
A chain is a sequence of positions in the file:
`orderCerts` is a recursive function that adds one position a round (`NextIssuer`), for as many
rounds as there are items.

### Profile

One vault path: `CreatePath`, `Questions`, `PickKeystore`, `StorePassword`, `KeyPassword`,
`ChooseAlias`, `Confirm` (or a cancel at each), `NewContainer`, one `Add` per entry,
`LoadNew`, and on failure `RemoveContainer` and `RemoveBeside`, the steps of `abandon`.
`Open` is what `load` finds: `ConfirmSecret`, `ReadsBlobs`, `RefuseMissingKeys` in the code's
order. The environment kills the process at any step, makes another vault at the path, and
loses content files of a directory container. Three variables say which key material is
in the clear: `plain`, positions of the entries `Parse` returned; `left`, positions in the file of keys that its readings left copies of;
`nsec`, the array of `createAndRun` and the buffer that a typed one is decoded into.

### Pkcs11

The library's global state: `cache` (what `C_Login` keeps), four sessions, and `peer`, the
signer behind the socket, which may go down or come back as that of another vault. Calls
hold the mutex throughout and are one step; `C_GetSessionInfo` reads the session after the
unlock and is two (`LookUp`, `C_GetSessionInfo`). `HalfParsed` is what `parse_info` may have stored
when a reply breaks off. The frame limit is that of `sign_rpc`'s check and of the signer,
which also counts the 42 bytes a request adds (`Overhead`). `given` and `attempt` are history.

## 3. The runs

| run | instance | distinct states | shows |
|---|---|---|---|
| `bunker` | 1 connection, 4 closing routines, the PKCS#11 signer | 108,906 | key use, `Close`, `Wait`, refinement of the oracle, shutdown, every event answered |
| `relay_delivery` | 2 clients, 2 events each, a ring of 2 | 1,270,866 | no reply lost, order, OK first |
| `relay_limits` | 3 connections, 2 slots, 2 ids, 1 subscription | 2,891 | the tables stay exact and bounded |
| `relay_live` | 2 clients, 1 event each, 2 filters | 206,944 | handlers return, slots come back |
| `socket_shared` | 3 runs of one vault, 1 of another with its name | 75,480 | reachability, no stale socket, binding finds the path free, starts end |
| `socket_second` | the same | violation | finding 1 |
| `token` | 2 clients, 1 slot | 44,480 | slots, the PIN, refinement of the oracle, handlers end, closing ends everything |
| `proof_exact` | 9-bit integers, every expiry | 139,264 | the window is exact where the validity is representable |
| `proof_bounded` | the same | violation | finding 2 |
| `hotbox` | 4 vaults, 6 command lines and a creation | 91,090 | closing order, nothing left, whole error, nothing shared, the run ends |
| `profile` | 223 keystore files, 3 passwords | 258,418 | creation and opening with failures, crashes and losses; wiping; chains |
| `pkcs11` | 2 sessions, 2 signers, frames of 2 | 847,098 | login, sessions, sign operations |

**Bounds.** *Bunker*: nothing is bounded but the number of connections; requests repeat
without limit. One handler, `Start` and the signer are enough for one to hold each
mutex while another waits, next to the four closing routines, which are all there are; that
more connections change nothing for the safety properties is proved (section 5). *Relay*:
`MaxEvents` bounds what a connection may publish. Two events each and a ring of two
of the four replies make the ring drop a reply while a replay of an older copy is under way, and let a live reply
overtake an older one of the same publisher in that copy; the limits
are run with one more connection and id than fit. A connection is made once; a client
that reconnects is another member of `Conns`. *SignerSocket*: the harm of two runs is seen
by a third; the fourth, of another vault, makes a name shared. Each starts once, which for a
killed or closed run is no restriction as a process does. *Token*: connections repeat without
limit; one more client than slots, so that one is turned away while the other waits for the gate.
*ProofWindow*: at nine bits a second is 8 ticks and a validity wraps after 64 s, every `expiry`
is tried against created_at values near the clock and at both ends of the range; the limits
keep the code's order (`proofSkew` < `proofMaxLife` < the range). *Hotbox*: the command lines have
one vault, two that go together, a repeated path, a shared port, a shared label, and a clash of
sealed names behind a third vault. Two of the vaults have an Android key. *Profile*: every
sequence of up to four of five certificates (a chain of three, a leaf that is its own issuer, and
two that issue each other), and 17 files that differ in passwords, aliases, keys and defects; `MaxCerts` and
`MaxJKSChain` are the code's. Two passwords and the empty one tell the store's, the key's and a
wrong one apart. *Pkcs11*: two sessions for one to be opened in another's place; data of 1, 2 and 3 with a
frame of 2 and an overhead of 1 fits, fits without its overhead, and does not fit; two signers
with different keys. The theorems are for every value of these constants.

**Deadlock.** TLC's check shows nothing here. In `bunker`, `profile` and `pkcs11` it is on, but their environment can
always take a step; in the other runs it is off, since a relay whose connections are all gone, runs that have
ended, a signer whose vault is closed, and a request that has been answered do stop. That nobody waits for ever is
what the liveness properties check and the theorems on waiting prove (section 5).

**Fairness.** *Bunker*: goroutines that can run do (weak fairness of `OneShot`, whose steps
are finitely many, theorem `RoutinesEnd`); what waits for a Go mutex gets it in the end (strong fairness, as
`sync.Mutex` hands over to a starving waiter); a read whose context is done fails
(the WebSocket library ends them with the context); the PKCS#11 signer's use of the gate ends. No
fairness is assumed of peers, of `Cancel`, of listeners that fail on their own, or of
`MainCloses`. *Relay*: a handler that is not waiting for a message runs; its writes end
within the second `write` allows. *SignerSocket*: some run that can take a step takes it;
closing, being killed and failing to lock are not assumed to happen, and `flock` needs no fairness
of its own since starts are finitely many. *Token*: goroutines that can run do; a read ends at
its deadline; waiting for the gate and for the vault is strongly fair; the bunker leaves the
gate. The context need not be done and `Accept` need not fail by itself. *Hotbox*: the main
goroutine, the watchers and the goroutines in `Wait` run, a key use ends; main and the bunker's watcher are
strongly fair, as they may wait for the key. Nothing makes the user answer a prompt. *Profile*
and *Pkcs11* are sequential programs driven by their callers: nothing is assumed, and no liveness is stated.

**What the properties say.**

- `ClosedIsQuiet`: after any `Close` returned, to whichever of the four callers, no handler
  has or is about to get the key, the secret page is wiped, and no serve loop accepts. A
  plain flag in place of `sync.Once` breaks it.
- `KeyExclusive`: the decrypted key is with one user: a handler, `Start` or the signer.
- `WaitReportsFailures`: `Wait` returns after both serve loops ended and their ports are
  free, with the errors of exactly those that failed before they were shut down.
- `SignedRefusedOnlyForCause`: a client is told that a signed event failed only when the
  response cannot be made, the key fails, or `Close` came between the two signatures;
  a busy key is never a cause.
- `ImplementsOracle` (Bunker, Token), `ImplementsOracles` (Hotbox): the refinements.
- `ShutdownCompletes`, `EventsServed`: a done context or a failed listener ends every `Close` and
  `Wait`, whatever mutex is held; every event is answered; handlers return and stay away.
- `NoLostReply`: a reply appended while a subscription matches it reaches it or is on its
  way, unless the connection breaks or the client ends or replaces the subscription.
- `PublisherOrder`: of one publisher's replies a subscription sees those appended after it in order, and those of its
  replay in order. Between the two there is no order: a live reply may overtake one still to be replayed, of the same publisher too.
- `OkBeforeReply`: the requester is told OK before anybody can see the reply.
- `ClientTableExact`, `SubsBounded`, `HandlersServe`: the tables, and that serving ends.
- `Reachable` (while the runs are of one vault), `NoStaleSocket`, `BindsFreePath`, `StartDecides`: the files.
- `SlotsExact`: a slot is taken exactly while a handler runs, whichever way it ends.
- `KeyNeedsPin`: as long as the PIN is whole only it leads to the key; after *any* call of `Close` has returned neither it
  nor any other does but 32 zero bytes, although `Close` waits for no handler and the accept loop may hold a connection.
- `HandlerEnds`, `EverythingEnds`: a handler gives its slot back; after `main` closes the signer,
  the accept loop, the watcher and all handlers end and the vault closes.
- `WindowExact`: `proofWindow` accepts a request exactly when unbounded arithmetic would,
  as long as its validity is below 292 years.
- `VaultsLast`: a vault is open as long as its bunker or signer is up or a callback has its key.
- `NothingLeft`: when a run ends, at whichever step it failed, no port, bunker, signer or vault is
  left, and no capability (with one exception, see section 4).
- `ResultIsWhole`: a run ends without error exactly when it became ready and no listener of any
  vault failed by itself, also one that failed after another had ended the run.
- `VaultsApart`, `ReadyWhenListening`, `StopsForGood`: ports and labels are never shared; READY is sent when
  all listen or some were stopped; a signal or one failed listener ends the run, prompts apart.
- `AbandonLeavesNothing`, `KeepsOthers`: a failed creation leaves nothing of its own (a keychain entry apart),
  and it neither removes nor writes the container of another vault (its lock and key file are another matter, section 4).
- `OpenedIsWhole`: a profile is served with its Android key whole or without any, whatever a crash left.
- `KeysWiped`: when a creation returns, of the entries `Parse` returned none is in the clear but earlier ones with the alias of the
  chosen one; of the new nsec at most the buffer of a typed one; and of a JKS or PKCS#12 file that was read nothing else.
  What failed readings and `parsePEM` leave is excepted (section 4).
- `ChainFits`: the sealed chain starts at the key, each certificate is followed by its issuer, once,
  and it ends only where no certificate of the file could follow.
- `NothingKept`: no PIN, key, sign operation or buffer outlives its login or session.
- `SignsWhatWasGiven`: a request carries exactly the bytes given since its `C_SignInit`, and a signature is by
  the key that the login showed, though the signer may have been replaced.
- `SignOpEnds`: an operation ends with its one attempt or its session, never by a size query or a short buffer.
- `InfoIsCurrent`: `C_GetSessionInfo` is wrong only of a session closed under it.

Type invariants, and that a failed `bunker.Start` leaves no listener and no secret
(`FailedStartReleases`), are proved and need no run.

## 4. Findings and observations

1. `socket_second`: `token.Close` removes the socket path without the lock that `Start` takes.
   Two vaults may hold the same name. While the signer of one closes, another may start:
   its socket is removed, and a third signer then starts although the second is up.
   The run is a counterexample to what `token/token_test.go:118-119` expects of two
   signers of one name. Among runs of one vault it cannot happen (`Reachable`, proved).
2. `proof_bounded`: `time.Duration(expiry-createdAt)*time.Second` (`token/sign.go:56`) wraps
   for validities of 292 years and more, and the comparison with `proofMaxLife`, which
   `token/sign.go:40` says bounds a proof's validity, then lets some of them pass.

Observations that are not findings; the models do what the code does:

- *Bunker.* `Close` ("stops both listeners", `bunker.go:192`) may return while a listener is still
  open, if the context is done before the goroutine of `serve` has begun: `http.Server.Shutdown`
  does not know the listener yet, and `Serve` closes it when it runs. `ClosedIsQuiet` is stated
  accordingly, and `Wait` does wait for it. A REQ for an id that is subscribed counts against
  `maxSubs` although it replaces. A reply that is signed may be too long for its encryption; the
  client is then told that the request failed.
- *Signer.* Any error of `Accept` ends the accept loop, which nothing reports (`AcceptFails`). After `Close` the PIN is 32 zero
  bytes, which `pinOK` compares like any PIN: a request with 32 zero bytes on a connection that was accepted before is served
  until the vault closes, although `Pin` says of the PIN that "It is empty after Close" (`token.go:167`).
- *Program.* `createAndRun` does not wipe the profile when `reportKey` fails, the exception in
  `NothingLeft`. `openAndRun` does not clear the password when `openKeyArgs` fails. READY may be sent although
  the bunker of an earlier vault has failed while main waited at the prompt of the next
  (`ReadyWhenListening` allows it). After a creation the plaintext nsec, password and Android key stay in memory while the
  new vault is served, since the deferred clears of `createAndRun` run after `serve` returns.
- *Profile.* A kill between the entries `bunker` and `android` leaves a vault that opens without the
  Android key that was asked for; one between `android` and `android-key` a vault that never opens. `Open` with the nsec
  or Android key and also the bunker or android content missing returns `ErrMissing` without naming a path, as `readBunker` and
  `readAndroid` come first, although `profile.go:123-124` says "When the nsec or Android key blob is gone, Open returns
  vaultcore.ErrMissing and names that path". No property is about the names. `abandon` leaves a keychain entry behind. Between its removal of the
  container and of the files beside it, another Hotbox may create its vault at the path
  and lose its lock or key file. When `createAndRun` has returned, in the clear
  are still: the buffer a typed nsec is decoded into (`main.go:859-863`), and of two JKS entries with one alias
  the earlier, which `main.go:579-586` takes for the chosen one and then forgets, although `keystore.go:27` says "The caller wipes it".
- *Keystore.* A JKS with two keys under different passwords cannot be imported. A PKCS#12 file with two keys is
  refused and of several keys in a PEM file the last is taken, while `README.md:44` says a file with more than one key asks. An error at a
  later JKS entry leaves the decrypted bytes of earlier ones unwiped inside `parseJKS` (`jks.go:66-84`), one at a later bag of a PKCS#12
  content those of the content's earlier keys, and `parsePEM` a copy of every key that it reads, also when it succeeds. `parseJKS` lets two entries have one alias.
- *PKCS#11.* `C_Sign` of data in the last 42 bytes below the frame limit passes the module's check, is refused by
  the signer's limit and comes back as a device error. `C_Logout` leaves a sign operation set up, which survives a
  login with another key; its attempt then fails unless the mechanism fits, and a signature is by the new key
  whose certificates that login showed.

## 5. What is proved

Every theorem is about the specification for all values of the constants.

| module | theorems | assumptions |
|---|---|---|
| `BunkerProofs` | `TypeCorrect`, `StartReleases`, `KeyIsExclusive`, `CloseQuiets`, `WaitTellsTheTruth`, `SignedRefused`, `Refinement`, `WaitsAreOrdered`, `RoutinesEnd`, `ClosedForGood` | `ConnsAssumption`: connections are not named like the other users of the gate |
| `RelayProofs` | `TypeCorrect`, `TableIsExact`, `SubsWithinLimit`, `RepliesNotLost`, `OkFirst`, `InOrder` | `RelayAssumption`: finite sets, positive limits, non-empty filters |
| `SignerSocketProofs` | `TypeCorrect`, `NothingStale`, `BindsFree`, `ReachableAlone` | `RunsAssumption` |
| `TokenProofs` | `TypeCorrect`, `SlotsAreExact`, `PinIsNeeded`, `Refinement`, `WaitsAreOrdered`, `HandlersGoOn`, `ClosedForGood`, `VaultClosedForGood` | `TokenAssumption`: finitely many connections, at least one slot |
| `ProofWindowProofs` | `Exact`, `Accepted` | `WindowAssumption`: the limits fit the width, the clock is not before 1970 |
| `HotboxProofs` | `TypeCorrect`, `VaultsOutlive`, `EndsClean`, `Apart`, `WholeResult`, `ReadyInTime`, `Oracles`, `WaitsAreOrdered`, `RunGoesOn`, `VaultClosedForGood` | `ArgListsAssumption`, `NewAssumption`: the command lines name vaults |
| `ProfileProofs` | `FailsClean`, `WholeProfile`, `OthersKept` | none: nothing is assumed of `Parse` |
| `ProfileProofs` | `NoKeyLeft`, `ChainsAreWhole`, `OrderedChain`, `OrderIndependent` | `KnownFormats`, `ItemsInOrder`: a file has one of the three formats and is a sequence of items |
| `Pkcs11Proofs` | `KeepsNothing`, `SignsGiven`, `TellsTheTruth`, `OneAttempt` | `Limits`; `PeersAreSigners`: two signers differ in their PIN, which each Hotbox draws at random |

*Bunker.* `IInv` is `TypeOK` with five parts. `LockInv` ties `mu`, `gate` and `at` together (who is inside
holds both). `StartInv`: before `Start` has ended nothing else has begun; `use` is unset exactly
then. `OnceInv`: at most one routine is in the body of `once.Do`, and what each place in the
body implies (servers shut down so far, `use` nil after `CloseRetire`); this is what makes the
return of *any* caller tell about the state. `ResultInv`: each serve loop's result is in `errs`, or
taken by `Wait`, or not yet pushed, which bounds the channel. `FateInv`: where `signed` and
`fate` may be set. `TypeOK` alone is not inductive: that `errs` holds two results needs
`ResultInv`. For the refinement every handler step maps to `Begin`, `End` or a stutter, every
step of `Close` to `Shut`, `Tell` or a stutter; `Shut` needs `LockInv` (nobody inside when `mu` is
free), `Tell` needs `OnceInv`.

*Relay.* `IInv` adds to `TypeOK` and `NoLostReply`: the table is the set of live handlers; the
counts; `DueInv` (what is due matches a subscription its client holds) and `AckInv` (what is in
the ring, in a queue or on its way was acknowledged). The first half of `PublisherOrder` follows from
`NoLostReply`: a publisher is busy with one reply at a time, so an older due one that is not
delivered would be its current one. The second, about replays, needs `OrderInv`: the ring holds each publisher's replies
in order and none is missing between two (`RingOrder`), and what a replay has left is in order, a younger reply being
left as well or due (`ReplayOrder`).

*SignerSocket.* `TypeOK` contains that the lock is held exactly by the run in `listenUnix`; with
`NoStaleSocket` and `BindsFreePath` it is inductive. `Reachable` is conditional on all runs so far being of one
vault; since a run that starts does not stop having started, the condition held before every
step after which it holds (`AloneBefore`). Under it at most one run is between
opening and closing the vault, and what the path holds at each place is fixed.

*Token.* `TypeOK` is inductive only with `SlotsExact` (a slot that is given back was taken) and
`TakenInv` (the accept loop holds the connection that is `taken`, so that `PassOn` adds a handler).
`GateInv` says who holds the gate, and that the vault is open while the key is lent; `OnceInv` that
nobody is past `Close` before the PIN is wiped. A step to `use` is a `CheckPin` with a PIN that
`PinMatches` the PIN at that moment, which is wiped when any `Close` has returned, so that only zero bytes match it. For the refinement, `EnterKey` and `BunkerEnters` map
to `Begin` (the gate keeps the key at home until then), `CloseVault` to `Shut`, `MainEnds` to `Tell`.

*ProofWindow.* A validity that is representable does not wrap (`LifeExact`), and saturation does
not move a difference across `proofSkew` (`NearExact`). `Accepted` says how far the second finding reaches: a request
with a validity between `proofMaxLife` and 2^63 nanoseconds (292 years) is never accepted, and its `created_at` is
checked exactly even when its validity wrapped.

*Hotbox.* `IInv` has ten parts, each kept by every step: `Order` (vaults are taken one after the other; those
before the current one were started, those after it are untouched), `Stage` (what main has of the current vault at each
`pc`), `Owned` (somebody is going to close every listener, signer and capability: the bunker
that has it, or main at its current vault), `Closing` (what each step of the way out has closed),
`Claims` (started vaults have claimed their ports), `Listening`, `Results` (what of the bunkers' results main has), and
`VaultsLast`. `NothingLeft` is what `Owned` and `Closing` leave at the end.

*Profile.* `Building` says what has been sealed at each step of a creation, `Clearing` what `abandon` has removed,
`Answered` that a profile at work or a refusal is what `load` finds now. `OpenedIsWhole`
then follows from `Load` alone (`LoadWhole`), whatever crashes left. `KeyInv` says which keys are in the clear at each
question (`Read`, `InClear`): none before the right passwords, those of all found entries until one is chosen, then that one and the
earlier ones with its alias. `Behind` says what readings left so far: nothing of a PKCS#12 file that was read, and of a JKS only what a first
reading with another key password had decrypted, which is nothing if the second succeeds, as every key takes the same password.

*orderCerts.* The library's induction theorems need an operator as a parameter; a set does as well. `LeastElement`
comes from the well-foundedness of the strict subset order on finite sets of numbers (the intervals 0..t), `UpTo` is induction
for the members of a set, and `Iterates` shows that a recursive function exists that runs a step n times. Each round keeps
`OnPath` (distinct positions, issuer after issuer) and adds one unless the loop has `Ended` (`OneRound`); a path that
never ended would be longer than the file (`NoLongPath`, by counting), so after as many rounds as items it has
(`PathComplete`). `OrderIndependent` follows: of two chains for one key out of the same certificates neither goes on where
the other has ended (`SameChain`, by induction along them). Its condition is needed: where two certificates
have one subject, as in cross-signing, the code takes the first in the file.

*Pkcs11.* To the properties `IInv` adds `Owned` (the cached PIN is that of the signer whose key is cached, so that only this
signer accepts it), `Buffered` (what is buffered is what was given) and `Found` (a session that was looked up is as it was until it is closed).

*Who waits for whom.* Go's locks, channels and wait groups can stop everybody at once. `NoCircularWait` of `Bunker`, `Token` and
`Hotbox` names, for each place where the code blocks, the one it waits for and what that one is doing, so that every chain of
waits ends at somebody who can go on: a second `Close` at the one in the body of `once.Do` (`BodyInv`), that one at
the holder of `b.mu`, he at the holder of the vault's gate, who waits for nobody; serve at goroutines whose bunker is closed when
their results are collected (`WaitersInv`).

*Only forward.* `RoutinesEnd`, `HandlersGoOn` and `RunGoesOn` give each routine, handler and the main goroutine a number of steps that are left,
which each of its steps lowers: the one-shot routines of a bunker make 31 steps, a handler of the signer 7, main changes its place at
most 10n + 9 times over n vaults. So nothing goes round in circles while closing; what the liveness properties add to this and to
`NoCircularWait` is what the fairness below "The runs" assumes.

*For good.* Safety of a return is not enough when something may start again. `ClosedForGood` and `VaultClosedForGood` have the form
`[](closed => []quiet)`: what `Close` promises holds from its return on, for its first and for any later caller. For the
signer the quiet is one of steps (no connection is accepted, no PIN but zero bytes leads to the key), since `Close` waits for no handler.

**Only model-checked**: liveness (`ShutdownCompletes`, `EventsServed`, `HandlersServe`, `StartDecides`, `HandlerEnds`,
`EverythingEnds`, `StopsForGood`), which needs fairness and ENABLED, out of the provers' reach; and the two violations.

## 6. Not modelled

- *Bunker cryptography, loopback checks* (`bunker/crypto.go`, `local.go`): functions of bytes with no state; that one
  fails is an outcome of the key uses in Bunker.
- *Peer check and module file* (`token/peer_*.go`, `module.go`): one system call, one embedded file.
- *APK command* (`sign.go`): a sequential driver of other programs and a reader of `.env` files.
- *Terminal and password* (`path.go`, `password.go`): a picker and a prompt that return a string; cancelling one is a
  failing `Prompt` or `Cancel`.
- *Flags* (`parseArgs`, key paths): they end before any state exists.
- *Encodings* of frames, certificates, the bunker and android entries, ASN.1, ciphers and digests: abstracted to whether
  they are right, and passwords to whether they match.
- *PKCS#11 calls that report constants or cached attributes* (`C_GetInfo`, `C_GetAttributeValue`, ...): they change nothing.
- `vaultcore` is external: an open container is exclusive, `Use` holds it, `Close` waits for `Use`.
- The second a write may take, the two seconds of `Shutdown`, the signer's 30 seconds and HTTP timeouts are real time;
  the models only say that they end.
