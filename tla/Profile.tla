------------------------------ MODULE Profile -------------------------------
(***************************************************************************)
(* One vault path of hotbox: createAndRun asks for a new vault, reads an   *)
(* Android key out of a keystore file and seals both (profile.Create),     *)
(* with a crash possible between any two steps; profile.Open loads what is *)
(* there.  The container itself (vaultcore) is outside the repository: it  *)
(* is the set of entries sealed in it, the files it keeps beside it, and   *)
(* the entries of a directory container whose content has gone from disk.  *)
(***************************************************************************)
EXTENDS Keystore

CONSTANTS
  Files,        \* the keystore files at hand
  Passwords     \* what may be typed, Empty among them

\* A file is of one of the formats, and its items are a sequence.
ASSUME KnownFormats == \A f \in Files : f.format \in {"jks", "p12", "pem"}

ASSUME ItemsInOrder ==
  \A f \in Files : Len(f.items) \in Nat /\ DOMAIN f.items = 1..Len(f.items)

ASSUME EmptyIsAPassword == Empty \in Passwords

NoFile == [format |-> "none"]
MaxCerts == 8   \* maxCerts
Names == {"nsec", "bunker", "android", "android-key"}
Secrets == {"nsec", "android-key"}

VARIABLES
  pc,       \* where hotbox is; "idle" when none runs
  storage,  \* the second secret: "file", "keychain" or "none"
  file, store, found, chosen,  \* readAndroidKey: the file, the store password,
            \* the entries of Parse and the position of the chosen one, 0 for none
  plain,    \* positions of found whose PKCS8 is in the clear
  left,     \* positions in the file of the keys that Parse left copies of
  nsec,     \* the copies of the new nsec in the clear: "array", the secret of
            \* createAndRun, and "input", what a typed one was decoded into
  there,    \* the container on disk: "no", "file" or "directory"
  mine,     \* it was made by the creation that is under way
  sealed,   \* names of the entries in it
  gone,     \* those of them whose content is not on disk any more
  side,     \* files beside it, and the keychain entry
  result    \* what Create or Open returned last

import == <<file, store, found, chosen, plain, left, nsec>>
disk == <<there, mine, sealed, gone, side>>
vars == <<pc, storage, import, disk, result>>

\* A result: a profile, with an Android key or not; an error; or ErrMissing with
\* the entries it names.
Outcome(kind, android, named) == [kind |-> kind, android |-> android, named |-> named]
Nothing == Outcome("none", FALSE, {})
Failure == Outcome("error", FALSE, {})
Missing(named) == Outcome("missing", FALSE, named)
Loaded(android) == Outcome("profile", android, {})

\* AndroidOmitted: Create is called without an Android key.
AndroidOmitted == chosen = 0

\* A directory container of an older hotbox, or nothing, is at the path.
Whole == {{"nsec", "bunker"}, Names}

Init ==
  /\ pc = "idle" /\ storage = "none"
  /\ file = NoFile /\ store = Empty /\ found = <<>> /\ chosen = 0
  /\ plain = {} /\ left = {} /\ nsec = {}
  /\ \/ there = "no" /\ sealed = {}
     \/ there = "directory" /\ sealed \in Whole
  /\ mine = FALSE /\ gone = {} /\ side = {} /\ result = Nothing

-----------------------------------------------------------------------------
(* createAndRun: the questions.                                            *)

\* A return from createAndRun or readAndroidKey, which clear the secret's array and
\* the entries wiped, after copies that Parse left; an open vault is closed.
LeaveWith(wiped, copies) ==
  /\ pc' = "idle" /\ storage' = "none"
  /\ file' = NoFile /\ store' = Empty /\ found' = <<>> /\ chosen' = 0
  /\ plain' = plain \ wiped /\ left' = left \cup copies /\ nsec' = nsec \ {"array"}
  /\ mine' = FALSE

Leave(wiped) == LeaveWith(wiped, {})

\* A new process, with nothing of what an earlier one had in memory.
Starts ==
  /\ plain' = {} /\ left' = {} /\ nsec' = {}
  /\ UNCHANGED <<storage, file, store, found, chosen, disk>>

\* The path is asked for and must be free.
CreatePath ==
  /\ pc = "idle"
  /\ Starts
  /\ IF there = "no" THEN pc' = "questions" /\ result' = Nothing
                     ELSE pc' = pc /\ result' = Failure

\* Key storage, nsec (typed or generated) and password; the secret exists from here on.
Questions ==
  /\ pc = "questions"
  /\ \E s \in {"file", "keychain", "none"} : storage' = s
  /\ nsec' \in {{"array"}, {"array", "input"}}
  /\ pc' = "keystore"
  /\ UNCHANGED <<file, store, found, chosen, plain, left, disk, result>>

\* A question is cancelled, its answer refused, or a file cannot be read.
Cancel ==
  /\ pc \in {"questions", "keystore", "store password", "key password"}
  /\ Leave({})
  /\ result' = Failure
  /\ UNCHANGED <<there, sealed, gone, side>>

-----------------------------------------------------------------------------
(* readAndroidKey                                                          *)

\* No keystore, or one of the files.
PickKeystore ==
  /\ pc = "keystore"
  /\ \/ pc' = "create" /\ UNCHANGED file
     \/ \E f \in Files : file' = f /\ pc' = "store password"
  /\ UNCHANGED <<storage, store, found, chosen, plain, left, nsec, disk, result>>

\* The entries are found, the reading failed, or the key password is asked for.
Parsed(p, retry) ==
  \/ /\ p.err = "none"
     /\ found' = p.entries
     /\ plain' = DOMAIN p.entries
     /\ left' = left \cup p.left
     /\ pc' = "alias"
     /\ UNCHANGED <<storage, file, chosen, nsec, mine, result>>
  \/ /\ retry /\ p.err = "keypassword"
     /\ left' = left \cup p.left
     /\ pc' = "key password"
     /\ UNCHANGED <<storage, file, found, chosen, plain, nsec, mine, result>>
  \/ /\ p.err # "none" /\ ~(retry /\ p.err = "keypassword")
     /\ LeaveWith({}, p.left)
     /\ result' = Failure

StorePassword ==
  /\ pc = "store password"
  /\ \E typed \in Passwords :
       /\ Parsed(Parse(file, typed, Empty), TRUE)
       /\ store' = IF pc' = "key password" THEN typed ELSE Empty
  /\ UNCHANGED <<there, sealed, gone, side>>

KeyPassword ==
  /\ pc = "key password"
  /\ \E typed \in Passwords \ {Empty} : Parsed(Parse(file, store, typed), FALSE)
  /\ store' = Empty
  /\ UNCHANGED <<there, sealed, gone, side>>

KeepsTheOthers ==    \* mutant: the entries not chosen stay
  /\ pc = "alias"
  /\ \E n \in DOMAIN found : chosen' = n
  /\ pc' = "confirm"
  /\ UNCHANGED <<storage, file, store, found, plain, left, nsec, disk, result>>

\* askAlias, which asks when there is more than one entry: the last one of the
\* alias is chosen, and the entries of other aliases are wiped.
ChooseAlias ==
  /\ pc = "alias"
  /\ \E n \in DOMAIN found :
       LET same == {m \in DOMAIN found : found[m].alias = found[n].alias}
       IN  chosen' = Greatest(same) /\ plain' = same
  /\ pc' = "confirm"
  /\ UNCHANGED <<storage, file, store, found, left, nsec, disk, result>>

CancelAlias ==
  /\ pc = "alias"
  /\ \E m, n \in DOMAIN found : m # n
  /\ Leave(DOMAIN found)
  /\ result' = Failure
  /\ UNCHANGED <<there, sealed, gone, side>>

\* The certificate is confirmed, or declined.
Confirm ==
  /\ pc = "confirm"
  /\ \/ pc' = "create" /\ UNCHANGED <<storage, import, mine, result>>
     \/ Leave({chosen}) /\ result' = Failure
  /\ UNCHANGED <<there, sealed, gone, side>>

-----------------------------------------------------------------------------
(* load: what a profile in the container gives.                            *)

\* confirmSecret, and findProfile of an empty container
ConfirmNsec == "nsec" \in sealed    \* mutant: the Android pair is not looked at
ConfirmSecret == /\ "nsec" \in sealed
                 /\ "android" \in sealed <=> "android-key" \in sealed

\* readBunker and readAndroid stop at content that is gone without a name for it.
ReadsBlobs == {"bunker", "android"} \cap gone = {}

\* refuseMissingKeys names every secret entry that is gone.
RefuseMissingKeys == Secrets \cap gone

Load == IF ~ConfirmSecret \/ "bunker" \notin sealed THEN Failure
        ELSE IF ~ReadsBlobs THEN Missing({})
        ELSE IF RefuseMissingKeys # {} THEN Missing(RefuseMissingKeys)
        ELSE Loaded("android" \in sealed)

-----------------------------------------------------------------------------
(* profile.Create                                                          *)

ValidAndroid(entry) == Len(entry.certs) \in 1..MaxCerts /\ Fits(entry.key, entry.certs)

\* No Android key, or a valid one.
Sealable == {0} \cup {n \in DOMAIN found : ValidAndroid(found[n])}

SecondSecret == IF storage = "file" THEN {"key"}
                ELSE IF storage = "keychain" THEN {"keychain"} ELSE {}

\* The ports are bound and the container is made; or an error before or of that.
\* vaultcore makes no container over another one.
NewContainerAbandons ==    \* mutant: the deferred abandon stands before the error
  /\ pc = "create"
  /\ \/ /\ chosen \in Sealable
        /\ pc' = IF there = "no" THEN "nsec" ELSE "abandon"
        /\ there' = "file" /\ mine' = TRUE /\ sealed' = {} /\ gone' = {}
        /\ side' = side \cup {"lock"} \cup SecondSecret
        /\ UNCHANGED <<storage, import, result>>
     \/ /\ Leave({chosen})
        /\ result' = Failure
        /\ UNCHANGED <<there, sealed, gone, side>>

NewContainer ==
  /\ pc = "create"
  /\ \/ /\ chosen \in Sealable
        /\ there = "no"
        /\ there' = "file" /\ mine' = TRUE /\ sealed' = {} /\ gone' = {}
        /\ side' = side \cup {"lock"} \cup SecondSecret
        /\ pc' = "nsec"
        /\ UNCHANGED <<storage, import, result>>
     \/ /\ Leave({chosen})
        /\ result' = Failure
        /\ UNCHANGED <<there, sealed, gone, side>>

\* One Add, or its failure.
After(name) == CASE name = "nsec" -> "bunker"
                 [] name = "bunker" -> IF AndroidOmitted THEN "load" ELSE "android"
                 [] name = "android" -> "android-key"
                 [] name = "android-key" -> "load"

AddWithoutDefer ==    \* mutant: an error of the last Add returns as it is
  /\ pc \in Names
  /\ \/ sealed' = sealed \cup {pc} /\ pc' = After(pc) /\ UNCHANGED side
     \/ /\ pc' = IF pc = "android-key" THEN "failed" ELSE "abandon"
        /\ side' \in {side, side \cup {"writing"}}
        /\ UNCHANGED sealed
  /\ UNCHANGED <<storage, import, there, mine, gone, result>>

Add ==
  /\ pc \in Names
  /\ \/ sealed' = sealed \cup {pc} /\ pc' = After(pc) /\ UNCHANGED side
     \/ pc' = "abandon" /\ side' \in {side, side \cup {"writing"}} /\ UNCHANGED sealed
  /\ UNCHANGED <<storage, import, there, mine, gone, result>>

LoadNew ==
  /\ pc = "load"
  /\ \/ Load.kind = "profile" /\ result' = Load /\ pc' = "created"
     \/ result' = Failure /\ pc' = "abandon"
  /\ UNCHANGED <<storage, import, disk>>

\* abandon: the container is closed and removed, then the files beside it.
RemoveContainer ==
  /\ pc = "abandon"
  /\ there' = "no" /\ sealed' = {} /\ gone' = {} /\ mine' = FALSE
  /\ pc' = "lock"
  /\ UNCHANGED <<storage, import, side, result>>

RemoveBeside ==
  /\ pc \in {"lock", "writing", "key"}
  /\ side' = IF pc = "key" /\ storage # "file" THEN side ELSE side \ {pc}
  /\ pc' = CASE pc = "lock" -> "writing" [] pc = "writing" -> "key" [] pc = "key" -> "failed"
  /\ UNCHANGED <<storage, import, there, mine, sealed, gone, result>>

CreateFails ==
  /\ pc = "failed"
  /\ Leave({chosen})
  /\ result' = Failure
  /\ UNCHANGED <<there, sealed, gone, side>>

\* reportKey, startToken and bunker.Start, and then serve; or an error of one.
Serve ==
  /\ pc = "created"
  /\ pc' = "serving"
  /\ UNCHANGED <<storage, import, disk, result>>

\* serve or an error of the start returns, and with it createAndRun or openAndRun.
Stop ==
  /\ pc \in {"created", "serving", "refused"}
  /\ Leave({chosen})
  /\ result' = Nothing
  /\ UNCHANGED <<there, sealed, gone, side>>

-----------------------------------------------------------------------------
\* profile.Open: with the right secrets what load finds, an error otherwise.
Open ==
  /\ pc = "idle" /\ there # "no"
  /\ \/ result' = Load
     \/ result' = Failure
  /\ pc' = IF result'.kind = "profile" THEN "serving" ELSE "refused"
  /\ Starts

-----------------------------------------------------------------------------
(* The surroundings.                                                       *)

\* The process is killed, in an Add perhaps with the copy it was writing.
Crash ==
  /\ pc # "idle"
  /\ pc' = "idle" /\ storage' = "none"
  /\ file' = NoFile /\ store' = Empty /\ found' = <<>> /\ chosen' = 0
  /\ plain' = {} /\ left' = {} /\ nsec' = {} /\ mine' = FALSE /\ result' = Nothing
  /\ side' \in {side} \cup {side \cup {"writing"} : n \in {pc} \cap Names}
  /\ UNCHANGED <<there, sealed, gone>>

\* Another hotbox makes its vault at the path.
Appear ==
  /\ there = "no"
  /\ there' = "file" /\ sealed' = {"nsec", "bunker"} /\ side' = side \cup {"lock", "key"}
  /\ UNCHANGED <<pc, storage, import, mine, gone, result>>

\* A content file of a directory container is lost while no hotbox has it open.
LoseBlob ==
  /\ pc = "idle" /\ there = "directory"
  /\ \E n \in sealed \ gone : gone' = gone \cup {n}
  /\ UNCHANGED <<pc, storage, import, there, mine, sealed, side, result>>

CreateStep == \/ CreatePath \/ Questions \/ Cancel
              \/ PickKeystore \/ StorePassword \/ KeyPassword
              \/ ChooseAlias \/ CancelAlias \/ Confirm
              \/ NewContainer \/ Add \/ LoadNew
              \/ RemoveContainer \/ RemoveBeside \/ CreateFails

Next == CreateStep \/ Serve \/ Stop \/ Open \/ Crash \/ Appear \/ LoseBlob

Spec == Init /\ [][Next]_vars

-----------------------------------------------------------------------------
(* Properties                                                              *)

TypeOK ==
  /\ pc \in {"idle", "questions", "keystore", "store password", "key password",
             "alias", "confirm", "create", "load", "abandon", "lock", "writing",
             "key", "failed", "created", "serving", "refused"} \cup Names
  /\ storage \in {"file", "keychain", "none"}
  /\ file \in Files \cup {NoFile}
  /\ store \in Passwords \cup {Empty}
  /\ chosen \in {0} \cup DOMAIN found
  /\ plain \subseteq DOMAIN found \/ pc = "idle"
  /\ nsec \subseteq {"array", "input"}
  /\ there \in {"no", "file", "directory"}
  /\ mine \in BOOLEAN
  /\ sealed \subseteq Names
  /\ gone \subseteq sealed
  /\ side \subseteq {"lock", "writing", "key", "keychain"}
  /\ result.kind \in {"none", "error", "missing", "profile"}

\* A creation that fails after the container was made leaves nothing of it: no
\* container, and unless another hotbox has made its own there meanwhile no file
\* beside it; only the keychain keeps its entry (abandon).
AbandonLeavesNothing ==
  pc = "failed" => /\ ~mine
                   /\ sealed \in {{}} \cup Whole
                   /\ there = "no" =>
                        side \cap ({"lock", "writing"} \cup SecondSecret) \subseteq {"keychain"}

\* Whatever fails, a vault that this creation did not make is neither removed nor
\* written, nor is one by Open ("It leaves the entry in place", profile.go).
KeepsOthers ==
  [][~mine /\ there # "no" => there' = there /\ sealed' = sealed]_vars

\* A profile is served only with both its ordinary entries at hand, with an Android
\* key only when chain and key are both sealed and readable, and without one only
\* when neither is: a creation cut short by a crash never opens as half a key.
\* One that was just created has the key it was asked for.
OpenedIsWhole ==
  pc \in {"created", "serving"} =>
    /\ {"nsec", "bunker"} \subseteq sealed \ gone
    /\ IF result.android THEN Names \subseteq sealed \ gone
                         ELSE {"android", "android-key"} \cap sealed = {}
    /\ mine => (result.android <=> ~AndroidOmitted)

\* However createAndRun returns, it leaves of the new nsec no more than the buffer a
\* typed one was decoded into, and of the entries that Parse returned only those
\* that another of the same alias hides.  Of a JKS or PKCS#12 file that was read,
\* at once or after a first reading with the wrong key password, the readings left
\* no copy of a key.
KeysWiped ==
  [][pc # "idle" /\ pc' = "idle" =>
       /\ nsec' \subseteq {"input"}
       /\ \A n \in plain' : n < chosen /\ found[n].alias = found[chosen].alias
       /\ found # <<>> /\ file.format # "pem" => left' = {}]_vars

Distinct(s) == \A m, n \in DOMAIN s : s[m] = s[n] => m = n
NoCopies(items) == \A m, n \in Certs(items) : items[m].cert = items[n].cert => m = n

\* certs is a chain for key out of the certificates of items: it starts at a
\* certificate of the key, each is followed by one of its issuer and appears once,
\* and it ends only where no certificate of the file could follow.
IsChain(key, certs, items) ==
  LET last == certs[Len(certs)]
      used == {certs[n] : n \in DOMAIN certs}
  IN  /\ Fits(key, certs)
      /\ \A n \in DOMAIN certs \ {1} : certs[n].subject = certs[n - 1].issuer
      /\ Distinct(certs)
      /\ \/ last.subject = last.issuer
         \/ \A n \in Certs(items) :
              items[n].cert.subject = last.issuer => items[n].cert \in used

\* The certificates taken from a PKCS#12 or PEM file (one without copies) are a
\* chain for the key, in whichever order the file has them (orderCerts).
ChainFits ==
  pc = "confirm" /\ file.format # "jks" /\ NoCopies(file.items) =>
    IsChain(found[chosen].key, found[chosen].certs, file.items)

=============================================================================
