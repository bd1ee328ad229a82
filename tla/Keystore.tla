------------------------------ MODULE Keystore ------------------------------
(***************************************************************************)
(* What the readers of src/keystore find in a JKS, PKCS#12 or PEM file     *)
(* under given passwords.  A file is a record whose items are the entries, *)
(* bags or blocks in their order; decryption is the comparison of the      *)
(* password with the one the item was sealed under.                        *)
(*                                                                         *)
(*   file:  format "jks", "p12" or "pem"; store, the password of its MAC;  *)
(*          items, a sequence of                                           *)
(*   item:  kind "key" (with its chain in a JKS), "cert", or "bad" (what   *)
(*          the reader cannot parse, or an encryption it does not support);*)
(*          pw, alias (NoAlias when it has none), key, certs, and in a     *)
(*          PKCS#12 file the number of the content it is in                *)
(*   cert:  subject, issuer, key, cn (its common name as an alias)         *)
(***************************************************************************)
EXTENDS Naturals, Sequences

CONSTANTS NoAlias, Empty    \* the empty alias, the empty password

MaxJKSChain == 8

\* An outcome of Parse: the error ("password" for ErrPassword, "keypassword" for
\* ErrKeyPassword, "other"), or the entries, each at the position of its key; and
\* the keys of which it leaves a decrypted copy behind that it does not return.
Fails(why, left) == [err |-> why, entries |-> <<>>, left |-> left]
Finds(entries, left) == [err |-> "none", entries |-> entries, left |-> left]
Single(n, entry) == [m \in {n} |-> entry]

\* finish: a key is returned with a chain whose leaf is its own certificate.
Fits(key, certs) == certs # <<>> /\ certs[1].key = key
Entry(alias, key, certs) == [alias |-> alias, key |-> key, certs |-> certs]

Positions(s, K) == {n \in DOMAIN s : s[n].kind \in K}
Least(S) == CHOOSE n \in S : \A m \in S : n <= m
Greatest(S) == CHOOSE n \in S : \A m \in S : m <= n

-----------------------------------------------------------------------------
(* orderCerts: the first certificate of the key, then issuer after issuer, *)
(* each certificate once, until one is its own issuer or none is left.     *)

Certs(items) == Positions(items, {"cert"})

PathWithRepeats(items, path) ==    \* mutant: no certificate is marked used
  LET cur == items[path[Len(path)]].cert
      candidates == {n \in Certs(items) : items[n].cert.subject = cur.issuer}
  IN  IF cur.subject = cur.issuer \/ candidates = {} THEN path
      ELSE Append(path, Least(candidates))

\* The certificates that may follow the path: unused, of the last one's issuer.
Candidates(items, path) ==
  {n \in Certs(items) : /\ \A m \in DOMAIN path : path[m] # n
                        /\ items[n].cert.subject = items[path[Len(path)]].cert.issuer}

NextIssuer(items, path) ==
  LET cur == items[path[Len(path)]].cert
  IN  IF cur.subject = cur.issuer \/ Candidates(items, path) = {} THEN path
      ELSE Append(path, Least(Candidates(items, path)))

\* The positions passed after each round of the loop; no round is left after as
\* many as there are items.
IssuerPaths(items, leaf) ==
  LET path[n \in 0..Len(items)] ==
        IF n = 0 THEN <<leaf>> ELSE NextIssuer(items, path[n - 1])
  IN  path

OrderCerts(key, items) ==
  LET leaves == {n \in Certs(items) : items[n].cert.key = key}
  IN  IF leaves = {} THEN <<>>
      ELSE LET path == IssuerPaths(items, Least(leaves))[Len(items)]
           IN  [n \in DOMAIN path |-> items[path[n]].cert]

-----------------------------------------------------------------------------
(* parseJKS: the MAC tells the store password; every key entry is decrypted *)
(* with the one key password, and the first that is not ends the reading:   *)
(* the entries before it are dropped as they are.                           *)

\* decryptJKSKey: the digest after the key tells whether the password was its own.
DecryptsJKS(it, keyPassword) == it.pw = keyPassword

ItemError(it, keyPassword) ==
  IF it.kind = "cert" THEN "none"
  ELSE IF it.kind = "bad" \/ Len(it.certs) \notin 1..MaxJKSChain THEN "other"
  ELSE IF ~DecryptsJKS(it, keyPassword) THEN "keypassword"
  ELSE IF it.alias = NoAlias \/ ~Fits(it.key, it.certs) THEN "other"
  ELSE "none"

KeyEntries(items) ==
  [n \in Positions(items, {"key"}) |-> Entry(items[n].alias, items[n].key, items[n].certs)]

KeysBefore(items, n) == {m \in Positions(items, {"key"}) : m < n}

ParseJKS(f, store, keyPassword) ==
  LET failing == {n \in DOMAIN f.items : ItemError(f.items[n], keyPassword) # "none"}
      first == Least(failing)
  IN  IF f.store # store THEN Fails("password", {})
      ELSE IF failing # {} THEN Fails(ItemError(f.items[first], keyPassword),
                                      KeysBefore(f.items, first))
      ELSE IF Positions(f.items, {"key"}) = {} THEN Fails("other", {})
      ELSE Finds(KeyEntries(f.items), {})

-----------------------------------------------------------------------------
(* parsePKCS12: the store password is also that of every bag, and there is  *)
(* room for one key.  A content is decrypted whole before its bags count:   *)
(* the key kept from an earlier content is wiped on an error, those of the  *)
(* content at hand are dropped as they are.                                 *)

\* macOK, where there is a MAC
MacOK(f, password) == f.store \in {"no mac", password}

\* decryptPBES2: the padding tells whether the password was the bag's own.
Decrypts(bag, password) == bag.pw = password

BagError(bag, password) ==
  IF bag.kind = "bad" THEN "other"
  ELSE IF ~Decrypts(bag, password) THEN "password"
  ELSE "none"

Content(items, n) == {m \in DOMAIN items : items[m].content = items[n].content}

\* The first bag that ends the reading, and how: one that cannot be read, also of
\* those after a second key in its content, or else the second key.
ReadBags(items, password) ==
  LET keys == Positions(items, {"key"})
      unread == {n \in DOMAIN items : BagError(items[n], password) # "none"}
      second == {n \in keys : KeysBefore(items, n) # {}}
      content == Content(items, Least(unread \cup second))
      bag == Least(unread \cap content)
  IN  IF unread \cup second = {} THEN Finds(<<>>, {})
      ELSE IF unread \cap content # {}
           THEN Fails(BagError(items[bag], password), KeysBefore(items, bag) \cap content)
      ELSE Fails("other", (keys \cap content) \ {Least(keys)})

\* friendlyName of the key's bag, or of the first certificate bag that has one,
\* or the common name of the leaf.
BagAlias(items, key, certs) ==
  LET named == {n \in Certs(items) : items[n].alias # NoAlias}
  IN  IF items[key].alias # NoAlias THEN items[key].alias
      ELSE IF named # {} THEN items[Least(named)].alias
      ELSE certs[1].cn

ParsePKCS12(f, store) ==
  LET bags == ReadBags(f.items, store)
      keys == Positions(f.items, {"key"})
      key == f.items[Least(keys)].key
      certs == OrderCerts(key, f.items)
  IN  IF ~MacOK(f, store) THEN Fails("password", {})
      ELSE IF bags.err # "none" THEN bags
      ELSE IF keys = {} \/ certs = <<>> THEN Fails("other", {})
      ELSE Finds(Single(Least(keys), Entry(BagAlias(f.items, Least(keys), certs), key, certs)), {})

-----------------------------------------------------------------------------
(* parsePEM: no password; an encrypted key is refused, and of several keys  *)
(* the last one counts.  Of each key read, at least pem.Decode's block is   *)
(* left behind.                                                             *)

ParsePEM(f) ==
  LET keys == Positions(f.items, {"key"})
      bad == Positions(f.items, {"bad"})
      key == f.items[Greatest(keys)].key
      certs == OrderCerts(key, f.items)
  IN  IF bad # {} THEN Fails("other", KeysBefore(f.items, Least(bad)))
      ELSE IF keys = {} \/ certs = <<>> THEN Fails("other", keys)
      ELSE Finds(Single(Greatest(keys), Entry(certs[1].cn, key, certs)), keys)

\* Parse: an empty key password stands for the store's.
Parse(f, store, keyPassword) ==
  CASE f.format = "jks" -> ParseJKS(f, store, IF keyPassword = Empty THEN store ELSE keyPassword)
    [] f.format = "p12" -> ParsePKCS12(f, store)
    [] OTHER -> ParsePEM(f)
=============================================================================
