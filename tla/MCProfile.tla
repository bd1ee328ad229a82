----------------------------- MODULE MCProfile ------------------------------
(* Keystore files for TLC.  The PEM files hold one key and every sequence of *)
(* up to four of five certificates: the key's own under a chain l <- i <- r, *)
(* the key's own self-issued, the root r, and r again as issued by i, so that *)
(* i and r also issue each other.  The JKS and PKCS#12 files differ in their  *)
(* passwords, aliases (two keys of a JKS share one), number of keys and the   *)
(* contents their bags are in.                                                *)
EXTENDS Profile, TLC

Cert(subject, issuer, key) == [subject |-> subject, issuer |-> issuer, key |-> key, cn |-> subject]
L == Cert("l", "i", "k")
S == Cert("s", "s", "k")
I == Cert("i", "r", "ki")
R == Cert("r", "r", "kr")
X == Cert("r", "i", "kr")

Key(pw, alias, key, certs) == [kind |-> "key", pw |-> pw, alias |-> alias, key |-> key, certs |-> certs]
Bag(pw, alias, cert) == [kind |-> "cert", pw |-> pw, alias |-> alias, cert |-> cert]
Bad == [kind |-> "bad", pw |-> "", alias |-> ""]
In(content, item) == item @@ [content |-> content]
File(format, storePassword, items) ==
  [format |-> format, store |-> storePassword, items |-> items]

Arrangements(certs, n) ==
  {s \in [1..n -> certs] : \A m, k \in 1..n : s[m] = s[k] => m = k}

PemFile(s) ==
  File("pem", "", <<Key("", "", "k", <<>>)>> \o [n \in DOMAIN s |-> Bag("", "", s[n])])

PemFiles == {PemFile(s) : s \in UNION {Arrangements({L, S, I, R, X}, n) : n \in 0..4}}

OtherFiles ==
  { File("jks", "p", <<Key("p", "a", "k", <<L, I>>)>>),
    File("jks", "p", <<Key("q", "a", "k", <<L>>), Bag("", "", R)>>),
    File("jks", "p", <<Key("q", "a", "k", <<L>>), Key("q", "b", "ki", <<I>>)>>),
    File("jks", "p", <<Key("p", "a", "k", <<L>>), Key("q", "b", "ki", <<I>>)>>),
    File("jks", "p", <<Key("p", "a", "k", <<I>>)>>),
    File("jks", "p", <<Key("p", "a", "k", <<L>>), Bad>>),
    File("jks", "p", <<Bag("", "", R)>>),
    File("jks", "p", <<Key("p", "a", "k", <<L>>), Key("p", "a", "ki", <<I>>)>>),
    File("jks", "p", <<Key("q", "a", "k", <<L>>), Key("q", "b", "ki", <<I>>), Key("q", "a", "kr", <<R>>)>>),
    File("p12", "p", <<In(1, Bag("p", "", R)), In(2, Key("p", "a", "k", <<>>)),
                       In(3, Bag("p", "", I)), In(3, Bag("p", "l", L))>>),
    File("p12", "p", <<In(1, Bag("p", "i", I)), In(1, Bag("p", "", L)), In(2, Key("p", "", "k", <<>>))>>),
    File("p12", "p", <<In(1, Key("q", "a", "k", <<>>)), In(2, Bag("p", "", L))>>),
    File("p12", "no mac", <<In(1, Key("q", "", "k", <<>>)), In(1, Bag("q", "", L))>>),
    File("p12", "p", <<In(1, Key("p", "a", "k", <<>>)), In(2, Key("p", "b", "ki", <<>>)), In(2, Bag("p", "", L))>>),
    File("p12", "p", <<In(1, Key("p", "a", "k", <<>>)), In(1, Key("p", "b", "ki", <<>>)), In(1, Bad)>>),
    File("pem", "", <<Key("", "", "ki", <<>>), Key("", "", "k", <<>>), Bag("", "", I), Bag("", "", L)>>),
    File("pem", "", <<Key("", "", "k", <<>>), Bad, Bag("", "", L)>>) }

MCFiles == PemFiles \cup OtherFiles
=============================================================================
