------------------------------ MODULE MCHotbox ------------------------------
(* Four vaults: a and d were created under one name, in different directories, *)
(* and d's file was renamed; c was sealed with a port that a has too, and has   *)
(* b's file name in another directory.  One vault, two that go together, and    *)
(* each pair that clashes, the last one also after a third vault.                *)
EXTENDS Hotbox, TLC

CONSTANTS a, b, c, d
MCVaults == {a, b, c, d}
MCArgLists == {<<a>>, <<a, a>>, <<a, b>>, <<a, c>>, <<b, c>>, <<b, d, a>>}
MCLabel == (a :> "one" @@ b :> "two" @@ c :> "two" @@ d :> "three")
MCSealedName == (a :> "one" @@ b :> "two" @@ c :> "three" @@ d :> "one")
MCPort == LET P(m, n) == [ws |-> m, wss |-> n]
          IN  (a :> P(1, 2) @@ b :> P(3, 4) @@ c :> P(2, 5) @@ d :> P(6, 7))
MCAndroid == {a, d}

=============================================================================
