------------------------------ MODULE MCSignup ------------------------------
(***************************************************************************)
(* Two devices that make one attempt each, or one device that makes two.   *)
(***************************************************************************)
EXTENDS Signup, TLC

CONSTANTS d1, d2, n1, n2, m1, m2, a1, a2

MCDevices  == {d1, d2}
MCNames    == {n1, n2}
MCNumbers  == {m1, m2}
MCAttempts == {a1, a2}
OneEach    == (a1 :> d1) @@ (a2 :> d2)
OneDevice  == {d1}
Swap       == (d1 :> d2) @@ (d2 :> d1) @@ (a1 :> a2) @@ (a2 :> a1)
Renaming   == Permutations(MCNames) \cup Permutations(MCNumbers)
Symmetry   == Renaming \cup {Swap}
TwoTaps    == [a \in MCAttempts |-> d1]
=============================================================================
