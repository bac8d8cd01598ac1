---------------------------- MODULE MCFavourites ----------------------------
(***************************************************************************)
(* Ann signs in by name and Ben with Google, and both have favourites;     *)
(* Cleo comes with Facebook for the first time, Eve with Apple, and Dan    *)
(* signs up.                                                               *)
(***************************************************************************)
EXTENDS Favourites

MCKindOf == [u \in Users |-> CASE u = "ben"  -> "google"
                               [] u = "cleo" -> "facebook"
                               [] u = "eve"  -> "apple"
                               [] OTHER      -> "name"]
MCMarked == [u \in Users |-> CASE u = "ann" -> <<"g1", "g2">>
                               [] u = "ben" -> <<"g1">>
                               [] OTHER     -> <<>>]
=============================================================================
