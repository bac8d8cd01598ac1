---------------------------- MODULE MCHomeFeed ----------------------------
(***************************************************************************)
(* Four gifts, of which one category has one and the other three.          *)
(***************************************************************************)
EXTENDS HomeFeed

MCGifts      == 1 .. 4
MCCategories == {"love", "candies"}
MCCategoryOf == [g \in MCGifts |-> IF g = 2 THEN "love" ELSE "candies"]
=============================================================================
