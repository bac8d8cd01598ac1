----------------------------- MODULE MCGiftPanel -----------------------------
(***************************************************************************)
(* Two gifts viewed before, which Boxet removes and restores, and one      *)
(* not viewed yet.                                                         *)
(***************************************************************************)
EXTENDS GiftPanel

MCGifts  == {"g1", "g2", "g3"}
MCViewed == {<<>>, <<"g1", "g2">>}
=============================================================================
