---------------------------- MODULE MCGiftReviews ----------------------------
(***************************************************************************)
(* Two phones, each with its own order of one gift and one tap on Submit.  *)
(***************************************************************************)
EXTENDS GiftReviews, TLC

CONSTANTS s1, s2, o1, o2, g1, u1, u2

MCSessions  == {s1, s2}
MCOrders    == {o1, o2}
MCGifts     == {g1}
MCUploads   == {u1, u2}
MCOrderOf   == (s1 :> o1) @@ (s2 :> o2)
MCGiftOf    == [o \in MCOrders |-> g1]
MCSessionOf == (u1 :> s1) @@ (u2 :> s2)
=============================================================================
