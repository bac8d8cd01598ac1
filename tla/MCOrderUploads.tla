-------------------------- MODULE MCOrderUploads --------------------------
(***************************************************************************)
(* Two phones of an account with one order: Submit is tapped twice on the  *)
(* first, and both look at the profile.  The limit of whereIn is one less  *)
(* than the orders there can be: two ids are queried for, three refused.   *)
(***************************************************************************)
EXTENDS OrderUploads, TLC

CONSTANTS p1, p2, u0, u1, u2

MCPhones  == {p1, p2}
MCUploads == {u0, u1, u2}
MCPhoneOf == [u \in MCUploads |-> p1]
MCEarlier == <<u0>>
=============================================================================
