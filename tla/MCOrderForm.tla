---------------------------- MODULE MCOrderForm ----------------------------
(***************************************************************************)
(* A gift that takes a day, two wrappings, one voucher whose value changes.*)
(***************************************************************************)
EXTENDS OrderForm, TLC

CONSTANTS a1, c1

MCAddresses == {a1}
MCCodes     == {c1}
MCWrappings == {0, 2}
MCWrappingPrice == (0 :> 0) @@ (2 :> 5)
=============================================================================
