------------------------------ MODULE Placing ------------------------------
(***************************************************************************)
(* What placing orders promises the people of one account: an order exists *)
(* before the user's list names it and is listed before anybody is told    *)
(* "Your order has been placed!"; none of the three is ever taken back;    *)
(* and a profile shows, newest first, the list as it was at some moment.   *)
(* OrderUploads says how the app does it and implements this.              *)
(***************************************************************************)
EXTENDS Integers, SequencesExt

CONSTANTS
    Phones, Uploads,
    Earlier         \* orders the account has already, oldest first

VARIABLES
    orders,         \* the orders the shop has
    userOrders,     \* the ones in the user's list, oldest first
    told,           \* the ones that were confirmed
    shown           \* what the profile on a phone shows, or <<>>

vars == <<orders, userOrders, told, shown>>

Init ==
    /\ orders = ToSet(Earlier)
    /\ userOrders = Earlier
    /\ told = ToSet(Earlier)
    /\ shown = [p \in Phones |-> <<>>]

Store(u) ==
    /\ u \notin orders
    /\ orders' = orders \cup {u}
    /\ UNCHANGED <<userOrders, told, shown>>

List(u) ==
    /\ u \in orders \ ToSet(userOrders)
    /\ userOrders' = Append(userOrders, u)
    /\ UNCHANGED <<orders, told, shown>>

Tell(u) ==
    /\ u \in ToSet(userOrders) \ told
    /\ told' = told \cup {u}
    /\ UNCHANGED <<orders, userOrders, shown>>

\* The list as it was when it had n orders
Newest(n) == Reverse(SubSeq(userOrders, 1, n))

Show(p) ==
    /\ \E n \in 1 .. Len(userOrders) : shown' = [shown EXCEPT ![p] = Newest(n)]
    /\ UNCHANGED <<orders, userOrders, told>>

Leave(p) ==
    /\ shown' = [shown EXCEPT ![p] = <<>>]
    /\ UNCHANGED <<orders, userOrders, told>>

Next ==
    \/ \E u \in Uploads : Store(u) \/ List(u) \/ Tell(u)
    \/ \E p \in Phones : Show(p) \/ Leave(p)

Spec == Init /\ [][Next]_vars
=============================================================================
