----------------------------- MODULE OrderForm -----------------------------
(***************************************************************************)
(* The order page's form, lib/OrderPage.dart: what the user chooses, what  *)
(* the page loads and reloads behind the choice, and the order it submits. *)
(* _loadPref runs when the page opens and again each time the address page *)
(* is popped; part of the form is reset by it and part is not.             *)
(*                                                                         *)
(* The order's two writes are OrderUploads, the pages' stack AddressPage.  *)
(* Orders_proof extends this module and OrderUploads: hence FormInit,      *)
(* FormSpec and the like.                                                  *)
(***************************************************************************)
EXTENDS Integers

CONSTANTS
    Addresses, NoAddress,
    Codes, NoCode,      \* voucher codes; anything else that is typed
    Discounts,          \* what a voucher may be worth
    Wrappings,          \* offered ones among 0 (free), 1 (the shop's), 2 (Boxet's)
    WrappingPrice,      \* 0, widget.shopPackaging, widget.boxetPackaging
    DefaultWrapping,    \* what _loadPref preselects for this gift
    Price, Delivery,    \* of this gift, as the gift page passed them
    Lead,               \* deliveryTime: the days the gift takes
    MaxDay,             \* bound: the clock stops there
    MaxFetches          \* bound: gets of the vouchers under way

ASSUME FormAssumption ==
    /\ NoAddress \notin Addresses
    /\ NoCode \notin Codes
    /\ Discounts \subseteq Nat \ {0}
    /\ Wrappings \subseteq 0 .. 2
    /\ WrappingPrice \in [Wrappings -> Nat]
    /\ DefaultWrapping \in Wrappings
    /\ Price \in Nat /\ Delivery \in Nat /\ Lead \in Nat
    /\ MaxDay \in Nat /\ MaxFetches \in Nat

VARIABLES
    view,           \* the page on top: the order page or one it opened
    loading,        \* the order page shows its progress animation
    fetches,        \* gets of the vouchers under way
    vouchersList,   \* the discount the last entry of each code has, or 0
    page,           \* the form: the fields the user and _loadPref set
    total,          \* as the last build() left it
    needsBuild,     \* a setState has had no build() yet
    formBuilt,      \* the last build() made the form, not the animation
    prefs,          \* the address in the phone's preferences
    order,          \* the arguments of the page's last call of _uploadOrder
    \* the world
    offered,        \* Vouchers: the discount of each code, 0 for none
    today,
    everOffered     \* history: the vouchers there have been

world    == <<offered, today, everOffered>>
screen   == <<total, needsBuild, formBuilt>>
formVars == <<view, loading, fetches, vouchersList, page, screen, prefs, order,
              world>>

\* normalPackaging, address, delNow; the days of deliveryTimeLast, of the date
\* picker's minimum and of the last load; correctVoucher, discount and, as
\* history, the code they are for.
Forms == [wrapping : Wrappings, address : Addresses \cup {NoAddress},
          delNow : BOOLEAN, day : Nat, pickMin : Nat, loadDay : Nat,
          correctVoucher : 0 .. 2, discount : Discounts \cup {0},
          code : Codes \cup {NoCode}]

NewForm == [wrapping |-> DefaultWrapping, address |-> NoAddress, delNow |-> TRUE,
            day |-> 0, pickMin |-> 0, loadDay |-> 0,
            correctVoucher |-> 2, discount |-> 0, code |-> NoCode]

NoVouchers == [c \in Codes |-> 0]
NoOrder    == [code |-> NoCode]

FormInit ==
    /\ view = "closed"
    /\ loading = FALSE
    /\ fetches = 0
    /\ vouchersList = NoVouchers
    /\ page = NewForm
    /\ total = 0
    /\ needsBuild = FALSE
    /\ formBuilt = FALSE
    /\ prefs \in Addresses \cup {NoAddress}
    /\ order = NoOrder
    /\ offered \in [Codes -> Discounts \cup {0}]
    /\ today = 0
    /\ everOffered = {<<c, offered[c]>> : c \in {x \in Codes : offered[x] # 0}}

-----------------------------------------------------------------------------
(***************************************************************************)
(* Drawing: a handler changes fields and calls setState; build() follows   *)
(* with the next frame, and other taps may come before it.                 *)
(***************************************************************************)
SetState == /\ needsBuild' = TRUE
            /\ UNCHANGED <<total, formBuilt>>

\* What build() leaves in "total" for the handler of Submit to take.
Total(f) == Price + Delivery + WrappingPrice[f.wrapping]
              - (IF f.correctVoucher = 1 THEN f.discount ELSE 0)

\* After a setState, or because the keyboard moved: MediaQuery is asked too.
Build ==
    /\ view # "closed"
    /\ total' = Total(page)
    /\ needsBuild' = FALSE
    /\ formBuilt' = ~ loading
    /\ UNCHANGED <<view, loading, fetches, vouchersList, page, prefs, order, world>>

-----------------------------------------------------------------------------
(***************************************************************************)
(* Loading: _loadPref                                                      *)
(***************************************************************************)
\* Up to its first get: the wrapping, the delivery time and the pickers start
\* over and the address is read again; delNow and the voucher stay.
Loaded(old) ==
    [old EXCEPT !.wrapping = DefaultWrapping, !.address = prefs,
                !.day = today + Lead, !.pickMin = today + Lead + 1,
                !.loadDay = today]

\* "Order Now" on the gift page, with somebody signed in.
Open ==
    /\ view = "closed"
    /\ view' = "order"
    /\ loading' = TRUE
    /\ fetches' = 1
    /\ page' = Loaded(NewForm)
    /\ SetState
    /\ UNCHANGED <<vouchersList, prefs, order, world>>

\* Mutant: an answer is taken for one that is no longer awaited.
VouchersArrive_AnyTime ==
    /\ view # "closed"
    /\ fetches' = fetches - 1
    /\ loading' = FALSE
    /\ SetState
    /\ UNCHANGED <<view, vouchersList, page, prefs, order, world>>

\* Each load appends the vouchers it got, and REDEEM takes the last match.  A
\* get that fails is printed; the page appears all the same.
VouchersArrive ==
    /\ fetches > 0
    /\ fetches' = fetches - 1
    /\ loading' = FALSE
    /\ \/ vouchersList' = [c \in Codes |-> IF offered[c] # 0 THEN offered[c]
                                           ELSE vouchersList[c]]
       \/ UNCHANGED vouchersList
    /\ SetState
    /\ UNCHANGED <<view, page, prefs, order, world>>

\* The page is disposed; what a get brings later reaches nobody, and an order
\* that is uploading is no longer confirmed here.
Close ==
    /\ view = "order"
    /\ view' = "closed"
    /\ loading' = FALSE
    /\ fetches' = 0
    /\ vouchersList' = NoVouchers
    /\ page' = NewForm
    /\ total' = 0
    /\ needsBuild' = FALSE
    /\ formBuilt' = FALSE
    /\ order' = NoOrder
    /\ UNCHANGED <<prefs, world>>

(***************************************************************************)
(* The address page, seen from here                                        *)
(***************************************************************************)
OpenAddress ==
    /\ view = "order" /\ formBuilt
    /\ fetches < MaxFetches
    /\ view' = "address"
    /\ UNCHANGED <<loading, fetches, vouchersList, page, screen, prefs, order,
                   world>>

SaveAddress(a) ==
    /\ view = "address"
    /\ prefs' = a
    /\ UNCHANGED <<view, loading, fetches, vouchersList, page, screen, order,
                   world>>

\* .then((val) => _refresh()): however the address page was left
Refresh ==
    /\ view = "address"
    /\ view' = "order"
    /\ page' = Loaded(page)
    /\ fetches' = fetches + 1
    /\ SetState
    /\ UNCHANGED <<loading, vouchersList, prefs, order, world>>

-----------------------------------------------------------------------------
(***************************************************************************)
(* Taps                                                                    *)
(***************************************************************************)
Edit(new) ==
    /\ view = "order" /\ formBuilt
    /\ page' = new
    /\ UNCHANGED <<view, loading, fetches, vouchersList, prefs, order, world>>

ChooseWrapping(w) == Edit([page EXCEPT !.wrapping = w]) /\ SetState

\* Mutant: the discount is not reset before the search.
Redeemed_NoReset(old, c, found) ==
    IF found # 0 \/ old.discount = 0
    THEN [old EXCEPT !.correctVoucher = IF found # 0 THEN 1 ELSE 0,
                     !.discount = found, !.code = c]
    ELSE [old EXCEPT !.correctVoucher = 1, !.code = c]

\* The state is reset before the whole list is searched for the code.
Redeemed(old, c, found) ==
    [old EXCEPT !.correctVoucher = IF found # 0 THEN 1 ELSE 0,
                !.discount = found, !.code = c]

Redeem(c) ==
    /\ Edit(Redeemed(page, c, IF c = NoCode THEN 0 ELSE vouchersList[c]))
    /\ SetState

Unredeemed(old) ==
    [old EXCEPT !.correctVoucher = 2, !.discount = 0, !.code = NoCode]

\* Mutant: the fields are reset outside setState, and nothing is drawn.
RedeemNothing_NoSetState == Edit(Unredeemed(page)) /\ UNCHANGED screen

\* REDEEM with nothing typed
RedeemNothing == Edit(Unredeemed(page)) /\ SetState

DeliverNow == /\ ~ page.delNow
              /\ Edit([page EXCEPT !.delNow = TRUE, !.day = today + Lead])
              /\ SetState

\* "Later" shows the date picker and leaves deliveryTimeLast as it is.
DeliverLater == /\ page.delNow
                /\ Edit([page EXCEPT !.delNow = FALSE])
                /\ SetState

\* Mutant: the date picker has no minimum.
PickDate_NoMinimum(d) == /\ ~ page.delNow
                         /\ Edit([page EXCEPT !.day = d])
                         /\ UNCHANGED screen

\* The time picker counts from the day it is turned, the date picker has its
\* minimum from the day it was made.  Neither calls setState.
PickTime    == /\ page.delNow
               /\ Edit([page EXCEPT !.day = today + Lead])
               /\ UNCHANGED screen
PickDate(d) == /\ ~ page.delNow
               /\ d >= page.pickMin
               /\ Edit([page EXCEPT !.day = d])
               /\ UNCHANGED screen

-----------------------------------------------------------------------------
(***************************************************************************)
(* Submit                                                                  *)
(***************************************************************************)
\* The handler takes the total as build() left it, and reads the parts anew.
\* History: early tells whether a build() was due by then.
Ordered(f) == [address |-> f.address, totalPrice |-> total, price |-> Price,
               delivery |-> Delivery, packaging |-> WrappingPrice[f.wrapping],
               discount |-> IF f.correctVoucher = 1 THEN f.discount ELSE 0,
               code |-> f.code, day |-> f.day, loadDay |-> f.loadDay,
               early |-> needsBuild]

\* The confirmation, when it comes, covers the page: see Covered.  Without an
\* address the tap only shows "Please add your address".
SubmitForm ==
    /\ view = "order" /\ formBuilt
    /\ \/ page.address # NoAddress /\ order' = Ordered(page)
       \/ page.address = NoAddress /\ UNCHANGED order
    /\ SetState
    /\ UNCHANGED <<view, loading, fetches, vouchersList, page, prefs, world>>

\* '/orderPlaced' is pushed, and popped again: the form is as it was.
Covered ==
    /\ order # NoOrder
    /\ \/ view = "order" /\ view' = "placed" /\ SetState
       \/ view = "placed" /\ view' = "order" /\ UNCHANGED screen
    /\ UNCHANGED <<loading, fetches, vouchersList, page, prefs, order, world>>

\* The shop offers or withdraws a voucher.
OfferVoucher(c, d) ==
    /\ offered[c] # d
    /\ offered' = [offered EXCEPT ![c] = d]
    /\ everOffered' = everOffered \cup (IF d = 0 THEN {} ELSE {<<c, d>>})
    /\ UNCHANGED <<view, loading, fetches, vouchersList, page, screen, prefs, order,
                   today>>

NextDay ==
    /\ today < MaxDay
    /\ today' = today + 1
    /\ UNCHANGED <<view, loading, fetches, vouchersList, page, screen, prefs, order,
                   offered, everOffered>>

FormNext ==
    \/ Open \/ VouchersArrive \/ Close \/ Build
    \/ OpenAddress \/ Refresh \/ \E a \in Addresses : SaveAddress(a)
    \/ \E w \in Wrappings : ChooseWrapping(w)
    \/ \E c \in Codes \cup {NoCode} : Redeem(c)
    \/ RedeemNothing
    \/ DeliverNow \/ DeliverLater \/ PickTime
    \/ \E d \in 0 .. MaxDay + Lead + 1 : PickDate(d)
    \/ SubmitForm \/ Covered
    \/ \E c \in Codes, d \in Discounts \cup {0} : OfferVoucher(c, d)
    \/ NextDay

FormSpec == FormInit /\ [][FormNext]_formVars

-----------------------------------------------------------------------------
Orders == [address : Addresses, totalPrice : Int, price : {Price},
           delivery : {Delivery}, packaging : Nat, discount : Discounts \cup {0},
           code : Codes \cup {NoCode}, day : Nat, loadDay : Nat,
           early : BOOLEAN]

FormTypeOK ==
    /\ view \in {"closed", "order", "address", "placed"}
    /\ loading \in BOOLEAN
    /\ fetches \in Nat
    /\ vouchersList \in [Codes -> Discounts \cup {0}]
    /\ page \in Forms
    /\ total \in Int
    /\ needsBuild \in BOOLEAN
    /\ formBuilt \in BOOLEAN
    /\ prefs \in Addresses \cup {NoAddress}
    /\ order \in Orders \cup {NoOrder}
    /\ offered \in [Codes -> Discounts \cup {0}]
    /\ today \in Nat

\* The total that the last build() left and the parts that the handler reads
\* agree, whatever was redeemed, refused, wrapped and reloaded in between, as
\* long as no build() was due when Submit was tapped: every handler that
\* changes a part of the total asks for one.  A tap that comes before the
\* frame of the last change passes on an older total.
OrderAddsUp ==
    order # NoOrder /\ ~ order.early =>
        order.totalPrice = order.price + order.delivery + order.packaging - order.discount

\* A discount is what the shop at some time gave for the code last redeemed,
\* even when the vouchers changed and were fetched again since.
DiscountWasOffered ==
    order # NoOrder /\ order.discount # 0 =>
        <<order.code, order.discount>> \in everOffered

\* No order promises the gift sooner than its lead time after the page was
\* last loaded, on whichever day and with whichever picker it was chosen.
LeadTimeKept == order # NoOrder => order.day >= order.loadDay + Lead

=============================================================================
