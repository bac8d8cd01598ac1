---------------------------- MODULE OrderUploads ----------------------------
(***************************************************************************)
(* Placing orders, on phones signed in to one account: _uploadOrder and    *)
(* the Submit handler around it (lib/OrderPage.dart), the confirmation     *)
(* (lib/OrderPlaced.dart) and the profile's list (lib/Profile.dart).       *)
(*                                                                         *)
(* An order is two awaited writes, the document and then its id in the     *)
(* user's list, and the Submit button stays enabled while they run.  The   *)
(* profile reads the list, then the documents, and trusts that they agree. *)
(* What an order contains is modelled in OrderForm.                        *)
(***************************************************************************)
EXTENDS Integers, FiniteSets, SequencesExt

CONSTANTS
    Phones,
    Uploads,        \* the calls of _uploadOrder, each with the order it adds
    PhoneOf,        \* the phone an upload runs on
    Earlier,        \* the uploads whose orders the account has already
    WhereInLimit    \* the most ids Firestore takes in a whereIn

ASSUME PhoneOfAssumption == PhoneOf \in [Uploads -> Phones]
ASSUME EarlierAssumption ==
    /\ Earlier \in Seq(Uploads)
    /\ \A i, j \in DOMAIN Earlier : Earlier[i] = Earlier[j] => i = j
ASSUME WhereInAssumption == WhereInLimit \in Nat

VARIABLES
    orders,         \* the documents of Orders
    userOrders,     \* Users/{uid}.Orders, oldest first
    stack,          \* a phone's pages above the gift page, last on top
    pc, owner,      \* an upload, and the order page that started it
    profile,        \* the profile page of a phone: what it waits for or shows
    ids,            \* ordersIdsRev
    preOrders       \* the list it shows

store   == <<orders, userOrders>>
listing == <<profile, ids, preOrders>>
vars    == <<store, stack, pc, owner, listing>>

Pages    == {"order", "placed", "home"}
Running  == {"add", "link"}         \* the write that is awaited
Settled  == {"done", "failed", "dead"}
PCs      == {"idle", "acked"} \cup Running \cup Settled
Profiles == {"closed", "ids", "docs", "shown", "offline", "failed",
             "query_error", "range_error"}

Init ==
    /\ orders = ToSet(Earlier)
    /\ userOrders = Earlier
    /\ stack = [p \in Phones |-> <<>>]
    /\ pc = [u \in Uploads |-> IF u \in ToSet(Earlier) THEN "done" ELSE "idle"]
    /\ owner = [u \in Uploads |-> "mounted"]
    /\ profile = [p \in Phones |-> "closed"]
    /\ ids = [p \in Phones |-> <<>>]
    /\ preOrders = [p \in Phones |-> <<>>]

Listed == ToSet(userOrders)

-----------------------------------------------------------------------------
(***************************************************************************)
(* Pages                                                                   *)
(***************************************************************************)
Top(p) == IF stack[p] = <<>> THEN "gift" ELSE Last(stack[p])

Push(p, name) == stack' = [stack EXCEPT ![p] = Append(@, name)]

\* Uploads whose order page has been popped but not yet disposed
Leaving(p) == {u \in Uploads : /\ PhoneOf[u] = p /\ stack[p] = <<>>
                                /\ pc[u] \notin {"idle"} \cup Settled
                                /\ owner[u] = "mounted"}

OpenOrderPage(p) ==
    /\ stack[p] = <<>> /\ profile[p] = "closed"
    /\ Leaving(p) = {}
    /\ Push(p, "order")
    /\ UNCHANGED <<store, pc, owner, listing>>

Back(p) ==
    /\ stack[p] # <<>> /\ profile[p] = "closed"
    /\ stack' = [stack EXCEPT ![p] = Front(@)]
    /\ UNCHANGED <<store, pc, owner, listing>>

\* The exit animation of the order page ends: its State is disposed.
Dispose(p) ==
    /\ Leaving(p) # {}
    /\ owner' = [u \in Uploads |-> IF u \in Leaving(p) THEN "unmounted"
                                   ELSE owner[u]]
    /\ UNCHANGED <<store, stack, pc, listing>>

\* "Return Home" replaces the confirmation; the order page stays below.
ReturnHome(p) ==
    /\ Top(p) = "placed"
    /\ stack' = [stack EXCEPT ![p][Len(stack[p])] = "home"]
    /\ UNCHANGED <<store, pc, owner, listing>>

-----------------------------------------------------------------------------
(***************************************************************************)
(* _uploadOrder: an action is an awaited write taking effect and being     *)
(* answered.  The one a killed app had issued may still take effect.       *)
(***************************************************************************)
\* A tap on Submit, with an address given.
Submit(p, u) ==
    /\ Top(p) = "order"
    /\ PhoneOf[u] = p /\ pc[u] = "idle"
    /\ pc' = [pc EXCEPT ![u] = "add"]
    /\ UNCHANGED <<store, stack, owner, listing>>

GoTo(u, next) ==
    pc' = [pc EXCEPT ![u] = IF owner[u] = "killed" THEN "dead" ELSE next]

\* Mutant: the write of the id is not awaited, and its app may die first.
AddOrder_LinkNotAwaited(u) ==
    /\ pc[u] = "add"
    /\ orders' = orders \cup {u}
    /\ GoTo(u, "acked")
    /\ UNCHANGED <<userOrders, stack, owner, listing>>

AddOrder(u) ==
    /\ pc[u] = "add"
    /\ orders' = orders \cup {u}
    /\ GoTo(u, "link")
    /\ UNCHANGED <<userOrders, stack, owner, listing>>

\* Mutants: the id is taken before add has answered; the upload goes on only
\* while its page is there.
LinkOrder_NoId(u) ==
    /\ pc[u] = "link"
    /\ userOrders' = Append(userOrders, "null")
    /\ GoTo(u, "acked")
    /\ UNCHANGED <<orders, stack, owner, listing>>
LinkOrder_WhileMounted(u) ==
    /\ pc[u] = "link" /\ owner[u] = "mounted"
    /\ userOrders' = IF u \in Listed THEN userOrders ELSE Append(userOrders, u)
    /\ GoTo(u, "acked")
    /\ UNCHANGED <<orders, stack, owner, listing>>

\* Mutant: the newest id goes to the front.
LinkOrder_ToTheFront(u) ==
    /\ pc[u] = "link"
    /\ userOrders' = <<u>> \o userOrders
    /\ GoTo(u, "acked")
    /\ UNCHANGED <<orders, stack, owner, listing>>

\* FieldValue.arrayUnion: at the end, unless it is there.
LinkOrder(u) ==
    /\ pc[u] = "link"
    /\ userOrders' = IF u \in Listed THEN userOrders ELSE Append(userOrders, u)
    /\ GoTo(u, "acked")
    /\ UNCHANGED <<orders, stack, owner, listing>>

\* setState, and .then the confirmation, on top of whatever is there; on a
\* disposed page setState throws and nothing is pushed.
Confirm(u) ==
    /\ pc[u] = "acked"
    /\ pc' = [pc EXCEPT ![u] = "done"]
    /\ \/ owner[u] = "mounted" /\ Push(PhoneOf[u], "placed")
       \/ owner[u] # "mounted" /\ UNCHANGED stack
    /\ UNCHANGED <<store, owner, listing>>

\* Mutant: an error of add is swallowed, and the id listed all the same.
UploadFails_AddSwallowed(u) ==
    /\ pc[u] \in Running
    /\ GoTo(u, IF pc[u] = "add" THEN "link" ELSE "failed")
    /\ UNCHANGED <<store, stack, owner, listing>>

\* A write that throws is caught by nobody: the spinner stays, and the page
\* is ready for another tap.
UploadFails(u) ==
    /\ pc[u] \in Running
    /\ GoTo(u, "failed")
    /\ UNCHANGED <<store, stack, owner, listing>>

\* The app of a phone that shows one of these pages or has an upload running
Kill(p) ==
    /\ \/ stack[p] # <<>> \/ profile[p] # "closed"
       \/ \E u \in Uploads : /\ PhoneOf[u] = p /\ owner[u] # "killed"
                            /\ pc[u] \in Running \cup {"acked"}
    /\ stack' = [stack EXCEPT ![p] = <<>>]
    /\ profile' = [profile EXCEPT ![p] = "closed"]
    /\ owner' = [u \in Uploads |->
                   IF PhoneOf[u] = p /\ pc[u] \in Running THEN "killed" ELSE owner[u]]
    /\ pc' = [u \in Uploads |->
                IF PhoneOf[u] = p /\ pc[u] = "acked" THEN "dead" ELSE pc[u]]
    /\ ids' = [ids EXCEPT ![p] = <<>>]
    /\ preOrders' = [preOrders EXCEPT ![p] = <<>>]
    /\ UNCHANGED store

-----------------------------------------------------------------------------
(***************************************************************************)
(* The profile: getData                                                    *)
(***************************************************************************)
OpenProfile(p) ==
    /\ Top(p) \in {"gift", "home"} /\ profile[p] = "closed"
    /\ profile' = [profile EXCEPT ![p] = "ids"]
    /\ UNCHANGED <<store, stack, pc, owner, ids, preOrders>>

\* checkConnectivity finds no network; "Retry" calls getData again.
GoOffline(p) ==
    /\ profile[p] = "ids"
    /\ profile' = [profile EXCEPT ![p] = "offline"]
    /\ UNCHANGED <<store, stack, pc, owner, ids, preOrders>>

Retry(p) ==
    /\ profile[p] = "offline"
    /\ profile' = [profile EXCEPT ![p] = "ids"]
    /\ UNCHANGED <<store, stack, pc, owner, ids, preOrders>>

\* The user's document arrives: without a list there is nothing to query.
GetIds(p) ==
    /\ profile[p] = "ids"
    /\ ids' = [ids EXCEPT ![p] = Reverse(userOrders)]
    /\ profile' = [profile EXCEPT ![p] =
                     IF userOrders = <<>> THEN "shown" ELSE "docs"]
    /\ preOrders' = [preOrders EXCEPT ![p] = <<>>]
    /\ UNCHANGED <<store, stack, pc, owner>>

\* preOrders gets as many places as documents were found; each document goes
\* to the place its id has in the list, which may be past the end.
Found(p)  == {i \in DOMAIN ids[p] : ids[p][i] \in orders}
PastEnd(p) == \E i \in Found(p) : i > Cardinality(Found(p))

GetDocs(p) ==
    /\ profile[p] = "docs"
    /\ \/ /\ Len(ids[p]) > WhereInLimit
          /\ profile' = [profile EXCEPT ![p] = "query_error"]
          /\ UNCHANGED preOrders
       \/ /\ Len(ids[p]) <= WhereInLimit /\ PastEnd(p)
          /\ profile' = [profile EXCEPT ![p] = "range_error"]
          /\ UNCHANGED preOrders
       \/ /\ Len(ids[p]) <= WhereInLimit /\ ~ PastEnd(p)
          /\ profile' = [profile EXCEPT ![p] = "shown"]
          /\ preOrders' = [preOrders EXCEPT ![p] =
                             SubSeq(ids[p], 1, Cardinality(Found(p)))]
    /\ UNCHANGED <<store, stack, pc, owner, ids>>

\* A get that throws leaves the progress animation there.
ProfileFails(p) ==
    /\ profile[p] \in {"ids", "docs"}
    /\ profile' = [profile EXCEPT ![p] = "failed"]
    /\ UNCHANGED <<store, stack, pc, owner, ids, preOrders>>

CloseProfile(p) ==
    /\ profile[p] # "closed"
    /\ profile' = [profile EXCEPT ![p] = "closed"]
    /\ ids' = [ids EXCEPT ![p] = <<>>]
    /\ preOrders' = [preOrders EXCEPT ![p] = <<>>]
    /\ UNCHANGED <<store, stack, pc, owner>>

-----------------------------------------------------------------------------
Step(u) == AddOrder(u) \/ LinkOrder(u) \/ Confirm(u)

Next ==
    \/ \E p \in Phones :
         \/ OpenOrderPage(p) \/ Back(p) \/ Dispose(p) \/ ReturnHome(p) \/ Kill(p)
         \/ OpenProfile(p) \/ GoOffline(p) \/ Retry(p) \/ GetIds(p) \/ GetDocs(p)
         \/ ProfileFails(p) \/ CloseProfile(p)
         \/ \E u \in Uploads : Submit(p, u)
    \/ \E u \in Uploads : Step(u) \/ UploadFails(u)

Spec == Init /\ [][Next]_vars

\* An awaited write is answered; nothing makes the user do anything.
FairSpec == Spec /\ \A u \in Uploads : WF_vars(Step(u))

-----------------------------------------------------------------------------
TypeOK ==
    /\ orders \subseteq Uploads
    /\ userOrders \in Seq(Uploads)
    /\ stack \in [Phones -> Seq(Pages)]
    /\ pc \in [Uploads -> PCs]
    /\ owner \in [Uploads -> {"mounted", "unmounted", "killed"}]
    /\ profile \in [Phones -> Profiles]
    /\ ids \in [Phones -> Seq(Uploads)]
    /\ preOrders \in [Phones -> Seq(Uploads)]

\* The user's list names no order that does not exist, and none twice: the
\* profile turns the place of an id into an index.
NoDanglingId ==
    /\ Listed \subseteq orders
    /\ \A i, j \in DOMAIN userOrders : userOrders[i] = userOrders[j] => i = j

\* The confirmation is for an order that is stored and in the user's list.
ConfirmedIsListed ==
    \A u \in Uploads : pc[u] \in {"acked", "done"} => u \in orders /\ u \in Listed

\* The profile never indexes past the end of its list, and what it shows is
\* every order it was told of.
ProfileComplete ==
    \A p \in Phones : /\ profile[p] # "range_error"
                      /\ profile[p] = "shown" => preOrders[p] = ids[p]

\* An order the user cannot see was left by an upload that is running, has
\* failed, or lost its app.
OrphanHasReason ==
    \A u \in orders \ Listed : pc[u] \in {"link", "failed", "dead"}

\* A confirmation on screen means an upload of this phone was confirmed.
PlacedIsBacked ==
    \A p \in Phones : Top(p) = "placed" =>
        \E u \in Uploads : PhoneOf[u] = p /\ pc[u] = "done" /\ u \in Listed

\* What the user has been told and is shown
Told     == {u \in Uploads : pc[u] = "done"}
OnScreen == [p \in Phones |-> IF profile[p] = "shown" THEN preOrders[p] ELSE <<>>]

Promise == INSTANCE Placing WITH told <- Told, shown <- OnScreen

\* Seen from outside, orders are stored, listed, confirmed and shown as
\* Placing promises: though a profile reads the list and the documents one
\* after the other, it shows the list as it was at one moment.
PromiseKept == Promise!Spec

\* Every order that is submitted is placed, fails, or loses its app.
EveryOrderSettles == \A u \in Uploads : pc[u] = "add" ~> pc[u] \in Settled
=============================================================================
