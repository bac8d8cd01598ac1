---------------------------- MODULE AddressPage ----------------------------
(***************************************************************************)
(* The address page (lib/AddAddress.dart) over the order page, on phones   *)
(* signed in to one account.  Save sets the phone's preferences at once,   *)
(* then writes the user's document, then pops 2.2 s after the answer: a    *)
(* timer nobody cancels, popping whatever is on top by then.               *)
(***************************************************************************)
EXTENDS Integers, SequencesExt

CONSTANTS
    Phones,
    Addresses, NoAddress,
    MaxPending,         \* bound: saves of a phone not yet followed by their pop
    MaxConfirmations    \* bound: confirmations on a phone's stack

ASSUME PhonesAssumption  == Phones # {}
ASSUME AddressAssumption == NoAddress \notin Addresses
ASSUME BoundAssumption   == MaxPending \in Nat /\ MaxConfirmations \in Nat

VARIABLES
    userAddress,    \* Users/{uid}.address
    prefs,          \* the address in a phone's preferences
    stack,          \* a phone's pages above the gift page, last on top
    exiting,        \* the pages popped whose exit animation still runs
    shown,          \* the address the order page has
    saves,          \* a phone's writes of the user's document, oldest first
    pops,           \* timers of a mounted address page
    lost            \* history: a write failed, or its app died

vars == <<userAddress, prefs, stack, exiting, shown, saves, pops, lost>>

Pages == {"order", "address", "placed"}

\* A write of the user's document, and whether its page still waits for it
Writes == [address : Addresses, mounted : BOOLEAN]

\* The account was in use before: its phones and its document agree.
Init ==
    \E a \in Addresses \cup {NoAddress} :
        /\ userAddress = a
        /\ prefs = [p \in Phones |-> a]
        /\ stack = [p \in Phones |-> <<>>]
        /\ exiting = [p \in Phones |-> {}]
        /\ shown = [p \in Phones |-> NoAddress]
        /\ saves = [p \in Phones |-> <<>>]
        /\ pops = [p \in Phones |-> 0]
        /\ lost = FALSE

Top(p) == IF stack[p] = <<>> THEN "gift" ELSE Last(stack[p])

Push(p, name) == stack' = [stack EXCEPT ![p] = Append(@, name)]

\* Mutant: the order page is not told.
Pop_NoRefresh(p) ==
    /\ stack[p] # <<>>
    /\ stack' = [stack EXCEPT ![p] = Front(@)]
    /\ exiting' = [exiting EXCEPT ![p] = @ \cup {Top(p)}]
    /\ UNCHANGED shown

\* Navigator.pop removes the page on top, whoever calls it.  Popping the
\* address page completes its push, and the order page reads the address.
Pop(p) ==
    /\ stack[p] # <<>>
    /\ stack' = [stack EXCEPT ![p] = Front(@)]
    /\ exiting' = [exiting EXCEPT ![p] = @ \cup {Top(p)}]
    /\ shown' = [shown EXCEPT ![p] = IF Top(p) = "address" THEN prefs[p] ELSE @]

-----------------------------------------------------------------------------
OpenOrder(p) ==
    /\ stack[p] = <<>> /\ exiting[p] = {}
    /\ Push(p, "order")
    /\ shown' = [shown EXCEPT ![p] = prefs[p]]
    /\ UNCHANGED <<userAddress, prefs, exiting, saves, pops, lost>>

OpenAddress(p) ==
    /\ Top(p) = "order" /\ exiting[p] = {}
    /\ Push(p, "address")
    /\ UNCHANGED <<userAddress, prefs, exiting, shown, saves, pops, lost>>

\* An order submitted before is confirmed, on top of whatever is there.
Confirmed(p) ==
    /\ "order" \in ToSet(stack[p])
    /\ Len(SelectSeq(stack[p], LAMBDA x : x = "placed")) < MaxConfirmations
    /\ Push(p, "placed")
    /\ UNCHANGED <<userAddress, prefs, exiting, shown, saves, pops, lost>>

Back(p) ==
    /\ exiting[p] = {}
    /\ Pop(p)
    /\ UNCHANGED <<userAddress, prefs, saves, pops, lost>>

\* The animations end and the pages popped are disposed: the address page's
\* timers pop nothing any more, the writes it awaits start none.
Detached(p) == [i \in DOMAIN saves[p] |-> [saves[p][i] EXCEPT !.mounted = FALSE]]

\* Mutant: a disposed page's timers go on.
EndExit_TimersGoOn(p) ==
    /\ exiting[p] # {}
    /\ exiting' = [exiting EXCEPT ![p] = {}]
    /\ UNCHANGED <<userAddress, prefs, stack, shown, saves, pops, lost>>

EndExit(p) ==
    /\ exiting[p] # {}
    /\ exiting' = [exiting EXCEPT ![p] = {}]
    /\ \/ /\ "address" \in exiting[p]
          /\ pops' = [pops EXCEPT ![p] = 0]
          /\ saves' = [saves EXCEPT ![p] = Detached(p)]
       \/ /\ "address" \notin exiting[p]
          /\ UNCHANGED <<pops, saves>>
    /\ UNCHANGED <<userAddress, prefs, stack, shown, lost>>

-----------------------------------------------------------------------------
\* Save, with something changed and all five fields given
Save(p, a) ==
    /\ Top(p) = "address"
    /\ Len(saves[p]) + pops[p] < MaxPending
    /\ prefs' = [prefs EXCEPT ![p] = a]
    /\ saves' = [saves EXCEPT ![p] = Append(@, [address |-> a, mounted |-> TRUE])]
    /\ UNCHANGED <<userAddress, stack, exiting, shown, pops, lost>>

\* The oldest write is answered; a page still there starts its timer.
Saved(p) ==
    /\ saves[p] # <<>>
    /\ userAddress' = Head(saves[p]).address
    /\ saves' = [saves EXCEPT ![p] = Tail(@)]
    /\ pops' = [pops EXCEPT ![p] = IF Head(saves[p]).mounted THEN @ + 1 ELSE @]
    /\ UNCHANGED <<prefs, stack, exiting, shown, lost>>

\* The write throws: no message, no pop; the preferences keep the address.
SaveFails(p) ==
    /\ saves[p] # <<>>
    /\ saves' = [saves EXCEPT ![p] = Tail(@)]
    /\ lost' = TRUE
    /\ UNCHANGED <<userAddress, prefs, stack, exiting, shown, pops>>

\* Mutant: the timer outlives the page that counts it.
DelayedPop_Uncounted(p) ==
    /\ pops' = [pops EXCEPT ![p] = @ - 1]
    /\ Pop(p)
    /\ UNCHANGED <<userAddress, prefs, saves, lost>>

DelayedPop(p) ==
    /\ pops[p] > 0
    /\ pops' = [pops EXCEPT ![p] = @ - 1]
    /\ Pop(p)
    /\ UNCHANGED <<userAddress, prefs, saves, lost>>

\* The app is killed; a write under way may or may not get to the server.
Kill(p) ==
    /\ stack[p] # <<>> \/ saves[p] # <<>>
    /\ stack' = [stack EXCEPT ![p] = <<>>]
    /\ exiting' = [exiting EXCEPT ![p] = {}]
    /\ shown' = [shown EXCEPT ![p] = NoAddress]
    /\ saves' = [saves EXCEPT ![p] = <<>>]
    /\ pops' = [pops EXCEPT ![p] = 0]
    /\ lost' = (lost \/ saves[p] # <<>>)
    /\ userAddress' \in {userAddress} \cup {s.address : s \in ToSet(saves[p])}
    /\ UNCHANGED prefs

Next == \E p \in Phones :
    \/ OpenOrder(p) \/ OpenAddress(p) \/ Confirmed(p) \/ Back(p) \/ EndExit(p)
    \/ \E a \in Addresses : Save(p, a)
    \/ Saved(p) \/ SaveFails(p) \/ DelayedPop(p) \/ Kill(p)

Spec == Init /\ [][Next]_vars

-----------------------------------------------------------------------------
TypeOK ==
    /\ userAddress \in Addresses \cup {NoAddress}
    /\ prefs \in [Phones -> Addresses \cup {NoAddress}]
    /\ stack \in [Phones -> Seq(Pages)]
    /\ exiting \in [Phones -> SUBSET Pages]
    /\ shown \in [Phones -> Addresses \cup {NoAddress}]
    /\ saves \in [Phones -> Seq(Writes)]
    /\ pops \in [Phones -> Nat]
    /\ lost \in BOOLEAN

\* The three copies of an address agree.  An order page that can be seen has
\* that of the preferences, however the address page above it was popped.
\* With no write under way and none lost, the one stored with the user is that
\* of some phone: the writes of a phone arrive in the order of its saves, and
\* no old one overtakes a newer one.
AddressesAgree ==
    /\ \A p \in Phones : Top(p) = "order" => shown[p] = prefs[p]
    /\ ~ lost /\ (\A p \in Phones : saves[p] = <<>>)
            => \E p \in Phones : userAddress = prefs[p]

\* The timer of a save takes the order page away only in the moment in which
\* the address page is on its way out: once that is disposed, its timers
\* pop nothing.
TimerSparesOrderPage ==
    [][\A p \in Phones :
         pops'[p] < pops[p] /\ Top(p) = "order" /\ stack'[p] = Front(stack[p])
            => "address" \in exiting[p]]_vars
=============================================================================
