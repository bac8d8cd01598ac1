------------------------------ MODULE GiftPanel ------------------------------
(***************************************************************************)
(* Sending gifts along with a message, in the room in which all users ask  *)
(* for opinions (lib/ChatPage.dart): the panel of the gifts viewed         *)
(* recently, what is selected there, and the messages that take it.        *)
(*                                                                         *)
(* The gifts are looked up one by one, by loops over one counter and one   *)
(* list of ids.  The button that starts a loop hides it at a second tap,   *)
(* and starts another one at a third.  The selection is cleared by the     *)
(* answer to a message, whatever is selected by then.                      *)
(*                                                                         *)
(* A message is its number.  How the room's messages are paged and         *)
(* announced is left out, and the page is open throughout.                 *)
(***************************************************************************)
EXTENDS Integers, Bags, SequencesExt, FiniteSetsExt

CONSTANTS
    Gifts,
    Shared,         \* the gifts of messages in the list, which open their page
    Viewed,         \* the lists of the preferences the page may find
    Fickle,         \* bound: the gifts removed or restored while the page is open
    Step,           \* the first limit, and what a scroll adds to it: 10
    MaxSelected,    \* 3 in the code
    MaxMessages,    \* bound: messages the user sends
    MaxLimit,       \* bound of the limit
    MaxCalls        \* bound: loaders under way at once

None == "none"

ASSUME GiftsAssumption  == Shared \subseteq Gifts /\ None \notin Gifts
ASSUME ViewedAssumption == \A s \in Viewed : s \in Seq(Gifts) /\ IsInjective(s)
ASSUME LimitsAssumption ==
    /\ {Step, MaxSelected, MaxMessages, MaxLimit, MaxCalls} \subseteq Nat \ {0}
    /\ Step <= MaxLimit

VARIABLES
    existing,           \* the gifts that have a document
    recentlyviewed,     \* preferences, the latest last
    recentIdListRev, count, limit, recentList,
    loaders,            \* under way, a bag
    showGifts, loadingGifts, loadingMore, internetError,
    selectedMap,
    messages,           \* the gifts of each message sent so far
    unacked,            \* the messages whose add is awaited
    \* history
    tapped,             \* the message a selected gift was tapped for, 0: none
    accepted,           \* the last message whose add succeeded, 0: none
    overlapped,         \* two loaders at once
    opened, viewed, gone    \* ids at opening, viewed since, looked up in vain

recents  == <<recentIdListRev, count, limit, recentList>>
panel    == <<showGifts, loadingGifts, loadingMore, internetError>>
loading  == <<loaders, overlapped>>
picked   == <<selectedMap, tapped>>
sent     == <<messages, unacked, accepted>>
ids      == <<opened, viewed, gone>>
vars     == <<existing, recentlyviewed, recents, loading, panel, picked, sent, ids>>

\* A loader waits for the check of the network, for the second before it
\* says there is none, or for the document of a gift.
Loader == [kind : {"check", "offline"}, by : {"recent", "more"}, gift : {None}]
          \cup [kind : {"get"}, by : {"recent", "more"}, gift : Gifts]

Check(by)  == [kind |-> "check", by |-> by, gift |-> None]
Get(by, g) == [kind |-> "get", by |-> by, gift |-> g]

\* The page opens: _getRecentIdList
Init ==
    /\ existing = Gifts
    /\ recentlyviewed \in Viewed
    /\ recentIdListRev = Reverse(recentlyviewed)
    /\ count = 0 /\ limit = Step /\ recentList = <<>>
    /\ loaders = EmptyBag
    /\ showGifts = FALSE /\ loadingGifts = FALSE
    /\ loadingMore = FALSE /\ internetError = FALSE
    /\ selectedMap = {} /\ messages = <<>> /\ unacked = <<>>
    /\ tapped = [g \in Gifts |-> 0] /\ accepted = 0 /\ overlapped = FALSE
    /\ opened = ToSet(recentlyviewed) /\ viewed = {} /\ gone = {}

-----------------------------------------------------------------------------
(***************************************************************************)
(* The shop, and the gift page opened from a message                       *)
(***************************************************************************)
Toggle(g) ==
    /\ g \in Fickle
    /\ existing' = IF g \in existing THEN existing \ {g} ELSE existing \cup {g}
    /\ UNCHANGED <<recentlyviewed, recents, loading, panel, picked, sent, ids>>

\* Mutant: a gift that was viewed before keeps its place and is added again.
ViewGift_Again(g) ==
    /\ g \in Shared
    /\ Len(recentlyviewed) <= Cardinality(Gifts)
    /\ recentlyviewed' = Append(recentlyviewed, g)
    /\ viewed' = viewed \cup {g}
    /\ UNCHANGED <<existing, recents, loading, panel, picked, sent, opened, gone>>

\* The gift page moves its gift to the end of the preferences.
ViewGift(g) ==
    /\ g \in Shared
    /\ recentlyviewed' = Append(RemoveFirst(recentlyviewed, g), g)
    /\ viewed' = viewed \cup {g}
    /\ UNCHANGED <<existing, recents, loading, panel, picked, sent, opened, gone>>

-----------------------------------------------------------------------------
(***************************************************************************)
(* The button, the panel and its scrolling                                 *)
(***************************************************************************)
Answered(r) == loaders (-) SetToBag({r})

With(bag, r) == bag (+) SetToBag({r})

\* One loader at most
Single(bag) == \A r \in BagToSet(bag) : bag = SetToBag({r})

UnderWay(bag) ==
    /\ BagCardinality(bag) <= MaxCalls
    /\ loaders' = bag
    /\ overlapped' = (overlapped \/ ~ Single(bag))

\* selectedMap.clear()
ClearSelection == selectedMap' = {} /\ tapped' = [g \in Gifts |-> 0]

\* giftOnTap: hides the gifts,
HideGifts ==
    /\ showGifts
    /\ showGifts' = FALSE
    /\ ClearSelection
    /\ UNCHANGED <<existing, recentlyviewed, recents, loading, loadingGifts,
                   loadingMore, internetError, sent, ids>>

\* the animation, while the loader goes on,
HideLoading ==
    /\ ~ showGifts /\ loadingGifts
    /\ loadingGifts' = FALSE
    /\ UNCHANGED <<existing, recentlyviewed, recents, loading, showGifts,
                   loadingMore, internetError, picked, sent, ids>>

\* or the error;
HideError ==
    /\ ~ showGifts /\ ~ loadingGifts /\ internetError
    /\ internetError' = FALSE
    /\ UNCHANGED <<existing, recentlyviewed, recents, loading, showGifts,
                   loadingGifts, loadingMore, picked, sent, ids>>

\* it loads the gifts otherwise, a second later when there are some.
Load ==
    /\ loadingGifts' = TRUE
    /\ UnderWay(With(loaders, Check("recent")))
    /\ UNCHANGED <<existing, recentlyviewed, recents, showGifts, loadingMore,
                   internetError, picked, sent, ids>>

LoadGifts == ~ showGifts /\ ~ loadingGifts /\ ~ internetError /\ Load

\* The error is shown, and with it a button.
Retry == ~ showGifts /\ ~ loadingGifts /\ internetError /\ Load

GiftOnTap == HideGifts \/ HideLoading \/ HideError \/ LoadGifts

\* The listener of recentController: _getMoreRecentList
ScrollToEnd ==
    /\ showGifts /\ ~ loadingGifts
    /\ count < Len(recentIdListRev)
    /\ loadingMore' = TRUE
    /\ limit + Step <= MaxLimit
    /\ limit' = limit + Step
    /\ UnderWay(With(loaders, Check("more")))
    /\ UNCHANGED <<existing, recentlyviewed, recentIdListRev, count, recentList,
                   showGifts, loadingGifts, internetError, picked, sent, ids>>

\* A gift of the panel is tapped.
Select(g) ==
    /\ showGifts /\ ~ loadingGifts
    /\ g \in ToSet(recentList)
    /\ \/ /\ g \in selectedMap
          /\ selectedMap' = selectedMap \ {g}
       \/ /\ g \notin selectedMap /\ Cardinality(selectedMap) < MaxSelected
          /\ selectedMap' = selectedMap \cup {g}
    /\ tapped' = [tapped EXCEPT ![g] = IF g \in selectedMap' THEN Len(messages) + 1 ELSE 0]
    /\ UNCHANGED <<existing, recentlyviewed, recents, loading, panel, sent, ids>>

-----------------------------------------------------------------------------
(***************************************************************************)
(* The loops                                                               *)
(***************************************************************************)
\* What follows the loop of _getRecentList, and that of _getMoreRecentList
EndRecent ==
    /\ loadingGifts' = FALSE
    /\ showGifts' = (showGifts \/ recentList' # <<>>)
    /\ internetError' = (internetError /\ recentList' = <<>>)
    /\ UNCHANGED loadingMore

EndMore ==
    /\ loadingMore' = (count' < Len(recentIdListRev'))
    /\ UNCHANGED <<showGifts, loadingGifts, internetError>>

\* The next round, or what follows the loop
LoopOn(by, others) ==
    IF count' < Len(recentIdListRev') /\ count' < limit'
    THEN /\ UnderWay(With(others, Get(by, recentIdListRev'[count' + 1])))
         /\ UNCHANGED panel
    ELSE /\ UnderWay(others)
         /\ IF by = "recent" THEN EndRecent ELSE EndMore

Online(r) ==
    /\ r.kind = "check"
    /\ UNCHANGED recents
    /\ LoopOn(r.by, Answered(r))
    /\ UNCHANGED <<existing, recentlyviewed, picked, sent, ids>>

\* Only _getRecentList says so, a second later.
Offline(r) ==
    /\ r.kind = "check"
    /\ UnderWay(IF r.by = "recent"
                THEN With(Answered(r), [r EXCEPT !.kind = "offline"])
                ELSE Answered(r))
    /\ UNCHANGED <<existing, recentlyviewed, recents, panel, picked, sent, ids>>

ShowOffline(r) ==
    /\ r.kind = "offline"
    /\ UnderWay(Answered(r))
    /\ loadingGifts' = FALSE /\ internetError' = TRUE
    /\ UNCHANGED <<existing, recentlyviewed, recents, showGifts, loadingMore,
                   picked, sent, ids>>

\* Mutant: the first of the ids is taken out, not the one that was looked up.
Missing_First(g) ==
    /\ count < Len(recentIdListRev)
    /\ recentIdListRev' = Tail(recentIdListRev)
    /\ recentlyviewed' = Reverse(recentIdListRev')
    /\ gone' = gone \cup {g}
    /\ UNCHANGED <<recentList, count>>

\* What is taken out is the id the counter is at by now.
Missing(g) ==
    /\ count < Len(recentIdListRev)
    /\ recentIdListRev' = RemoveAt(recentIdListRev, count + 1)
    /\ recentlyviewed' = Reverse(recentIdListRev')
    /\ gone' = gone \cup {g}
    /\ UNCHANGED <<recentList, count>>

LookUp(r) ==
    /\ r.kind = "get"
    /\ \/ /\ r.gift \in existing
          /\ recentList' = Append(recentList, r.gift)
          /\ count' = count + 1
          /\ UNCHANGED <<recentIdListRev, recentlyviewed, gone>>
       \/ /\ r.gift \notin existing
          /\ Missing(r.gift)
    /\ UNCHANGED limit
    /\ LoopOn(r.by, Answered(r))
    /\ UNCHANGED <<existing, picked, sent, opened, viewed>>

\* The get throws, or the counter is past the end of the ids (RangeError).
LoadFails(r) ==
    /\ r.kind = "get"
    /\ UnderWay(Answered(r))
    /\ UNCHANGED <<existing, recentlyviewed, recents, panel, picked, sent, ids>>

-----------------------------------------------------------------------------
(***************************************************************************)
(* sendMessages                                                            *)
(***************************************************************************)
\* The gifts selected go along; without any the text must not be empty.
Send ==
    /\ Len(messages) < MaxMessages
    /\ messages' = Append(messages, selectedMap)
    /\ unacked' = Append(unacked, Len(messages'))
    /\ showGifts' = FALSE /\ loadingGifts' = FALSE /\ internetError' = FALSE
    /\ UNCHANGED <<existing, recentlyviewed, recents, loading, loadingMore,
                   picked, accepted, ids>>

\* Mutant: the answer to the add leaves the selection alone.
SendAcked_KeepsSelection ==
    /\ unacked # <<>>
    /\ unacked' = Tail(unacked)
    /\ accepted' = Head(unacked)
    /\ UNCHANGED <<existing, recentlyviewed, recents, loading, panel, picked,
                   messages, ids>>

\* Adds are answered in order.
SendAcked ==
    /\ unacked # <<>>
    /\ unacked' = Tail(unacked)
    /\ accepted' = Head(unacked)
    /\ ClearSelection
    /\ UNCHANGED <<existing, recentlyviewed, recents, loading, panel, messages,
                   ids>>

\* The add throws: the selection stays.
SendFails ==
    /\ unacked # <<>>
    /\ unacked' = Tail(unacked)
    /\ UNCHANGED <<existing, recentlyviewed, recents, loading, panel, picked,
                   messages, accepted, ids>>

-----------------------------------------------------------------------------
Next ==
    \/ GiftOnTap \/ Retry \/ ScrollToEnd \/ Send \/ SendAcked \/ SendFails
    \/ \E g \in Gifts : Toggle(g) \/ ViewGift(g) \/ Select(g)
    \/ \E r \in BagToSet(loaders) : \/ Online(r) \/ Offline(r) \/ ShowOffline(r)
                                    \/ LookUp(r) \/ LoadFails(r)

Spec == Init /\ [][Next]_vars

-----------------------------------------------------------------------------
TypeOK ==
    /\ {existing, selectedMap, opened, viewed, gone} \subseteq SUBSET Gifts
    /\ recentlyviewed \in Seq(Gifts) /\ IsInjective(recentlyviewed)
    /\ recentIdListRev \in Seq(Gifts)
    /\ recentList \in Seq(Gifts) /\ count = Len(recentList)
    /\ limit \in 1 .. MaxLimit
    /\ IsABag(loaders) /\ BagToSet(loaders) \subseteq Loader
    /\ messages \in Seq(SUBSET Gifts)
    /\ unacked \in Seq(DOMAIN messages)
    /\ tapped \in [Gifts -> Nat] /\ accepted \in Nat
    /\ \A flag \in {overlapped, showGifts, loadingGifts, loadingMore,
                    internetError} : flag \in BOOLEAN

\* Once it is answered that a message was stored, the gifts it took, or any before
\* it, go with a later one only when they are tapped again (sendMessages clears
\* whatever is selected by then).  Until that answer each message takes the selection
\* along: Send tapped twice before it carries a gift twice for one tap, and so does
\* Send after a message that was refused.
SentAgainIfTapped ==
    [][messages' # messages =>
          \A i \in 1 .. accepted : \A g \in messages[i] \cap Last(messages') :
              tapped[g] > i]_vars

\* While no two loaders overlap, the panel has the beginning of the ids, and
\* the phone forgets no gift but those looked up in vain; it may then also
\* forget what was viewed since the page was opened (_getRecentList writes the
\* list it read then).
PhoneForgets ==
    ~ overlapped =>
        /\ recentList = SubSeq(recentIdListRev, 1, count)
        /\ \A g \in (opened \cup viewed) \ ToSet(recentlyviewed) :
              \/ g \in gone
              \/ g \notin opened /\ gone # {}
=============================================================================
