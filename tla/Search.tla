------------------------------- MODULE Search -------------------------------
(***************************************************************************)
(* The search page (lib/SearchActivity.dart): the gifts viewed recently,   *)
(* looked up one by one, and the results of what is typed, which a filter  *)
(* may sort.                                                               *)
(*                                                                         *)
(* _loadData and _loadMoreData loop over one counter and one list of ids,  *)
(* with a get in each round; a search, a filter and a retry each wait for  *)
(* a timer.  Nothing says which of them are under way.  The order of       *)
(* results is not modelled: they are a bag.                                *)
(***************************************************************************)
EXTENDS Integers, Bags, SequencesExt

CONSTANTS
    Gifts, Menus,
    Texts, Terms,       \* what may be typed, what may be asked for
    Trim,               \* a text without the blanks around it
    Matches,            \* the gifts a term finds under a menu icon
    Step,               \* the first limit, and what a scroll adds to it
    Viewed,             \* the lists of the preferences the page may find
    Fickle,             \* bound: the gifts shown and hidden while the page is open
    MaxLimit,           \* bound of the limit
    MaxResults,         \* bound: with more results there is no retry or filter
    MaxRequests         \* bound: calls and timers under way at once

NoText == ""
None   == "none"

ASSUME NamesAssumption   == NoText \notin Terms /\ None \notin Menus \cup Gifts
ASSUME TermsAssumption   == Texts \subseteq Terms /\ Trim \in [Texts -> Terms \cup {NoText}]
ASSUME MatchesAssumption == Matches \in [Menus -> [Terms -> SUBSET Gifts]]
ASSUME ViewedAssumption  == \A s \in Viewed : s \in Seq(Gifts) /\ IsInjective(s)
ASSUME LimitsAssumption  == /\ {Step, MaxLimit, MaxResults, MaxRequests} \subseteq Nat \ {0}
                            /\ Step <= MaxLimit

VARIABLES
    shown,              \* the gifts whose document says show
    recentlyviewed,     \* preferences, the latest last
    recentIdListRev, count, limit, recentList,
    searchValue, typing,            \* the text typed, its timer
    searchText, menuIcon,
    searchList, sortedList, sameList,   \* one object after a filter
    filterOpened,
    requests, sorts,    \* awaited calls, a bag; timers of filters
    showLoading, internetError, noPrevGifts, noMatches, showMore,
    overlapped,         \* history: two loops at once
    crossed,            \* history: the search met another call or timer
    failed,             \* history: a call threw since the search began
    retried,            \* history: the search was asked again by a retry
    opened, gone        \* history: ids at opening, ids looked up in vain

recents == <<recentIdListRev, count, limit, recentList>>
typed   == <<searchValue, typing>>
results == <<searchList, sortedList, sameList, filterOpened>>
messages == <<internetError, noPrevGifts, noMatches, showMore>>
calls   == <<requests, sorts, overlapped, crossed>>
vars    == <<shown, recentlyviewed, recents, typed, searchText, menuIcon, results,
             calls, showLoading, messages, failed, retried, opened, gone>>

Request == [kind : {"retry", "check", "query", "load", "more"},
            text : Terms \cup {NoText}, menu : Menus \cup {None},
            gift : Gifts \cup {None}]

Call(kind, text, menu, gift) ==
    [kind |-> kind, text |-> text, menu |-> menu, gift |-> gift]

Check(text) == Call("check", text, None, None)

Init ==
    /\ shown = Gifts
    /\ recentlyviewed \in Viewed
    /\ recentIdListRev = Reverse(recentlyviewed)
    /\ count = 0 /\ limit = Step /\ recentList = <<>>
    /\ searchValue = NoText /\ typing = FALSE /\ searchText = NoText
    /\ menuIcon \in Menus
    /\ searchList = EmptyBag /\ sortedList = EmptyBag /\ sameList = FALSE
    /\ filterOpened = FALSE
    /\ requests = SetToBag({Check(NoText)}) /\ sorts = 0
    /\ showLoading = TRUE /\ showMore = TRUE
    /\ internetError = FALSE /\ noPrevGifts = FALSE /\ noMatches = FALSE
    /\ overlapped = FALSE /\ crossed = FALSE /\ failed = FALSE /\ retried = FALSE
    /\ opened = ToSet(recentlyviewed) /\ gone = {}

-----------------------------------------------------------------------------
(***************************************************************************)
(* What is under way                                                       *)
(***************************************************************************)
Loops(bag) == {r \in BagToSet(bag) : r.kind \in {"load", "more"}}

Overlap(bag) == \E r, other \in Loops(bag) : r # other \/ bag[r] > 1

UnderWay(bag, timers) ==
    /\ requests' = bag /\ sorts' = timers
    /\ overlapped' = (overlapped \/ Overlap(bag))

\* One call or timer at most
Alone(bag, timers) ==
    \/ timers = 0 /\ \A r \in BagToSet(bag) : bag = SetToBag({r})
    \/ timers = 1 /\ bag = EmptyBag

Awaiting(bag, timers) ==
    /\ UnderWay(bag, timers)
    /\ crossed' = (crossed \/ ~ Alone(bag, timers))

Free == BagCardinality(requests) + sorts < MaxRequests

Answered(r) == requests (-) SetToBag({r})

With(bag, r) == bag (+) SetToBag({r})

-----------------------------------------------------------------------------
(***************************************************************************)
(* The user and the shop                                                   *)
(***************************************************************************)
Toggle(g) ==
    /\ g \in Fickle
    /\ shown' = IF g \in shown THEN shown \ {g} ELSE shown \cup {g}
    /\ UNCHANGED <<recentlyviewed, recents, typed, searchText, menuIcon, results,
                   calls, showLoading, messages, failed, retried, opened, gone>>

OnScreen == ~ showLoading /\ ~ internetError /\ ~ noPrevGifts /\ ~ noMatches

Displayed == IF searchText = NoText THEN ToSet(recentList) ELSE BagToSet(searchList)

\* Mutant: a gift viewed again is added again.
ViewGift_Again(g) ==
    /\ OnScreen /\ g \in Displayed
    /\ Len(recentlyviewed) < MaxLimit
    /\ recentlyviewed' = Append(recentlyviewed, g)
    /\ UNCHANGED <<shown, recents, typed, searchText, menuIcon, results,
                   calls, showLoading, messages, failed, retried, opened, gone>>

\* The gift page, opened above this one, moves its gift to the end.
ViewGift(g) ==
    /\ OnScreen /\ g \in Displayed
    /\ recentlyviewed' = Append(RemoveFirst(recentlyviewed, g), g)
    /\ UNCHANGED <<shown, recents, typed, searchText, menuIcon, results,
                   calls, showLoading, messages, failed, retried, opened, gone>>

\* _onChangeHandler
Type(value) ==
    /\ value # searchValue
    /\ searchValue' = value /\ typing' = TRUE
    /\ showLoading' = TRUE
    /\ UNCHANGED <<shown, recentlyviewed, recents, searchText, menuIcon, results,
                   calls, messages, failed, retried, opened, gone>>

Blank(value) == value = NoText \/ Trim[value] = NoText

SearchNothing ==
    /\ searchText' = NoText
    /\ noMatches' = FALSE /\ noPrevGifts' = (recentList = <<>>)
    /\ showLoading' = FALSE
    /\ retried' = FALSE
    /\ UNCHANGED <<results, calls, internetError, showMore, failed>>

\* Mutant: the list is replaced, not cleared.
SearchFor_NewList(value) ==
    /\ Free
    /\ searchText' = value
    /\ noPrevGifts' = FALSE /\ internetError' = FALSE /\ noMatches' = FALSE
    /\ searchList' = EmptyBag /\ sameList' = FALSE
    /\ UnderWay(With(requests, Check(Trim[value])), sorts)
    /\ crossed' = (requests # EmptyBag \/ sorts > 0)
    /\ failed' = FALSE /\ retried' = FALSE
    /\ UNCHANGED <<sortedList, filterOpened, showLoading, showMore>>

\* The list is cleared, and with it the sorted one when they are the same.  The
\* text is kept as it was typed, and asked for without the blanks around it.
SearchFor(value) ==
    /\ Free
    /\ searchText' = value
    /\ noPrevGifts' = FALSE /\ internetError' = FALSE /\ noMatches' = FALSE
    /\ searchList' = EmptyBag
    /\ sortedList' = IF sameList THEN EmptyBag ELSE sortedList
    /\ UnderWay(With(requests, Check(Trim[value])), sorts)
    /\ crossed' = (requests # EmptyBag \/ sorts > 0)
    /\ failed' = FALSE /\ retried' = FALSE
    /\ UNCHANGED <<sameList, filterOpened, showLoading, showMore>>

StopTyping ==
    /\ typing
    /\ typing' = FALSE
    /\ IF Blank(searchValue) THEN SearchNothing ELSE SearchFor(searchValue)
    /\ UNCHANGED <<shown, recentlyviewed, recents, searchValue, menuIcon, opened, gone>>

ChangeIcon(menu) ==
    /\ menuIcon' = menu
    /\ IF searchText # NoText THEN SearchFor(searchText)
       ELSE UNCHANGED <<searchText, results, calls, showLoading, messages, failed, retried>>
    /\ UNCHANGED <<shown, recentlyviewed, recents, typed, opened, gone>>

\* The button stays enabled while its second runs.
Retry ==
    /\ internetError /\ ~ showLoading /\ Free
    /\ BagCardinality(searchList) <= MaxResults
    /\ Awaiting(With(requests, Call("retry", NoText, None, None)), sorts)
    /\ UNCHANGED <<shown, recentlyviewed, recents, typed, searchText, menuIcon, results,
                   showLoading, messages, failed, retried, opened, gone>>

\* The icon beside "Results".
ToggleFilter ==
    /\ OnScreen /\ searchText # NoText /\ searchList # EmptyBag
    /\ filterOpened' = ~ filterOpened
    /\ UNCHANGED <<shown, recentlyviewed, recents, typed, searchText, menuIcon,
                   searchList, sortedList, sameList,
                   calls, showLoading, messages, failed, retried, opened, gone>>

\* A filter is tapped: the results are copied, and cleared until the timer.
Filter ==
    /\ filterOpened /\ Free
    /\ BagCardinality(searchList) <= MaxResults
    /\ filterOpened' = FALSE
    /\ IF searchList # EmptyBag THEN sortedList' = searchList /\ sameList' = FALSE
                                ELSE UNCHANGED <<sortedList, sameList>>
    /\ searchList' = EmptyBag
    /\ showLoading' = TRUE
    /\ Awaiting(requests, sorts + 1)
    /\ UNCHANGED <<shown, recentlyviewed, recents, typed, searchText, menuIcon,
                   messages, failed, retried, opened, gone>>

Sorted ==
    /\ sorts > 0
    /\ searchList' = sortedList /\ sameList' = TRUE
    /\ showLoading' = FALSE
    /\ Awaiting(requests, sorts - 1)
    /\ UNCHANGED <<shown, recentlyviewed, recents, typed, searchText, menuIcon,
                   sortedList, filterOpened, messages, failed, retried, opened, gone>>

-----------------------------------------------------------------------------
(***************************************************************************)
(* The loops over the gifts viewed recently                                *)
(***************************************************************************)
EndLoad ==
    /\ noPrevGifts' = (noPrevGifts \/ recentList' = <<>>)
    /\ showMore' = (showMore /\ (recentList' = <<>> \/ count' # Len(recentIdListRev')))
    /\ internetError' = FALSE /\ showLoading' = FALSE
    /\ UNCHANGED noMatches

EndMore ==
    /\ showMore' = (Len(recentIdListRev') > count')
    /\ showLoading' = FALSE
    /\ UNCHANGED <<internetError, noPrevGifts, noMatches>>

\* The next round, or what follows the loop.
LoopOn(kind, others) ==
    IF count' < Len(recentIdListRev') /\ count' < limit'
    THEN /\ Awaiting(With(others, Call(kind, NoText, None, recentIdListRev'[count' + 1])), sorts)
         /\ UNCHANGED <<showLoading, messages>>
    ELSE /\ Awaiting(others, sorts)
         /\ IF kind = "load" THEN EndLoad ELSE EndMore

\* Mutant: the counter moves past a gift that was taken out.
LookUp_CountsGone(r) ==
    /\ r.kind \in {"load", "more"}
    /\ count' = count + 1
    /\ IF r.gift \in shown
       THEN /\ recentList' = Append(recentList, r.gift)
            /\ UNCHANGED <<recentIdListRev, recentlyviewed, gone>>
       ELSE /\ count < Len(recentIdListRev)
            /\ recentIdListRev' = RemoveAt(recentIdListRev, count + 1)
            /\ recentlyviewed' = Reverse(recentIdListRev')
            /\ gone' = gone \cup {r.gift}
            /\ UNCHANGED recentList
    /\ UNCHANGED limit
    /\ LoopOn(r.kind, Answered(r))
    /\ UNCHANGED <<shown, typed, searchText, menuIcon, results, failed, retried, opened>>

\* What is taken out is the id the counter is at by now.
LookUp(r) ==
    /\ r.kind \in {"load", "more"}
    /\ IF r.gift \in shown
       THEN /\ recentList' = Append(recentList, r.gift)
            /\ count' = count + 1
            /\ UNCHANGED <<recentIdListRev, recentlyviewed, gone>>
       ELSE /\ count < Len(recentIdListRev)
            /\ recentIdListRev' = RemoveAt(recentIdListRev, count + 1)
            /\ recentlyviewed' = Reverse(recentIdListRev')
            /\ gone' = gone \cup {r.gift}
            /\ UNCHANGED <<recentList, count>>
    /\ UNCHANGED limit
    /\ LoopOn(r.kind, Answered(r))
    /\ UNCHANGED <<shown, typed, searchText, menuIcon, results, failed, retried, opened>>

\* The controller's listener; while results are shown only the limit grows.
ScrollToEnd ==
    /\ OnScreen
    /\ IF Len(recentIdListRev) >= count
       THEN /\ Free /\ limit + Step <= MaxLimit
            /\ limit' = limit + Step
            /\ UNCHANGED <<recentIdListRev, count, recentList>>
            /\ IF searchText = NoText THEN LoopOn("more", requests)
               ELSE UNCHANGED <<calls, showLoading, messages>>
       ELSE /\ showMore' = FALSE
            /\ UNCHANGED <<recents, calls, showLoading, internetError, noPrevGifts, noMatches>>
    /\ UNCHANGED <<shown, recentlyviewed, typed, searchText, menuIcon, results,
                   failed, retried, opened, gone>>

-----------------------------------------------------------------------------
(***************************************************************************)
(* Other answers                                                           *)
(***************************************************************************)
\* A retry reads the text of the search when its second is over, and asks for it
\* with the blanks.
RetryDue(r) ==
    /\ r.kind = "retry"
    /\ Awaiting(With(Answered(r), Check(searchText)), sorts)
    /\ retried' = (searchText # NoText)
    /\ UNCHANGED <<shown, recentlyviewed, recents, typed, searchText, menuIcon, results,
                   showLoading, messages, failed, opened, gone>>

Offline(r) ==
    /\ r.kind = "check"
    /\ Awaiting(Answered(r), sorts)
    /\ internetError' = TRUE /\ showLoading' = FALSE
    /\ UNCHANGED <<shown, recentlyviewed, recents, typed, searchText, menuIcon, results,
                   noPrevGifts, noMatches, showMore, failed, retried, opened, gone>>

\* The network is there: a query by the icon of this moment, or the loop.
Online(r) ==
    /\ r.kind = "check"
    /\ UNCHANGED recents
    /\ IF r.text = NoText THEN LoopOn("load", Answered(r))
       ELSE /\ Awaiting(With(Answered(r), Call("query", r.text, menuIcon, None)), sorts)
            /\ UNCHANGED <<showLoading, messages>>
    /\ UNCHANGED <<shown, recentlyviewed, typed, searchText, menuIcon, results,
                   failed, retried, opened, gone>>

Found(term, menu) == Matches[menu][term] \cap shown

ShowResults(r) ==
    /\ r.kind = "query"
    /\ Awaiting(Answered(r), sorts)
    /\ searchList' = searchList (+) SetToBag(Found(r.text, r.menu))
    /\ sortedList' = IF sameList THEN searchList' ELSE sortedList
    /\ noMatches' = (noMatches \/ Found(r.text, r.menu) = {})
    /\ internetError' = FALSE /\ showLoading' = FALSE
    /\ UNCHANGED <<shown, recentlyviewed, recents, typed, searchText, menuIcon, sameList,
                   filterOpened, noPrevGifts, showMore, failed, retried, opened, gone>>

\* A get throws, or the counter is past the end of the ids (RangeError).
Fails(r) ==
    /\ r.kind \in {"query", "load", "more"}
    /\ Awaiting(Answered(r), sorts)
    /\ failed' = TRUE
    /\ UNCHANGED <<shown, recentlyviewed, recents, typed, searchText, menuIcon, results,
                   showLoading, messages, retried, opened, gone>>

-----------------------------------------------------------------------------
Next ==
    \/ StopTyping \/ Retry \/ ToggleFilter \/ Filter \/ Sorted \/ ScrollToEnd
    \/ \E g \in Gifts : Toggle(g) \/ ViewGift(g)
    \/ \E value \in Texts \cup {NoText} : Type(value)
    \/ \E menu \in Menus : ChangeIcon(menu)
    \/ \E r \in BagToSet(requests) :
         \/ LookUp(r) \/ RetryDue(r) \/ Offline(r) \/ Online(r)
         \/ ShowResults(r) \/ Fails(r)

Spec == Init /\ [][Next]_vars

-----------------------------------------------------------------------------
TypeOK ==
    /\ {shown, opened, gone} \subseteq SUBSET Gifts
    /\ recentlyviewed \in Seq(Gifts) /\ IsInjective(recentlyviewed)
    /\ recentIdListRev \in Seq(Gifts) /\ recentList \in Seq(Gifts)
    /\ count \in Nat /\ limit \in 1 .. MaxLimit
    /\ searchValue \in Texts \cup {NoText} /\ searchText \in Texts \cup {NoText}
    /\ menuIcon \in Menus
    /\ IsABag(searchList) /\ IsABag(sortedList)
    /\ BagToSet(searchList) \cup BagToSet(sortedList) \subseteq Gifts
    /\ IsABag(requests) /\ BagToSet(requests) \subseteq Request
    /\ sorts \in Nat
    /\ \A flag \in {typing, sameList, filterOpened, showLoading, internetError,
                    noPrevGifts, noMatches, showMore, overlapped, crossed, failed,
                    retried} :
          flag \in BOOLEAN

\* As long as no two loops overlap, the list is the beginning of the ids, it
\* says there are no more only when it has all of them, and the phone forgets
\* no gift but those whose document was gone or hidden when it was looked up.
RecentsKept ==
    ~ overlapped =>
        /\ recentList = SubSeq(recentIdListRev, 1, count)
        /\ ~ showMore => count = Len(recentIdListRev)
        /\ opened \ gone \subseteq ToSet(recentlyviewed)

\* What the search has asked for: the blanks around it are found, or not, after a
\* retry only.
Asked == IF retried THEN searchText ELSE Trim[searchText]

\* When no timer or call is left and none threw, nothing is loading.  A search
\* that met no other call or timer has then ended with what its text finds under
\* the icon that is shown, each gift once, filtered or not, and says that nothing
\* matched exactly when there is none.  The text is taken without the blanks
\* around it; but not once the network was missing and RETRY was tapped: what is
\* found then is what has those blanks, as a rule nothing.
ResultsMatch ==
    ~ typing /\ requests = EmptyBag /\ sorts = 0 /\ ~ failed =>
        /\ ~ showLoading
        /\ searchText # NoText /\ ~ crossed /\ ~ internetError =>
              /\ \A g \in BagToSet(searchList) : searchList[g] = 1
              /\ \A g \in Gifts \ Fickle :
                    g \in BagToSet(searchList) <=> g \in Found(Asked, menuIcon)
              /\ noMatches <=> searchList = EmptyBag
              /\ ~ noPrevGifts
=============================================================================
