------------------------------ MODULE HomeFeed ------------------------------
(***************************************************************************)
(* The feed of the home page (lib/HomePage.dart): its first load behind    *)
(* the header, the reload for a category chosen in the menu, and the pages *)
(* asked for at the end of the list.                                       *)
(*                                                                         *)
(* Nothing says that a request is on its way: each answer is added to the  *)
(* list that is there by then, whatever list it was asked for.  A gift is  *)
(* the date it was added, which is what the queries order by.              *)
(*                                                                         *)
(* SupportChat_proof extends this module and SupportChat: hence HomeInit,  *)
(* HomeSpec and the like.                                                  *)
(***************************************************************************)
EXTENDS Integers, Bags, Paging

CONSTANTS
    Gifts,              \* dates
    Categories,
    CategoryOf,         \* the category of a gift
    FirstDefault,       \* how many gifts the first load asks for,
    PageSize,           \* and every other query
    Fickle,             \* bound: the gifts the shop shows and hides
    MaxRequests,        \* bound: requests on their way at once
    MaxFeed             \* bound: a list of this length asks for no more

Default == "default"
NoDate  == 0

ASSUME GiftsAssumption == Gifts \subseteq Nat \ {NoDate} /\ IsFiniteSet(Gifts)
ASSUME CategoryAssumption == /\ CategoryOf \in [Gifts -> Categories]
                             /\ Default \notin Categories
ASSUME LimitsAssumption == {FirstDefault, PageSize, MaxRequests, MaxFeed} \subseteq Nat \ {0}

VARIABLES
    shown,              \* the gifts whose document says show
    requests,           \* awaited calls, a bag: answers come in any order
    data, lastItem,     \* the list and the cursor of the next page
    category,           \* the category chosen last
    showProgressBar, showCatProgressBar, internetError, empty, showMore,
    mixed,              \* history: an answer met a list it was not asked for
    changed,            \* history: gifts shown or hidden since the list began
    failed              \* history: a load failed since the list began

feed     == <<data, lastItem, category>>
flags    == <<showProgressBar, showCatProgressBar, internetError, empty, showMore>>
past     == <<mixed, changed, failed>>
homeVars == <<shown, requests, feed, flags, past>>

Request == [kind : {"header", "refresh", "load", "more"},
            categ : Categories \cup {Default}, after : Gifts \cup {NoDate}]

Call(kind, categ, after) == [kind |-> kind, categ |-> categ, after |-> after]

Header == Call("header", Default, NoDate)

HomeInit ==
    /\ shown = Gifts
    /\ requests = SetToBag({Header})
    /\ data = <<>> /\ lastItem = NoDate /\ category = Default
    /\ showProgressBar = TRUE /\ showCatProgressBar = FALSE
    /\ internetError = FALSE /\ empty = FALSE /\ showMore = TRUE
    /\ mixed = FALSE /\ changed = {} /\ failed = FALSE

-----------------------------------------------------------------------------
(***************************************************************************)
(* The shop and the user                                                   *)
(***************************************************************************)
Toggle(g) ==
    /\ g \in Fickle
    /\ shown' = IF g \in shown THEN shown \ {g} ELSE shown \cup {g}
    /\ changed' = changed \cup {g}
    /\ UNCHANGED <<requests, feed, flags, mixed, failed>>

Ask(r) == /\ BagCardinality(requests) < MaxRequests
          /\ requests' = requests (+) SetToBag({r})

\* Another tab and back: the page and what it awaited are gone.
Reopen ==
    /\ requests' = SetToBag({Header})
    /\ data' = <<>> /\ lastItem' = NoDate /\ category' = Default
    /\ showProgressBar' = TRUE /\ showCatProgressBar' = FALSE
    /\ internetError' = FALSE /\ empty' = FALSE /\ showMore' = TRUE
    /\ mixed' = FALSE /\ changed' = {} /\ failed' = FALSE
    /\ UNCHANGED shown

ChooseCategory(categ) ==
    /\ Ask(Call("refresh", categ, NoDate))
    /\ UNCHANGED <<shown, feed, flags, past>>

\* The button stays enabled while its half second runs.
Retry ==
    /\ internetError /\ Len(data) < MaxFeed
    /\ Ask(Header)
    /\ UNCHANGED <<shown, feed, flags, past>>

\* _loadMoreData: without a cursor Firestore leaves the condition out.
ScrollToEnd ==
    /\ ~ internetError /\ ~ showProgressBar /\ Len(data) < MaxFeed
    /\ Ask(Call("more", category, lastItem))
    /\ UNCHANGED <<shown, feed, flags, past>>

-----------------------------------------------------------------------------
(***************************************************************************)
(* Answers                                                                 *)
(***************************************************************************)
Answered(r) == requests (-) SetToBag({r})

InCategory(categ) == {g \in Gifts : categ \in {Default, CategoryOf[g]}}

PageLimit(r) == IF r.kind = "load" /\ r.categ = Default THEN FirstDefault ELSE PageSize

\* Mutant: a page begins with the cursor.
Result_FromCursor(r) == Newest({g \in shown \cap InCategory(r.categ) :
                                  r.after = NoDate \/ g <= r.after}, PageLimit(r))

Result(r) == Newest({g \in shown \cap InCategory(r.categ) :
                        r.after = NoDate \/ g < r.after}, PageLimit(r))

Extend(gifts) ==
    /\ data' = data \o gifts
    /\ lastItem' = IF gifts = <<>> THEN lastItem ELSE Last(gifts)

\* checkConnectivity finds no network.
Offline(r) ==
    /\ r.kind \in {"header", "refresh"}
    /\ requests' = Answered(r)
    /\ internetError' = TRUE
    /\ showProgressBar' = FALSE
    /\ UNCHANGED <<shown, feed, showCatProgressBar, empty, showMore, past>>

\* The header is there: whatever category is chosen, the default list loads.
HeaderLoaded(r) ==
    /\ r.kind = "header"
    /\ requests' = Answered(r) (+) SetToBag({Call("load", Default, NoDate)})
    /\ UNCHANGED <<shown, feed, flags, past>>

\* Mutant: the category is not handed on.
Refresh_NoCategory(r) ==
    /\ r.kind = "refresh"
    /\ requests' = Answered(r) (+) SetToBag({Call("load", r.categ, NoDate)})
    /\ category' = "null" /\ data' = <<>> /\ lastItem' = NoDate
    /\ showCatProgressBar' = TRUE
    /\ mixed' = FALSE /\ changed' = {} /\ failed' = FALSE
    /\ UNCHANGED <<shown, showProgressBar, internetError, empty, showMore>>

Refresh(r) ==
    /\ r.kind = "refresh"
    /\ requests' = Answered(r) (+) SetToBag({Call("load", r.categ, NoDate)})
    /\ category' = r.categ /\ data' = <<>> /\ lastItem' = NoDate
    /\ showCatProgressBar' = TRUE
    /\ mixed' = FALSE /\ changed' = {} /\ failed' = FALSE
    /\ UNCHANGED <<shown, showProgressBar, internetError, empty, showMore>>

Loaded(r) ==
    /\ r.kind = "load"
    /\ requests' = Answered(r)
    /\ Extend(Result(r))
    /\ empty' = (Result(r) = <<>>)
    /\ showMore' = (showMore /\ (empty' \/ Len(Result(r)) = PageLimit(r)))
    /\ showProgressBar' = FALSE /\ showCatProgressBar' = FALSE /\ internetError' = FALSE
    /\ mixed' = (mixed \/ data # <<>> \/ r.categ # category)
    /\ UNCHANGED <<shown, category, changed, failed>>

\* Only the default list leaves out what it has.
NewGifts(r) == IF r.categ # Default THEN Result(r)
               ELSE Without(Result(r), ToSet(data))

MoreLoaded(r) ==
    /\ r.kind = "more"
    /\ requests' = Answered(r)
    /\ Extend(NewGifts(r))
    /\ showMore' = (Result(r) # <<>>)
    /\ mixed' = (mixed \/ r.after # lastItem \/ r.categ # category)
    /\ UNCHANGED <<shown, category, showProgressBar, showCatProgressBar,
                   internetError, empty, changed, failed>>

\* A get that throws ends its request and nothing else.
Fails(r) ==
    /\ r.kind # "refresh"
    /\ requests' = Answered(r)
    /\ failed' = (failed \/ r.kind # "more")
    /\ UNCHANGED <<shown, feed, flags, mixed, changed>>

-----------------------------------------------------------------------------
HomeNext ==
    \/ Reopen \/ Retry \/ ScrollToEnd
    \/ \E g \in Gifts : Toggle(g)
    \/ \E categ \in Categories \cup {Default} : ChooseCategory(categ)
    \/ \E r \in BagToSet(requests) :
         \/ Offline(r) \/ HeaderLoaded(r) \/ Refresh(r)
         \/ Loaded(r) \/ MoreLoaded(r) \/ Fails(r)

HomeSpec == HomeInit /\ [][HomeNext]_homeVars

-----------------------------------------------------------------------------
HomeTypeOK ==
    /\ shown \subseteq Gifts
    /\ BagToSet(requests) \subseteq Request
    /\ IsABag(requests)
    /\ data \in Seq(Gifts)
    /\ lastItem \in Gifts \cup {NoDate}
    /\ category \in Categories \cup {Default}
    /\ changed \subseteq Gifts
    /\ \A flag \in {showProgressBar, showCatProgressBar, internetError, empty,
                    showMore, mixed, failed} : flag \in BOOLEAN

\* However answers for this list and for earlier ones arrive, the next page
\* continues the list, since the cursor is the date of its last gift, and the
\* progress animation of a category stands for a load that will end it.  A
\* list that met no answer asked for another one has the gifts of its category,
\* the newest first, and skips none that was there all the time.
FeedUnbroken ==
    /\ lastItem = IF data = <<>> THEN NoDate ELSE Last(data)
    /\ showCatProgressBar /\ ~ failed => \E r \in BagToSet(requests) : r.kind = "load"
    /\ ~ mixed =>
            /\ \A i \in 1 .. Len(data) - 1 : data[i] > data[i + 1]
            /\ ToSet(data) \subseteq InCategory(category)
            /\ \A g \in (shown \cap InCategory(category)) \ changed :
                 data # <<>> /\ g > Last(data) => g \in ToSet(data)

\* "No More Gifts Available", below the last gift, is shown when there is none.
NoMoreIsTrue ==
    ~ showMore /\ data # <<>> /\ ~ mixed
    /\ ~ showProgressBar /\ ~ showCatProgressBar /\ ~ internetError /\ ~ empty
    => \A g \in (shown \cap InCategory(category)) \ changed : g \in ToSet(data)
=============================================================================
