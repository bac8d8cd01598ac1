# Boxet: a model of the gift shop app

`src/lib` is a Flutter client: some forty screens in Dart that read and write
Firestore documents directly.  There is no server of the app's own and no
transaction anywhere in it: a business operation (a review, an order, a new
account, an address) is a sequence of awaited Firestore calls inside a widget's
event handler, and what keeps the documents consistent is the order of these
calls.  The specifications here model that: a handler is cut at every `await`,
`.then`, timer and callback, and what happens between two pieces (other taps,
other phones, a failed call, a page that is popped, an app that is killed) is up
to TLC and to the proofs.

Contents: [inventory](#inventory), [modules](#modules), [runs](#runs),
[theorems](#theorems), [what is not modelled](#what-is-not-modelled),
[plan](#plan).

## Inventory

Paths are below `src/lib`.  "State" is what outlives a handler: documents, the
phone's preferences, or fields of a page's State that several handlers share.

| Component | State | Operations | What makes it hard |
|---|---|---|---|
| Review upload (`AddReview.dart`), order page of the profile (`ProfileOrderState.dart`) | two copies of the review, the gift's `rate` and `reviewsno`, the order's `reviewed`; the page's `reviewed` | Submit with five awaited calls (456-539), refresh of the order page | Submit stays enabled; read-modify-write of an average; failures between the calls; a `.then` that pops whatever is on top |
| Order form (`OrderPage.dart`) | wrapping, delivery day, voucher, address, total | load and reload (`_loadPref`), wrapping, REDEEM, pickers, Submit | a reload resets half of the form; vouchers are appended at every load; the total is a field that `build` leaves, its parts are read by the handler |
| Order upload (`OrderPage.dart` 1468-1527), confirmation (`OrderPlaced.dart`) | `Orders`, `Users/{uid}.Orders`, the stack of pages | Submit with two awaited writes, confirmation, Return Home | double taps, the app or the write lost between the two, the page left meanwhile |
| Profile (`Profile.dart`) | `ordersIdsRev`, `preOrders` | `getData`: the id list, then the documents | joins two reads by index and trusts that they agree; `whereIn` is bounded |
| Address page (`AddAddress.dart`) | preferences, `Users/{uid}.address`, the stack of pages | Save: preferences, write, pop after 2.2 s | preferences before the write; a timer nobody cancels |
| Support chat (`Chat.dart`) | `ContactUs/{uid}` and its messages, the list on screen, cursor, `requesting` | listener, paging, sending, the greeting of an empty chat | three sources merge into one list; delayed closures outlive the page |
| Assistant chat room (`ChatPage.dart`) | the same, and a list of recently viewed gifts to attach | the same, loader of gifts, attachments | the loader can run twice on one counter; the selection is cleared by the answer to a message |
| Sign-up (`Signup.dart`), code page (`CustomOtp.dart`) | `UsersAuth`, `Users`, the form, a stack of code pages | SIGN UP: two checks, picture, `verifyPhone`; the code; `saveUser` (one on each page) | checks long before the writes; the form stays editable and is read anew after each await |
| Password reset (`CustomDialog.dart`, `LoginActivity.dart`) | `UsersAuth` | number, code, new password | a dialog in three steps over one verification |
| Session (`LoginActivity.dart`, `SigningOut.dart`, `Welcome.dart`, `main.dart`) | the session of FirebaseAuth, `uid` and `favorite` in the preferences, `Users/{uid}` | four ways to sign in, signing out, start | each way writes session, `uid` and favourites in an order of its own; none is undone by an error, and the page may be left meanwhile |
| Favourites and recently viewed (`GiftPage.dart`, `FavPage.dart`) | string lists in the preferences, `Users/{uid}/favorites`, a copy of the list in each gift page | the heart, the favourites page | the heart writes back a list read when the page was opened, and mirrors it on the server for a uid read then; gifts are put in place by index |
| Search (`SearchActivity.dart`) | results and their sorted copy, recently viewed gifts with a counter and a limit, the messages over them, the preferences | typing, icons, filters, Retry, scrolling; loops with a get in each round | three timers and several calls at once, none of which knows of another; two names of one list |
| Home feed (`HomePage.dart`) | the feed, its cursor, the category, what the list shows at its end | header and first load, refresh for a category, Retry, more at the end of the list | no guard for a request in flight; an answer joins whatever list is there by then |
| Assistant wizard (`AssistantActivity.dart`, `AssistantView.dart`, `AssistantDone.dart`) | the answers given | steps, a query at the end | sequential |
| Read-only pages, notifications, navigation, widgets | none that is shared | one query or none | layout |

How they interact: the gift page opens the order page, the order page pushes the
address page and, from a `.then`, the confirmation; the profile lists what order
uploads stored and opens the order page of the profile, which opens the review
form and is told by its pop to refresh.  The pages of a phone share one
navigator stack, and `Navigator.pop` removes whatever is on top of it; phones
share the documents.  Sign-up creates the documents every other part signs in by; what
a sign-in leaves in the preferences is what gift pages and the favourites page read;
gift pages keep the list of recently viewed gifts that the search page and the chat
room loop over.

The hazards of this code are listed in `PROJECT.json`, each at its line and with
the properties that would catch it.

## Modules

| Module | Models | One action is |
|---|---|---|
| `GiftReviews` | the review upload and the order page that opens it | one awaited call taking effect and being answered, a tap, a page change |
| `OrderForm` | the order page as a form | a tap, a `build`, an answer of the voucher query, a page opened or popped |
| `OrderUploads` | orders being stored and confirmed, and the profile listing them | one awaited write, a tap, a read of the profile |
| `Placing` | what placing orders promises; `OrderUploads` implements it | an order stored, listed or confirmed; a profile shown or left |
| `AddressPage` | saving the address below the same stack of pages | a tap, a write's answer, a timer |
| `SupportChat` | the chat page, its listener and its requests | a snapshot, a page's answer, a message, a timer |
| `Signup` | the form, its checks, the code pages and both `saveUser` | a tap, one answer, one write |
| `HomeFeed` | the list of the home page, its reloads and its pages | a tap, a scroll to the end, one answer |
| `Search` | the search page: results, filters, recently viewed gifts | a tap, a timer, one answer, one round of a loop |
| `GiftPanel` | the panel of gifts to send along in the chat room | a tap, one answer, one round of a loop |
| `Favourites` | signing in and out, hearts, the favourites page | a tap, one awaited call, a restart |
| `Paging` | a page of a query ordered by date, for `HomeFeed` and `SupportChat` | (operators only) |
| `GiftReviews_proof`, `AddressPage_proof`, `Signup_proof`, `Search_proof`, `GiftPanel_proof`, `Favourites_proof` | proofs about the module they are named after | |
| `Orders_proof` | proofs about `OrderUploads` (with `Placing`) and `OrderForm` | |
| `SupportChat_proof` | proofs about `SupportChat` and `HomeFeed`, which share `Paging` | |

`MC...` modules give the constants their values.  Where one proof module is
about two components it extends both, and one of them has its module's name in
the names both would have: `FormInit`, `FormNext`, `FormSpec`, `FormTypeOK` in
`OrderForm`, `HomeInit`, `HomeNext`, `HomeSpec`, `HomeTypeOK` in `HomeFeed`.

A definition whose name has a
suffix (`Mean_Precedence`, below a comment that begins with "Mutant") is not
part of the model: it is the definition before the underscore with a plausible
bug, kept to show that the properties can tell.

### Conventions

* **Awaited calls.**  A variable holds the call an upload, request or attempt
  awaits; the action of that call is its effect on Firestore and the arrival of
  its answer in one step.  That merges two moments, which is sound here because
  no handler does anything between them, and reads are answered with what was
  there when they were made.  Other actors run between any two calls.
* **Errors.**  The code has almost no handlers: a call that throws ends the
  function.  `UploadFails`, `RequestFails`, `SaveFails`... leave every document
  as it is and every flag of the page as the code leaves it.
* **A killed app** stops awaiting.  The write it had issued may still take effect
  later, once (`owner` or `page` is "killed"), and nothing follows it.
* **Pages that are left.**  `Navigator.pop` takes a page off the stack, its
  State lives until the exit animation ends (`EndLeaving`, `Dispose`, `EndExit`).
  In between, a `.then` still finds a mounted page and pops the one below it.
* **History variables** (`stale`, `sum`, `count`, `edited`, `dirty`, `missed`,
  `base`, `lost`, `everOffered`, `early`, `mixed`, `changed`, `failed`, `overlapped`,
  `crossed`, `retried`, `opened`, `viewed`, `gone`, `tapped`, `accepted`, `drift`,
  `kept`, `current`, `fresh`, `alone`) are read by no guard; properties need them.
* **Lists.**  A page of a query, what a list keeps, a place taken out of a list,
  one request at most are defined by what they are: `Newest(S, n)` by the number
  of dates above each, `RemoveFirst(s, e)` by its places, `Single(bag)` and
  `Alone(bag, timers)` by the bag that has nothing else.  TLC evaluates these as well
  as sorting or counting, and the provers can reason about them.
* **Data.**  Four ratings are one total in eighths of a star; averages are exact
  fractions where the code has doubles; an order is its upload; a message is the
  time it was sent at; the uid of an account is the number that was verified.

### GiftReviews

Variables `userReview`, `giftReview`, `orderReviewed`, `giftExists`, `rate`,
`reviewsno` are the documents; `view`, `reviewed`, `orderGets`, `reviewGets` the
order page; `pc`, `total`, `readRate`, `readNo`, `page` the uploads, one for each
tap on Submit.  `WriteUserReview`, `ReadGift`, `WriteRate`, `WriteGiftReview`,
`SetReviewed` are the five awaits of `_uploadProfileReview` in their order, and
`Finish` the `.then` of Submit with its three cases: the form on top is popped
and the order page refreshes; the form is leaving and the order page is popped
instead; the form is disposed and `setState` throws.  `DeleteGift` is the shop
withdrawing a gift: the upload's merge-set then creates the document again.
`SessionOf` ties each upload to a session, so a tap of one phone is never an
upload of another.  Only delivered orders have the card that opens the form, and
only those are modelled.

### OrderForm

`page` holds the fields of the State that survive or do not survive a reload,
`Loaded` is `_loadPref` up to its first get and `VouchersArrive` the rest.
`total` is the field that `build` assigns and `Ordered`, the argument list of
`_uploadOrder`, passes on, while the parts of the total are read by the handler of
Submit.  `Build` may come any time; a handler that calls `setState` leaves it due
(`needsBuild`), one that does not (`PickTime`, `PickDate`) leaves `screen` alone.
`formBuilt` says that the form, not the animation, was drawn last, without which there
is nothing to tap.  Submit may be tapped before the frame that is due: `early` records
it, as the total passed on is then the one before the last change.  `Covered` is the confirmation that another
tap's upload pushes over the form.  The gift page never fills the packaging
pictures that would preselect another wrapping, so what a load preselects is a
constant of the gift.

### OrderUploads

`AddOrder` and `LinkOrder` are the two writes, `Confirm` the `.then`.
`GetIds` and `GetDocs` are the two reads of the profile; `GetDocs` has the query
that refuses too many ids (`query_error`), the index past the end
(`range_error`) and the list.  One order page at a time is open on a phone, and
a new one is opened only when the last is disposed.  `Earlier` are the orders the
account has when the model starts; they are stored, listed and confirmed.  Retry tapped twice in the
half second before the page shows its progress is left out.

### Placing

The abstract specification of the above, seen from outside: the shop's orders,
the user's list, who was told and what is on screen.  It has no pages, no
awaited calls and no failures: a failed or killed upload is one that stops, a
profile shows `Newest(n)`, the list as it was when it had `n` orders, in a single
step.  It begins with the same `Earlier` orders.  `OrderUploads` maps `told` to the uploads that are done and `shown` to the
list of a profile that has both its reads (`Told`, `OnScreen`); everything else a
phone does is a stutter.

### AddressPage

`Save` sets the preferences and starts the write; `Saved` starts the timer if
the page is still there; `DelayedPop` is the timer, which pops what is on top.
`Confirmed` is an order's confirmation arriving meanwhile, from `OrderUploads`.
The writes of a phone reach the server in the order of the saves, as Firestore
queues them.

### SupportChat

`Snapshot` is `onChangedData` with a whole `QuerySnapshot`: removals, then the
additions in the order of their random ids (`SetToSeqs`).  `ReadPage` and
`ApplyPage` are `requestNextMessages`, cut at its await, with `PageAfter(cursor)`
the newest stored messages below the cursor; `Greet`, `ShowGreeting`,
`HelpDue`, `Help` are the two greetings with their delays; `OrphanSends` is a
greeting whose page was left.  `DocumentSnapshot` has no `==`, so
`messages.contains` never finds an added message: `Added` has no such test, and
the list may show a message twice.  Writes are visible locally at once
(Firestore's cache), are refused later (`SendFails`), and are answered in order.
`missed` are the messages announced to an empty list and `gone` those the listener
said were removed: the list may be without the first, and without a message that came
behind one of the second and was dropped.

### Signup

`CheckUser`, `CheckPhone`, `ImageUploaded`, `CodeSent` are the awaits of SIGN UP
in their order; each goes on with the form as it is by then (`GoOn`).
`VerifiedByForm` is `verificationCompleted` of the form's `verifyPhone`, which
saves the live form; `VerifiedByPage` the code page, which saves what it was
given, for a typed code or one the phone read after a resend.  `WriteUsersAuth`
and `WriteUsers` are the two writes of `saveUser`.  Since Firebase gives a
number one uid, a second sign-up with a number writes over the account.

### HomeFeed

`requests` is the bag of awaited calls: `HeaderLoaded` and `Refresh` are a header
and a network check that go on to `Loaded`, `MoreLoaded` is a page at the end of
the list.  None of them knows of another, so any may be answered after any
other.  `Extend` is the code all answers share: the list grows and the cursor
follows what was added, which is not always what was answered (`NewGifts` has the
`data.contains` of the default list).  `Offline` is the network check that fails,
`Fails` a get that throws, which no handler of the page notices.  The animated
spinners (`retrying`, `showing`) and the carousel are left out, as are gifts that
were added in the same instant.

### Search

`LookUp` is one round of the two loops over `recentIdListRev`, which share
`count`, `limit` and `recentList`: a gift that is there is shown, another's place
is removed, at the counter as it is by then, and the shorter list written to the
preferences.  `LoopOn` goes on or ends with what follows the loop in `_loadData`
(`EndLoad`) or `_loadMoreData` (`EndMore`).  `Type` starts the timer of
`StopTyping`; `Filter` and `Sorted` are the two halves of a filter, after which
`searchList` and `sortedList` are one object (`sameList`), so that clearing one
clears the other.  `Retry` and `RetryDue` are the button and its second.
A text is typed from `Texts` and asked for as one of `Terms`: `SearchFor` keeps the
text as it was typed and asks for `Trim` of it, as `search` does, while `RetryDue` asks
for the text it finds kept, untrimmed; each term has its own matches.  `retried` records
which of the two was asked for last.
`overlapped` and `crossed` say that two loops, or two calls or timers of which one
is the search's, were under way at once: the properties promise nothing then,
because the code does not.  The page stays open; what its loops still do after it
was left is the same write of the preferences.

### GiftPanel

`HideGifts`, `HideLoading`, `HideError`, `LoadGifts` are the four cases of
`giftOnTap`; hiding the animation does not stop the loader, so that the next tap
starts a second one.  `loaders` is the bag of awaited calls of `_getRecentList`
and `_getMoreRecentList`, whose loops are those of the search page but for what
follows them (`EndRecent`, `EndMore`).  `Missing` takes out the id the counter is
at by then and writes the shorter list, read when the page was opened, over the
preferences, to which `ViewGift`, a gift page opened from a message, may have
added since.  `Send` takes the selection along; `SendAcked`, the `.then` of its
`add`, clears whatever is selected by then, `SendFails` nothing.  `messages` are the
gifts of each message sent; `tapped` is the number of the message a selected gift was
tapped for, `accepted` that of the last one that was stored.

### Favourites

`currentUser` is the session of FirebaseAuth, `uid` and `favorite` are the
preferences, `docs` and `favorites` the documents.  A sign-in is a record in
`signins`: its user, the call it awaits, and the place of its login page in the
stack.  Each user signs in one way (`KindOf`), since the way decides the order of
calls: by name `Find`, `ReadFavourites`, `TokenStored`, without any session of
FirebaseAuth; with Google `Auth`, `Merged`, `Known`, `ReadFavourites`; with
Facebook and Apple `Auth`, then `Known` and `ReadFavourites` or `New` and
`Stored`, `uid` being set after the write or before it; a sign-up is `Verified`
and `Stored`, as detailed in `Signup`.  `Leave` is what each ends with: the gift
the user came from, a new home page, or nothing when the login page is gone,
where `Navigator.push` throws.  `Confirm`, `ClearPreferences`, `AuthSignOut` are
the pieces of YES in the dialog, which has no other YES afterwards (`signingOut`), and
`SignOutFails` is a `signOut` that throws.  `kept` records that the user who signed in by
name last found the session of somebody else, which such a sign-in leaves alone.

A gift page is a record of the stack with what `_getSharedPref` read: `userId`
and its copy of the favourites.  `Heart` changes the copy, writes it over the
preferences, and on the server does to the one gift what the copy says, for the
`userId` of then if anybody has a session now.  `Online`, `Answered`, `Offline`,
`QueryFails` are `_getFavIdList`.  `content.id` of a hole throws, so holes open
no page.  The module is one phone; the server's list is ordered by date, the
phone's by the order of taps until a sign-in reads it, newest first.

## Runs

Constants are small sets of model values; each bound below is a constant of its
module or the size of such a set.

| Run | Instance | Properties | Shows |
|---|---|---|---|
| `reviews_two_phones` | 2 phones, 2 orders of 1 gift, 1 tap each, totals 1..2, 630 000 states | `TypeOK`, `RateWithinScale`, `CountNotInflated`, `SerialMeanExact`, `ReviewedImpliesPublished`, `EverySubmissionSettles` | The aggregate under races and a withdrawn gift; what the flag promises; no upload is stuck, also when its form is gone. |
| `order_form` | 1 address, 1 voucher worth 2 or 4, 2 wrappings, a day's lead, 2 days, 4.6 million states | `FormTypeOK`, `OrderAddsUp`, `DiscountWasOffered`, `LeadTimeKept` | The total that `build` left agrees with the parts the handler reads unless a build was due, and the discount with what was offered. |
| `orders_two_phones` | 2 phones, 1 earlier order and 2 from one of them, `whereIn` of 2, 65 000 states | `TypeOK`, `ProfileComplete`, `OrphanHasReason`, `PromiseKept`, `EveryOrderSettles` | Orders and the list agree as far as the profile relies on it, the module implements `Placing`, and an order whose page was left still gets its second write. |
| `address_page` | 2 phones, 2 addresses, 2 saves pending, 1 confirmation, 520 000 states | `TypeOK`, `AddressesAgree`, `TimerSparesOrderPage` | Preferences, document and page; the uncancelled timer. |
| `support_chat` | 3 messages, the team's clock at any of 3 times, pages of 1, 1 orphaned greeting, 454 000 states | `TypeOK`, `ListInOrder`, `NoHoleBetweenPages`, `NewestArrives`, `LastMessageAdvances`, `EveryRequestEnds` | The merged list: sorted, without a hole, the newest message on top but for the two kinds `NewestArrives` names; `requesting` is reset on every path. |
| `signup_two_devices` | 2 devices, 1 attempt each, 2 names, 2 numbers, 1 edit, 1.2 million states up to symmetry (renaming names and numbers, swapping the devices with their attempts) | `TypeOK`, `MobileIsVerified`, `NamesUnique`, `AccountKept` | Every user can sign in with a verified number; accounts collide only through an overtaken check or an edit. |
| `signup_mobile` | 1 device, 2 taps, 1 edit | `OneAccountPerMobile`, violated | The first finding below. |
| `home_feed` | 4 gifts in 2 categories, 2 of them shown and hidden at will, 2 requests at once, first load of 1, pages of 2, 2 million states | `HomeTypeOK`, `FeedUnbroken` | Answers in any order: the cursor is always that of the list, the progress animation has a load to end it, and a list no foreign answer joined has no gap. |
| `home_no_more` | the same | `NoMoreIsTrue`, violated | The second finding below. |
| `search` | 2 gifts, 1 of them shown and hidden, 1 text typed with a blank at its end, 2 icons, one that finds something for the text with the blank and one for the text without, limits 1 and 2, 2 calls or timers at once, 4.8 million states | `TypeOK`, `RecentsKept`, `ResultsMatch` | What a search, a retried one and a loop show when nothing crosses them, and that the animation ends. |
| `gift_panel` | 3 gifts, 0 or 2 of them viewed before and removed and restored at will, 2 shared in messages, 2 selected at most, 2 messages, limits 1 and 2, 2 loaders at once, 4.5 million states | `TypeOK`, `SentAgainIfTapped`, `PhoneForgets` | A gift that a stored message took goes with another only after another tap; what the phone may forget when loaders do not overlap. |
| `favourites` | 5 users (one for each way and a sign-up), 2 gifts, 1 of them removed at will, 3 pages above the home page, 2 sign-ins at once, 3 sign-ins, sign-outs and hearts in all, 1.8 million states | `TypeOK`, `FavouritesAgree`, `SessionAgrees`, `FavPageComplete` | Where phone and server agree on favourites and on who is signed in, and the only causes for which they may not. |

**Why these bounds are enough to be interesting.**  Every race in the code is
between two actors at a time, and each run has two.  Two totals tell a right weight
from a wrong one; with a `whereIn` limit of two a list of two ids is queried for, in
which one dangling id is enough for an index past the end, and three ids are refused;
the theorems below settle any number of phones, taps,
orders and totals.  With pages of one message three messages give
several pages with changes between them; a home list of four gifts is two pages,
one of which may be cut short by the category or by a hidden gift, and two
requests at once are what it takes for one to overtake the other; two ids are the
fewest of which a loop can skip or repeat one; one edit,
placed anywhere, is enough to part what was checked from what is stored.  The team's clock is
any of the phone's three times (`TeamTimes`), so its messages fall before, between
and after the phone's.  The `favourites` run starts with somebody signed in:
signing out is one of its three taps and reaches the state of a new phone, from
which two sign-ins, or one and a heart, are left; two pages of gifts and a login
page are what it takes for a heart to be tapped on a page older than a sign-in.
Its limit of `whereIn` is not exceeded: `QueryFails` is the same step.  Runs
with a bound on time or attempts set `CHECK_DEADLOCK FALSE`: the model ends where
its clock or its taps run out.

**Fairness.**  `GiftReviews` and `OrderUploads` assume weak fairness of the next
awaited call of each upload, which Firestore answers or fails; nothing is assumed
of the user, of killing or of failures.  `SupportChat` assumes it of the request
in flight (its answer, its delay).  Greeting takes a time later than the phone's
last, and the model has finitely many: `EveryRequestEnds` lets a request stay
when none is left.

**Findings.**

* `signup_mobile`: `saveUser` on the form stores the phone field as it is when the
  verification ends (`Signup.dart:104`), which may have been edited since
  `checkPhone` and `verifyPhone` read it.  Two accounts then have one `Mobile`,
  while the form says "Cant use the same mobile number with more than one
  account" (`Signup.dart:685`).
* `home_no_more`: a category with fewer gifts than a page sets `showMore` to
  false (`HomePage.dart:623`), and neither `refresh` nor the next load sets it
  again.  The list of the next category then ends with "No More Gifts Available"
  (`HomePage.dart:354`) while it has more, until a page is asked for at its end.

**Behaviour the models show and no property contradicts**, since nothing in the
repository promises otherwise: two taps on Submit are two orders; an order submitted
before the frame of the last change has a total of other parts; a failed second
write leaves an order its user cannot see; a review retried after a failure is
counted twice; with more orders than `whereIn` takes the profile never leaves its
progress animation; two scrolls to the end of the search page load a gift twice
and skip the next, and may forget a gift that is there; a gift viewed from the
search page may be forgotten; an older query's results join a newer one's; a text typed
with a blank at its end is searched without it, but with it by Retry, which then finds
what has the blank, as a rule nothing; a
chat left during its greeting may be greeted twice; a message that came behind a newer
one stays out of the chat when that is removed, and one announced to an empty list
until the chat is opened again; a
failed page request ends paging until the chat is opened again; overlapping loaders
of the gift panel show a gift twice and skip the next; Send tapped twice before the
first answer sends the selected gifts twice, and a gift tapped before that answer is
deselected unsent.  Of sign-ins: who signs in by
name has no session, so that hearts stay on the phone, Order Now asks to sign in
again, and signing out is out of reach; signing in with Google from Order Now, which
leaves the login page below, then Back and a sign-in by name leave the phone with two
users, one in the session and one in the preferences; a signing out whose `signOut`
fails leaves a session without preferences; a new account keeps the favourites the phone
had; the favourites page begins with the last of the phone's list, which is the latest
heart, but the oldest favourite after a sign-in, since the server's are
read newest first and the phone's are kept newest last; a heart on a gift page
undoes, on the phone, those tapped on pages above it since it was opened; favourites
that have all been removed are "No Internet Connection".

## Theorems

`GiftReviews_proof` proves, for every set of phones, orders, gifts and uploads
and every scale of totals, from the assumptions of `GiftReviews` alone (the three
functions `OrderOf`, `GiftOf`, `SessionOf` have their types, and
`0 < MinTotal <= MaxTotal`):

| Theorem | Statement |
|---|---|
| `TypeCorrect` | `Spec => []TypeOK` |
| `ReviewedIsPublished` | `Spec => []ReviewedImpliesPublished` |
| `SuccessIsReviewed` | `Spec => []SuccessMeansReviewed` |
| `ReviewGetFinds` | `Spec => []ReviewGetFindsIt` |
| `RateInScale` | `Spec => []RateWithinScale` |
| `CountBounded` | `Spec => []CountNotInflated` |
| `MeanIsExact` | `Spec => []SerialMeanExact` |

The argument, one inductive invariant after the other:

1. `TypeInv`.  `TypeOK` is not inductive: `WriteRate` divides by the count read
   plus one, and a withdrawn gift is read as -1.  `ReadOK` says that a rate that
   is not 0 was read together with a count of at least 0, so the divisor is
   positive.
2. `PubInv`.  The place an upload has reached says which documents exist
   (`UserCopyStored`, `GiftCopyStored`), documents are never removed, and the
   order page asks for a review only after it saw the flag (`GetsReviewed`).
   The three publication theorems are conjuncts or consequences.
3. `ScaleInv`.  The rates read are in the scale, as the rates stored are; the
   mean of values in the scale is in it, whichever stale count weighs them.
4. `CountNotInflated` is inductive on top of `TypeInv`.
5. `SerialInv`.  An upload at its write that is not `stale` read what the gift
   still holds (`FreshRead`), and a count of 0 means that nothing was summed
   (`NewGift`); then the incremental mean times the count is the sum.

`Orders_proof` proves of `OrderUploads`, for any phones, uploads and limit of `whereIn`, from
`PhoneOfAssumption` and `EarlierAssumption` (the account's earlier orders are uploads,
each listed once):

| Theorem | Statement |
|---|---|
| `TypeCorrect` | `Spec => []TypeOK` |
| `IdsExist` | `Spec => []NoDanglingId` |
| `ConfirmedListed` | `Spec => []ConfirmedIsListed` |
| `OrphansExplained` | `Spec => []OrphanHasReason` |
| `ProfileSound` | `Spec => []ProfileComplete` |
| `PlacedBacked` | `Spec => []PlacedIsBacked` |
| `ImplementsPlacing` | `Spec => PromiseKept`, that is `Spec => Promise!Spec` |

1. `TypeOK` is inductive; the profile's list needs that the documents found are no
   more than the ids asked for (`FoundFacts`).
2. `StoreInv` adds `Stored`: an upload that awaits its second write, or is past
   it, has its order in the store.  Without it `LinkOrder` could list an order
   that does not exist.
3. `ProfileInv` adds `IdsStored`: the ids a profile has read are ids of orders,
   because `NoDanglingId` held when it read them and orders are never removed.
   Then all are found, and the place of an id is within the list.
4. `StackBacked`: every confirmation in a stack stands for a confirmed upload,
   not only the one on top, which Back may uncover.
5. `PromiseInv` adds `IdsWereList`: the ids a profile waits to show are a
   beginning of today's list in reverse, since the list only grows at its end
   (`BeginningKept`).  With `IdsStored` every document is found, so the step that
   shows the list is a `Show` of `Placing`; the second write is its `List`
   because of `Stored`, and the confirmation its `Tell` because of
   `ConfirmedIsListed`.

Five of these are not in a run, to leave the runs to what they find first:
`ReviewGetFindsIt` and `SuccessMeansReviewed` say of a read and of an upload what
`ReviewedImpliesPublished` says of the documents, and `PromiseKept` implies
`NoDanglingId` and `ConfirmedIsListed`, and with it what `PlacedIsBacked` says of a
stack of pages.

It proves of `OrderForm`, for any codes, discounts, wrappings, addresses and
prices, from `FormAssumption` alone:

| Theorem | Statement |
|---|---|
| `FormTyped` | `FormSpec => []FormTypeOK` |
| `AddsUp` | `FormSpec => []OrderAddsUp` |
| `DiscountOffered` | `FormSpec => []DiscountWasOffered` |
| `LeadTime` | `FormSpec => []LeadTimeKept` |

1. Every step but Submit leaves the order alone or forgets it with the page, and
   Submit passes on what the page has (`Ordered`): each property of an order is a
   property the page has before, one step earlier (`OrderFrom`).
2. `OrderAddsUp` is about two moments: the total is that of the last `build`, the parts
   are those of the tap.  `Drawn` joins them: unless a build is due, `total` is that of
   the form as it is.  Each step is checked for it: what changes a part of the total
   calls `setState`, and what does not call it (the pickers) changes no part.
3. `DiscountWasOffered` needs that the shop's vouchers, the list the page has
   collected over its reloads, and what was redeemed from it all stem from an
   offer (`ShopInv`, `ListInv`, `FormInv`); the history of offers only grows.
4. `LeadTimeKept` needs `DayInv`: while the page is there, the day chosen and the
   first day its picker offers both leave the lead time after the last load, which
   is not in the future.

`AddressPage_proof` proves, for any phones, addresses, saves and confirmations
under way, from `PhonesAssumption` (there is a phone) and the types of the bounds:

| Theorem | Statement |
|---|---|
| `TypeCorrect` | `Spec => []TypeOK` |
| `PhonesAgree` | `Spec => []AddressInv` |
| `Agree` | `Spec => []AddressesAgree` |
| `TimerSpares` | `Spec => TimerSparesOrderPage` |

1. A stack is `Shaped`: the order page at its bottom, the address page second if
   anywhere, confirmations above.  So `Navigator.pop` takes the address page off
   only when that is on top, whoever calls it (`PopShape`).
2. `ShownHeld`, `LastHeld` and `TimerHeld` are the invariant of one phone: the order page
   has the address of the preferences unless an address page is above it; the
   youngest write under way carries the address of the preferences; a timer, or a
   write that will start one, has its page on the stack or on its way out.
   A step of one phone leaves those of the others alone (`OthersKept`).
3. `ServerInv`: with nothing lost, some phone has a write under way or agrees
   with the document.  The answer to a phone's last write keeps it because of
   `LastHeld`, every other answer because the phone has more to come.
4. `AddressesAgree` is what is left of it when nothing is under way, and
   `TimerSparesOrderPage` follows from `TimerHeld` in the state before the pop.

`Signup_proof` proves, for any devices, names, numbers, attempts and edits, from
`DeviceOfAssumption` and `MaxEditsAssumption`:

| Theorem | Statement |
|---|---|
| `TypeCorrect` | `Spec => []TypeOK` |
| `NumbersHeld` | `Spec => []NumberInv` |
| `MobileVerified` | `Spec => []MobileIsVerified` |
| `NamesHeld` | `Spec => []NameInv` |
| `Unique` | `Spec => []NamesUnique` |
| `Kept` | `Spec => AccountKept` |

1. `PageInv`: a code page still on the stack keeps its form as it was when the
   code was sent, since a form below a page cannot be edited.  Hence a resend,
   which verifies the page's number, verifies the form's.
2. `KeyInv`: what a verification would store (`Given`, the page's copy or the form)
   is what the awaited call was given, unless an edit came between; and it has
   the number that is verified, unless the edit came after `verifyPhone` read it.
3. `SaveInv` carries that into the saves under way, and says that the second write
   of `saveUser` finds an account.  `MobileIsVerified` follows.
4. `NameInv`: for an attempt that was neither edited nor overtaken, what it checked
   is `Free` (no other sound account has its name or number), from the check to the
   write; what a save will store is what was checked; and the two saves of an attempt
   store the same, so that the second changes nothing.  A write of another attempt
   either makes this one overtaken or leaves it free (`OvertakenKeeps`); a write of
   its own stores what was checked or spoils the account (`OwnWriteKeeps`).
5. `NamesUnique` and `AccountKept` are then what a single write does (`WriteUnique`).

`SupportChat_proof` proves of `SupportChat`, for any clock, times of the team, size of
a page and number of messages, from `ChatAssumption`:

| Theorem | Statement |
|---|---|
| `NeverBack` | `Spec => LastMessageAdvances` |
| `ChatTyped` | `Spec => []TypeOK` |
| `InOrder` | `Spec => []ListInOrder` |
| `NoHole` | `Spec => []NoHoleBetweenPages` |
| `NewestOnTop` | `Spec => []NewestArrives` |

1. `RecordInv`: the messages that wait for their answer are in the order of their
   times, all later than the chat's record and none later than the phone's clock.
   So the record, which takes the first of them, goes forward; a refused one or a
   killed app only shortens the queue.
2. The three properties of the list are one invariant, `ChatInv`, since what a
   page will add was decided when it was read.  `OrderInv`: a page on its way is
   in order and below the list, whatever the listener has put on top meanwhile,
   and who greets still has no message.  `HoleInv`: of what was there when the list
   began and is still stored, the list has all above the cursor, and list and
   page together all above the page's end; `NoHoleBetweenPages` alone says nothing
   of the page on its way and is not inductive.  `NewestInv` is about what is `Due`:
   announced, or there when the first page was read, still stored, and not missed by an
   empty list.  Each such message is below the top of the list or `Overtaken` by a newer one that
   is gone; an empty list missed all that was announced, or what is due is overtaken;
   and the first page begins with the newest message there was.
3. A snapshot is the hard step: removals by `Without`, then one addition after
   another in any order.  The lemmas on `Newest` and `Without` say what a page has
   and keeps; an induction over the additions says that each in its turn leaves a
   list that is in order and has what was there before.  Induction is over a set of
   numbers (`Induct`, from the least number outside it), which the provers can
   instantiate, where an operator is beyond them.

It proves of `HomeFeed`, for any gifts, categories, sizes of a page and requests on
their way, from `GiftsAssumption` and `LimitsAssumption`:

| Theorem | Statement |
|---|---|
| `HomeTyped` | `HomeSpec => []HomeTypeOK` |
| `FeedHeld` | `HomeSpec => []FeedUnbroken` |

`FeedInv` adds to the property that only pages asked for at the end of the list have a
cursor (`HomeRequests`): a load with one would begin a list in the middle.  The page
that continues an unbroken list is `Newest` of what is below its last gift, so
nothing shown all the time lies between the two; a gift that the default list leaves
out, because it has it already, leaves no gap.

`Search_proof` proves, for any gifts, texts, icons, matches, limits and bounds, whatever `Trim` makes of a
text, from `TermsAssumption` and `MatchesAssumption` (types),
`ViewedAssumption` (the preferences begin without a gift twice)
and `LimitsAssumption` (the limit a loop begins with is within its bound):

| Theorem | Statement |
|---|---|
| `SearchTypes` | `Spec => []TypeOK` |
| `KeepsRecents` | `Spec => []RecentsKept` |
| `FindsWhatMatches` | `Spec => []ResultsMatch` |

1. `TypesInv` adds to the types that every call is `Sound`: a look-up is of a gift
   and a query has a text and an icon, or its answer would be of no type.
2. `KeptInv`, while no two loops overlapped: the only loop looks up the id that the
   counter is at, what it has found are the ids before, and what the page was opened
   with is in its list and in the preferences but for what was looked up in vain
   (`CounterInv`, `OpenedInv`).  `RecentsKept` says the same of the list on screen
   only; without the call under way it is not inductive.
3. `LoadingInv`: the animation has a call or a timer to end it.
4. `SearchInv`, for a search nothing crossed: the one call there is has the term it asked
   for, trimmed or retried, and its icon (`OwnCalls`), there are no results before its answer and those of
   the answer after it (`OwnResults`).  During the timer of a filter the results are in
   the sorted copy, while the list shown is empty (`Held`).  This needs `ListsInv`:
   without a timer the copy is empty or the same object as the list, so that clearing one never
   loses the other.

`GiftPanel_proof` proves, for any gifts, viewed or shared, limits, messages and
bounds, from `ViewedAssumption` and `LimitsAssumption`, which say the same as those of `Search`:

| Theorem | Statement |
|---|---|
| `Again` | `Spec => SentAgainIfTapped` |
| `PanelTyped` | `Spec => []TypeOK` |
| `Remembers` | `Spec => []PhoneForgets` |

1. `TapsLater`: what is selected was tapped after the last message that was stored had been
   sent, because the answer to that message cleared the selection.  So a gift of it, or of one
   before it, that goes with a message has a later tap.  `SentInv` is this with the types it needs,
   among them that the answers awaited are those of messages sent.
2. `PanelInv` is about the loop as `KeptInv` of the search page is (`CounterInv`), and about
   two lists: the page's, read when it was opened, and the preferences, to which a
   gift page adds.  Until something is looked up in vain what was viewed since is in
   the preferences, and from then on the page's list is written over them; what the
   page was opened with is in both, but for what was looked up in vain (`ForgetInv`).

`Favourites_proof` proves, for any users, ways of signing in, gifts, sign-ins under
way and pages in the stack, from the assumptions of `Favourites` (every user has one way
to sign in, the lists on the server have no gift twice):

| Theorem | Statement |
|---|---|
| `SessionsAgree` | `Spec => []SessionAgrees` |
| `FavouritesTyped` | `Spec => []TypeOK` |
| `FavouritesHeld` | `Spec => []FavouritesAgree` |
| `FavPageHeld` | `Spec => []FavPageComplete` |

1. `SessionInv`: a sign-in that nothing disturbs (`alone`) is the only
   one, and `Undisturbed` says for each call it may await what FirebaseAuth and the
   preferences have by then, which differs with the way of signing in.  The two agree (`Agree`) when they have the
   same user, or when the preferences' user signed in by name (`ByName`), which begins no session: then
   there is none, or it was there before (`kept`).  Without a
   crossing every sign-in is alone and the two agree until FirebaseAuth has
   answered (`CrossInv`); a sign-in that comes to its end alone makes them agree
   whatever was crossed before (`LeaveKeeps`), and so does signing out alone
   (`OutInv`) unless it fails.  This part needs nothing of pages, lists and gifts.
2. `FavouritesInv` is about the lists.  A page that is `Good` has, until somebody
   else changes the favourites, the list of the preferences itself, which is more than the set
   `FavouritesAgree` speaks of: a heart writes the page's list back, so with the
   set alone the tap could put another list in place.  No list has a gift twice
   (else taking one out would leave the other), and phone and server have the same
   gifts unless there was a `drift`.
3. `FavPageInv`: while the favourites page loads it shows neither list nor
   message, and the ids the query was sent for are the favourites until these
   change.  Then each answer is put in the place of its id,
   and the page shows the places from the last to the first.

Every invariant and every action property of the passing runs is thus proved for all
values of the constants that meet these assumptions.  Model-checked only is liveness
(`EverySubmissionSettles`, `EveryOrderSettles`, `EveryRequestEnds`), which needs
fairness and `ENABLED` and is beyond the prover; the two violated properties are refuted by their runs.

## What is not modelled

* Code that is not the app's own.  Most of the repository's lines in C, C++ and
  Objective-C are CocoaPods under `src/ios/Pods` (gRPC, BoringSSL, the Firestore
  client, leveldb), checked in as they were downloaded; the rest of `ios` and
  `android` is what `flutter create` writes.  The program is `src/lib`, in Dart;
  of the Pods the modules take what `lib` sees of them: documents, snapshots and
  answers.
* The older copies `src/SearchActivity.dart` and `src/LoginActivity.dart`.
* Drawing, texts, translations, and animations beyond their end.
* The texts a form passes through: special requests, review texts, pictures.
* In the support chat: seen flags and typing indicators.  In the assistant chat
  room: its listener and its paging, which repeat those of `SupportChat`.
* Password reset: its three steps repeat the code page that `Signup` has, before one write.
* Of sessions: the token refresh of `Welcome` and what is stored besides the
  favourites; two loads of the favourites page that overlap.
* A killed app's writes that reach the server only after the app is started
  again are "later" like any others.
* Doubles: the average is exact in the model, rounded in the code.
* The second load of the account name when the order page opens: preferences are
  read in one step with the opening.

## Plan

What is left, most important first:

1. `Checkout`: `OrderForm`, `AddressPage` and `OrderUploads` over one navigator
   stack; now each has the others' steps as those of an environment
   (`SaveAddress`, `Covered`, `Confirmed`).
2. The listener of the chat room together with its attachments, and password reset.
3. Theorems: abstract specifications of the feed and the chat (a reader who has
   seen a prefix of an ordered store) and of sign-up (a table of accounts), with
   the modules as their refinements, as `OrderUploads` is one of `Placing`.
