------------------------------ MODULE Favourites ------------------------------
(***************************************************************************)
(* Who is signed in on a phone, and the gifts marked with a heart there    *)
(* (lib/LoginActivity.dart, lib/SigningOut.dart, lib/GiftPage.dart,        *)
(* lib/FavPage.dart).                                                      *)
(*                                                                         *)
(* Two places say who is signed in: the session of FirebaseAuth and "uid"  *)
(* in the preferences.  Two places hold the favourites: the preferences,   *)
(* which the pages read, and Users/{uid}/favorites, which a sign-in reads. *)
(* Each sign-in writes them in an order of its own, between calls that may *)
(* fail, on a page that may be gone by then; each gift page has a copy of  *)
(* the list as it was when the page was opened.                            *)
(*                                                                         *)
(* The module is one phone.  The pages that take no part are left out, as  *)
(* are the names, pictures, tokens and addresses a sign-in also stores.    *)
(***************************************************************************)
EXTENDS Integers, SequencesExt, FiniteSetsExt

CONSTANTS
    Users, KindOf,      \* each user signs in one way
    Gifts,
    Fickle,             \* bound: the gifts Boxet may have removed at any time
    Documents,          \* the users that have a document at first,
    Marked,             \* and the favourites of each user at first
    SignedIn,           \* who may be signed in when the app starts
    WhereInLimit,       \* the ids one query takes, 10 in Firestore
    MaxStack,           \* bound: pages above the home page
    MaxSignIns,         \* bound: sign-ins under way at once
    MaxTaps             \* bound: sign-ins and sign-outs begun, hearts tapped

NoUser == "nobody"
NoGift == "no gift"
Kinds  == {"name", "google", "facebook", "apple"}

ASSUME UsersAssumption ==
    /\ KindOf \in [Users -> Kinds] /\ NoUser \notin Users
    /\ Documents \subseteq Users /\ SignedIn \subseteq Documents \cup {NoUser}
ASSUME GiftsAssumption ==
    /\ NoGift \notin Gifts /\ Fickle \subseteq Gifts
    /\ Marked \in [Users -> Seq(Gifts)]
    /\ \A u \in Users : IsInjective(Marked[u]) /\ (u \notin Documents => Marked[u] = <<>>)
ASSUME LimitsAssumption ==
    {WhereInLimit, MaxStack, MaxSignIns, MaxTaps} \subseteq Nat \ {0}

VARIABLES
    docs,                   \* the users that have a document
    favorites,              \* Users/{uid}/favorites by date, the latest last
    currentUser,            \* of FirebaseAuth
    uid, favorite,          \* preferences
    tab, stack,             \* the tab of the home page, the pages above it
    signins, signout,       \* under way
    favIdList, favList, empty, internetError, showLoading, load,   \* FavPage
    taps,                   \* sign-ins, sign-outs and hearts so far
    \* history
    drift,                  \* the phone's favourites may not be those of uid
    crossed,                \* uid may not be that of the session
    kept,                   \* the last sign-in, by name, left the session there was
    current                 \* the favourites are as the favourites page read them

server  == <<docs, favorites>>
session == <<currentUser, uid>>
favPage == <<favIdList, favList, empty, internetError, showLoading, load>>
pages   == <<tab, stack>>
calls   == <<signins, signout>>
history == <<drift, crossed, kept, current>>
vars    == <<server, session, favorite, pages, calls, favPage, taps, history>>

\* A gift page has the uid and a copy of the favourites as it found them;
\* "fresh" is history: nobody else has changed them since.  A login page
\* knows the gift to go back to, if any.
Pages == [kind : {"gift"}, gift : Gifts, userId : Users \cup {NoUser},
          list : Seq(Gifts), fresh : BOOLEAN]
         \cup [kind : {"login"}, gift : Gifts \cup {NoGift}]
         \cup [kind : {"dialog"}, signingOut : BOOLEAN]

Gone == -1

\* A sign-in, the call it waits for, its page's place (0: under a new home
\* page) and what it opens in the end; "alone" is history.
SignIns == [user : Users, step : {"find", "code", "auth", "doc", "get", "set", "favs", "token"},
            at : Gone .. MaxStack, to : Gifts \cup {NoGift}, alone : BOOLEAN]

\* A load waits for the check of the network or for its query.  Bound: there
\* is one at a time, RETRY being left alone until the answer.
Loads == {"no", "check", "query"}

NoSignOut == [step |-> "no", at |-> Gone, alone |-> TRUE]
Hole    == NoGift

Init ==
    /\ docs = Documents /\ favorites = Marked
    /\ uid \in SignedIn
    /\ favorite = IF uid = NoUser THEN <<>> ELSE Reverse(Marked[uid])
    /\ currentUser = IF uid # NoUser /\ KindOf[uid] = "name" THEN NoUser ELSE uid
    /\ tab = "home" /\ stack = <<>>
    /\ signins = <<>> /\ signout = NoSignOut
    /\ favIdList = <<>> /\ favList = <<>> /\ empty = FALSE
    /\ internetError = FALSE /\ showLoading = TRUE /\ load = "no"
    /\ taps = 0
    /\ drift = FALSE /\ crossed = FALSE /\ kept = FALSE /\ current = TRUE

-----------------------------------------------------------------------------
(***************************************************************************)
(* Pages                                                                   *)
(***************************************************************************)
Top == IF stack = <<>> THEN tab ELSE Last(stack).kind

Push(page) == Len(stack) < MaxStack /\ stack' = Append(stack, page)

\* The favourites in the preferences change: what was read before is old.
Outdated(pgs) == [i \in DOMAIN pgs |->
    IF pgs[i].kind = "gift" THEN [pgs[i] EXCEPT !.fresh = FALSE] ELSE pgs[i]]

FreshGift(g) == [kind |-> "gift", gift |-> g, userId |-> uid,
                 list |-> favorite, fresh |-> TRUE]

Shown == tab = "fav" /\ ~ empty /\ ~ internetError /\ ~ showLoading

\* A gift is opened from the feed, from the favourites or from a similar one:
\* _getSharedPref.
OpenGift(g) ==
    /\ \/ Top \in {"home", "gift"}
       \/ Top = "fav" /\ Shown /\ g \in ToSet(favList)
    /\ Push(FreshGift(g))
    /\ UNCHANGED <<server, session, favorite, tab, calls, favPage, taps, history>>

\* FavPage starts anew each time, with a load.
SelectTab(t) ==
    /\ stack = <<>> /\ tab # t
    /\ tab' = t
    /\ favIdList' = <<>> /\ favList' = <<>> /\ empty' = FALSE
    /\ internetError' = FALSE /\ showLoading' = TRUE
    /\ load' = IF t = "fav" THEN "check" ELSE "no"
    /\ current' = TRUE
    /\ UNCHANGED <<server, session, favorite, stack, calls, taps, drift, crossed, kept>>

\* Order Now, and the tabs that need someone to be signed in
OpenLogin ==
    /\ currentUser = NoUser
    /\ \/ stack = <<>> /\ Push([kind |-> "login", gift |-> NoGift])
       \/ Top = "gift" /\ Push([kind |-> "login", gift |-> Last(stack).gift])
    /\ UNCHANGED <<server, session, favorite, tab, calls, favPage, taps, history>>

\* The profile has the button.
OpenSignOut ==
    /\ stack = <<>> /\ currentUser # NoUser
    /\ Push([kind |-> "dialog", signingOut |-> FALSE])
    /\ UNCHANGED <<server, session, favorite, tab, calls, favPage, taps, history>>

Unmounted(at) == IF at = Len(stack) THEN Gone ELSE at

Back ==
    /\ stack # <<>>
    /\ stack' = Front(stack)
    /\ signins' = [i \in DOMAIN signins |-> [signins[i] EXCEPT !.at = Unmounted(@)]]
    /\ signout' = [signout EXCEPT !.at = Unmounted(@)]
    /\ UNCHANGED <<server, session, favorite, tab, favPage, taps, history>>

\* A new home page covers all others for good.
Home ==
    /\ tab' = "home" /\ stack' = <<>>
    /\ favIdList' = <<>> /\ favList' = <<>> /\ empty' = FALSE
    /\ internetError' = FALSE /\ showLoading' = TRUE
    /\ load' = "no"

Covered(at) == IF at = Gone THEN Gone ELSE 0

-----------------------------------------------------------------------------
(***************************************************************************)
(* The heart of a gift page                                                *)
(***************************************************************************)
\* Mutant: the heart only ever adds.
Toggled_Adds(list, g) == Append(list, g)

Toggled(list, g) == IF g \in ToSet(list) THEN RemoveFirst(list, g) ELSE Append(list, g)

\* Mutant: a heart taken back stays on the server.
Mirrored_NeverDeleted(list, g, marked) == Append(RemoveFirst(list, g), g)

\* _saveToFavDB, _deleteFromFavDB; the server follows the heart of the page.
Mirrored(list, g, marked) ==
    IF marked THEN Append(RemoveFirst(list, g), g) ELSE RemoveFirst(list, g)

\* Nobody waits for the write on the server, which may be refused.
Heart ==
    /\ taps < MaxTaps /\ taps' = taps + 1
    /\ Top = "gift"
    /\ LET page == Last(stack)
           list == Toggled(page.list, page.gift)
           own  == currentUser # NoUser /\ page.userId # NoUser
       IN  /\ stack' = Append(Outdated(Front(stack)), [page EXCEPT !.list = list])
           /\ favorite' = list
           /\ \/ /\ own
                 /\ favorites' = [favorites EXCEPT ![page.userId] =
                        Mirrored(@, page.gift, page.gift \in ToSet(list))]
                 /\ drift' = (drift \/ ~ page.fresh)
              \/ /\ UNCHANGED favorites
                 /\ drift' = TRUE
    /\ current' = FALSE
    /\ UNCHANGED <<docs, session, tab, calls, favPage, crossed, kept>>

-----------------------------------------------------------------------------
(***************************************************************************)
(* Signing in                                                              *)
(***************************************************************************)
Accompanied(ins) == [i \in DOMAIN ins |-> [ins[i] EXCEPT !.alone = FALSE]]

\* A user who signs in by name and has no document signs up.
FirstStep(u) == IF KindOf[u] # "name" THEN "auth"
                ELSE IF u \in docs THEN "find" ELSE "code"

\* The page does not keep from starting two, nor does it look who is signed in:
\* with Google from Order Now it is left below the gift, for someone else.
Begin(u) ==
    /\ Top = "login"
    /\ Len(signins) < MaxSignIns
    /\ taps < MaxTaps /\ taps' = taps + 1
    /\ LET alone == signins = <<>> /\ signout.step = "no"
       IN  /\ signins' = Append(Accompanied(signins),
                    [user |-> u, step |-> FirstStep(u), at |-> Len(stack),
                     to |-> IF FirstStep(u) = "code" THEN NoGift ELSE Last(stack).gift,
                     alone |-> alone])
           /\ crossed' = (crossed \/ ~ alone)
           /\ signout' = [signout EXCEPT !.alone = signout.step = "no"]
    /\ UNCHANGED <<server, session, favorite, pages, favPage, drift, kept, current>>

At(i, step) == i \in DOMAIN signins /\ signins[i].step = step

GoTo(i, step) == signins' = [signins EXCEPT ![i].step = step]

\* uid is set and the favourites are still those of someone else.
SetUid(u) == uid' = u /\ drift' = TRUE

\* The end: to the gift or to a home page, unless the page is gone.
Leave(i, pgs) ==
    LET rest == RemoveAt(signins, i)
        in   == signins[i]
    IN  /\ crossed' = (crossed /\ ~ in.alone)
        /\ \/ /\ in.at = Gone
              /\ stack' = pgs /\ signins' = rest
              /\ UNCHANGED <<tab, favPage, signout>>
           \/ /\ in.at # Gone /\ in.to # NoGift
              /\ Len(pgs) < MaxStack
              /\ stack' = Append(pgs, [kind |-> "gift", gift |-> in.to,
                            userId |-> uid', list |-> favorite', fresh |-> TRUE])
              /\ signins' = rest
              /\ UNCHANGED <<tab, favPage, signout>>
           \/ /\ in.at # Gone /\ in.to = NoGift
              /\ Home
              /\ signins' = [j \in DOMAIN rest |-> [rest[j] EXCEPT !.at = Covered(@)]]
              /\ signout' = [signout EXCEPT !.at = Covered(@)]

\* usernamePasswordSign: the document of the user is there.  FirebaseAuth is
\* not asked, and keeps whom it has.
Find(i) ==
    /\ At(i, "find")
    /\ SetUid(signins[i].user)
    /\ kept' = (currentUser # NoUser)
    /\ GoTo(i, "favs")
    /\ UNCHANGED <<server, currentUser, favorite, pages, signout, favPage, taps,
                   crossed, current>>

\* signInWithCredential
Auth(i) ==
    /\ At(i, "auth")
    /\ currentUser' = signins[i].user
    /\ kept' = FALSE
    /\ GoTo(i, IF KindOf[signins[i].user] = "google" THEN "doc" ELSE "get")
    /\ UNCHANGED <<server, uid, favorite, pages, signout, favPage, taps, drift, crossed,
                   current>>

\* The code is verified: saveUser of the form or the code page
Verified(i) ==
    /\ At(i, "code")
    /\ currentUser' = signins[i].user
    /\ SetUid(signins[i].user)
    /\ kept' = FALSE
    /\ GoTo(i, "set")
    /\ UNCHANGED <<server, favorite, pages, signout, favPage, taps, crossed, current>>

\* Google: the document is merged, and read again.
Merged(i) ==
    /\ At(i, "doc")
    /\ docs' = docs \cup {signins[i].user}
    /\ SetUid(signins[i].user)
    /\ GoTo(i, "get")
    /\ UNCHANGED <<favorites, currentUser, favorite, pages, signout,
                   favPage, taps, crossed, kept, current>>

\* A user that is known goes on with the favourites; Facebook stores a new
\* one before it sets uid, Apple afterwards.
Known(i) ==
    /\ At(i, "get")
    /\ signins[i].user \in docs
    /\ SetUid(signins[i].user)
    /\ GoTo(i, "favs")
    /\ UNCHANGED <<server, currentUser, favorite, pages, signout, favPage, taps,
                   crossed, kept, current>>

New(i) ==
    /\ At(i, "get")
    /\ signins[i].user \notin docs
    /\ IF KindOf[signins[i].user] = "apple" THEN SetUid(signins[i].user)
                                           ELSE UNCHANGED <<uid, drift>>
    /\ GoTo(i, "set")
    /\ UNCHANGED <<server, currentUser, favorite, pages, signout, favPage, taps,
                   crossed, kept, current>>

\* Mutant: only users who are known get their uid.
Stored_NoUid(i) ==
    /\ At(i, "set")
    /\ docs' = docs \cup {signins[i].user}
    /\ drift' = TRUE
    /\ UNCHANGED <<uid, favorite>>
    /\ Leave(i, stack)
    /\ UNCHANGED <<favorites, currentUser, taps, kept, current>>

\* The new account is stored.  It keeps the favourites of the phone.
Stored(i) ==
    /\ At(i, "set")
    /\ docs' = docs \cup {signins[i].user}
    /\ uid' = IF KindOf[signins[i].user] = "facebook" THEN signins[i].user ELSE uid
    /\ drift' = TRUE
    /\ UNCHANGED favorite
    /\ Leave(i, stack)
    /\ UNCHANGED <<favorites, currentUser, taps, kept, current>>

\* The favourites by date, the latest first, replace those of the phone.
ReadFavourites(i) ==
    /\ At(i, "favs")
    /\ favorite' = Reverse(favorites[signins[i].user])
    /\ drift' = (uid # signins[i].user)
    /\ current' = FALSE
    /\ UNCHANGED uid
    /\ IF KindOf[signins[i].user] = "name"
       THEN /\ GoTo(i, "token")
            /\ stack' = Outdated(stack)
            /\ UNCHANGED <<tab, signout, favPage, crossed>>
       ELSE Leave(i, Outdated(stack))
    /\ UNCHANGED <<server, currentUser, taps, kept>>

\* By name: userToken is stored, and that is all; nobody signs in to
\* FirebaseAuth.
TokenStored(i) ==
    /\ At(i, "token")
    /\ UNCHANGED <<uid, favorite>>
    /\ Leave(i, stack)
    /\ UNCHANGED <<server, currentUser, taps, drift, kept, current>>

\* FirebaseAuth knows the user and the preferences do not yet.
Halfway(in) ==
    \/ in.step = "doc"
    \/ in.step = "get" /\ KindOf[in.user] # "google"
    \/ in.step = "set" /\ KindOf[in.user] = "facebook"

\* A call throws, or the answer is no.
SignInFails(i) ==
    /\ i \in DOMAIN signins
    /\ signins' = RemoveAt(signins, i)
    /\ crossed' = (crossed \/ Halfway(signins[i]))
    /\ UNCHANGED <<server, session, favorite, pages, signout, favPage, taps,
                   drift, kept, current>>

-----------------------------------------------------------------------------
(***************************************************************************)
(* Signing out                                                             *)
(***************************************************************************)
\* YES, and two seconds in which the dialog may be left; it has no other YES.
\* Bound: one sign-out at a time, that of a dialog left being waited for.
Confirm ==
    /\ Top = "dialog" /\ ~ Last(stack).signingOut
    /\ signout.step = "no"
    /\ taps < MaxTaps /\ taps' = taps + 1
    /\ stack' = Append(Front(stack), [Last(stack) EXCEPT !.signingOut = TRUE])
    /\ signout' = [step |-> "wait", at |-> Len(stack), alone |-> signins = <<>>]
    /\ signins' = Accompanied(signins)
    /\ crossed' = (crossed \/ signins # <<>>)
    /\ UNCHANGED <<server, session, favorite, tab, favPage, drift, kept, current>>

\* A new home page, unless the dialog is gone
SignedOut ==
    \/ /\ signout.at = Gone
       /\ UNCHANGED <<tab, favPage>>
       /\ stack' = Outdated(stack)
       /\ UNCHANGED signins
    \/ /\ signout.at # Gone
       /\ Home
       /\ signins' = [j \in DOMAIN signins |-> [signins[j] EXCEPT !.at = Covered(@)]]

\* The preferences are cleared; FirebaseAuth follows when it has a session.
ClearPreferences ==
    /\ signout.step = "wait"
    /\ uid' = NoUser /\ favorite' = <<>>
    /\ drift' = FALSE /\ current' = FALSE
    /\ IF currentUser # NoUser
       THEN /\ signout' = [signout EXCEPT !.step = "auth"]
            /\ stack' = Outdated(stack)
            /\ UNCHANGED <<tab, favPage, signins>>
       ELSE /\ signout' = NoSignOut
            /\ SignedOut
    /\ UNCHANGED <<server, currentUser, taps, crossed, kept>>

AuthSignOut ==
    /\ signout.step = "auth"
    /\ currentUser' = NoUser /\ kept' = FALSE
    /\ signout' = NoSignOut
    /\ SignedOut
    /\ crossed' = (crossed /\ ~ signout.alone)
    /\ UNCHANGED <<server, uid, favorite, taps, drift, current>>

\* signOut throws: the session stays, without preferences and a new home page,
\* and the dialog is busy until it is left.
SignOutFails ==
    /\ signout.step = "auth"
    /\ signout' = NoSignOut
    /\ crossed' = TRUE
    /\ UNCHANGED <<server, session, favorite, pages, signins, favPage, taps,
                   drift, kept, current>>

\* The app ends and starts again at the home page; Firebase keeps the
\* session, the phone the preferences.
Kill ==
    /\ stack # <<>> \/ tab # "home" \/ signins # <<>> \/ signout.step # "no"
    /\ Home
    /\ signins' = <<>> /\ signout' = NoSignOut
    /\ crossed' = (crossed \/ signout.step = "auth"
                           \/ \E i \in DOMAIN signins : Halfway(signins[i]))
    /\ UNCHANGED <<server, session, favorite, taps, drift, kept, current>>

-----------------------------------------------------------------------------
(***************************************************************************)
(* The favourites page: _getFavIdList                                      *)
(***************************************************************************)
BesidesFavPage ==
    <<server, session, favorite, pages, calls, taps, drift, crossed, kept>>

Retry ==
    /\ stack = <<>> /\ tab = "fav" /\ internetError /\ ~ empty /\ load = "no"
    /\ load' = "check"
    /\ UNCHANGED <<favIdList, favList, empty, internetError, showLoading, current,
                   BesidesFavPage>>

Offline ==
    /\ load = "check" /\ load' = "no"
    /\ internetError' = TRUE /\ showLoading' = FALSE
    /\ UNCHANGED <<favIdList, favList, empty, current, BesidesFavPage>>

\* The preferences are read, and the gifts asked for when there are any.
Online ==
    /\ load = "check"
    /\ favIdList' = favorite /\ current' = TRUE
    /\ \/ /\ favorite = <<>>
          /\ empty' = TRUE /\ showLoading' = FALSE /\ load' = "no"
       \/ /\ favorite # <<>>
          /\ load' = "query"
          /\ UNCHANGED <<empty, showLoading>>
    /\ UNCHANGED <<favList, internetError, BesidesFavPage>>

\* Mutant: the gifts found fill the places from the first.
Places_AsFound(found) ==
    LET there == SelectSeq(Reverse(favIdList), LAMBDA g : g \in found)
    IN  [k \in DOMAIN favIdList |-> IF k <= Len(there) THEN there[k] ELSE Hole]

\* Each gift found gets the place of its id, from the last of the list to the
\* first; those removed leave null.
Places(found) == LET revList == Reverse(favIdList)
                 IN  [k \in DOMAIN revList |->
                         IF revList[k] \in found THEN revList[k] ELSE Hole]

\* Finding none is taken for a missing network.
Answered ==
    /\ load = "query" /\ load' = "no"
    /\ Len(favIdList) <= WhereInLimit
    /\ \E removed \in SUBSET Fickle :
          LET found == ToSet(favIdList) \ removed
          IN  /\ favList' = IF found = {} THEN favList ELSE Places(found)
              /\ internetError' = (found = {})
    /\ showLoading' = FALSE
    /\ UNCHANGED <<favIdList, empty, current, BesidesFavPage>>

\* The query throws, always when it has too many ids: the page stays as it is.
QueryFails ==
    /\ load = "query" /\ load' = "no"
    /\ UNCHANGED <<favIdList, favList, empty, internetError, showLoading, current,
                   BesidesFavPage>>

-----------------------------------------------------------------------------
Next ==
    \/ OpenLogin \/ OpenSignOut \/ Back \/ Heart
    \/ \E t \in {"home", "fav"} : SelectTab(t)
    \/ \E g \in Gifts : OpenGift(g)
    \/ \E u \in Users : Begin(u)
    \/ \E i \in 1 .. MaxSignIns :
          \/ Find(i) \/ Auth(i) \/ Verified(i) \/ Merged(i) \/ Known(i) \/ New(i)
          \/ Stored(i) \/ ReadFavourites(i) \/ TokenStored(i) \/ SignInFails(i)
    \/ Confirm \/ ClearPreferences \/ AuthSignOut \/ SignOutFails \/ Kill
    \/ Retry \/ Offline \/ Online \/ Answered \/ QueryFails

Spec == Init /\ [][Next]_vars

-----------------------------------------------------------------------------
TypeOK ==
    /\ docs \subseteq Users
    /\ favorites \in [Users -> Seq(Gifts)]
    /\ \A list \in {favorites[u] : u \in Users} \cup {favorite} : IsInjective(list)
    /\ {currentUser, uid} \subseteq Users \cup {NoUser}
    /\ favorite \in Seq(Gifts)
    /\ tab \in {"home", "fav"} /\ stack \in Seq(Pages) /\ Len(stack) <= MaxStack
    /\ signins \in Seq(SignIns)
    /\ signout \in [step : {"no", "wait", "auth"}, at : Gone .. MaxStack, alone : BOOLEAN]
    /\ favIdList \in Seq(Gifts) /\ favList \in Seq(Gifts \cup {Hole})
    /\ load \in Loads
    /\ taps \in 0 .. MaxTaps
    /\ \A flag \in {empty, internetError, showLoading, drift, crossed, kept, current} :
          flag \in BOOLEAN

\* The phone's favourites are those of the user it has as uid, and every heart
\* is that of the phone, unless: the sign-in did not get to the favourites or
\* made a new account, or another one came between; the heart was tapped on a
\* page that knew older favourites, while nobody had a session, or the write
\* was refused (_saveToFavorites, the four sign-ins).
FavouritesAgree ==
    /\ uid # NoUser /\ ~ drift => ToSet(favorite) = ToSet(favorites[uid])
    /\ \A k \in DOMAIN stack :
          stack[k].kind = "gift" /\ stack[k].fresh => stack[k].list = favorite

\* When nothing is under way the session is of the user in the preferences,
\* except that who signs in by name gets none: there is none, or if someone was
\* signed in before it is still theirs, and the phone has two users.  Nothing is
\* said after a sign-in that was cut short between the two writes, a signing out
\* that was or that failed, or one of them that met another, until the next that
\* goes through by itself.
SessionAgrees ==
    signins = <<>> /\ signout.step = "no" /\ ~ crossed =>
        \/ currentUser = uid
        \/ /\ uid # NoUser /\ KindOf[uid] = "name"
           /\ currentUser = NoUser \/ kept

\* The favourites page shows every favourite it read in its place, from the last
\* of the list to the first, with holes for removed gifts only; what it read are
\* the favourites until they change.  So the hearts tapped on this phone come the
\* latest first; but the list that a sign-in leaves has the latest first itself
\* (ReadFavourites), and after it the page begins with the oldest.
FavPageComplete ==
    tab = "fav" =>
        /\ Shown => /\ Len(favList) = Len(favIdList)
                    /\ \A k \in DOMAIN favList :
                          \/ favList[k] = Reverse(favIdList)[k]
                          \/ favList[k] = Hole /\ Reverse(favIdList)[k] \in Fickle
        /\ (Shown \/ empty) /\ current => favIdList = favorite
=============================================================================
