---------------------------- MODULE Orders_proof ----------------------------
(***************************************************************************)
(* Proofs about OrderUploads, for any phones, uploads and limit of         *)
(* whereIn, and about OrderForm, for any addresses, vouchers, wrappings,   *)
(* prices, lead time and clock.                                            *)
(***************************************************************************)
EXTENDS OrderUploads, OrderForm, SequenceTheorems, FiniteSetTheorems, TLAPS

(***************************************************************************)
(* Sequences                                                               *)
(***************************************************************************)
LEMMA FrontFacts ==
    ASSUME NEW S, NEW s \in Seq(S), s # <<>>
    PROVE  /\ Front(s) \in Seq(S)
           /\ Len(Front(s)) = Len(s) - 1
           /\ \A i \in 1 .. Len(s) - 1 : Front(s)[i] = s[i]
BY EmptySeq, SubSeqProperties, LenProperties, SMTT(40) DEF Front

LEMMA ReverseFacts ==
    ASSUME NEW S, NEW s \in Seq(S)
    PROVE  /\ Reverse(s) \in Seq(S)
           /\ Len(Reverse(s)) = Len(s)
           /\ \A i \in 1 .. Len(s) : Reverse(s)[i] = s[Len(s) - i + 1]
BY LenProperties DEF Reverse

\* What a sequence of ids lists, with one more, and the other way round.
LEMMA ListedAppend ==
    ASSUME NEW S, NEW s \in Seq(S), NEW e \in S
    PROVE  ToSet(Append(s, e)) = ToSet(s) \cup {e}
BY AppendProperties, LenProperties DEF ToSet

LEMMA ListedReverse ==
    ASSUME NEW S, NEW s \in Seq(S), NEW i \in DOMAIN Reverse(s)
    PROVE  Reverse(s)[i] \in ToSet(s)
BY ReverseFacts, LenProperties DEF ToSet

-----------------------------------------------------------------------------
(***************************************************************************)
(* Types                                                                   *)
(***************************************************************************)
\* A page put on top of a phone's stack
LEMMA PushType ==
    ASSUME TypeOK, NEW p \in Phones, NEW name \in Pages, Push(p, name)
    PROVE  stack' \in [Phones -> Seq(Pages)]
<1>1. Append(stack[p], name) \in Seq(Pages)
  BY AppendProperties DEF TypeOK
<1>2. QED  BY <1>1 DEF TypeOK, Push

\* The awaited write of an upload is answered.
LEMMA GoToType ==
    ASSUME TypeOK, NEW u \in Uploads, NEW next \in PCs, GoTo(u, next)
    PROVE  /\ pc' \in [Uploads -> PCs]
           /\ pc'[u] \in {next, "dead"}
           /\ \A v \in Uploads : v # u => pc'[v] = pc[v]
BY DEF TypeOK, GoTo, PCs, Settled

\* The documents a profile found are no more than the ids it asked for.
LEMMA FoundFacts ==
    ASSUME TypeOK, NEW p \in Phones
    PROVE  /\ Cardinality(Found(p)) \in 0 .. Len(ids[p])
           /\ ToSet(ids[p]) \subseteq orders => Cardinality(Found(p)) = Len(ids[p])
<1>1. /\ ids[p] \in Seq(Uploads)
      /\ Len(ids[p]) \in Nat
      /\ DOMAIN ids[p] = 1 .. Len(ids[p])
  BY LenProperties DEF TypeOK
<1>2. Found(p) \in SUBSET (1 .. Len(ids[p]))
  BY <1>1 DEF Found
<1>3. /\ IsFiniteSet(1 .. Len(ids[p]))
      /\ Cardinality(1 .. Len(ids[p])) = Len(ids[p])
  BY <1>1, FS_Interval
<1>4. Cardinality(Found(p)) \in 0 .. Len(ids[p])
  BY <1>1, <1>2, <1>3, FS_Subset, FS_CardinalityType
<1>5. ToSet(ids[p]) \subseteq orders => Found(p) = 1 .. Len(ids[p])
  BY <1>1 DEF Found, ToSet
<1>6. QED  BY <1>3, <1>4, <1>5

\* The orders the account has already
LEMMA EarlierListed == ToSet(Earlier) \subseteq Uploads
BY EarlierAssumption, LenProperties DEF ToSet

LEMMA InitType == Init => TypeOK
<1> SUFFICES ASSUME Init PROVE TypeOK
  OBVIOUS
<1>1. orders \subseteq Uploads /\ userOrders \in Seq(Uploads)
  BY EarlierListed, EarlierAssumption DEF Init
<1>2. pc \in [Uploads -> PCs]
  BY DEF Init, PCs, Settled
<1>3. QED  BY <1>1, <1>2, EmptySeq DEF Init, TypeOK, Profiles

\* Pages opened and left
LEMMA PageType ==
    ASSUME TypeOK, NEW p \in Phones,
           \/ OpenOrderPage(p) \/ Back(p) \/ Dispose(p) \/ ReturnHome(p) \/ Kill(p)
    PROVE  TypeOK'
<1> USE DEF store, listing
<1>1. CASE OpenOrderPage(p)
  BY <1>1, PushType DEF OpenOrderPage, TypeOK, Pages
<1>2. CASE Back(p)
  <2>1. Front(stack[p]) \in Seq(Pages)
    BY <1>2, FrontFacts DEF Back, TypeOK
  <2>2. QED  BY <1>2, <2>1 DEF Back, TypeOK
<1>3. CASE Dispose(p)
  BY <1>3 DEF Dispose, TypeOK
<1>4. CASE ReturnHome(p)
  <2>1. Len(stack[p]) \in 1 .. Len(stack[p])
    BY <1>4, LenProperties, EmptySeq DEF ReturnHome, Top, TypeOK
  <2>2. [stack[p] EXCEPT ![Len(stack[p])] = "home"] \in Seq(Pages)
    BY <2>1, ExceptSeq DEF TypeOK, Pages
  <2>3. QED  BY <1>4, <2>2 DEF ReturnHome, TypeOK
<1>5. CASE Kill(p)
  <2>1. stack' \in [Phones -> Seq(Pages)]
    BY <1>5, EmptySeq DEF Kill, TypeOK
  <2>2. pc' \in [Uploads -> PCs] /\ owner' \in [Uploads -> {"mounted", "unmounted", "killed"}]
    BY <1>5 DEF Kill, TypeOK, PCs, Settled
  <2>3. profile' \in [Phones -> Profiles]
    BY <1>5 DEF Kill, TypeOK, Profiles
  <2>4. QED  BY <1>5, <2>1, <2>2, <2>3 DEF Kill, TypeOK
<1>6. QED  BY <1>1, <1>2, <1>3, <1>4, <1>5

\* Taps on Submit, and the uploads they start
LEMMA UploadType ==
    ASSUME TypeOK, NEW u \in Uploads,
           \/ \E p \in Phones : Submit(p, u)
           \/ Step(u) \/ UploadFails(u)
    PROVE  TypeOK'
<1> USE DEF store, listing
<1>0. {"add", "link", "acked", "done", "failed"} \subseteq PCs
  BY DEF PCs, Running, Settled
<1>1. ASSUME NEW p \in Phones, Submit(p, u) PROVE TypeOK'
  BY <1>1, <1>0 DEF Submit, TypeOK
<1>2. CASE AddOrder(u)
  BY <1>2, <1>0, GoToType DEF AddOrder, TypeOK
<1>3. CASE LinkOrder(u)
  <2>1. userOrders' \in Seq(Uploads)
    BY <1>3, AppendProperties DEF LinkOrder, TypeOK
  <2>2. QED  BY <1>3, <2>1, <1>0, GoToType DEF LinkOrder, TypeOK
<1>4. CASE Confirm(u)
  <2>1. PhoneOf[u] \in Phones
    BY PhoneOfAssumption
  <2>2. stack' \in [Phones -> Seq(Pages)]
    BY <1>4, <2>1, PushType DEF Confirm, TypeOK, Pages
  <2>3. QED  BY <1>4, <2>2, <1>0 DEF Confirm, TypeOK
<1>5. CASE UploadFails(u)
  BY <1>5, <1>0, GoToType DEF UploadFails, TypeOK
<1>6. QED  BY <1>1, <1>2, <1>3, <1>4, <1>5 DEF Step

\* The profile
LEMMA ProfileType ==
    ASSUME TypeOK, NEW p \in Phones,
           \/ OpenProfile(p) \/ GoOffline(p) \/ Retry(p) \/ GetIds(p)
           \/ GetDocs(p) \/ ProfileFails(p) \/ CloseProfile(p)
    PROVE  TypeOK'
<1> USE DEF store, Profiles
<1>1. CASE OpenProfile(p) \/ GoOffline(p) \/ Retry(p) \/ ProfileFails(p)
  BY <1>1 DEF OpenProfile, GoOffline, Retry, ProfileFails, TypeOK
<1>2. CASE GetIds(p)
  <2>1. Reverse(userOrders) \in Seq(Uploads) /\ <<>> \in Seq(Uploads)
    BY ReverseFacts, EmptySeq DEF TypeOK
  <2>2. QED  BY <1>2, <2>1 DEF GetIds, TypeOK
<1>3. CASE GetDocs(p)
  <2>1. SubSeq(ids[p], 1, Cardinality(Found(p))) \in Seq(Uploads)
    BY FoundFacts, SubSeqProperties, LenProperties DEF TypeOK
  <2>2. QED  BY <1>3, <2>1 DEF GetDocs, TypeOK
<1>4. CASE CloseProfile(p)
  BY <1>4, EmptySeq DEF CloseProfile, TypeOK
<1>5. QED  BY <1>1, <1>2, <1>3, <1>4

LEMMA NextType == TypeOK /\ [Next]_vars => TypeOK'
<1> SUFFICES ASSUME TypeOK, [Next]_vars PROVE TypeOK'
  OBVIOUS
<1>1. CASE UNCHANGED vars
  BY <1>1 DEF vars, store, listing, TypeOK
<1>2. CASE Next
  BY <1>2, PageType, UploadType, ProfileType DEF Next
<1>3. QED  BY <1>1, <1>2

\* Every variable keeps its type: the list holds ids of orders, the stack
\* known pages, and what a profile shows is a list of ids.
THEOREM TypeCorrect == Spec => []TypeOK
BY InitType, NextType, PTL DEF Spec

-----------------------------------------------------------------------------
(***************************************************************************)
(* The two writes.  The place an upload has reached says how far its order *)
(* got; orders are never removed, and only LinkOrder touches the list.     *)
(***************************************************************************)
Stored == \A u \in Uploads : pc[u] \in {"link", "acked", "done"} => u \in orders

StoreInv == /\ Stored
            /\ ConfirmedIsListed
            /\ NoDanglingId
            /\ OrphanHasReason

\* An id put at the end of a list that does not have it yet
LEMMA AppendedOnce ==
    ASSUME NEW S, NEW s \in Seq(S), NEW e \in S \ ToSet(s),
           \A i, j \in DOMAIN s : s[i] = s[j] => i = j
    PROVE  \A i, j \in DOMAIN Append(s, e) : Append(s, e)[i] = Append(s, e)[j] => i = j
<1> DEFINE t == Append(s, e)
<1>1. /\ t \in Seq(S)
      /\ Len(t) = Len(s) + 1
      /\ \A i \in 1 .. Len(s) : t[i] = s[i]
      /\ t[Len(s) + 1] = e
  BY AppendProperties
<1>2. Len(s) \in Nat /\ DOMAIN s = 1 .. Len(s) /\ DOMAIN t = 1 .. Len(s) + 1
  BY <1>1, LenProperties
<1>3. \A i \in 1 .. Len(s) : t[i] # e
  BY <1>1, <1>2 DEF ToSet
<1> HIDE DEF t
<1>4. \A i, j \in DOMAIN t : t[i] = t[j] => i = j
  BY <1>1, <1>2, <1>3
<1>5. QED  BY <1>4 DEF t

\* What the profiles and the pages do leaves the store and pc as they are,
\* but for an app that is killed before its .then.
LEMMA PageStoreInv ==
    ASSUME TypeOK, StoreInv, NEW p \in Phones,
           \/ OpenOrderPage(p) \/ Back(p) \/ Dispose(p) \/ ReturnHome(p) \/ Kill(p)
           \/ OpenProfile(p) \/ GoOffline(p) \/ Retry(p) \/ GetIds(p)
           \/ GetDocs(p) \/ ProfileFails(p) \/ CloseProfile(p)
    PROVE  StoreInv'
<1>1. UNCHANGED store
  BY DEF store, OpenOrderPage, Back, Dispose, ReturnHome, Kill, OpenProfile,
         GoOffline, Retry, GetIds, GetDocs, ProfileFails, CloseProfile
<1>2. \A u \in Uploads : pc'[u] = pc[u] \/ (pc[u] = "acked" /\ pc'[u] = "dead")
  BY DEF TypeOK, OpenOrderPage, Back, Dispose, ReturnHome, Kill, OpenProfile,
         GoOffline, Retry, GetIds, GetDocs, ProfileFails, CloseProfile
<1>3. UNCHANGED <<orders, userOrders, Listed>>
  BY <1>1 DEF store, Listed
<1>4. Stored'
  BY <1>2, <1>3 DEF StoreInv, Stored
<1>5. ConfirmedIsListed'
  BY <1>2, <1>3 DEF StoreInv, ConfirmedIsListed
<1>6. NoDanglingId'
  BY <1>3 DEF StoreInv, NoDanglingId
<1>7. OrphanHasReason'
  BY <1>2, <1>3 DEF StoreInv, OrphanHasReason, TypeOK
<1>8. QED  BY <1>4, <1>5, <1>6, <1>7 DEF StoreInv

LEMMA UploadStoreInv ==
    ASSUME TypeOK, StoreInv, NEW u \in Uploads,
           \/ \E p \in Phones : Submit(p, u)
           \/ Step(u) \/ UploadFails(u)
    PROVE  StoreInv'
<1>0. {"add", "link", "acked", "done", "failed"} \subseteq PCs
  BY DEF PCs, Running, Settled
<1>1. ASSUME NEW p \in Phones, Submit(p, u) PROVE StoreInv'
  <2>1. /\ UNCHANGED <<orders, userOrders, Listed>>
        /\ pc[u] = "idle" /\ pc'[u] = "add"
        /\ \A v \in Uploads : v # u => pc'[v] = pc[v]
    BY <1>1 DEF Submit, store, Listed, TypeOK
  <2>2. QED
    BY <2>1 DEF StoreInv, Stored, ConfirmedIsListed, NoDanglingId,
                OrphanHasReason, TypeOK
<1>2. CASE AddOrder(u)
  <2>1. /\ UNCHANGED <<userOrders, Listed>>
        /\ orders' = orders \cup {u}
        /\ pc'[u] \in {"link", "dead"}
        /\ \A v \in Uploads : v # u => pc'[v] = pc[v]
    BY <1>2, <1>0, GoToType DEF AddOrder, Listed
  <2>2. Stored' /\ ConfirmedIsListed' /\ OrphanHasReason'
    BY <2>1 DEF StoreInv, Stored, ConfirmedIsListed, OrphanHasReason, TypeOK
  <2>3. NoDanglingId'
    BY <2>1 DEF StoreInv, NoDanglingId
  <2>4. QED  BY <2>2, <2>3 DEF StoreInv
<1>3. CASE LinkOrder(u)
  <2>1. userOrders \in Seq(Uploads) /\ u \in orders
    BY <1>3 DEF LinkOrder, TypeOK, StoreInv, Stored
  <2>2. Listed' = Listed \cup {u} /\ orders' = orders
    BY <1>3, <2>1, ListedAppend DEF LinkOrder, Listed
  <2>3. \A i, j \in DOMAIN userOrders' : userOrders'[i] = userOrders'[j] => i = j
    BY <1>3, <2>1, AppendedOnce DEF LinkOrder, Listed, StoreInv, NoDanglingId
  <2>4. pc'[u] \in {"acked", "dead"} /\ \A v \in Uploads : v # u => pc'[v] = pc[v]
    BY <1>3, <1>0, GoToType DEF LinkOrder
  <2>5. NoDanglingId'
    BY <2>1, <2>2, <2>3 DEF StoreInv, NoDanglingId
  <2>6. Stored' /\ ConfirmedIsListed' /\ OrphanHasReason'
    BY <2>1, <2>2, <2>4 DEF StoreInv, Stored, ConfirmedIsListed, OrphanHasReason,
                            TypeOK
  <2>7. QED  BY <2>5, <2>6 DEF StoreInv
<1>4. ASSUME Confirm(u) \/ UploadFails(u) PROVE StoreInv'
  <2>1. UNCHANGED <<orders, userOrders, Listed>>
    BY <1>4 DEF Confirm, UploadFails, store, Listed
  <2>2. /\ \/ pc[u] = "acked" /\ pc'[u] = "done"
           \/ pc[u] \in Running /\ pc'[u] \in {"failed", "dead"}
        /\ \A v \in Uploads : v # u => pc'[v] = pc[v]
    BY <1>4, <1>0, GoToType DEF Confirm, UploadFails, TypeOK
  <2>3. QED
    BY <2>1, <2>2 DEF StoreInv, Stored, ConfirmedIsListed, NoDanglingId,
                      OrphanHasReason, Running, TypeOK
<1>5. QED  BY <1>1, <1>2, <1>3, <1>4 DEF Step

LEMMA NextStoreInv == TypeOK /\ StoreInv /\ [Next]_vars => StoreInv'
<1> SUFFICES ASSUME TypeOK, StoreInv, [Next]_vars PROVE StoreInv'
  OBVIOUS
<1>1. CASE UNCHANGED vars
  BY <1>1 DEF vars, store, StoreInv, Stored, ConfirmedIsListed, NoDanglingId,
              OrphanHasReason, Listed
<1>2. CASE Next
  BY <1>2, PageStoreInv, UploadStoreInv DEF Next
<1>3. QED  BY <1>1, <1>2

LEMMA InitStoreInv == Init => StoreInv
<1> SUFFICES ASSUME Init PROVE StoreInv
  OBVIOUS
<1>1. orders = ToSet(Earlier) /\ Listed = ToSet(Earlier)
  BY DEF Init, Listed
<1>2. \A u \in Uploads : pc[u] \in {"link", "acked", "done"} => u \in ToSet(Earlier)
  BY DEF Init
<1>3. NoDanglingId
  BY <1>1, EarlierAssumption DEF Init, NoDanglingId
<1>4. Stored /\ ConfirmedIsListed /\ OrphanHasReason
  BY <1>1, <1>2 DEF Stored, ConfirmedIsListed, OrphanHasReason
<1>5. QED  BY <1>3, <1>4 DEF StoreInv

LEMMA Stores == Spec => []StoreInv
<1>1. QED  BY InitStoreInv, InitType, NextType, NextStoreInv, PTL DEF Spec

\* The list of the user names only orders that exist, each once, whatever
\* uploads overlap, fail or lose their app.
THEOREM IdsExist == Spec => []NoDanglingId
<1>1. StoreInv => NoDanglingId
  BY DEF StoreInv
<1>2. QED  BY <1>1, Stores, PTL

\* The confirmation is shown for an order that is stored and listed.
THEOREM ConfirmedListed == Spec => []ConfirmedIsListed
<1>1. StoreInv => ConfirmedIsListed
  BY DEF StoreInv
<1>2. QED  BY <1>1, Stores, PTL

\* An order missing from the list belongs to an upload that still runs, has
\* failed or lost its app.
THEOREM OrphansExplained == Spec => []OrphanHasReason
<1>1. StoreInv => OrphanHasReason
  BY DEF StoreInv
<1>2. QED  BY <1>1, Stores, PTL

-----------------------------------------------------------------------------
(***************************************************************************)
(* The profile.  Between its two reads orders are only added, so what the  *)
(* first one listed the second one finds.                                  *)
(***************************************************************************)
IdsStored == \A p \in Phones : profile[p] = "docs" => ToSet(ids[p]) \subseteq orders

ProfileInv == IdsStored /\ ProfileComplete

\* All the documents are found: no index is past the end of the list.
LEMMA NonePastEnd ==
    ASSUME TypeOK, NEW p \in Phones, ToSet(ids[p]) \subseteq orders
    PROVE  /\ ~ PastEnd(p)
           /\ SubSeq(ids[p], 1, Cardinality(Found(p))) = ids[p]
<1>1. /\ ids[p] \in Seq(Uploads)
      /\ Len(ids[p]) \in Nat
      /\ DOMAIN ids[p] = 1 .. Len(ids[p])
  BY LenProperties DEF TypeOK
<1>2. Cardinality(Found(p)) = Len(ids[p])
  BY FoundFacts
<1>3. ~ PastEnd(p)
  BY <1>1, <1>2 DEF PastEnd, Found
<1>4. QED  BY <1>1, <1>2, <1>3, SubSeqFull

\* A step that takes no profile further keeps what they have read.
LEMMA ListingKept ==
    ASSUME ProfileInv, orders \subseteq orders', UNCHANGED <<ids, preOrders>>,
           \A p \in Phones : profile'[p] \in {profile[p], "closed", "ids",
                                             "offline", "failed"}
    PROVE  ProfileInv'
BY DEF ProfileInv, IdsStored, ProfileComplete

LEMMA NextProfileInv == TypeOK /\ StoreInv /\ ProfileInv /\ [Next]_vars => ProfileInv'
<1> SUFFICES ASSUME TypeOK, StoreInv, ProfileInv, [Next]_vars PROVE ProfileInv'
  OBVIOUS
<1>1. CASE UNCHANGED vars
  BY <1>1 DEF vars, store, listing, ProfileInv, IdsStored, ProfileComplete
<1>2. ASSUME NEW u \in Uploads,
             \/ \E p \in Phones : Submit(p, u)
             \/ Step(u) \/ UploadFails(u)
      PROVE  ProfileInv'
  <2>1. orders \subseteq orders' /\ UNCHANGED listing
    BY <1>2 DEF Submit, Step, AddOrder, LinkOrder, Confirm, UploadFails, store
  <2>2. QED  BY <2>1, ListingKept DEF listing
<1>3. ASSUME NEW p \in Phones,
             \/ OpenOrderPage(p) \/ Back(p) \/ Dispose(p) \/ ReturnHome(p)
             \/ OpenProfile(p) \/ GoOffline(p) \/ Retry(p) \/ ProfileFails(p)
      PROVE  ProfileInv'
  <2>1. UNCHANGED <<orders, ids, preOrders>>
    BY <1>3 DEF OpenOrderPage, Back, Dispose, ReturnHome, OpenProfile,
                GoOffline, Retry, ProfileFails, store, listing
  <2>2. \A q \in Phones : profile'[q] \in {profile[q], "closed", "ids",
                                            "offline", "failed"}
    BY <1>3 DEF OpenOrderPage, Back, Dispose, ReturnHome, OpenProfile,
                GoOffline, Retry, ProfileFails, listing, TypeOK
  <2>3. QED  BY <2>1, <2>2, ListingKept
<1>4. ASSUME NEW p \in Phones, GetIds(p) PROVE ProfileInv'
  <2>1. /\ userOrders \in Seq(Uploads)
        /\ ToSet(userOrders) \subseteq orders
    BY DEF TypeOK, StoreInv, NoDanglingId, Listed
  <2>2. ToSet(Reverse(userOrders)) \subseteq orders
    BY <2>1, ListedReverse DEF ToSet
  <2>3. userOrders = <<>> => Reverse(userOrders) = <<>>
    BY <2>1, ReverseFacts, EmptySeq
  <2>4. /\ ids' = [ids EXCEPT ![p] = Reverse(userOrders)]
        /\ preOrders' = [preOrders EXCEPT ![p] = <<>>]
        /\ profile' = [profile EXCEPT ![p] =
                         IF userOrders = <<>> THEN "shown" ELSE "docs"]
        /\ orders' = orders
    BY <1>4 DEF GetIds, store
  <2>5. QED
    BY <2>2, <2>3, <2>4 DEF ProfileInv, IdsStored, ProfileComplete, TypeOK
<1>5. ASSUME NEW p \in Phones, GetDocs(p) PROVE ProfileInv'
  <2>1. ToSet(ids[p]) \subseteq orders
    BY <1>5 DEF GetDocs, ProfileInv, IdsStored
  <2>2. /\ profile' \in {[profile EXCEPT ![p] = "query_error"],
                          [profile EXCEPT ![p] = "shown"]}
        /\ preOrders' \in {preOrders, [preOrders EXCEPT ![p] = ids[p]]}
        /\ profile'[p] = "shown" => preOrders'[p] = ids[p]
        /\ UNCHANGED <<orders, ids>>
    BY <1>5, <2>1, NonePastEnd DEF GetDocs, store, TypeOK
  <2>3. QED  BY <2>2 DEF ProfileInv, IdsStored, ProfileComplete, TypeOK
<1>6. ASSUME NEW p \in Phones, CloseProfile(p) \/ Kill(p) PROVE ProfileInv'
  BY <1>6 DEF CloseProfile, Kill, store, ProfileInv, IdsStored, ProfileComplete, TypeOK
<1>7. QED  BY <1>1, <1>2, <1>3, <1>4, <1>5, <1>6 DEF Next

\* The profile never indexes past the end of its list and shows every order
\* it was told of, although it reads the ids and the orders one after the
\* other while phones place more.
THEOREM ProfileSound == Spec => []ProfileComplete
<1>1. Init => ProfileInv
  BY DEF Init, ProfileInv, IdsStored, ProfileComplete
<1>2. ProfileInv => ProfileComplete
  BY DEF ProfileInv
<1>3. QED
  BY <1>1, <1>2, InitType, NextType, Stores, NextProfileInv, PTL DEF Spec

-----------------------------------------------------------------------------
(***************************************************************************)
(* The confirmation.  Back may uncover one that lies deeper in the stack,  *)
(* so every one in it must stand for a confirmed upload.                   *)
(***************************************************************************)
Placed(p) == \E u \in Uploads : PhoneOf[u] = p /\ pc[u] = "done" /\ u \in Listed

StackBacked == \A p \in Phones : \A i \in DOMAIN stack[p] :
    stack[p][i] = "placed" => Placed(p)

\* A confirmed upload stays confirmed, its order listed.
LEMMA PlacedKept ==
    ASSUME TypeOK, [Next]_vars, NEW p \in Phones, Placed(p)
    PROVE  Placed(p)'
<1>1. Listed \subseteq Listed'
  <2>1. ASSUME NEW u \in Uploads, LinkOrder(u) PROVE Listed \subseteq Listed'
    BY <2>1, ListedAppend DEF LinkOrder, Listed, TypeOK
  <2>2. CASE UNCHANGED userOrders
    BY <2>2 DEF Listed
  <2>3. QED
    BY <2>1, <2>2 DEF Next, vars, store, OpenOrderPage, Back, Dispose,
       ReturnHome, Kill, OpenProfile, GoOffline, Retry, GetIds, GetDocs,
       ProfileFails, CloseProfile, Submit, Step, AddOrder, Confirm, UploadFails
<1>2. \A u \in Uploads : pc[u] = "done" => pc'[u] = "done"
  BY DEF Next, vars, TypeOK, OpenOrderPage, Back, Dispose, ReturnHome, Kill,
     OpenProfile, GoOffline, Retry, GetIds, GetDocs, ProfileFails, CloseProfile,
     Submit, Step, AddOrder, LinkOrder, Confirm, UploadFails, GoTo, Running
<1>3. QED  BY <1>1, <1>2 DEF Placed

\* A page that is not a confirmation, put on top or in the place of the last
LEMMA NextStackBacked ==
    TypeOK /\ StoreInv /\ StackBacked /\ [Next]_vars => StackBacked'
<1> SUFFICES ASSUME TypeOK, StoreInv, StackBacked, [Next]_vars,
                    NEW p \in Phones, NEW i \in DOMAIN stack'[p],
                    stack'[p][i] = "placed"
             PROVE  Placed(p)'
  BY DEF StackBacked
<1>0. /\ stack[p] \in Seq(Pages) /\ Len(stack[p]) \in Nat
      /\ DOMAIN stack[p] = 1 .. Len(stack[p])
  BY LenProperties DEF TypeOK
<1>1. CASE i \in DOMAIN stack[p] /\ stack'[p][i] = stack[p][i]
  BY <1>1, PlacedKept DEF StackBacked
<1>2. CASE ~ (i \in DOMAIN stack[p] /\ stack'[p][i] = stack[p][i])
  <2>1. PICK q \in Phones :
           \/ OpenOrderPage(q) \/ Back(q) \/ ReturnHome(q) \/ Kill(q)
           \/ \E u \in Uploads : Confirm(u) /\ PhoneOf[u] = q
    BY <1>2, PhoneOfAssumption DEF Next, vars, Dispose, OpenProfile, GoOffline,
       Retry, GetIds, GetDocs, ProfileFails, CloseProfile, Submit, Step,
       AddOrder, LinkOrder, UploadFails
  <2>2. CASE OpenOrderPage(q)
    <3>1. "order" \in Pages
      BY DEF Pages
    <3>2. stack'[p] = stack[p] \/ stack'[p] = Append(stack[p], "order")
      BY <2>2 DEF OpenOrderPage, Push, TypeOK
    <3>3. QED  BY <1>0, <1>2, <3>1, <3>2, AppendProperties, LenProperties
  <2>3. CASE Back(q)
    <3>1. stack'[p] = stack[p] \/ (stack[p] # <<>> /\ stack'[p] = Front(stack[p]))
      BY <2>3 DEF Back, TypeOK
    <3>2. stack[p] # <<>> => DOMAIN Front(stack[p]) = 1 .. Len(stack[p]) - 1
      BY <1>0, FrontFacts, LenProperties
    <3>3. QED  BY <1>0, <1>2, <3>1, <3>2, FrontFacts, SMTT(40)
  <2>4. CASE ReturnHome(q)
    BY <1>2, <2>4 DEF ReturnHome, TypeOK
  <2>5. CASE Kill(q)
    BY <1>2, <2>5 DEF Kill, TypeOK
  <2>6. ASSUME NEW u \in Uploads, Confirm(u), PhoneOf[u] = q PROVE Placed(p)'
    <3>1. p = q
      BY <1>2, <2>6 DEF Confirm, Push, TypeOK
    <3>2. pc'[u] = "done" /\ u \in Listed'
      BY <2>6 DEF Confirm, TypeOK, StoreInv, ConfirmedIsListed, store, Listed
    <3>3. QED  BY <2>6, <3>1, <3>2 DEF Placed
  <2>7. QED  BY <2>1, <2>2, <2>3, <2>4, <2>5, <2>6
<1>3. QED  BY <1>1, <1>2

\* A phone shows the confirmation, however the user came back to it, only
\* when one of its uploads was confirmed and its order is listed.
THEOREM PlacedBacked == Spec => []PlacedIsBacked
<1>1. Init => StackBacked
  BY DEF Init, StackBacked
<1>2. TypeOK /\ StackBacked => PlacedIsBacked
  <2> SUFFICES ASSUME TypeOK, StackBacked, NEW p \in Phones, Top(p) = "placed"
               PROVE  Placed(p)
    BY DEF PlacedIsBacked, Placed
  <2>1. Len(stack[p]) \in DOMAIN stack[p] /\ stack[p][Len(stack[p])] = "placed"
    BY EmptySeq, LenProperties DEF Top, Last, TypeOK
  <2>2. QED  BY <2>1 DEF StackBacked
<1>3. QED
  BY <1>1, <1>2, InitType, NextType, Stores, NextStackBacked, PTL DEF Spec

-----------------------------------------------------------------------------
(***************************************************************************)
(* The promise.  What a profile shows was the whole list when it read the  *)
(* ids; the list has only grown at its end since.                          *)
(***************************************************************************)
Newest(s, n) == Reverse(SubSeq(s, 1, n))

IdsWereList == \A p \in Phones : profile[p] = "docs" =>
    \E n \in 1 .. Len(userOrders) : ids[p] = Newest(userOrders, n)

PromiseInv == TypeOK /\ StoreInv /\ ProfileInv /\ IdsWereList

\* What the list was stays its beginning.
LEMMA BeginningKept ==
    ASSUME NEW S, NEW s \in Seq(S), NEW e \in S, NEW n \in 1 .. Len(s)
    PROVE  /\ n \in 1 .. Len(Append(s, e))
           /\ Newest(Append(s, e), n) = Newest(s, n)
<1>1. /\ Append(s, e) \in Seq(S)
      /\ Len(Append(s, e)) = Len(s) + 1
      /\ \A i \in 1 .. Len(s) : Append(s, e)[i] = s[i]
  BY AppendProperties
<1>2. Len(s) \in Nat
  BY LenProperties
<1>3. SubSeq(Append(s, e), 1, n) = [i \in 1 .. n |-> Append(s, e)[i]]
  BY <1>1, <1>2
<1>4. SubSeq(s, 1, n) = [i \in 1 .. n |-> s[i]]
  BY <1>2
<1>5. SubSeq(Append(s, e), 1, n) = SubSeq(s, 1, n)
  BY <1>1, <1>2, <1>3, <1>4
<1>6. Newest(Append(s, e), n) = Newest(s, n)
  BY <1>5 DEF Newest
<1>7. n \in 1 .. Len(Append(s, e))
  BY <1>1, <1>2
<1>8. QED  BY <1>6, <1>7

LEMMA NextIdsWereList ==
    TypeOK /\ IdsWereList /\ [Next]_vars => IdsWereList'
<1> SUFFICES ASSUME TypeOK, IdsWereList, [Next]_vars,
                    NEW p \in Phones, profile'[p] = "docs"
             PROVE  \E n \in 1 .. Len(userOrders') : ids'[p] = Newest(userOrders', n)
  BY DEF IdsWereList
<1>1. CASE UNCHANGED <<userOrders, profile[p], ids[p]>>
  BY <1>1 DEF IdsWereList
<1>2. ASSUME NEW u \in Uploads, LinkOrder(u) PROVE
      \E n \in 1 .. Len(userOrders') : ids'[p] = Newest(userOrders', n)
  <2>1. UNCHANGED <<profile, ids>>
    BY <1>2 DEF LinkOrder, listing
  <2>2. PICK n \in 1 .. Len(userOrders) : ids[p] = Newest(userOrders, n)
    BY <2>1 DEF IdsWereList
  <2>3. CASE UNCHANGED userOrders
    BY <2>1, <2>2, <2>3
  <2>4. CASE userOrders' = Append(userOrders, u)
    BY <2>1, <2>2, <2>4, BeginningKept DEF TypeOK
  <2>5. QED  BY <1>2, <2>3, <2>4 DEF LinkOrder
<1>3. CASE GetIds(p)
  <2>1. userOrders' = userOrders /\ userOrders # <<>> /\ ids'[p] = Reverse(userOrders)
    BY <1>3 DEF GetIds, store, TypeOK
  <2>2. /\ userOrders \in Seq(Uploads)
        /\ Len(userOrders) \in 1 .. Len(userOrders)
    BY <2>1, EmptySeq, LenProperties DEF TypeOK
  <2>3. SubSeq(userOrders, 1, Len(userOrders)) = userOrders
    BY <2>2, SubSeqFull
  <2>4. QED  BY <2>1, <2>2, <2>3 DEF Newest
<1>4. CASE ~ \E u \in Uploads : LinkOrder(u)
  <2>1. CASE GetIds(p)
    BY <1>3, <2>1
  <2>2. CASE ~ GetIds(p)
    <3>1. UNCHANGED <<userOrders, profile[p], ids[p]>>
      BY <1>4, <2>2 DEF Next, vars, store, listing, TypeOK, OpenOrderPage, Back,
         Dispose, ReturnHome, Kill, OpenProfile, GoOffline, Retry, GetIds,
         GetDocs, ProfileFails, CloseProfile, Submit, Step, AddOrder, Confirm,
         UploadFails
    <3>2. QED  BY <1>1, <3>1
  <2>3. QED  BY <2>1, <2>2
<1>5. QED  BY <1>2, <1>4

\* What the user is told changes with Confirm only.
LEMMA ToldKept ==
    ASSUME TypeOK, Next, ~ \E u \in Uploads : Confirm(u)
    PROVE  UNCHANGED Told
<1>1. \A u \in Uploads : pc'[u] = "done" <=> pc[u] = "done"
  BY DEF Next, TypeOK, OpenOrderPage, Back, Dispose, ReturnHome, Kill,
     OpenProfile, GoOffline, Retry, GetIds, GetDocs, ProfileFails, CloseProfile,
     Submit, Step, AddOrder, LinkOrder, UploadFails, GoTo, Running
<1>2. QED  BY <1>1 DEF Told

\* The uploads change nothing on the profiles.
LEMMA UploadPromise ==
    ASSUME PromiseInv, Next, NEW u \in Uploads,
           \/ \E p \in Phones : Submit(p, u)
           \/ Step(u) \/ UploadFails(u)
    PROVE  [Promise!Next]_(Promise!vars)
<1>1. UNCHANGED OnScreen
  BY DEF OnScreen, listing, Submit, Step, AddOrder, LinkOrder, Confirm, UploadFails
<1>2. CASE AddOrder(u)
  <2>1. UNCHANGED <<userOrders, Told>> /\ orders' = orders \cup {u}
    BY <1>2, ToldKept DEF AddOrder, Confirm, PromiseInv, Told, TypeOK, GoTo
  <2>2. CASE u \in orders
    BY <1>1, <2>1, <2>2 DEF Promise!vars
  <2>3. CASE u \notin orders
    BY <1>1, <2>1, <2>3 DEF Promise!Next, Promise!Store
  <2>4. QED  BY <2>2, <2>3
<1>3. CASE LinkOrder(u)
  <2>1. u \in orders
    BY <1>3 DEF LinkOrder, PromiseInv, StoreInv, Stored
  <2>2. UNCHANGED <<orders, Told>>
    BY <1>3 DEF LinkOrder, PromiseInv, Told, TypeOK, GoTo
  <2>3. CASE u \in Listed
    BY <1>1, <1>3, <2>2, <2>3 DEF LinkOrder, Promise!vars
  <2>4. CASE u \notin Listed
    BY <1>1, <1>3, <2>1, <2>2, <2>4
       DEF LinkOrder, Listed, ToSet, Promise!Next, Promise!List, Promise!ToSet
  <2>5. QED  BY <2>3, <2>4
<1>4. CASE Confirm(u)
  <2>1. u \in Listed /\ u \notin Told
    BY <1>4 DEF Confirm, PromiseInv, StoreInv, ConfirmedIsListed, Told
  <2>2. UNCHANGED <<orders, userOrders>> /\ Told' = Told \cup {u}
    BY <1>4 DEF Confirm, store, PromiseInv, Told, TypeOK
  <2>3. QED
    BY <1>1, <2>1, <2>2 DEF Listed, ToSet, Promise!Next, Promise!Tell, Promise!ToSet
<1>5. CASE UploadFails(u) \/ \E p \in Phones : Submit(p, u)
  <2>1. UNCHANGED <<orders, userOrders>>
    BY <1>5 DEF UploadFails, Submit, store
  <2>2. UNCHANGED Told
    BY <1>5 DEF UploadFails, Submit, PromiseInv, Told, TypeOK, GoTo, Running
  <2>3. QED  BY <1>1, <2>1, <2>2 DEF Promise!vars
<1>6. QED  BY <1>2, <1>3, <1>4, <1>5 DEF Step

\* The pages and the profile change nothing that is stored.
LEMMA PagePromise ==
    ASSUME PromiseInv, NEW p \in Phones,
           \/ OpenOrderPage(p) \/ Back(p) \/ Dispose(p) \/ ReturnHome(p) \/ Kill(p)
           \/ OpenProfile(p) \/ GoOffline(p) \/ Retry(p) \/ GetIds(p)
           \/ GetDocs(p) \/ ProfileFails(p) \/ CloseProfile(p)
    PROVE  [Promise!Next]_(Promise!vars)
<1> USE DEF PromiseInv
<1>1. UNCHANGED <<orders, userOrders>>
  BY DEF store, OpenOrderPage, Back, Dispose, ReturnHome, Kill, OpenProfile,
         GoOffline, Retry, GetIds, GetDocs, ProfileFails, CloseProfile
<1>2. UNCHANGED Told
  BY DEF Told, TypeOK, OpenOrderPage, Back, Dispose, ReturnHome, Kill, OpenProfile,
         GoOffline, Retry, GetIds, GetDocs, ProfileFails, CloseProfile
<1>3. CASE UNCHANGED OnScreen
  BY <1>1, <1>2, <1>3 DEF Promise!vars
<1>4. CASE \/ OpenOrderPage(p) \/ Back(p) \/ Dispose(p) \/ ReturnHome(p)
           \/ OpenProfile(p) \/ GoOffline(p) \/ Retry(p) \/ ProfileFails(p)
  <2>1. UNCHANGED OnScreen
    BY <1>4 DEF OnScreen, TypeOK, listing, OpenOrderPage, Back, Dispose,
                ReturnHome, OpenProfile, GoOffline, Retry, ProfileFails
  <2>2. QED  BY <1>3, <2>1
<1>5. CASE Kill(p) \/ CloseProfile(p)
  <2>1. OnScreen' = [OnScreen EXCEPT ![p] = <<>>]
    BY <1>5 DEF OnScreen, TypeOK, Kill, CloseProfile
  <2>2. QED  BY <1>1, <1>2, <2>1 DEF Promise!Next, Promise!Leave
<1>6. CASE GetIds(p)
  <2>1. UNCHANGED OnScreen
    BY <1>6 DEF OnScreen, TypeOK, GetIds
  <2>2. QED  BY <1>3, <2>1
<1>7. CASE GetDocs(p)
  <2>1. ToSet(ids[p]) \subseteq orders
    BY <1>7 DEF GetDocs, ProfileInv, IdsStored
  <2>2. PICK n \in 1 .. Len(userOrders) : ids[p] = Newest(userOrders, n)
    BY <1>7 DEF GetDocs, IdsWereList
  <2>3. \/ UNCHANGED OnScreen
        \/ OnScreen' = [OnScreen EXCEPT ![p] = ids[p]]
    BY <1>7, <2>1, NonePastEnd DEF GetDocs, OnScreen, TypeOK
  <2>4. CASE OnScreen' = [OnScreen EXCEPT ![p] = ids[p]]
    BY <1>1, <1>2, <2>2, <2>4
       DEF Newest, Reverse, Promise!Next, Promise!Show, Promise!Newest,
           Promise!Reverse
  <2>5. QED  BY <1>3, <2>3, <2>4
<1>8. QED  BY <1>4, <1>5, <1>6, <1>7

\* Placing orders keeps what Placing promises: an order is stored, then
\* listed, then confirmed, and a profile shows the list as it was once.
THEOREM ImplementsPlacing == Spec => PromiseKept
<1>1. Init => Promise!Init
  <2> SUFFICES ASSUME Init PROVE Promise!Init
    OBVIOUS
  <2>1. Told = ToSet(Earlier)
    BY EarlierListed DEF Init, Told
  <2>2. QED  BY <2>1 DEF Init, OnScreen, ToSet, Promise!Init, Promise!ToSet
<1>2. Init => PromiseInv
  BY InitType, InitStoreInv DEF Init, PromiseInv, ProfileInv, IdsStored,
     ProfileComplete, IdsWereList
<1>3. PromiseInv /\ [Next]_vars => PromiseInv'
  BY NextType, NextStoreInv, NextProfileInv, NextIdsWereList DEF PromiseInv
<1>4. PromiseInv /\ [Next]_vars => [Promise!Next]_(Promise!vars)
  <2> SUFFICES ASSUME PromiseInv, [Next]_vars
               PROVE  [Promise!Next]_(Promise!vars)
    OBVIOUS
  <2>1. CASE UNCHANGED vars
    BY <2>1 DEF vars, store, listing, Told, OnScreen, Promise!vars
  <2>2. CASE Next
    BY <2>2, UploadPromise, PagePromise DEF Next
  <2>3. QED  BY <2>1, <2>2
<1>5. QED  BY <1>1, <1>2, <1>3, <1>4, PTL DEF Spec, PromiseKept, Promise!Spec

-----------------------------------------------------------------------------
(***************************************************************************)
(* The form: types                                                         *)
(***************************************************************************)
LEMMA NewFormType == NewForm \in Forms
BY FormAssumption DEF NewForm, Forms

LEMMA LoadedType ==
    ASSUME FormTypeOK, NEW f \in Forms
    PROVE  Loaded(f) \in Forms
<1>1. today + Lead \in Nat /\ today + Lead + 1 \in Nat /\ today \in Nat
  BY FormAssumption DEF FormTypeOK
<1>2. QED  BY <1>1, FormAssumption DEF Loaded, Forms, FormTypeOK

LEMMA RedeemedType ==
    ASSUME NEW f \in Forms, NEW c \in Codes \cup {NoCode}, NEW d \in Discounts \cup {0}
    PROVE  Redeemed(f, c, d) \in Forms
<1> DEFINE v == IF d # 0 THEN 1 ELSE 0
<1>1. v \in 0 .. 2
  OBVIOUS
<1>2. Redeemed(f, c, d) = [f EXCEPT !.correctVoucher = v, !.discount = d, !.code = c]
  BY DEF Redeemed
<1> HIDE DEF v
<1>3. QED  BY <1>1, <1>2 DEF Forms

\* What Submit passes on as the discount
LEMMA DiscountType ==
    ASSUME NEW f \in Forms
    PROVE  LET d == IF f.correctVoucher = 1 THEN f.discount ELSE 0
           IN  d \in Discounts \cup {0} /\ d \in Int
<1> DEFINE d == IF f.correctVoucher = 1 THEN f.discount ELSE 0
<1>1. f.discount \in Discounts \cup {0}
  BY DEF Forms
<1>2. d \in Discounts \cup {0}
  BY <1>1
<1>3. \A x \in Discounts \cup {0} : x \in Int
  BY FormAssumption
<1>4. QED  BY <1>2, <1>3

LEMMA TotalType ==
    ASSUME NEW f \in Forms
    PROVE  Total(f) \in Int
<1>1. WrappingPrice[f.wrapping] \in Nat
  BY FormAssumption DEF Forms
<1>2. QED  BY <1>1, DiscountType, FormAssumption DEF Total

LEMMA OrderedType ==
    ASSUME FormTypeOK, NEW f \in Forms, f.address # NoAddress
    PROVE  Ordered(f) \in Orders
<1> DEFINE d == IF f.correctVoucher = 1 THEN f.discount ELSE 0
<1>1. d \in Discounts \cup {0}
  BY DiscountType
<1>2. WrappingPrice[f.wrapping] \in Nat
  BY FormAssumption DEF Forms
<1>3. total \in Int /\ needsBuild \in BOOLEAN
  BY DEF FormTypeOK
<1>4. f.address \in Addresses /\ f.code \in Codes \cup {NoCode}
      /\ f.day \in Nat /\ f.loadDay \in Nat
  BY DEF Forms
<1>5. QED  BY <1>1, <1>2, <1>3, <1>4 DEF Ordered, Orders

LEMMA InitFormType == FormInit => FormTypeOK
<1> SUFFICES ASSUME FormInit PROVE FormTypeOK
  OBVIOUS
<1>1. NoVouchers \in [Codes -> Discounts \cup {0}]
  BY DEF NoVouchers
<1>2. /\ view = "closed" /\ loading = FALSE /\ fetches = 0
      /\ vouchersList = NoVouchers /\ page = NewForm
      /\ total = 0 /\ needsBuild = FALSE /\ formBuilt = FALSE
      /\ prefs \in Addresses \cup {NoAddress} /\ order = NoOrder
      /\ offered \in [Codes -> Discounts \cup {0}] /\ today = 0
  BY DEF FormInit
<1>3. vouchersList \in [Codes -> Discounts \cup {0}] /\ page \in Forms
  BY <1>1, <1>2, NewFormType
<1>4. needsBuild \in BOOLEAN /\ formBuilt \in BOOLEAN /\ loading \in BOOLEAN
  BY <1>2, Zenon
<1>5. order \in Orders \cup {NoOrder}
      /\ view \in {"closed", "order", "address", "placed"}
  BY <1>2
<1>6. total \in Int
  BY <1>2
<1>7. fetches \in Nat /\ today \in Nat
  BY <1>2
<1>8. QED  BY <1>2, <1>3, <1>4, <1>5, <1>6, <1>7 DEF FormTypeOK

\* A change of the form by hand, and whether it is drawn
LEMMA EditType ==
    ASSUME FormTypeOK, NEW f \in Forms, Edit(f), SetState \/ UNCHANGED screen
    PROVE  FormTypeOK'
BY DEF Edit, SetState, screen, FormTypeOK, world

\* Each tap on the form leaves a form.
LEMMA TapType ==
    ASSUME FormTypeOK,
           \/ \E w \in Wrappings : ChooseWrapping(w)
           \/ \E c \in Codes \cup {NoCode} : Redeem(c)
           \/ RedeemNothing \/ DeliverNow \/ DeliverLater \/ PickTime
           \/ \E d \in 0 .. MaxDay + Lead + 1 : PickDate(d)
    PROVE  FormTypeOK'
<1>0. page \in Forms /\ today + Lead \in Nat
  BY FormAssumption DEF FormTypeOK
<1>1. ASSUME NEW w \in Wrappings, ChooseWrapping(w) PROVE FormTypeOK'
  <2>1. [page EXCEPT !.wrapping = w] \in Forms  BY <1>0 DEF Forms
  <2>2. QED  BY <1>1, <2>1, EditType DEF ChooseWrapping
<1>2. ASSUME NEW c \in Codes \cup {NoCode}, Redeem(c) PROVE FormTypeOK'
  <2>1. (IF c = NoCode THEN 0 ELSE vouchersList[c]) \in Discounts \cup {0}
    BY FormAssumption DEF FormTypeOK
  <2>2. QED  BY <1>0, <1>2, <2>1, RedeemedType, EditType DEF Redeem
<1>3. CASE RedeemNothing
  <2>1. [page EXCEPT !.correctVoucher = 2, !.discount = 0, !.code = NoCode] \in Forms
    <3>1. 2 \in 0 .. 2 /\ 0 \in Discounts \cup {0} /\ NoCode \in Codes \cup {NoCode}
      OBVIOUS
    <3>2. QED  BY <1>0, <3>1 DEF Forms
  <2>2. QED  BY <1>3, <2>1, EditType DEF RedeemNothing, Unredeemed
<1>4. CASE DeliverNow
  <2>1. [page EXCEPT !.delNow = TRUE, !.day = today + Lead] \in Forms
    BY <1>0 DEF Forms
  <2>2. QED  BY <1>4, <2>1, EditType DEF DeliverNow
<1>5. CASE DeliverLater
  <2>1. [page EXCEPT !.delNow = FALSE] \in Forms  BY <1>0 DEF Forms
  <2>2. QED  BY <1>5, <2>1, EditType DEF DeliverLater
<1>6. CASE PickTime
  <2>1. [page EXCEPT !.day = today + Lead] \in Forms  BY <1>0 DEF Forms
  <2>2. QED  BY <1>6, <2>1, EditType DEF PickTime
<1>7. ASSUME NEW d \in 0 .. MaxDay + Lead + 1, PickDate(d) PROVE FormTypeOK'
  <2>1. d \in Nat  BY FormAssumption
  <2>2. [page EXCEPT !.day = d] \in Forms  BY <1>0, <2>1 DEF Forms
  <2>3. QED  BY <1>7, <2>2, EditType DEF PickDate
<1>8. QED  BY <1>1, <1>2, <1>3, <1>4, <1>5, <1>6, <1>7

LEMMA NextFormType == FormTypeOK /\ [FormNext]_formVars => FormTypeOK'
<1> SUFFICES ASSUME FormTypeOK, [FormNext]_formVars PROVE FormTypeOK'
  OBVIOUS
<1>1. CASE Open
  BY <1>1, NewFormType, LoadedType DEF Open, FormTypeOK, world, screen, SetState
<1>2. CASE VouchersArrive
  <2>1. vouchersList' \in [Codes -> Discounts \cup {0}]
    BY <1>2 DEF VouchersArrive, FormTypeOK
  <2>2. fetches' \in Nat
    BY <1>2 DEF VouchersArrive, FormTypeOK
  <2>3. QED  BY <1>2, <2>1, <2>2 DEF VouchersArrive, FormTypeOK, world, screen, SetState
<1>3. CASE Close
  <2>1. vouchersList' \in [Codes -> Discounts \cup {0}] /\ page' \in Forms
    BY <1>3, NewFormType DEF Close, NoVouchers
  <2>2. needsBuild' \in BOOLEAN /\ formBuilt' \in BOOLEAN /\ loading' \in BOOLEAN
    BY <1>3, Zenon DEF Close
  <2>3. order' \in Orders \cup {NoOrder}
        /\ view' \in {"closed", "order", "address", "placed"}
    BY <1>3 DEF Close
  <2>4. total' \in Int
    BY <1>3 DEF Close
  <2>5. fetches' \in Nat
    BY <1>3 DEF Close
  <2>6. QED  BY <1>3, <2>1, <2>2, <2>3, <2>4, <2>5 DEF Close, FormTypeOK, world
<1>4. CASE OpenAddress
  BY <1>4 DEF OpenAddress, FormTypeOK, world, screen, SetState
<1>5. CASE Refresh
  BY <1>5, LoadedType DEF Refresh, FormTypeOK, world, screen, SetState
<1>6. ASSUME NEW a \in Addresses, SaveAddress(a) PROVE FormTypeOK'
  BY <1>6 DEF SaveAddress, FormTypeOK, world, screen, SetState
<1>7. CASE SubmitForm
  <2>1. page.address # NoAddress => Ordered(page) \in Orders
    BY OrderedType DEF FormTypeOK
  <2>2. order' \in Orders \cup {NoOrder}
    BY <1>7, <2>1 DEF SubmitForm, FormTypeOK
  <2>3. QED  BY <1>7, <2>2 DEF SubmitForm, FormTypeOK, world, screen, SetState
<1>8. CASE Covered
  BY <1>8 DEF Covered, FormTypeOK, world, screen, SetState
<1>9. ASSUME NEW c \in Codes, NEW d \in Discounts \cup {0}, OfferVoucher(c, d)
      PROVE  FormTypeOK'
  BY <1>9 DEF OfferVoucher, FormTypeOK, screen
<1>10. CASE NextDay
  BY <1>10 DEF NextDay, FormTypeOK, screen
<1>11. CASE UNCHANGED formVars
  BY <1>11 DEF formVars, FormTypeOK, world, screen, SetState
<1>12. CASE Build
  BY <1>12, TotalType DEF Build, FormTypeOK, world
<1>13. QED
  BY <1>1, <1>2, <1>3, <1>4, <1>5, <1>6, <1>7, <1>8, <1>9, <1>10, <1>11, <1>12, TapType
     DEF FormNext

\* Every field of the form and of the order keeps its type, whatever is typed,
\* chosen, reloaded and submitted (lib/OrderPage.dart).
THEOREM FormTyped == FormSpec => []FormTypeOK
<1>1. QED  BY InitFormType, NextFormType, PTL DEF FormSpec

-----------------------------------------------------------------------------
(***************************************************************************)
(* The form: the total                                                     *)
(***************************************************************************)
\* Only Submit places an order, and it places that of the form.
LEMMA OrderFrom ==
    ASSUME [FormNext]_formVars
    PROVE  \/ order' = order
           \/ order' = NoOrder
           \/ SubmitForm /\ order' = Ordered(page)
BY DEF FormNext, formVars, Open, VouchersArrive, Close, Build, OpenAddress, Refresh,
       SaveAddress, ChooseWrapping, Redeem, RedeemNothing, DeliverNow, DeliverLater,
       PickTime, PickDate, Edit, SubmitForm, Covered, OfferVoucher, NextDay

\* Unless a build is due, the total is that of the form: whoever changes a part
\* of the total calls setState.
Drawn     == view # "closed" /\ ~ needsBuild => total = Total(page)
AddsUpInv == Drawn /\ OrderAddsUp

LEMMA NextDrawn == FormTypeOK /\ Drawn /\ [FormNext]_formVars => Drawn'
<1> SUFFICES ASSUME FormTypeOK, Drawn, [FormNext]_formVars PROVE Drawn'
  OBVIOUS
<1>1. CASE needsBuild' = TRUE \/ view' = "closed"
  BY <1>1 DEF Drawn
<1>2. CASE Build
  BY <1>2 DEF Build, Drawn, Total
<1>3. CASE PickTime \/ \E d \in 0 .. MaxDay + Lead + 1 : PickDate(d)
  <2>1. view # "closed" /\ UNCHANGED screen
    BY <1>3 DEF PickTime, PickDate, Edit
  <2>2. page'.wrapping = page.wrapping /\ page'.discount = page.discount
        /\ page'.correctVoucher = page.correctVoucher
    BY <1>3 DEF PickTime, PickDate, Edit, FormTypeOK, Forms
  <2>3. QED  BY <2>1, <2>2 DEF Drawn, Total, screen
<1>4. CASE UNCHANGED <<page, screen>> /\ (view' = view \/ view # "closed")
  BY <1>4 DEF Drawn, Total, screen
<1>5. CASE \/ Open \/ VouchersArrive \/ Refresh \/ SubmitForm
           \/ \E w \in Wrappings : ChooseWrapping(w)
           \/ \E c \in Codes \cup {NoCode} : Redeem(c)
           \/ RedeemNothing \/ DeliverNow \/ DeliverLater
  <2>1. needsBuild' = TRUE
    BY <1>5 DEF Open, VouchersArrive, Refresh, SubmitForm, ChooseWrapping, Redeem,
       RedeemNothing, DeliverNow, DeliverLater, SetState
  <2>2. QED  BY <1>1, <2>1
<1>6. CASE Close \/ Covered
  BY <1>1, <1>4, <1>6 DEF Close, Covered, SetState
<1>7. CASE \/ OpenAddress \/ NextDay \/ UNCHANGED formVars
           \/ \E a \in Addresses : SaveAddress(a)
           \/ \E c \in Codes, d \in Discounts \cup {0} : OfferVoucher(c, d)
  BY <1>4, <1>7 DEF OpenAddress, NextDay, formVars, SaveAddress, OfferVoucher
<1>8. QED  BY <1>2, <1>3, <1>5, <1>6, <1>7 DEF FormNext

\* What the form has when no build is due is what Submit passes on.
LEMMA OrderedAddsUp ==
    ASSUME FormTypeOK, Drawn, SubmitForm, ~ needsBuild
    PROVE  Ordered(page).totalPrice = Ordered(page).price + Ordered(page).delivery
               + Ordered(page).packaging - Ordered(page).discount
<1>1. total = Total(page)
  BY DEF Drawn, SubmitForm
<1>2. QED  BY <1>1 DEF Ordered, Total

\* Whatever was redeemed, refused, wrapped and reloaded since, the total that
\* the last build() left is the sum of the parts that Submit passes on with it,
\* unless Submit was tapped while a build() was due (build, the handlers that
\* call setState, the arguments of _uploadOrder).
THEOREM AddsUp == FormSpec => []OrderAddsUp
<1>1. FormInit => AddsUpInv
  BY DEF FormInit, AddsUpInv, Drawn, OrderAddsUp
<1>2. FormTypeOK /\ AddsUpInv /\ [FormNext]_formVars => AddsUpInv'
  <2> SUFFICES ASSUME FormTypeOK, AddsUpInv, [FormNext]_formVars PROVE AddsUpInv'
    OBVIOUS
  <2>1. Drawn'
    BY NextDrawn DEF AddsUpInv
  <2>2. OrderAddsUp'
    <3>1. CASE order' = order \/ order' = NoOrder
      BY <3>1 DEF AddsUpInv, OrderAddsUp
    <3>2. CASE SubmitForm /\ order' = Ordered(page)
      <4>1. order'.early = needsBuild
        BY <3>2 DEF Ordered
      <4>2. QED  BY <3>2, <4>1, OrderedAddsUp DEF AddsUpInv, OrderAddsUp
    <3>3. QED  BY <3>1, <3>2, OrderFrom
  <2>3. QED  BY <2>1, <2>2 DEF AddsUpInv
<1>3. AddsUpInv => OrderAddsUp
  BY DEF AddsUpInv
<1>4. QED  BY <1>1, <1>2, <1>3, FormTyped, PTL DEF FormSpec

-----------------------------------------------------------------------------
(***************************************************************************)
(* The form: the voucher                                                   *)
(***************************************************************************)
\* What the shop offers is on record, the page has what it was told at some
\* time, and the form what the page had when REDEEM was tapped.
ShopInv  == \A c \in Codes : offered[c] # 0 => <<c, offered[c]>> \in everOffered
ListInv  == \A c \in Codes : vouchersList[c] # 0 => <<c, vouchersList[c]>> \in everOffered
FormInv  == page.discount # 0 => <<page.code, page.discount>> \in everOffered
OfferInv == ShopInv /\ ListInv /\ FormInv /\ DiscountWasOffered

LEMMA InitOffer == FormInit => OfferInv
BY DEF FormInit, OfferInv, ShopInv, ListInv, FormInv, DiscountWasOffered, NewForm,
       NoVouchers

\* The record of the shop's offers only grows.
LEMMA OffersKept == [FormNext]_formVars => everOffered \subseteq everOffered'
BY DEF FormNext, formVars, world, Open, VouchersArrive, Close, Build, OpenAddress, Refresh,
       SaveAddress, ChooseWrapping, Redeem, RedeemNothing, DeliverNow, DeliverLater,
       PickTime, PickDate, Edit, SubmitForm, Covered, OfferVoucher, NextDay

LEMMA NextShop == FormTypeOK /\ ShopInv /\ [FormNext]_formVars => ShopInv'
<1> SUFFICES ASSUME FormTypeOK, ShopInv, [FormNext]_formVars PROVE ShopInv'
  OBVIOUS
<1>1. ASSUME NEW c \in Codes, NEW d \in Discounts \cup {0}, OfferVoucher(c, d)
      PROVE  ShopInv'
  BY <1>1 DEF OfferVoucher, ShopInv, FormTypeOK
<1>2. CASE UNCHANGED <<offered, everOffered>>
  BY <1>2 DEF ShopInv
<1>3. QED
  BY <1>1, <1>2 DEF FormNext, formVars, world, Open, VouchersArrive, Close, Build, OpenAddress,
     Refresh, SaveAddress, ChooseWrapping, Redeem, RedeemNothing, DeliverNow,
     DeliverLater, PickTime, PickDate, Edit, SubmitForm, Covered, NextDay

LEMMA NextList == FormTypeOK /\ ShopInv /\ ListInv /\ [FormNext]_formVars => ListInv'
<1> SUFFICES ASSUME FormTypeOK, ShopInv, ListInv, [FormNext]_formVars PROVE ListInv'
  OBVIOUS
<1>1. CASE VouchersArrive
  BY <1>1 DEF VouchersArrive, ListInv, ShopInv, FormTypeOK, world
<1>2. CASE Close
  BY <1>2 DEF Close, ListInv, NoVouchers
<1>3. CASE UNCHANGED vouchersList
  BY <1>3, OffersKept DEF ListInv
<1>4. QED
  BY <1>1, <1>2, <1>3 DEF FormNext, formVars, Open, Build, OpenAddress, Refresh, SaveAddress,
     ChooseWrapping, Redeem, RedeemNothing, DeliverNow, DeliverLater, PickTime,
     PickDate, Edit, SubmitForm, Covered, OfferVoucher, NextDay

LEMMA NextForm == FormTypeOK /\ ListInv /\ FormInv /\ [FormNext]_formVars => FormInv'
<1> SUFFICES ASSUME FormTypeOK, ListInv, FormInv, [FormNext]_formVars PROVE FormInv'
  OBVIOUS
<1>1. CASE page'.discount = 0
  BY <1>1 DEF FormInv
<1>2. CASE page'.discount = page.discount /\ page'.code = page.code
  BY <1>2, OffersKept DEF FormInv
<1>3. ASSUME NEW c \in Codes, Redeem(c) PROVE FormInv'
  <2>1. c # NoCode  BY FormAssumption
  <2>2. page'.code = c /\ page'.discount = vouchersList[c]
    BY <1>3, <2>1 DEF Redeem, Redeemed, Edit, FormTypeOK, Forms
  <2>3. QED  BY <2>2, OffersKept DEF FormInv, ListInv
<1>4. CASE Open \/ Close \/ RedeemNothing \/ Redeem(NoCode)
  <2>1. Open => page'.discount = 0
    BY DEF Open, Loaded, NewForm
  <2>2. Close => page'.discount = 0
    BY DEF Close, NewForm
  <2>3. RedeemNothing => page'.discount = 0
    BY DEF RedeemNothing, Unredeemed, Edit, FormTypeOK, Forms
  <2>4. Redeem(NoCode) => page'.discount = 0
    BY DEF Redeem, Redeemed, Edit, FormTypeOK, Forms
  <2>5. QED  BY <1>1, <1>4, <2>1, <2>2, <2>3, <2>4
<1>5. CASE \/ Refresh \/ DeliverNow \/ DeliverLater \/ PickTime
           \/ \E w \in Wrappings : ChooseWrapping(w)
           \/ \E d \in 0 .. MaxDay + Lead + 1 : PickDate(d)
           \/ UNCHANGED page
  <2>1. page'.discount = page.discount /\ page'.code = page.code
    BY <1>5 DEF Refresh, DeliverNow, DeliverLater, PickTime, ChooseWrapping, PickDate,
       Edit, Loaded, FormTypeOK, Forms
  <2>2. QED  BY <1>2, <2>1
<1>6. QED
  BY <1>3, <1>4, <1>5 DEF FormNext, formVars, VouchersArrive, Build, OpenAddress, SaveAddress,
     SubmitForm, Covered, OfferVoucher, NextDay

LEMMA NextDiscount ==
    FormTypeOK /\ FormInv /\ DiscountWasOffered /\ [FormNext]_formVars =>
        DiscountWasOffered'
<1> SUFFICES ASSUME FormTypeOK, FormInv, DiscountWasOffered, [FormNext]_formVars
             PROVE  DiscountWasOffered'
  OBVIOUS
<1>1. CASE order' = order \/ order' = NoOrder
  BY <1>1, OffersKept DEF DiscountWasOffered
<1>2. CASE SubmitForm /\ order' = Ordered(page)
  <2>1. order'.code = page.code
        /\ order'.discount \in {0, page.discount}
    BY <1>2 DEF Ordered
  <2>2. QED  BY <2>1, OffersKept DEF FormInv, DiscountWasOffered
<1>3. QED  BY <1>1, <1>2, OrderFrom

\* The discount of an order is one the shop gave for its code, although the
\* vouchers change, are fetched again at each reload, and REDEEM searches
\* whatever list the page has (_loadPref, REDEEM).
THEOREM DiscountOffered == FormSpec => []DiscountWasOffered
<1>1. FormTypeOK /\ OfferInv /\ [FormNext]_formVars => OfferInv'
  BY NextShop, NextList, NextForm, NextDiscount DEF OfferInv
<1>2. OfferInv => DiscountWasOffered
  BY DEF OfferInv
<1>3. QED  BY <1>1, <1>2, InitOffer, FormTyped, PTL DEF FormSpec

-----------------------------------------------------------------------------
(***************************************************************************)
(* The form: the day of delivery                                           *)
(***************************************************************************)
\* While the page is there, the day chosen and the first one the date picker
\* offers leave the lead time after the last load.
DayInv  == view # "closed" =>
              /\ page.loadDay <= today
              /\ page.pickMin >= page.loadDay + Lead
              /\ page.day >= page.loadDay + Lead
LeadInv == DayInv /\ LeadTimeKept

LEMMA LoadedDays ==
    ASSUME FormTypeOK, NEW f \in Forms
    PROVE  /\ Loaded(f).loadDay = today
           /\ Loaded(f).pickMin = today + Lead + 1
           /\ Loaded(f).day = today + Lead
BY DEF Loaded, Forms

LEMMA NextDayInv == FormTypeOK /\ DayInv /\ [FormNext]_formVars => DayInv'
<1> SUFFICES ASSUME FormTypeOK, DayInv, [FormNext]_formVars PROVE DayInv'
  OBVIOUS
<1>0. page \in Forms /\ today \in Nat /\ Lead \in Nat
      /\ page.day \in Nat /\ page.loadDay \in Nat /\ page.pickMin \in Nat
  BY FormAssumption DEF FormTypeOK, Forms
<1>1. CASE Open
  <2>1. page' = Loaded(NewForm) /\ today' = today
    BY <1>1 DEF Open, world
  <2>2. QED  BY <1>0, <2>1, LoadedDays, NewFormType DEF DayInv
<1>2. CASE Refresh
  <2>1. page' = Loaded(page) /\ today' = today
    BY <1>2 DEF Refresh, world
  <2>2. QED  BY <1>0, <2>1, LoadedDays DEF DayInv
<1>3. CASE Close
  BY <1>3 DEF Close, DayInv
<1>4. CASE NextDay
  <2>1. page' = page /\ today' = today + 1 /\ view' = view
    BY <1>4 DEF NextDay
  <2>2. QED  BY <1>0, <2>1 DEF DayInv
<1>5. ASSUME NEW d \in Nat, d >= page.loadDay + Lead, Edit([page EXCEPT !.day = d])
      PROVE  DayInv'
  BY <1>0, <1>5 DEF Edit, DayInv, Forms, world
<1>6. CASE PickTime
  <2>1. view # "closed"  BY <1>6 DEF PickTime, Edit
  <2>2. today + Lead \in Nat /\ today + Lead >= page.loadDay + Lead
    BY <1>0, <2>1 DEF DayInv
  <2>3. QED  BY <1>5, <1>6, <2>2 DEF PickTime
<1>7. ASSUME NEW d \in 0 .. MaxDay + Lead + 1, PickDate(d) PROVE DayInv'
  <2>1. view # "closed" /\ d >= page.pickMin  BY <1>7 DEF PickDate, Edit
  <2>2. d \in Nat /\ d >= page.loadDay + Lead
    BY <1>0, <2>1, FormAssumption DEF DayInv
  <2>3. QED  BY <1>5, <1>7, <2>2 DEF PickDate
<1>8. CASE DeliverNow
  <2>1. view = "order" /\ view' = "order" /\ today' = today
    BY <1>8 DEF DeliverNow, Edit, world
  <2>2. /\ page'.day = today + Lead
        /\ page'.loadDay = page.loadDay /\ page'.pickMin = page.pickMin
    BY <1>0, <1>8 DEF DeliverNow, Edit, Forms
  <2>3. QED  BY <1>0, <2>1, <2>2 DEF DayInv
<1>9. CASE \/ DeliverLater \/ RedeemNothing
           \/ \E w \in Wrappings : ChooseWrapping(w)
           \/ \E c \in Codes \cup {NoCode} : Redeem(c)
  <2>1. view' = view /\ today' = today
    BY <1>9 DEF DeliverLater, RedeemNothing, ChooseWrapping, Redeem, Edit, world
  <2>2. /\ page'.day = page.day
        /\ page'.loadDay = page.loadDay /\ page'.pickMin = page.pickMin
    BY <1>0, <1>9 DEF DeliverLater, RedeemNothing, Unredeemed, ChooseWrapping, Redeem,
       Redeemed, Edit, Forms
  <2>3. QED  BY <2>1, <2>2 DEF DayInv
<1>10. CASE UNCHANGED <<page, today>> /\ (view' = view \/ view # "closed")
  BY <1>10 DEF DayInv
<1>11. QED
  BY <1>1, <1>2, <1>3, <1>4, <1>6, <1>7, <1>8, <1>9, <1>10
     DEF FormNext, formVars, world, VouchersArrive, Build, OpenAddress, SaveAddress,
         SubmitForm, Covered, OfferVoucher

LEMMA NextLead ==
    FormTypeOK /\ DayInv /\ LeadTimeKept /\ [FormNext]_formVars => LeadTimeKept'
<1> SUFFICES ASSUME FormTypeOK, DayInv, LeadTimeKept, [FormNext]_formVars
             PROVE  LeadTimeKept'
  OBVIOUS
<1>1. CASE order' = order \/ order' = NoOrder
  BY <1>1 DEF LeadTimeKept
<1>2. CASE SubmitForm /\ order' = Ordered(page)
  <2>1. view # "closed"  BY <1>2 DEF SubmitForm
  <2>2. order'.day = page.day /\ order'.loadDay = page.loadDay
    BY <1>2 DEF Ordered
  <2>3. QED  BY <2>1, <2>2 DEF DayInv, LeadTimeKept
<1>3. QED  BY <1>1, <1>2, OrderFrom

\* An order leaves the gift its lead time after the page was last loaded, on
\* whichever day and with whichever picker its day was chosen, however often
\* midnight passed meanwhile (pickerTime, picker, Now, Later).
THEOREM LeadTime == FormSpec => []LeadTimeKept
<1>1. FormInit => LeadInv
  BY DEF FormInit, LeadInv, DayInv, LeadTimeKept
<1>2. FormTypeOK /\ LeadInv /\ [FormNext]_formVars => LeadInv'
  BY NextDayInv, NextLead DEF LeadInv
<1>3. LeadInv => LeadTimeKept
  BY DEF LeadInv
<1>4. QED  BY <1>1, <1>2, <1>3, FormTyped, PTL DEF FormSpec
=============================================================================
