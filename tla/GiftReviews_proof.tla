------------------------- MODULE GiftReviews_proof -------------------------
(***************************************************************************)
(* Theorems about GiftReviews, for every number of phones, orders, gifts   *)
(* and taps, and every rating scale.                                       *)
(***************************************************************************)
EXTENDS GiftReviews, TLAPS

\* Multiplying by a natural number keeps the order.
LEMMA MultMonotone ==
    ASSUME NEW a \in Int, NEW b \in Int, NEW c \in Nat, a <= b
    PROVE  a * c <= b * c
<1>1. PICK d \in Nat : b = a + d  BY SMT
<1>2. b * c = a * c + d * c  BY <1>1, SMT
<1>3. d * c >= 0  BY <1>1, SMT
<1>4. QED  BY <1>2, <1>3, SMT

\* The averages the code computes are fractions.
LEMMA MeanType ==
    ASSUME NEW r \in Rates, NEW n \in Nat \cup {NoCount}, NEW t \in Totals,
           r.num # 0 => n \in Nat
    PROVE  Mean(r, n, t) \in Rates
<1>1. t \in Nat  BY TotalAssumption DEF Totals
<1>2. CASE r.num = 0
  BY <1>1, <1>2 DEF Mean, Rates
<1>3. CASE r.num # 0
  <2>1. n \in Nat /\ r.num \in Nat /\ r.den \in Nat \ {0}
    BY <1>3 DEF Rates
  <2>2. r.num * n \in Nat /\ t * r.den \in Nat
    BY <1>1, <2>1, SMT
  <2>3. r.num * n + t * r.den \in Nat
    BY <2>2, SMT
  <2>4. r.den * (n + 1) \in Nat \ {0}
    BY <2>1, SMT
  <2>5. QED  BY <1>3, <2>3, <2>4 DEF Mean, Rates
<1>4. QED  BY <1>2, <1>3

\* A weighted mean of values within the scale is within the scale.
LEMMA MeanInScale ==
    ASSUME NEW r \in Rates, NEW n \in Nat \cup {NoCount}, NEW t \in Totals,
           r.num # 0 => n \in Nat, InScale(r)
    PROVE  InScale(Mean(r, n, t))
<1>1. t \in Nat /\ MinTotal \in Nat /\ MaxTotal \in Nat
      /\ MinTotal <= t /\ t <= MaxTotal
  BY TotalAssumption DEF Totals
<1>2. CASE r.num = 0
  <2>1. Mean(r, n, t) = [num |-> t, den |-> 1]  BY <1>2 DEF Mean
  <2>2. MinTotal * 1 <= t /\ t <= MaxTotal * 1  BY <1>1, SMT
  <2>3. QED  BY <2>1, <2>2 DEF InScale
<1>3. CASE r.num # 0
  <2> DEFINE p == r.num
             q == r.den
  <2>1. n \in Nat /\ p \in Nat /\ q \in Nat /\ MinTotal * q <= p /\ p <= MaxTotal * q
    BY <1>3 DEF Rates, InScale
  <2>2. Mean(r, n, t) = [num |-> p * n + t * q, den |-> q * (n + 1)]
    BY <1>3 DEF Mean
  <2> HIDE DEF p, q
  <2>3. MinTotal * q \in Int /\ MaxTotal * q \in Int
    BY <1>1, <2>1, SMT
  <2>4. (MinTotal * q) * n <= p * n /\ p * n <= (MaxTotal * q) * n
    BY <2>1, <2>3, MultMonotone, SMT
  <2>5. MinTotal * q <= t * q /\ t * q <= MaxTotal * q
    BY <1>1, <2>1, MultMonotone, SMT
  <2>6. MinTotal * (q * (n + 1)) = (MinTotal * q) * n + MinTotal * q
    BY <1>1, <2>1, SMT
  <2>7. MaxTotal * (q * (n + 1)) = (MaxTotal * q) * n + MaxTotal * q
    BY <1>1, <2>1, SMT
  <2>8. MinTotal * (q * (n + 1)) <= p * n + t * q
    <3>1. (MinTotal * q) * n \in Int /\ p * n \in Int /\ t * q \in Int
      BY <1>1, <2>1, <2>3, SMT
    <3>2. QED  BY <2>3, <2>4, <2>5, <2>6, <3>1, SMT
  <2>9. p * n + t * q <= MaxTotal * (q * (n + 1))
    <3>1. (MaxTotal * q) * n \in Int /\ p * n \in Int /\ t * q \in Int
      BY <1>1, <2>1, <2>3, SMT
    <3>2. QED  BY <2>3, <2>4, <2>5, <2>7, <3>1, SMT
  <2>10. QED  BY <2>2, <2>8, <2>9 DEF InScale
<1>4. QED  BY <1>2, <1>3

-----------------------------------------------------------------------------
\* An upload that read a rate read it, with its count, from a document.
ReadOK == \A a \in Uploads : readRate[a].num # 0 => readNo[a] # NoCount

TypeInv == TypeOK /\ ReadOK

LEMMA InitTypeInv == Init => TypeInv
BY TotalAssumption
DEF Init, TypeInv, TypeOK, ReadOK, Rates, NoRate, Totals, Views, Pages, PCs

\* What the actions of the order page preserve.
LEMMA SessionTypeInv ==
    ASSUME TypeInv, NEW s \in Sessions,
           \/ OpenOrder(s) \/ Load(s) \/ GetFails(s) \/ OpenAddReview(s)
           \/ CloseOrder(s) \/ BackFromAdd(s) \/ EndLeaving(s) \/ Kill(s)
    PROVE  TypeInv'
<1> USE DEF TypeInv, TypeOK, ReadOK, server, gift, app, read, history, Views
<1>1. CASE OpenOrder(s)
  BY <1>1 DEF OpenOrder
<1>2. CASE GetOrder(s)
  <2>1. OrderOf[s] \in Orders
    BY OrderOfAssumption
  <2>2. reviewed' \in [Sessions -> BOOLEAN]
    BY <1>2, <2>1, Zenon DEF GetOrder
  <2>3. view' \in [Sessions -> Views] /\ orderGets' \in [Sessions -> Nat]
        /\ reviewGets' \in [Sessions -> Nat]
    BY <1>2 DEF GetOrder, Shown
  <2>4. QED  BY <1>2, <2>2, <2>3 DEF GetOrder
<1>3. CASE GetReview(s)
  BY <1>3 DEF GetReview, Shown
<1>4. CASE GetFails(s)
  BY <1>4 DEF GetFails
<1>5. CASE OpenAddReview(s)
  BY <1>5 DEF OpenAddReview
<1>6. CASE CloseOrder(s)
  BY <1>6 DEF CloseOrder, LeavePage
<1>7. CASE BackFromAdd(s)
  BY <1>7 DEF BackFromAdd
<1>8. CASE EndLeaving(s)
  BY <1>8 DEF EndLeaving, Unmount, Pages
<1>9. CASE Kill(s)
  BY <1>9 DEF Kill, LeavePage, Pages, PCs, Awaiting, Writing, Settled
<1>10. QED  BY <1>1, <1>2, <1>3, <1>4, <1>5, <1>6, <1>7, <1>8, <1>9 DEF Load

\* What the steps of an upload preserve.
LEMMA UploadTypeInv ==
    ASSUME TypeInv, NEW a \in Uploads, Step(a) \/ UploadFails(a)
    PROVE  TypeInv'
<1> USE DEF TypeInv, TypeOK, ReadOK, server, gift, app, read, history
<1> USE DEF GoTo, PCs, Awaiting, Writing, Settled
<1>0. SessionOf[a] \in Sessions /\ OrderBy(a) \in Orders /\ GiftBy(a) \in Gifts
  BY OrderOfAssumption, GiftOfAssumption, SessionOfAssumption
  DEF OrderBy, GiftBy
<1>1. CASE WriteUserReview(a)
  BY <1>0, <1>1 DEF WriteUserReview
<1>2. CASE ReadGift(a)
  BY <1>0, <1>2 DEF ReadGift, NoRate, NoCount, Rates
<1>3. CASE WriteRate(a)
  <2>1. Mean(readRate[a], readNo[a], total[a]) \in Rates
    BY MeanType
  <2>2. CountAfter(readNo[a], reviewsno[GiftBy(a)]) \in Nat
    BY <1>0 DEF CountAfter
  <2>3. MinTotal \in Totals
    BY TotalAssumption DEF Totals
  <2>4. sum[GiftBy(a)] + total[a] \in Nat
    BY <1>0, TotalAssumption DEF Totals
  <2>5. stale' \in [Uploads -> BOOLEAN] /\ raced' \in [Gifts -> BOOLEAN]
    <3>1. stale' \in [Uploads -> BOOLEAN]
      BY <1>3, Zenon DEF WriteRate, MarkStale
    <3>2. (raced[GiftBy(a)] \/ stale[a]) \in BOOLEAN
      OBVIOUS
    <3>3. raced' \in [Gifts -> BOOLEAN]
      BY <1>3, <3>2, Zenon DEF WriteRate
    <3>4. QED  BY <3>1, <3>3
  <2>6. giftExists' \in [Gifts -> BOOLEAN]
    BY <1>3, Zenon DEF WriteRate
  <2>7. rate' \in [Gifts -> Rates] /\ reviewsno' \in [Gifts -> Nat]
    BY <1>0, <1>3, <2>1, <2>2 DEF WriteRate
  <2>8. sum' \in [Gifts -> Nat] /\ count' \in [Gifts -> Nat]
    BY <1>0, <1>3, <2>4 DEF WriteRate
  <2>9. pc' \in [Uploads -> PCs]
    BY <1>3 DEF WriteRate
  <2>10. total' \in [Uploads -> Totals] /\ readRate' \in [Uploads -> Rates]
         /\ readNo' \in [Uploads -> Nat \cup {NoCount}] /\ ReadOK'
    BY <1>3, <2>3 DEF WriteRate, Forget, NoRate, Rates
  <2>11. UNCHANGED <<server, app, page>>
    BY <1>3 DEF WriteRate
  <2>12. QED
    BY <2>5, <2>6, <2>7, <2>8, <2>9, <2>10, <2>11
<1>4. CASE WriteGiftReview(a)
  BY <1>0, <1>4 DEF WriteGiftReview
<1>5. CASE SetReviewed(a)
  BY <1>0, <1>5 DEF SetReviewed
<1>6. CASE Finish(a)
  <2>1. pc' \in [Uploads -> PCs] /\ page' \in [Uploads -> Pages]
    BY <1>0, <1>6 DEF Finish, Unmount, Pages
  <2>2. view' \in [Sessions -> Views] /\ reviewed' \in [Sessions -> BOOLEAN]
    BY <1>0, <1>6 DEF Finish, LeavePage, Views
  <2>3. orderGets' \in [Sessions -> Nat] /\ reviewGets' \in [Sessions -> Nat]
    BY <1>0, <1>6, SMTT(40) DEF Finish, LeavePage
  <2>4. QED  BY <1>6, <2>1, <2>2, <2>3 DEF Finish
<1>7. CASE UploadFails(a)
  BY <1>7, TotalAssumption DEF UploadFails, Forget, NoRate, Rates, Totals
<1>8. QED  BY <1>1, <1>2, <1>3, <1>4, <1>5, <1>6, <1>7 DEF Step

LEMMA NextTypeInv == TypeInv /\ [Next]_vars => TypeInv'
<1> SUFFICES ASSUME TypeInv, [Next]_vars PROVE TypeInv'
  OBVIOUS
<1>1. CASE UNCHANGED vars
  BY <1>1 DEF TypeInv, TypeOK, ReadOK, vars, server, gift, app, read, history
<1>2. CASE \E s \in Sessions, a \in Uploads, t \in Totals : Submit(s, a, t)
  BY <1>2 DEF TypeInv, TypeOK, ReadOK, Submit, server, gift, app, read,
              history, PCs, Awaiting, Writing
<1>3. CASE \E g \in Gifts : DeleteGift(g)
  <2> PICK g \in Gifts : DeleteGift(g)
    BY <1>3
  <2>1. stale' \in [Uploads -> BOOLEAN] /\ raced' \in [Gifts -> BOOLEAN]
        /\ giftExists' \in [Gifts -> BOOLEAN]
    BY Zenon DEF DeleteGift, TypeInv, TypeOK
  <2>2. rate' \in [Gifts -> Rates] /\ reviewsno' \in [Gifts -> Nat]
        /\ sum' \in [Gifts -> Nat] /\ count' \in [Gifts -> Nat]
    BY DEF TypeInv, TypeOK, DeleteGift, NoRate, Rates
  <2>3. UNCHANGED <<server, app, pc, total, read, page>>
    BY DEF DeleteGift
  <2>4. QED
    BY <2>1, <2>2, <2>3 DEF TypeInv, TypeOK, ReadOK, server, app, read
<1>4. CASE \E a \in Uploads : Step(a) \/ UploadFails(a)
  BY <1>4, UploadTypeInv
<1>5. CASE \E s \in Sessions : \/ OpenOrder(s) \/ Load(s) \/ GetFails(s)
                               \/ OpenAddReview(s) \/ CloseOrder(s)
                               \/ BackFromAdd(s) \/ EndLeaving(s) \/ Kill(s)
  BY <1>5, SessionTypeInv
<1>6. QED  BY <1>1, <1>2, <1>3, <1>4, <1>5 DEF Next

\* Every variable keeps its type, whatever the phones do.
THEOREM TypeCorrect == Spec => []TypeOK
<1>1. Spec => []TypeInv
  BY InitTypeInv, NextTypeInv, PTL DEF Spec
<1>2. TypeInv => TypeOK
  BY DEF TypeInv
<1>3. QED  BY <1>1, <1>2, PTL

-----------------------------------------------------------------------------
(***************************************************************************)
(* Publication.  The flag is the last of the writes an upload awaits one   *)
(* after the other, so the place an upload has reached says which          *)
(* documents exist; documents are never removed.                           *)
(***************************************************************************)
PastUserCopy == {"get", "rate", "gift", "flag", "acked", "done"}
PastGiftCopy == {"flag", "acked", "done"}

UserCopyStored == \A a \in Uploads : pc[a] \in PastUserCopy => userReview[OrderBy(a)]
GiftCopyStored == \A a \in Uploads : pc[a] \in PastGiftCopy => giftReview[OrderBy(a)]
GetsReviewed   == \A s \in Sessions : reviewGets[s] > 0 => orderReviewed[OrderOf[s]]

PubInv == /\ UserCopyStored
          /\ GiftCopyStored
          /\ SuccessMeansReviewed
          /\ ReviewedImpliesPublished
          /\ GetsReviewed

(***************************************************************************)
(* The aggregate.  What an upload has read is in the scale, and until      *)
(* somebody else writes the gift it is what the gift holds.                *)
(***************************************************************************)
ReadInScale == \A a \in Uploads : InScale(readRate[a])

ScaleInv == RateWithinScale /\ ReadInScale

FreshRead == \A a \in Uploads : pc[a] = "rate" /\ ~ stale[a] =>
    /\ readRate[a] = rate[GiftBy(a)]
    /\ readNo[a] = IF giftExists[GiftBy(a)] THEN reviewsno[GiftBy(a)] ELSE NoCount

NewGift == \A g \in Gifts :
    /\ ~ giftExists[g] => reviewsno[g] = 0 /\ rate[g] = NoRate
    /\ reviewsno[g] = 0 => count[g] = 0 /\ rate[g].num = 0
    /\ count[g] = 0 => sum[g] = 0
    /\ count[g] > 0 => sum[g] > 0

SerialInv == FreshRead /\ NewGift /\ SerialMeanExact

-----------------------------------------------------------------------------
\* The places and the documents of an upload's order and gift.
LEMMA UploadPlaces ==
    ASSUME NEW a \in Uploads
    PROVE  SessionOf[a] \in Sessions /\ OrderBy(a) \in Orders /\ GiftBy(a) \in Gifts
BY OrderOfAssumption, GiftOfAssumption, SessionOfAssumption DEF OrderBy, GiftBy

\* One step of an upload keeps the order of its writes.
LEMMA UploadPubInv ==
    ASSUME TypeInv, PubInv, NEW a \in Uploads, Step(a) \/ UploadFails(a)
    PROVE  PubInv'
<1> USE DEF TypeInv, TypeOK
<1> USE DEF PubInv, UserCopyStored, GiftCopyStored, SuccessMeansReviewed,
            ReviewedImpliesPublished, GetsReviewed, PastUserCopy, PastGiftCopy,
            OrderBy
<1>0. SessionOf[a] \in Sessions /\ OrderOf[SessionOf[a]] \in Orders
  BY UploadPlaces DEF OrderBy
<1>1. CASE WriteUserReview(a)
  BY <1>0, <1>1 DEF WriteUserReview, GoTo, app
<1>2. CASE ReadGift(a)
  BY <1>0, <1>2 DEF ReadGift, GoTo, server, app
<1>3. CASE WriteRate(a)
  BY <1>0, <1>3 DEF WriteRate, GoTo, server, app
<1>4. CASE WriteGiftReview(a)
  BY <1>0, <1>4 DEF WriteGiftReview, GoTo, app
<1>5. CASE SetReviewed(a)
  BY <1>0, <1>5 DEF SetReviewed, GoTo, app
<1>6. CASE Finish(a)
  BY <1>0, <1>6 DEF Finish, LeavePage, server, app
<1>7. CASE UploadFails(a)
  BY <1>7 DEF UploadFails, server, app
<1>8. QED  BY <1>1, <1>2, <1>3, <1>4, <1>5, <1>6, <1>7 DEF Step

\* The order page reads the flag and never writes a document.
LEMMA SessionPubInv ==
    ASSUME TypeInv, PubInv, NEW s \in Sessions,
           \/ OpenOrder(s) \/ Load(s) \/ GetFails(s) \/ OpenAddReview(s)
           \/ CloseOrder(s) \/ BackFromAdd(s) \/ EndLeaving(s) \/ Kill(s)
    PROVE  PubInv'
<1> USE DEF TypeInv, TypeOK, server
<1> USE DEF PubInv, UserCopyStored, GiftCopyStored, SuccessMeansReviewed,
            ReviewedImpliesPublished, GetsReviewed, PastUserCopy, PastGiftCopy,
            OrderBy
<1>1. CASE OpenOrder(s)
  BY <1>1 DEF OpenOrder
<1>2. CASE GetOrder(s)
  BY <1>2 DEF GetOrder
<1>3. CASE GetReview(s)
  BY <1>3 DEF GetReview
<1>4. CASE GetFails(s)
  BY <1>4 DEF GetFails
<1>5. CASE OpenAddReview(s)
  BY <1>5 DEF OpenAddReview
<1>6. CASE CloseOrder(s)
  BY <1>6 DEF CloseOrder, LeavePage
<1>7. CASE BackFromAdd(s)
  BY <1>7 DEF BackFromAdd
<1>8. CASE EndLeaving(s)
  BY <1>8 DEF EndLeaving
<1>9. CASE Kill(s)
  BY <1>9 DEF Kill, LeavePage
<1>10. QED
  BY <1>1, <1>2, <1>3, <1>4, <1>5, <1>6, <1>7, <1>8, <1>9 DEF Load

LEMMA NextPubInv == TypeInv /\ PubInv /\ [Next]_vars => PubInv'
<1> SUFFICES ASSUME TypeInv, PubInv, [Next]_vars PROVE PubInv'
  OBVIOUS
<1> USE DEF PubInv, UserCopyStored, GiftCopyStored, SuccessMeansReviewed,
            ReviewedImpliesPublished, GetsReviewed, PastUserCopy, PastGiftCopy,
            OrderBy
<1>1. CASE UNCHANGED vars
  BY <1>1 DEF vars, server, app
<1>2. CASE \E s \in Sessions, a \in Uploads, t \in Totals : Submit(s, a, t)
  BY <1>2 DEF TypeInv, TypeOK, Submit, server, app
<1>3. CASE \E g \in Gifts : DeleteGift(g)
  BY <1>3 DEF DeleteGift, server, app
<1>4. CASE \E a \in Uploads : Step(a) \/ UploadFails(a)
  BY <1>4, UploadPubInv
<1>5. CASE \E s \in Sessions : \/ OpenOrder(s) \/ Load(s) \/ GetFails(s)
                               \/ OpenAddReview(s) \/ CloseOrder(s)
                               \/ BackFromAdd(s) \/ EndLeaving(s) \/ Kill(s)
  BY <1>5, SessionPubInv
<1>6. QED  BY <1>1, <1>2, <1>3, <1>4, <1>5 DEF Next

LEMMA Published == Spec => []PubInv
<1>1. Init => PubInv
  BY UploadPlaces
  DEF Init, PubInv, UserCopyStored, GiftCopyStored, SuccessMeansReviewed,
      ReviewedImpliesPublished, GetsReviewed, PastUserCopy, PastGiftCopy
<1>2. QED
  BY <1>1, InitTypeInv, NextTypeInv, NextPubInv, PTL DEF Spec

\* An order flagged as reviewed has both copies of its review, whatever
\* uploads failed, were killed, or overlapped.
THEOREM ReviewedIsPublished == Spec => []ReviewedImpliesPublished
<1>1. PubInv => ReviewedImpliesPublished
  BY DEF PubInv
<1>2. QED  BY <1>1, Published, PTL

\* The app reports success only for an order that is reviewed.
THEOREM SuccessIsReviewed == Spec => []SuccessMeansReviewed
<1>1. PubInv => SuccessMeansReviewed
  BY DEF PubInv
<1>2. QED  BY <1>1, Published, PTL

\* getOrderData finds the review it fetches.
THEOREM ReviewGetFinds == Spec => []ReviewGetFindsIt
<1>1. PubInv => ReviewGetFindsIt
  BY OrderOfAssumption
  DEF PubInv, GetsReviewed, ReviewedImpliesPublished, ReviewGetFindsIt
<1>2. QED  BY <1>1, Published, PTL

-----------------------------------------------------------------------------
\* A step that leaves every aggregate alone, and what uploads have read of it
\* but for those that forget it.
Quiet ==
    /\ UNCHANGED <<giftExists, rate, reviewsno, raced, sum, count>>
    /\ \A a \in Uploads : readRate'[a] \in {readRate[a], NoRate}
    /\ \A a \in Uploads : pc'[a] = "rate" =>
          /\ pc[a] = "rate"
          /\ stale'[a] = stale[a]
          /\ readRate'[a] = readRate[a]
          /\ readNo'[a] = readNo[a]

\* Only three actions are not quiet.
LEMMA AggregateActions ==
    ASSUME TypeInv, [Next]_vars
    PROVE  \/ Quiet
           \/ \E a \in Uploads : ReadGift(a) \/ WriteRate(a)
           \/ \E g \in Gifts : DeleteGift(g)
<1> USE DEF Quiet, TypeInv, TypeOK, gift, read, history
<1>1. CASE UNCHANGED vars
  BY <1>1 DEF vars
<1>2. CASE \E s \in Sessions, a \in Uploads, t \in Totals : Submit(s, a, t)
  BY <1>2 DEF Submit
<1>3. ASSUME NEW a \in Uploads,
             \/ WriteUserReview(a) \/ WriteGiftReview(a) \/ SetReviewed(a)
             \/ Finish(a) \/ UploadFails(a)
      PROVE  Quiet
  <2>1. CASE WriteUserReview(a)
    BY <2>1 DEF WriteUserReview, GoTo
  <2>2. CASE WriteGiftReview(a)
    BY <2>2 DEF WriteGiftReview, GoTo
  <2>3. CASE SetReviewed(a)
    BY <2>3 DEF SetReviewed, GoTo
  <2>4. CASE Finish(a)
    BY <2>4 DEF Finish
  <2>5. CASE UploadFails(a)
    BY <2>5 DEF UploadFails, Forget
  <2>6. QED  BY <1>3, <2>1, <2>2, <2>3, <2>4, <2>5
<1>4. ASSUME NEW s \in Sessions,
             \/ OpenOrder(s) \/ Load(s) \/ GetFails(s) \/ OpenAddReview(s)
             \/ CloseOrder(s) \/ BackFromAdd(s) \/ EndLeaving(s) \/ Kill(s)
      PROVE  Quiet
  BY <1>4 DEF OpenOrder, Load, GetOrder, GetReview, GetFails, OpenAddReview,
              CloseOrder, BackFromAdd, EndLeaving, Kill
<1>5. QED  BY <1>1, <1>2, <1>3, <1>4 DEF Next, Step

LEMMA NextScaleInv == TypeInv /\ ScaleInv /\ [Next]_vars => ScaleInv'
<1> SUFFICES ASSUME TypeInv, ScaleInv, [Next]_vars PROVE ScaleInv'
  OBVIOUS
<1> USE DEF ScaleInv, RateWithinScale, ReadInScale
<1>0. InScale(NoRate)
  BY DEF InScale, NoRate
<1>1. CASE Quiet
  BY <1>0, <1>1 DEF Quiet
<1>2. ASSUME NEW a \in Uploads, ReadGift(a) PROVE ScaleInv'
  BY <1>0, <1>2, UploadPlaces DEF ReadGift, gift, TypeInv, TypeOK
<1>3. ASSUME NEW a \in Uploads, WriteRate(a) PROVE ScaleInv'
  <2>1. InScale(Mean(readRate[a], readNo[a], total[a]))
    BY MeanInScale DEF TypeInv, TypeOK, ReadOK
  <2>2. RateWithinScale'
    BY <1>3, <2>1, UploadPlaces DEF WriteRate, TypeInv, TypeOK
  <2>3. ReadInScale'
    BY <1>0, <1>3 DEF WriteRate, Forget, TypeInv, TypeOK
  <2>4. QED  BY <2>2, <2>3
<1>4. ASSUME NEW g \in Gifts, DeleteGift(g) PROVE ScaleInv'
  BY <1>0, <1>4 DEF DeleteGift, read, TypeInv, TypeOK
<1>5. QED  BY AggregateActions, <1>1, <1>2, <1>3, <1>4

\* However stale the values it was computed from, a gift's rate stays
\* between the lowest and the highest rating a user can give.
THEOREM RateInScale == Spec => []RateWithinScale
<1>1. Init => ScaleInv
  BY DEF Init, ScaleInv, RateWithinScale, ReadInScale, InScale, NoRate
<1>2. ScaleInv => RateWithinScale
  BY DEF ScaleInv
<1>3. QED
  BY <1>1, <1>2, InitTypeInv, NextTypeInv, NextScaleInv, PTL DEF Spec

\* Racing uploads lose counts; nothing ever adds one too many.
THEOREM CountBounded == Spec => []CountNotInflated
<1> USE DEF CountNotInflated, TypeInv, TypeOK
<1>1. Init => CountNotInflated
  BY DEF Init
<1>2. TypeInv /\ CountNotInflated /\ [Next]_vars => CountNotInflated'
  <2> SUFFICES ASSUME TypeInv, CountNotInflated, [Next]_vars
               PROVE  CountNotInflated'
    OBVIOUS
  <2>1. CASE Quiet
    BY <2>1 DEF Quiet
  <2>2. ASSUME NEW a \in Uploads, ReadGift(a) PROVE CountNotInflated'
    BY <2>2 DEF ReadGift, gift, history
  <2>3. ASSUME NEW a \in Uploads, WriteRate(a) PROVE CountNotInflated'
    BY <2>3, UploadPlaces DEF WriteRate, CountAfter
  <2>4. ASSUME NEW g \in Gifts, DeleteGift(g) PROVE CountNotInflated'
    BY <2>4 DEF DeleteGift
  <2>5. QED  BY AggregateActions, <2>1, <2>2, <2>3, <2>4
<1>3. QED  BY <1>1, <1>2, InitTypeInv, NextTypeInv, PTL DEF Spec

-----------------------------------------------------------------------------
\* The recurrence of the incremental mean: from the mean of n totals with
\* sum S to the mean of n + 1 totals.
LEMMA MeanStep ==
    ASSUME NEW r \in Rates, NEW n \in Nat, NEW t \in Totals, NEW S \in Nat,
           n = 0 => r.num = 0 /\ S = 0,
           n > 0 => S > 0 /\ r.num * n = S * r.den
    PROVE  Mean(r, n, t).num * (n + 1) = (S + t) * Mean(r, n, t).den
<1>1. t \in Nat  BY TotalAssumption DEF Totals
<1>2. CASE n = 0
  BY <1>1, <1>2 DEF Mean
<1>3. CASE n > 0
  <2> DEFINE p == r.num
             q == r.den
  <2>1. p \in Nat /\ q \in Nat /\ q > 0 /\ p * n = S * q /\ S > 0
    BY <1>3 DEF Rates
  <2> HIDE DEF p, q
  <2>2. S * q > 0
    BY <2>1, SMT
  <2>3. p # 0
    BY <2>1, <2>2, SMT
  <2>4. Mean(r, n, t) = [num |-> p * n + t * q, den |-> q * (n + 1)]
    BY <2>3 DEF Mean, p, q
  <2>5. (p * n + t * q) * (n + 1) = (S + t) * (q * (n + 1))
    <3>1. p * n + t * q = (S + t) * q
      BY <1>1, <2>1, SMT
    <3>2. ((S + t) * q) * (n + 1) = (S + t) * (q * (n + 1))
      BY <1>1, <2>1, SMT
    <3>3. QED  BY <3>1, <3>2
  <2>6. QED  BY <2>4, <2>5
<1>4. QED  BY <1>2, <1>3

\* An upload whose read is still fresh continues the mean exactly.
LEMMA FreshWriteExact ==
    ASSUME TypeInv, SerialInv, NEW a \in Uploads, pc[a] = "rate", ~ stale[a],
           ~ raced[GiftBy(a)]
    PROVE  LET g == GiftBy(a)
               m == Mean(readRate[a], readNo[a], total[a])
           IN  /\ CountAfter(readNo[a], reviewsno[g]) = count[g] + 1
               /\ m.num * (count[g] + 1) = (sum[g] + total[a]) * m.den
<1> DEFINE g == GiftBy(a)
<1>1. /\ g \in Gifts /\ total[a] \in Totals /\ total[a] \in Nat
      /\ rate[g] \in Rates /\ count[g] \in Nat /\ sum[g] \in Nat
      /\ reviewsno[g] \in Nat
  BY UploadPlaces, TotalAssumption DEF TypeInv, TypeOK, Totals
<1>2. /\ readRate[a] = rate[g]
      /\ readNo[a] = IF giftExists[g] THEN reviewsno[g] ELSE NoCount
  BY DEF SerialInv, FreshRead
<1>3. /\ reviewsno[g] = count[g]
      /\ count[g] > 0 => rate[g].num * count[g] = sum[g] * rate[g].den
      /\ count[g] = 0 => rate[g].num = 0 /\ sum[g] = 0
      /\ count[g] > 0 => sum[g] > 0
      /\ ~ giftExists[g] => count[g] = 0
  BY <1>1 DEF SerialInv, NewGift, SerialMeanExact
<1>4. CountAfter(readNo[a], reviewsno[g]) = count[g] + 1
  BY <1>1, <1>2, <1>3 DEF CountAfter, NoCount
<1>5. CASE giftExists[g]
  <2>1. readNo[a] = count[g]
    BY <1>2, <1>3, <1>5
  <2>2. QED  BY <1>1, <1>2, <1>3, <1>4, <2>1, MeanStep
<1>6. CASE ~ giftExists[g]
  <2>1. Mean(readRate[a], readNo[a], total[a]) = [num |-> total[a], den |-> 1]
    BY <1>2, <1>3, <1>6 DEF Mean
  <2>2. QED  BY <1>1, <1>3, <1>4, <1>6, <2>1
<1>7. QED  BY <1>5, <1>6

LEMMA NextSerialInv == TypeInv /\ SerialInv /\ [Next]_vars => SerialInv'
<1> SUFFICES ASSUME TypeInv, SerialInv, [Next]_vars PROVE SerialInv'
  OBVIOUS
<1> USE DEF SerialInv, FreshRead, NewGift, SerialMeanExact
<1>1. CASE Quiet
  BY <1>1, UploadPlaces DEF Quiet, GiftBy, OrderBy
<1>2. ASSUME NEW a \in Uploads, ReadGift(a) PROVE SerialInv'
  <2>1. FreshRead'
    BY <1>2, UploadPlaces
    DEF ReadGift, GoTo, gift, history, TypeInv, TypeOK, GiftBy, OrderBy, NoRate
  <2>2. QED  BY <1>2, <2>1 DEF ReadGift, gift, history
<1>3. ASSUME NEW a \in Uploads, WriteRate(a) PROVE SerialInv'
  <2> DEFINE g == GiftBy(a)
  <2>1. g \in Gifts /\ total[a] \in Nat /\ total[a] > 0
    BY UploadPlaces, TotalAssumption, SMTT(40) DEF TypeInv, TypeOK, Totals
  <2>2. FreshRead'
    BY <1>3 DEF WriteRate, GoTo, MarkStale, Forget, TypeInv, TypeOK, GiftBy, OrderBy
  <2>3. NewGift'
    BY <1>3, <2>1 DEF WriteRate, CountAfter, TypeInv, TypeOK
  <2>4. SerialMeanExact'
    <3>1. ASSUME NEW h \in Gifts, h # g, ~ raced'[h]
          PROVE  /\ reviewsno'[h] = count'[h]
                 /\ count'[h] > 0 => rate'[h].num * count'[h] = sum'[h] * rate'[h].den
      BY <1>3, <3>1 DEF WriteRate, TypeInv, TypeOK
    <3>2. ASSUME ~ raced'[g]
          PROVE  /\ reviewsno'[g] = count'[g]
                 /\ count'[g] > 0 => rate'[g].num * count'[g] = sum'[g] * rate'[g].den
      <4>1. ~ raced[g] /\ ~ stale[a] /\ pc[a] = "rate"
        BY <1>3, <2>1, <3>2 DEF WriteRate, TypeInv, TypeOK
      <4>2. /\ rate'[g] = Mean(readRate[a], readNo[a], total[a])
            /\ reviewsno'[g] = CountAfter(readNo[a], reviewsno[g])
            /\ sum'[g] = sum[g] + total[a]
            /\ count'[g] = count[g] + 1
        BY <1>3, <2>1 DEF WriteRate, TypeInv, TypeOK
      <4>3. QED  BY <4>1, <4>2, FreshWriteExact
    <3>3. QED  BY <3>1, <3>2
  <2>5. QED  BY <2>2, <2>3, <2>4
<1>4. ASSUME NEW g \in Gifts, DeleteGift(g) PROVE SerialInv'
  <2>1. FreshRead'
    BY <1>4 DEF DeleteGift, read, TypeInv, TypeOK, GiftBy, OrderBy
  <2>2. NewGift' /\ SerialMeanExact'
    BY <1>4 DEF DeleteGift, NoRate, TypeInv, TypeOK
  <2>3. QED  BY <2>1, <2>2
<1>5. QED  BY AggregateActions, <1>1, <1>2, <1>3, <1>4

\* Unless an upload wrote over another one's update, the rate of a gift is
\* the mean of the totals submitted for it and reviewsno their number.
THEOREM MeanIsExact == Spec => []SerialMeanExact
<1>1. Init => SerialInv
  BY DEF Init, SerialInv, FreshRead, NewGift, SerialMeanExact, NoRate
<1>2. SerialInv => SerialMeanExact
  BY DEF SerialInv
<1>3. QED
  BY <1>1, <1>2, InitTypeInv, NextTypeInv, NextSerialInv, PTL DEF Spec
=============================================================================
