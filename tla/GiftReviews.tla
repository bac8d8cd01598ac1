---------------------------- MODULE GiftReviews ----------------------------
(***************************************************************************)
(* Reviewing a delivered gift: the order page (lib/ProfileOrderState.dart),*)
(* the review form it opens (lib/AddReview.dart) and the Firestore         *)
(* documents they share.  _uploadProfileReview is five awaited calls, not  *)
(* a transaction, and the Submit button stays enabled while it runs: every *)
(* tap starts one more upload, and the uploads of several devices          *)
(* interleave between any two awaits.                                      *)
(*                                                                         *)
(* The four star ratings are summed up in one total, in a unit that makes  *)
(* it a whole number (an eighth of a star: half stars, divided by four);   *)
(* averages are exact fractions, where the code has doubles.               *)
(***************************************************************************)
EXTENDS Integers

CONSTANTS
    Sessions,   \* an app on some device showing the page of one order
    Orders,     \* delivered orders
    Gifts,
    OrderOf,    \* the order a session's page shows
    GiftOf,     \* the gift of an order
    Uploads,    \* identities for the calls of _uploadProfileReview
    SessionOf,  \* the session an upload belongs to
    MinTotal,   \* the lowest and the highest total the form lets through
    MaxTotal

ASSUME OrderOfAssumption == OrderOf \in [Sessions -> Orders]
ASSUME GiftOfAssumption  == GiftOf \in [Orders -> Gifts]
ASSUME SessionOfAssumption == SessionOf \in [Uploads -> Sessions]
ASSUME TotalAssumption   == /\ MinTotal \in Nat \ {0}
                            /\ MaxTotal \in Nat
                            /\ MinTotal <= MaxTotal

Totals == MinTotal .. MaxTotal
NoRate  == [num |-> 0, den |-> 1]   \* the field is null or 0
NoCount == -1                       \* reviewsNo is null: the gift was missing

(***************************************************************************)
(* An upload is at the call it awaits: a write of the user's copy, the get *)
(* of the gift, the write of the aggregate, of the gift's copy, of the     *)
(* flag; "acked" is between the last answer and its .then.                 *)
(***************************************************************************)
Writing   == {"user", "rate", "gift", "flag"}
Awaiting  == Writing \cup {"get"}
Settled   == {"done", "failed", "dead"}
PCs       == {"idle", "acked"} \cup Awaiting \cup Settled
Views     == {"closed", "loading", "order", "add", "leaving"}
Pages     == {"mounted", "unmounted", "killed"}

VARIABLES
    \* Firestore
    userReview,     \* Users/{uid}/Reviews/{order} exists
    giftReview,     \* Gifts/{gift}/reviews/{order} exists
    orderReviewed,  \* Orders/{order}.reviewed
    giftExists, rate, reviewsno,    \* Gifts/{gift} and its two fields
    \* the app of a session
    view,           \* the page on top
    reviewed,       \* what the order page believes
    orderGets,      \* getOrderData calls waiting for the order
    reviewGets,     \* getOrderData calls waiting for the review
    \* the uploads
    pc, total, readRate, readNo,
    page,           \* is the form that started the upload still there?
    \* history, read by no action
    stale,          \* the gift changed after the upload read it
    raced,          \* such an upload wrote the gift since it was created
    sum, count      \* totals written into the aggregate since then

server  == <<userReview, giftReview, orderReviewed>>
gift    == <<giftExists, rate, reviewsno>>
app     == <<view, reviewed, orderGets, reviewGets>>
read    == <<readRate, readNo>>
history == <<stale, raced, sum, count>>
vars    == <<server, gift, app, pc, total, read, page, history>>

OrderBy(a) == OrderOf[SessionOf[a]]
GiftBy(a)  == GiftOf[OrderBy(a)]

Init ==
    /\ userReview = [o \in Orders |-> FALSE]
    /\ giftReview = [o \in Orders |-> FALSE]
    /\ orderReviewed = [o \in Orders |-> FALSE]
    /\ giftExists = [g \in Gifts |-> TRUE]
    /\ rate = [g \in Gifts |-> NoRate]
    /\ reviewsno = [g \in Gifts |-> 0]
    /\ view = [s \in Sessions |-> "closed"]
    /\ reviewed = [s \in Sessions |-> FALSE]
    /\ orderGets = [s \in Sessions |-> 0]
    /\ reviewGets = [s \in Sessions |-> 0]
    /\ pc = [a \in Uploads |-> "idle"]
    /\ total = [a \in Uploads |-> MinTotal]
    /\ readRate = [a \in Uploads |-> NoRate]
    /\ readNo = [a \in Uploads |-> 0]
    /\ page = [a \in Uploads |-> "mounted"]
    /\ stale = [a \in Uploads |-> FALSE]
    /\ raced = [g \in Gifts |-> FALSE]
    /\ sum = [g \in Gifts |-> 0]
    /\ count = [g \in Gifts |-> 0]

(***************************************************************************)
(* The order page: ProfileOrderState                                       *)
(***************************************************************************)
\* initState runs getOrderData; the page shows a progress bar until it ends.
OpenOrder(s) ==
    /\ view[s] = "closed"
    /\ view' = [view EXCEPT ![s] = "loading"]
    /\ reviewed' = [reviewed EXCEPT ![s] = FALSE]
    /\ orderGets' = [orderGets EXCEPT ![s] = 1]
    /\ UNCHANGED <<server, gift, reviewGets, pc, total, read, page, history>>

\* setState at the end of getOrderData takes the progress bar away.
Shown(s) == [view EXCEPT ![s] = IF @ = "loading" THEN "order" ELSE @]

\* The order arrives; a reviewed one has its review fetched as well.
GetOrder(s) ==
    /\ orderGets[s] > 0
    /\ orderGets' = [orderGets EXCEPT ![s] = @ - 1]
    /\ reviewed' = [reviewed EXCEPT ![s] = orderReviewed[OrderOf[s]]]
    /\ \/ /\ orderReviewed[OrderOf[s]]
          /\ reviewGets' = [reviewGets EXCEPT ![s] = @ + 1]
          /\ UNCHANGED view
       \/ /\ ~ orderReviewed[OrderOf[s]]
          /\ view' = Shown(s)
          /\ UNCHANGED reviewGets
    /\ UNCHANGED <<server, gift, pc, total, read, page, history>>

GetReview(s) ==
    /\ reviewGets[s] > 0
    /\ reviewGets' = [reviewGets EXCEPT ![s] = @ - 1]
    /\ view' = Shown(s)
    /\ UNCHANGED <<server, gift, reviewed, orderGets, pc, total, read, page,
                   history>>

\* A get that throws ends getOrderData before its setState.
GetFails(s) ==
    /\ \/ /\ orderGets[s] > 0
          /\ orderGets' = [orderGets EXCEPT ![s] = @ - 1]
          /\ UNCHANGED reviewGets
       \/ /\ reviewGets[s] > 0
          /\ reviewGets' = [reviewGets EXCEPT ![s] = @ - 1]
          /\ UNCHANGED orderGets
    /\ UNCHANGED <<server, gift, view, reviewed, pc, total, read, page, history>>

\* "Add Review" is there for a delivered order not known to be reviewed.
OpenAddReview(s) ==
    /\ view[s] = "order"
    /\ ~ reviewed[s]
    /\ view' = [view EXCEPT ![s] = "add"]
    /\ UNCHANGED <<server, gift, reviewed, orderGets, reviewGets, pc, total,
                   read, page, history>>

\* The order page is disposed: nothing a get answers can reach it any more.
LeavePage(s) ==
    /\ view' = [view EXCEPT ![s] = "closed"]
    /\ reviewed' = [reviewed EXCEPT ![s] = FALSE]
    /\ orderGets' = [orderGets EXCEPT ![s] = 0]
    /\ reviewGets' = [reviewGets EXCEPT ![s] = 0]

CloseOrder(s) ==
    /\ view[s] \in {"loading", "order"}
    /\ LeavePage(s)
    /\ UNCHANGED <<server, gift, pc, total, read, page, history>>

(***************************************************************************)
(* The form: AddReview                                                     *)
(***************************************************************************)
\* A tap on Submit with all four ratings given.  "uploading" only changes
\* what the button shows, so the form takes a tap while an upload runs.
Submit(s, a, t) ==
    /\ view[s] = "add"
    /\ SessionOf[a] = s
    /\ pc[a] = "idle"
    /\ pc' = [pc EXCEPT ![a] = "user"]
    /\ total' = [total EXCEPT ![a] = t]
    /\ UNCHANGED <<server, gift, app, read, page, history>>

\* The back button pops the form with no result.
BackFromAdd(s) ==
    /\ view[s] = "add"
    /\ view' = [view EXCEPT ![s] = "leaving"]
    /\ UNCHANGED <<server, gift, reviewed, orderGets, reviewGets, pc, total,
                   read, page, history>>

Unmount(s) == [a \in Uploads |->
    IF SessionOf[a] = s /\ pc[a] # "idle" /\ page[a] = "mounted"
    THEN "unmounted" ELSE page[a]]

\* The form's exit animation ends and its State is disposed.
EndLeaving(s) ==
    /\ view[s] = "leaving"
    /\ view' = [view EXCEPT ![s] = "order"]
    /\ page' = Unmount(s)
    /\ UNCHANGED <<server, gift, reviewed, orderGets, reviewGets, pc, total,
                   read, history>>

(***************************************************************************)
(* _uploadProfileReview: each action is one awaited call taking effect and *)
(* its answer arriving.  Nobody awaits the write of a killed app: it may   *)
(* still take effect, once, but no other call follows it.                  *)
(***************************************************************************)
GoTo(a, next) ==
    pc' = [pc EXCEPT ![a] = IF page[a] = "killed" THEN "dead" ELSE next]

WriteUserReview(a) ==
    /\ pc[a] = "user"
    /\ userReview' = [userReview EXCEPT ![OrderBy(a)] = TRUE]
    /\ GoTo(a, "get")
    /\ UNCHANGED <<giftReview, orderReviewed, gift, app, total, read, page,
                   history>>

\* A missing gift leaves reviewsNo null, a missing field is read as 0.
ReadGift(a) ==
    /\ pc[a] = "get"
    /\ readRate' = [readRate EXCEPT ![a] =
                      IF giftExists[GiftBy(a)] THEN rate[GiftBy(a)] ELSE NoRate]
    /\ readNo' = [readNo EXCEPT ![a] =
                    IF giftExists[GiftBy(a)] THEN reviewsno[GiftBy(a)] ELSE NoCount]
    /\ GoTo(a, "rate")
    /\ UNCHANGED <<server, gift, app, total, page, history>>

\* Mutants: no case for the first rating; the fraction's parentheses dropped;
\* the count is read after it was incremented.
Mean_NoFirstCase(r, n, t) ==
    [num |-> r.num * n + t * r.den, den |-> r.den * (n + 1)]
Mean_Precedence(r, n, t) ==
    IF r.num = 0 THEN [num |-> t, den |-> 1]
    ELSE [num |-> r.num * n * (n + 1) + t * r.den, den |-> r.den * (n + 1)]
Mean_CountReadLate(r, n, t) ==
    IF r.num = 0 THEN [num |-> t, den |-> 1]
    ELSE [num |-> r.num * (n + 1) + t * r.den, den |-> r.den * (n + 2)]

\* (giftRate * reviewsNo + totalRate) / (reviewsNo + 1), or the first total
Mean(r, n, t) ==
    IF r.num = 0 THEN [num |-> t, den |-> 1]
    ELSE [num |-> r.num * n + t * r.den, den |-> r.den * (n + 1)]

\* Mutant: the count is written as the value read, plus one.
CountAfter_ReadModifyWrite(n, current) == IF n = NoCount THEN 1 ELSE n + 1

\* FieldValue.increment(1) is applied by the server to the count it has.
CountAfter(n, current) == IF n = 0 THEN 1 ELSE current + 1

\* Every other upload that has read gift g now holds an old value.
MarkStale(g, but) == [b \in Uploads |->
    IF b # but /\ pc[b] = "rate" /\ GiftBy(b) = g THEN TRUE
    ELSE IF b = but THEN FALSE ELSE stale[b]]

\* The aggregate is the last call that uses the upload's local values.
Forget(a) ==
    /\ total' = [total EXCEPT ![a] = MinTotal]
    /\ readRate' = [readRate EXCEPT ![a] = NoRate]
    /\ readNo' = [readNo EXCEPT ![a] = 0]

\* A set with merge: it creates the document when it is missing.
WriteRate(a) == LET g == GiftBy(a) IN
    /\ pc[a] = "rate"
    /\ rate' = [rate EXCEPT ![g] = Mean(readRate[a], readNo[a], total[a])]
    /\ reviewsno' = [reviewsno EXCEPT ![g] = CountAfter(readNo[a], @)]
    /\ giftExists' = [giftExists EXCEPT ![g] = TRUE]
    /\ GoTo(a, "gift")
    /\ stale' = MarkStale(g, a)
    /\ raced' = [raced EXCEPT ![g] = @ \/ stale[a]]
    /\ sum' = [sum EXCEPT ![g] = @ + total[a]]
    /\ count' = [count EXCEPT ![g] = @ + 1]
    /\ Forget(a)
    /\ UNCHANGED <<server, app, page>>

\* Mutant: the upload stops when the form is gone.
WriteGiftReview_WhileMounted(a) ==
    /\ pc[a] = "gift"
    /\ page[a] = "mounted"
    /\ giftReview' = [giftReview EXCEPT ![OrderBy(a)] = TRUE]
    /\ GoTo(a, "flag")
    /\ UNCHANGED <<userReview, orderReviewed, gift, app, total, read, page,
                   history>>

WriteGiftReview(a) ==
    /\ pc[a] = "gift"
    /\ giftReview' = [giftReview EXCEPT ![OrderBy(a)] = TRUE]
    /\ GoTo(a, "flag")
    /\ UNCHANGED <<userReview, orderReviewed, gift, app, total, read, page,
                   history>>

SetReviewed(a) ==
    /\ pc[a] = "flag"
    /\ orderReviewed' = [orderReviewed EXCEPT ![OrderBy(a)] = TRUE]
    /\ GoTo(a, "acked")
    /\ UNCHANGED <<userReview, giftReview, gift, app, total, read, page, history>>

\* Mutant: the gift's copy is treated as optional.
UploadFails_GiftCopyOptional(a) ==
    /\ pc[a] \in Awaiting
    /\ pc' = [pc EXCEPT ![a] = IF page[a] = "killed" THEN "dead"
                               ELSE IF @ = "gift" THEN "flag" ELSE "failed"]
    /\ UNCHANGED <<server, gift, app, total, read, page, history>>

\* A call that throws ends the upload: there is no handler, the spinner
\* stays, and so does the form, ready for another tap.
UploadFails(a) ==
    /\ pc[a] \in Awaiting
    /\ pc' = [pc EXCEPT ![a] = IF page[a] = "killed" THEN "dead" ELSE "failed"]
    /\ Forget(a)
    /\ stale' = [stale EXCEPT ![a] = FALSE]
    /\ UNCHANGED <<server, gift, app, page, raced, sum, count>>

(***************************************************************************)
(* .then((onValue) { setState; Navigator.pop(context, true) }): on the     *)
(* form it pops the form, and the order page refreshes; while the form is  *)
(* leaving it pops the order page below; once the form is disposed,        *)
(* setState throws and nothing is popped.                                  *)
(***************************************************************************)
Finish(a) == LET s == SessionOf[a] IN
    /\ pc[a] = "acked"
    /\ pc' = [pc EXCEPT ![a] = "done"]
    /\ \/ /\ page[a] = "mounted" /\ view[s] = "add"
          /\ view' = [view EXCEPT ![s] = "leaving"]
          /\ orderGets' = [orderGets EXCEPT ![s] = @ + 1]
          /\ UNCHANGED <<reviewed, reviewGets, page>>
       \/ /\ page[a] = "mounted" /\ view[s] = "leaving"
          /\ LeavePage(s)
          /\ page' = Unmount(s)
       \/ /\ page[a] # "mounted"
          /\ UNCHANGED <<app, page>>
    /\ UNCHANGED <<server, gift, total, read, history>>

(***************************************************************************)
(* The environment                                                         *)
(***************************************************************************)
\* The phone kills an app that shows the order or has an upload running.
Kill(s) ==
    /\ \/ view[s] # "closed"
       \/ \E a \in Uploads : /\ SessionOf[a] = s /\ page[a] # "killed"
                            /\ pc[a] \in Awaiting \cup {"acked"}
    /\ LeavePage(s)
    /\ page' = [a \in Uploads |->
                  IF SessionOf[a] = s /\ pc[a] \in Writing THEN "killed"
                  ELSE page[a]]
    /\ pc' = [a \in Uploads |->
                IF SessionOf[a] = s /\ pc[a] \in {"get", "acked"} THEN "dead"
                ELSE pc[a]]
    /\ UNCHANGED <<server, gift, total, read, history>>

\* The shop withdraws a gift; the reviews below its document stay.
DeleteGift(g) ==
    /\ giftExists[g]
    /\ giftExists' = [giftExists EXCEPT ![g] = FALSE]
    /\ rate' = [rate EXCEPT ![g] = NoRate]
    /\ reviewsno' = [reviewsno EXCEPT ![g] = 0]
    /\ stale' = [a \in Uploads |->
                   IF pc[a] = "rate" /\ GiftBy(a) = g THEN TRUE ELSE stale[a]]
    /\ raced' = [raced EXCEPT ![g] = FALSE]
    /\ sum' = [sum EXCEPT ![g] = 0]
    /\ count' = [count EXCEPT ![g] = 0]
    /\ UNCHANGED <<server, app, pc, total, read, page>>

Load(s)  == GetOrder(s) \/ GetReview(s)
Step(a)  == \/ WriteUserReview(a) \/ ReadGift(a) \/ WriteRate(a)
            \/ WriteGiftReview(a) \/ SetReviewed(a) \/ Finish(a)

Next ==
    \/ \E s \in Sessions : \/ OpenOrder(s) \/ Load(s) \/ GetFails(s)
                           \/ OpenAddReview(s) \/ CloseOrder(s)
                           \/ BackFromAdd(s) \/ EndLeaving(s) \/ Kill(s)
    \/ \E s \in Sessions, a \in Uploads, t \in Totals : Submit(s, a, t)
    \/ \E a \in Uploads : Step(a) \/ UploadFails(a)
    \/ \E g \in Gifts : DeleteGift(g)

Spec == Init /\ [][Next]_vars

\* An awaited call gets an answer: that is all the code relies on.
Fairness == \A a \in Uploads : WF_vars(Step(a))

FairSpec == Spec /\ Fairness

-----------------------------------------------------------------------------
Rates == [num : Nat, den : Nat \ {0}]

TypeOK ==
    /\ userReview \in [Orders -> BOOLEAN]
    /\ giftReview \in [Orders -> BOOLEAN]
    /\ orderReviewed \in [Orders -> BOOLEAN]
    /\ giftExists \in [Gifts -> BOOLEAN]
    /\ rate \in [Gifts -> Rates]
    /\ reviewsno \in [Gifts -> Nat]
    /\ view \in [Sessions -> Views]
    /\ reviewed \in [Sessions -> BOOLEAN]
    /\ orderGets \in [Sessions -> Nat]
    /\ reviewGets \in [Sessions -> Nat]
    /\ pc \in [Uploads -> PCs]
    /\ total \in [Uploads -> Totals]
    /\ readRate \in [Uploads -> Rates]
    /\ readNo \in [Uploads -> Nat \cup {NoCount}]
    /\ page \in [Uploads -> Pages]
    /\ stale \in [Uploads -> BOOLEAN]
    /\ raced \in [Gifts -> BOOLEAN]
    /\ sum \in [Gifts -> Nat]
    /\ count \in [Gifts -> Nat]

\* An order carries the reviewed flag, which takes the "Add Review" button
\* away for good, only once both copies of its review are stored, whatever
\* failed, died or overlapped.
ReviewedImpliesPublished ==
    \A o \in Orders : orderReviewed[o] => userReview[o] /\ giftReview[o]

\* "Your review has been added" is shown for an order that is reviewed: the
\* upload whose .then runs has set the flag.
SuccessMeansReviewed ==
    \A a \in Uploads : pc[a] \in {"acked", "done"} => orderReviewed[OrderBy(a)]

\* The second get of getOrderData, made because the first one saw the flag,
\* finds the review it is going to read the four ratings from.
ReviewGetFindsIt ==
    \A s \in Sessions : reviewGets[s] > 0 => giftReview[OrderOf[s]]

InScale(r) == \/ r.num = 0
              \/ MinTotal * r.den <= r.num /\ r.num <= MaxTotal * r.den

\* However stale the values an upload read, the average it writes stays
\* between the lowest and the highest rating the form can give.
RateWithinScale == \A g \in Gifts : InScale(rate[g])

\* As long as no upload wrote over another one's update, the incremental
\* average is the mean of all totals and the count their number.
SerialMeanExact ==
    \A g \in Gifts : ~ raced[g] =>
        /\ reviewsno[g] = count[g]
        /\ count[g] > 0 => rate[g].num * count[g] = sum[g] * rate[g].den

\* The count never exceeds the number of aggregate writes since the gift
\* was created: racing uploads and a withdrawn gift lose counts, never add.
CountNotInflated == \A g \in Gifts : reviewsno[g] <= count[g]

\* Every tap on Submit comes to an end: success, an error, or a dead app.  A
\* tap starts one upload, so that it is enough that time and again none runs.
EverySubmissionSettles ==
    []<>(\A a \in Uploads : pc[a] \in {"idle"} \cup Settled)
=============================================================================
