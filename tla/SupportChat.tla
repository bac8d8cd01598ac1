----------------------------- MODULE SupportChat -----------------------------
(***************************************************************************)
(* The support chat of one user (lib/Chat.dart).  The page merges three    *)
(* sources into one list, newest message first: pages it asks for while    *)
(* the user scrolls, the change events of a listener on the collection,    *)
(* and the greeting it writes itself when the chat is empty.               *)
(*                                                                         *)
(* A message is its time: times are unique, but they are taken from the    *)
(* clock of the phone that sends, so Boxet's may be out of step with the   *)
(* user's.  Seen flags and the typing indicator are left out.              *)
(***************************************************************************)
EXTENDS Paging

CONSTANTS
    MaxTime,    \* bound: messages are sent at the times 1 .. MaxTime
    TeamTimes,  \* bound: the times at which Boxet's team may send
    Limit,      \* messages per page: 20 in the code
    MaxOrphans  \* bound: greetings closed pages may still owe

ASSUME ChatAssumption == /\ MaxTime \in Nat \ {0}
                         /\ TeamTimes \subseteq 1 .. MaxTime
                         /\ Limit \in Nat \ {0}
                         /\ MaxOrphans \in Nat

Messages == 1 .. MaxTime
Top == MaxTime + 1      \* the cursor of a request without startAfter

(***************************************************************************)
(* requestNextMessages is asked for a page, has it answered, or found the  *)
(* chat empty: it is going to greet, then gets its greeting back.  The     *)
(* flag "requesting" is req # "none"; nothing resets it after an error.    *)
(***************************************************************************)
Requests == {"none", "asked", "answered", "greet", "get", "failed"}

\* The second greeting: its delay runs, then the dots show and it is sent.
Helps == {"none", "scheduled", "due"}

VARIABLES
    \* ContactUs/{uid}
    stored,         \* Messages: the documents there are
    used,           \* every time a message was sent at
    lastMessage,    \* the lastmessage field, 0: none
    \* the phone
    mine,           \* messages the user sent
    phoneTime,      \* the phone's last message, greetings included
    unacked,        \* messages whose add is still awaited
    orphans,        \* greetings closed pages will still send
    \* the page
    open, list, known, req, cursor, answer, greeting, help,
    missed,         \* history: messages announced while the list was empty
    base,           \* history: messages stored when the first page was read
    gone            \* history: messages the listener said were removed

store == <<stored, used, lastMessage>>
phone == <<mine, phoneTime, unacked, orphans>>
request == <<req, cursor, answer, greeting, help>>
history == <<missed, base, gone>>
vars == <<store, phone, open, list, known, request, history>>

Init ==
    /\ stored = {} /\ used = {} /\ lastMessage = 0
    /\ mine = {} /\ phoneTime = 0 /\ unacked = <<>> /\ orphans = 0
    /\ open = FALSE /\ req = "none"
    /\ list = <<>> /\ known = {} /\ cursor = Top /\ answer = <<>>
    /\ greeting = 0 /\ help = "none" /\ missed = {} /\ base = {} /\ gone = {}

(***************************************************************************)
(* Messages reach the store                                                *)
(***************************************************************************)
Store(m) ==
    /\ stored' = stored \cup {m}
    /\ used' = used \cup {m}

\* The phone's clock goes forward.
PhoneTimes == {m \in Messages \ used : m > phoneTime}

PhoneSends(m) ==
    /\ m \in PhoneTimes
    /\ Store(m)
    /\ phoneTime' = m

\* Boxet's team answers, by a clock of its own.
TeamSends(m) ==
    /\ m \in TeamTimes \ used
    /\ Store(m)
    /\ UNCHANGED <<lastMessage, phone, open, list, known, request, history>>

\* _sendMessages: the add takes effect in the local cache at once.
Send(m) ==
    /\ open
    /\ PhoneSends(m)
    /\ mine' = mine \cup {m}
    /\ unacked' = Append(unacked, m)
    /\ UNCHANGED <<lastMessage, orphans, open, list, known, request, history>>

\* Mutant: the record is written without waiting for the earlier messages.
SendAcked_AnyOrder ==
    /\ unacked # <<>>
    /\ lastMessage' = Last(unacked)
    /\ unacked' = Front(unacked)
    /\ UNCHANGED <<stored, used, mine, phoneTime, orphans, open, list, known,
                   request, history>>

\* Adds are committed in order; only then the chat's record is written,
\* whether or not the page is still there.
SendAcked ==
    /\ unacked # <<>>
    /\ lastMessage' = Head(unacked)
    /\ unacked' = Tail(unacked)
    /\ UNCHANGED <<stored, used, mine, phoneTime, orphans, open, list, known,
                   request, history>>

\* An add that is refused throws: the local copy is taken back.
SendFails ==
    /\ unacked # <<>>
    /\ stored' = stored \ {Head(unacked)}
    /\ unacked' = Tail(unacked)
    /\ UNCHANGED <<used, lastMessage, mine, phoneTime, orphans, open, list,
                   known, request, history>>

\* The team removes a message of the user.
TeamDeletes(m) ==
    /\ m \in stored \cap mine
    /\ m \notin Range(unacked)
    /\ stored' = stored \ {m}
    /\ UNCHANGED <<used, lastMessage, phone, open, list, known, request, history>>

(***************************************************************************)
(* The page opens and closes                                               *)
(***************************************************************************)
\* A new State, or none.
Clear ==
    /\ list' = <<>> /\ known' = {} /\ cursor' = Top /\ answer' = <<>>
    /\ greeting' = 0 /\ help' = "none" /\ missed' = {} /\ base' = {}
    /\ gone' = {}

\* initState starts the listener and asks for the first page.
Open ==
    /\ ~ open
    /\ open' = TRUE
    /\ req' = "asked"
    /\ Clear
    /\ UNCHANGED <<store, phone>>

Dispose ==
    /\ open' = FALSE
    /\ req' = "none"
    /\ Clear

\* A greeting whose delay runs is sent all the same; everything else the
\* disposed page awaits throws at its first setState or closed controller.
Close ==
    /\ open
    /\ Dispose
    /\ orphans' = orphans + (IF req = "greet" THEN 1 ELSE 0)
                          + (IF help = "due" THEN 1 ELSE 0)
    /\ orphans' <= MaxOrphans
    /\ UNCHANGED <<store, mine, phoneTime, unacked>>

\* Mutant: the timer fires for a page that owes nothing.
OrphanSends_Uncounted(m) ==
    /\ PhoneSends(m)
    /\ orphans' = orphans - 1
    /\ UNCHANGED <<lastMessage, mine, unacked, open, list, known, request, history>>

OrphanSends(m) ==
    /\ orphans > 0
    /\ PhoneSends(m)
    /\ orphans' = orphans - 1
    /\ UNCHANGED <<lastMessage, mine, unacked, open, list, known, request, history>>

\* The phone kills the app; what the cache has queued is sent, unawaited.
Kill ==
    /\ open \/ orphans > 0 \/ unacked # <<>>
    /\ Dispose
    /\ orphans' = 0
    /\ unacked' = <<>>
    /\ UNCHANGED <<store, mine, phoneTime>>

(***************************************************************************)
(* onChangedData                                                           *)
(***************************************************************************)
\* Mutants: an added message always goes to the front; only into a list
\* that has one message.
Added_Unchecked(l, m) == IF l # <<>> THEN <<m>> \o l ELSE l
Added_ToShortList(l, m) == IF Len(l) = 1 /\ m >= l[1] THEN <<m>> \o l ELSE l

\* An added message goes to the front unless it is older than the front;
\* contains compares snapshots by identity, so it never finds it.
Added(l, m) == IF l # <<>> /\ m >= l[1] THEN <<m>> \o l ELSE l

\* The additions of a snapshot, one after the other.
AllAdded(l, new) ==
    LET after[i \in 0 .. Len(new)] ==
            IF i = 0 THEN l ELSE Added(after[i - 1], new[i])
    IN  after[Len(new)]

\* A snapshot: removals first, additions in the order of their random ids.
\* A modification replaces a document in its place.
Snapshot ==
    /\ open
    /\ known # stored
    /\ known' = stored
    /\ gone' = gone \cup (known \ stored)
    /\ LET kept == Without(list, known \ stored) IN
       /\ \E new \in SetToSeqs(stored \ known) : list' = AllAdded(kept, new)
       /\ missed' = IF kept = <<>> THEN missed \cup (stored \ known) ELSE missed
    /\ UNCHANGED <<store, phone, open, request, base>>

(***************************************************************************)
(* requestNextMessages                                                     *)
(***************************************************************************)
\* The list scrolls to its oldest message.
Scroll ==
    /\ open /\ list # <<>>
    /\ req = "none"
    /\ req' = "asked"
    /\ cursor' = Last(list)
    /\ UNCHANGED <<store, phone, open, list, known, answer, greeting, help, history>>

\* Mutant: the cursor is skipped a second time.
PageAfter_SkipsOne(c) == Newest({m \in stored : m < c - 1}, Limit)

PageAfter(c) == Newest({m \in stored : m < c}, Limit)

ReadPage ==
    /\ open /\ req = "asked"
    /\ req' = "answered"
    /\ answer' = PageAfter(cursor)
    /\ base' = IF cursor = Top THEN stored ELSE base
    /\ UNCHANGED <<store, phone, open, list, known, cursor, greeting, help, missed,
                   gone>>

\* An empty page ends the chat's history, or starts it: then two delayed
\* closures show the dots and send "Welcome to Boxet".
ApplyPage ==
    /\ open /\ req = "answered"
    /\ list' = list \o answer
    /\ req' = IF list' = <<>> THEN "greet" ELSE "none"
    /\ cursor' = Top
    /\ answer' = <<>>
    /\ UNCHANGED <<store, phone, open, known, greeting, help, history>>

\* A call that throws leaves "requesting" set: no page is asked for again.
RequestFails ==
    /\ open /\ req \in {"asked", "greet", "get"}
    /\ req' = "failed"
    /\ UNCHANGED <<store, phone, open, list, known, cursor, answer, greeting,
                   help, history>>

Greet(m) ==
    /\ open /\ req = "greet"
    /\ PhoneSends(m)
    /\ req' = "get"
    /\ greeting' = m
    /\ help' = "scheduled"
    /\ UNCHANGED <<lastMessage, mine, unacked, orphans, open, list, known, cursor,
                   answer, history>>

\* Mutant: the flag is not reset on this path.
ShowGreeting_StillRequesting ==
    /\ open /\ req = "get" /\ greeting # 0
    /\ list' = Append(list, greeting)
    /\ greeting' = 0
    /\ UNCHANGED <<store, phone, open, known, req, cursor, answer, help, history>>

\* value.get(): the greeting goes to the end of the (still empty) list.
ShowGreeting ==
    /\ open /\ req = "get"
    /\ list' = Append(list, greeting)
    /\ req' = "none"
    /\ greeting' = 0
    /\ UNCHANGED <<store, phone, open, known, cursor, answer, help, history>>

HelpDue ==
    /\ open /\ help = "scheduled"
    /\ help' = "due"
    /\ UNCHANGED <<store, phone, open, list, known, req, cursor, answer, greeting,
                   history>>

\* "How can we help you?"; the listener puts it in the list.
Help(m) ==
    /\ open /\ help = "due"
    /\ PhoneSends(m)
    /\ help' = "none"
    /\ UNCHANGED <<lastMessage, mine, unacked, orphans, open, list, known, req,
                   cursor, answer, greeting, history>>

Fetch == ReadPage \/ ApplyPage \/ ShowGreeting \/ (\E m \in Messages : Greet(m))

Next ==
    \/ Open \/ Close \/ Kill \/ Snapshot \/ Scroll \/ Fetch \/ RequestFails
    \/ HelpDue \/ SendAcked \/ SendFails
    \/ \E m \in Messages : \/ TeamSends(m) \/ TeamDeletes(m) \/ Send(m)
                           \/ Help(m) \/ OrphanSends(m)

Spec == Init /\ [][Next]_vars

\* Firestore answers and timers expire.
FairSpec == Spec /\ WF_vars(Fetch)

-----------------------------------------------------------------------------
TypeOK ==
    /\ stored \subseteq used /\ used \subseteq Messages
    /\ mine \subseteq used
    /\ lastMessage \in 0 .. MaxTime
    /\ phoneTime \in 0 .. MaxTime
    /\ unacked \in Seq(mine)
    /\ orphans \in Nat
    /\ open \in BOOLEAN
    /\ list \in Seq(used)
    /\ known \subseteq used
    /\ req \in Requests
    /\ cursor \in 1 .. Top
    /\ answer \in Seq(used)
    /\ greeting \in 0 .. MaxTime
    /\ help \in Helps
    /\ missed \subseteq used
    /\ base \subseteq used
    /\ gone \subseteq used

Copies(m) == Cardinality({i \in DOMAIN list : list[i] = m})

\* The page shows messages newest first, though snapshots arrive unsorted,
\* clocks disagree and pages are appended to a list that changed meanwhile;
\* one announced by the listener and read with a page is there twice at worst,
\* however often the user scrolls.
ListInOrder ==
    /\ \A i, j \in DOMAIN list : i < j => list[i] >= list[j]
    /\ \A m \in used : Copies(m) <= 2

\* Paging leaves no hole: of the messages that were stored when the first
\* page was read, those still stored are in the list down to its last one,
\* though messages are removed while later pages are on their way.
NoHoleBetweenPages ==
    list # <<>> => \A m \in base \cap stored : m >= Last(list) => m \in Range(list)

\* Once the listener is up to date, the newest message is on top of a list that
\* shows any, however many arrived in one snapshot and in whatever order it lists
\* them, also after a page failed.  Two kinds of message are not claimed to be
\* there: one announced to an empty list (while the first page was on its way and
\* read without it, or after all that was shown was removed), and one that came
\* behind a newer message, so that it was dropped, when that is removed later.
NewestArrives ==
    list # <<>> /\ known = stored =>
        \A m \in stored \ (missed \ base) :
            m <= list[1] \/ \E n \in gone : n > m

\* The team's list of chats shows the user's last message: an earlier one
\* never replaces it, whether pages close or writes are slow.
LastMessageAdvances == [][lastMessage' >= lastMessage]_vars

\* A request of a page ends, by an answer, an error or the end of the page,
\* so that scrolling asks for the next one (unless no time is left to greet).
EveryRequestEnds ==
    req # "none" ~> req \in {"none", "failed"} \/ PhoneTimes = {}
=============================================================================
