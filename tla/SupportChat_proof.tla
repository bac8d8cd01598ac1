-------------------------- MODULE SupportChat_proof --------------------------
(***************************************************************************)
(* Proofs about SupportChat, for any times, team and size of a page, and   *)
(* any number of messages and greetings under way; and at the end about    *)
(* HomeFeed, which reads its gifts in pages as the chat reads messages.    *)
(***************************************************************************)
EXTENDS SupportChat, HomeFeed, SequenceTheorems, FiniteSetTheorems, TLAPS

LEMMA TailFacts ==
    ASSUME NEW S, NEW s \in Seq(S), s # <<>>
    PROVE  /\ Tail(s) \in Seq(S) /\ Head(s) = s[1]
           /\ Len(s) \in Nat \ {0} /\ DOMAIN s = 1 .. Len(s)
           /\ DOMAIN Tail(s) = 1 .. Len(s) - 1
           /\ \A i \in 1 .. Len(s) - 1 : Tail(s)[i] = s[i + 1]
BY EmptySeq, HeadTailProperties, LenProperties

LEMMA AppendFacts ==
    ASSUME NEW S, NEW s \in Seq(S), NEW e \in S
    PROVE  /\ Append(s, e) \in Seq(S)
           /\ Len(s) \in Nat /\ DOMAIN s = 1 .. Len(s)
           /\ DOMAIN Append(s, e) = 1 .. Len(s) + 1
           /\ \A i \in 1 .. Len(s) : Append(s, e)[i] = s[i]
           /\ Append(s, e)[Len(s) + 1] = e
BY AppendProperties, LenProperties

-----------------------------------------------------------------------------
\* The messages that wait for their answer were sent one after the other, and
\* all later than the one the chat's record has (_sendMessages).
RecordInv ==
    /\ phoneTime \in Nat /\ lastMessage \in Nat /\ lastMessage <= phoneTime
    /\ unacked \in Seq(Nat)
    /\ \A i \in DOMAIN unacked : lastMessage < unacked[i] /\ unacked[i] <= phoneTime
    /\ \A i, j \in DOMAIN unacked : i < j => unacked[i] < unacked[j]

\* The phone's clock goes forward: a message sent now is later than all.
LEMMA ClockAdvances ==
    ASSUME RecordInv, NEW m \in Messages, PhoneSends(m)
    PROVE  m \in Nat /\ phoneTime < m /\ phoneTime' = m
<1>1. MaxTime \in Nat
  BY ChatAssumption
<1>2. QED  BY <1>1 DEF PhoneSends, PhoneTimes, Messages, RecordInv

\* A greeting is sent, which nobody waits for.
LEMMA GreetingKeeps ==
    ASSUME RecordInv, NEW m \in Messages, PhoneSends(m),
           UNCHANGED <<lastMessage, unacked>>
    PROVE  RecordInv'
<1>1. m \in Nat /\ phoneTime < m /\ phoneTime' = m
  BY ClockAdvances
<1>2. ASSUME NEW i \in DOMAIN unacked PROVE unacked[i] <= m
  <2>1. unacked[i] \in Nat
    BY ElementOfSeq, LenProperties DEF RecordInv
  <2>2. QED  BY <1>1, <2>1 DEF RecordInv
<1>3. QED  BY <1>1, <1>2 DEF RecordInv

\* The first of them is answered, and the record written or not.
LEMMA AnswerKeeps ==
    ASSUME RecordInv, unacked # <<>>, unacked' = Tail(unacked),
           lastMessage' \in {lastMessage, Head(unacked)}, phoneTime' = phoneTime
    PROVE  RecordInv' /\ lastMessage' >= lastMessage
<1>0. unacked \in Seq(Nat)
  BY DEF RecordInv
<1>1. /\ Tail(unacked) \in Seq(Nat) /\ Head(unacked) = unacked[1]
      /\ Len(unacked) \in Nat \ {0} /\ DOMAIN unacked = 1 .. Len(unacked)
      /\ DOMAIN Tail(unacked) = 1 .. Len(unacked) - 1
      /\ \A i \in 1 .. Len(unacked) - 1 : Tail(unacked)[i] = unacked[i + 1]
  BY <1>0, TailFacts
<1>2. unacked[1] \in Nat /\ lastMessage < unacked[1]
  BY <1>0, <1>1, ElementOfSeq DEF RecordInv
<1>3. /\ lastMessage' \in Nat /\ lastMessage' >= lastMessage
      /\ lastMessage' <= unacked[1] /\ lastMessage' <= phoneTime
  BY <1>1, <1>2, SMTT(40) DEF RecordInv
<1>4. ASSUME NEW i \in 1 .. Len(unacked) - 1
      PROVE  lastMessage' < Tail(unacked)[i] /\ Tail(unacked)[i] <= phoneTime
  <2>1. i + 1 \in DOMAIN unacked /\ 1 \in DOMAIN unacked /\ 1 < i + 1
    BY <1>1
  <2>2. unacked[1] < unacked[i + 1] /\ unacked[i + 1] <= phoneTime
    BY <2>1 DEF RecordInv
  <2>3. unacked[i + 1] \in Nat
    BY <1>0, <1>1, <2>1, ElementOfSeq
  <2>4. QED  BY <1>1, <1>2, <1>3, <2>2, <2>3
<1>5. ASSUME NEW i \in 1 .. Len(unacked) - 1, NEW j \in 1 .. Len(unacked) - 1, i < j
      PROVE  Tail(unacked)[i] < Tail(unacked)[j]
  <2>1. i + 1 \in DOMAIN unacked /\ j + 1 \in DOMAIN unacked /\ i + 1 < j + 1
    BY <1>1, <1>5
  <2>2. QED  BY <1>1, <2>1 DEF RecordInv
<1>6. QED  BY <1>1, <1>3, <1>4, <1>5 DEF RecordInv

LEMMA NextRecord == RecordInv /\ [Next]_vars => RecordInv' /\ lastMessage' >= lastMessage
<1> SUFFICES ASSUME RecordInv, [Next]_vars PROVE RecordInv' /\ lastMessage' >= lastMessage
  OBVIOUS
<1>0. lastMessage >= lastMessage
  BY DEF RecordInv
<1>1. ASSUME UNCHANGED <<lastMessage, phoneTime, unacked>>
      PROVE  RecordInv' /\ lastMessage' >= lastMessage
  BY <1>0, <1>1 DEF RecordInv
<1>2. ASSUME NEW m \in Messages, PhoneSends(m), UNCHANGED <<lastMessage, unacked>>
      PROVE  RecordInv' /\ lastMessage' >= lastMessage
  BY <1>0, <1>2, GreetingKeeps
<1>3. ASSUME NEW m \in Messages, Send(m)
      PROVE  RecordInv' /\ lastMessage' >= lastMessage
  <2>0. unacked \in Seq(Nat) /\ unacked' = Append(unacked, m) /\ lastMessage' = lastMessage
    BY <1>3 DEF Send, RecordInv
  <2>1. m \in Nat /\ phoneTime < m /\ phoneTime' = m
    BY <1>3, ClockAdvances DEF Send
  <2>2. /\ unacked' \in Seq(Nat)
        /\ Len(unacked) \in Nat /\ DOMAIN unacked = 1 .. Len(unacked)
        /\ DOMAIN unacked' = 1 .. Len(unacked) + 1
        /\ \A i \in 1 .. Len(unacked) : unacked'[i] = unacked[i]
        /\ unacked'[Len(unacked) + 1] = m
    BY <2>0, <2>1, AppendFacts
  <2>3. ASSUME NEW i \in 1 .. Len(unacked)
        PROVE  unacked[i] \in Nat /\ lastMessage < unacked[i] /\ unacked[i] < m
    <3>1. unacked[i] \in Nat
      BY <2>0, <2>2, ElementOfSeq
    <3>2. i \in DOMAIN unacked
      BY <2>2
    <3>3. lastMessage < unacked[i] /\ unacked[i] <= phoneTime
      BY <3>2 DEF RecordInv
    <3>4. phoneTime \in Nat
      BY DEF RecordInv
    <3>5. QED  BY <2>1, <3>1, <3>3, <3>4
  <2>4. lastMessage < m
    BY <2>1 DEF RecordInv
  <2>5. ASSUME NEW i \in DOMAIN unacked'
        PROVE  lastMessage' < unacked'[i] /\ unacked'[i] <= phoneTime'
    <3>1. CASE i \in 1 .. Len(unacked)
      BY <2>0, <2>1, <2>2, <2>3, <3>1
    <3>2. CASE i = Len(unacked) + 1
      BY <2>0, <2>1, <2>2, <2>4, <3>2
    <3>3. QED  BY <2>2, <3>1, <3>2
  <2>6. ASSUME NEW i \in DOMAIN unacked', NEW j \in DOMAIN unacked', i < j
        PROVE  unacked'[i] < unacked'[j]
    <3>1. i \in 1 .. Len(unacked)
      BY <2>2, <2>6
    <3>2. CASE j \in 1 .. Len(unacked)
      BY <2>2, <2>6, <3>1, <3>2 DEF RecordInv
    <3>3. CASE j = Len(unacked) + 1
      BY <2>2, <2>3, <3>1, <3>3
    <3>4. QED  BY <2>2, <3>2, <3>3
  <2>7. QED
    BY <1>0, <2>0, <2>1, <2>2, <2>4, <2>5, <2>6 DEF RecordInv
<1>4. CASE SendAcked
  BY <1>4, AnswerKeeps DEF SendAcked
<1>5. CASE SendFails
  BY <1>5, AnswerKeeps DEF SendFails
<1>6. CASE Kill
  <2>1. /\ unacked' = <<>> /\ <<>> \in Seq(Nat) /\ DOMAIN <<>> = {}
        /\ UNCHANGED <<lastMessage, phoneTime>>
    BY <1>6, EmptySeq DEF Kill, store
  <2>2. QED  BY <1>0, <2>1 DEF RecordInv
<1>7. CASE Fetch
  <2>1. CASE \E m \in Messages : Greet(m)
    BY <1>2, <2>1 DEF Greet
  <2>2. CASE ReadPage
    BY <1>1, <2>2 DEF ReadPage, store, phone
  <2>3. CASE ApplyPage
    BY <1>1, <2>3 DEF ApplyPage, store, phone
  <2>4. CASE ShowGreeting
    BY <1>1, <2>4 DEF ShowGreeting, store, phone
  <2>5. QED  BY <1>7, <2>1, <2>2, <2>3, <2>4 DEF Fetch
<1>8. CASE Open \/ Close
  BY <1>1, <1>8 DEF Open, Close, store, phone
<1>9. CASE Snapshot
  BY <1>1, <1>9 DEF Snapshot, store, phone
<1>10. CASE Scroll \/ RequestFails \/ HelpDue
  BY <1>1, <1>10 DEF Scroll, RequestFails, HelpDue, store, phone
<1>11. ASSUME NEW m \in Messages, TeamSends(m) \/ TeamDeletes(m)
       PROVE  RecordInv' /\ lastMessage' >= lastMessage
  BY <1>1, <1>11 DEF TeamSends, TeamDeletes, phone
<1>12. ASSUME NEW m \in Messages, Help(m) \/ OrphanSends(m)
       PROVE  RecordInv' /\ lastMessage' >= lastMessage
  BY <1>2, <1>12 DEF Help, OrphanSends
<1>13. CASE UNCHANGED vars
  BY <1>1, <1>13 DEF vars, store, phone
<1>14. QED
  BY <1>3, <1>4, <1>5, <1>6, <1>7, <1>8, <1>9, <1>10, <1>11, <1>12, <1>13 DEF Next

THEOREM RecordHeld == Spec => []RecordInv
<1>1. Init => RecordInv
  BY EmptySeq DEF Init, RecordInv
<1>2. RecordInv /\ [Next]_vars => RecordInv'
  BY NextRecord
<1>3. QED  BY <1>1, <1>2, PTL DEF Spec

\* However slow the writes are, whichever fail, and whatever pages and greetings
\* come between, the record of a chat never goes back to an earlier message.
THEOREM NeverBack == Spec => LastMessageAdvances
<1>1. RecordInv /\ [Next]_vars => [lastMessage' >= lastMessage]_vars
  BY NextRecord
<1>2. QED  BY <1>1, RecordHeld, PTL DEF Spec, LastMessageAdvances

-----------------------------------------------------------------------------
LEMMA Least ==
    ASSUME NEW T, T \subseteq Nat, T # {}
    PROVE  \E n \in T : \A m \in T : n <= m
<1>1. \E n \in T : \A m \in T : <<m, n>> \notin OpToRel(<, Nat)
  BY NatLessThanWellFounded, WFMin
<1>2. PICK n \in T : \A m \in T : <<m, n>> \notin OpToRel(<, Nat)
  BY <1>1
<1>3. \A m \in T : ~ (m < n)
  BY <1>2 DEF OpToRel
<1>4. QED BY <1>3

\* Induction over the numbers, for a property given as the set it holds of.
LEMMA Induct ==
    ASSUME NEW T, 0 \in T, \A n \in Nat : n \in T => n + 1 \in T
    PROVE  Nat \subseteq T
<1> SUFFICES ASSUME Nat \ T # {} PROVE FALSE
  OBVIOUS
<1>1. PICK n \in Nat \ T : \A m \in Nat \ T : n <= m
  BY Least
<1>2. n - 1 \in Nat \ T
  BY <1>1
<1>3. QED BY <1>1, <1>2

-----------------------------------------------------------------------------
UpTo(S, x) == {y \in S : y <= x}

LEMMA Counted ==
    ASSUME NEW n \in Nat, NEW S \in SUBSET (1 .. n)
    PROVE  IsFiniteSet(S) /\ Cardinality(S) \in Nat
<1>1. 1 \in Int /\ n \in Int
  OBVIOUS
<1>2. IsFiniteSet(1 .. n)
  BY <1>1, FS_Interval
<1>3. IsFiniteSet(S)
  BY <1>2, FS_Subset
<1>4. QED  BY <1>3, FS_CardinalityType

\* Every rank is the rank of a member.
LEMMA Ranked ==
    ASSUME NEW n \in Nat, NEW S \in SUBSET (1 .. n), NEW k \in 1 .. Cardinality(S)
    PROVE  \E x \in S : Cardinality(UpTo(S, x)) = k
<1> DEFINE Has(R) == \A i \in 1 .. Cardinality(R) :
                         \E x \in R : Cardinality(UpTo(R, x)) = i
           T == {i \in Nat : \A R \in SUBSET (1 .. i) : Has(R)}
<1>1. 0 \in T
  <2>1. ASSUME NEW R \in SUBSET (1 .. 0) PROVE Has(R)
    <3>1. R = {} /\ 1 .. 0 = {}
      OBVIOUS
    <3>2. Cardinality(R) = 0
      BY <3>1, FS_EmptySet
    <3>3. QED  BY <3>1, <3>2
  <2>2. QED  BY <2>1
<1>2. ASSUME NEW i \in Nat, i \in T PROVE i + 1 \in T
  <2>1. SUFFICES ASSUME NEW R \in SUBSET (1 .. i + 1) PROVE Has(R)
    OBVIOUS
  <2>2. CASE i + 1 \notin R
    <3>1. R \in SUBSET (1 .. i)
      BY <2>2
    <3>2. QED  BY <1>2, <3>1
  <2>3. CASE i + 1 \in R
    <3> DEFINE Q == R \ {i + 1}
    <3>1. Q \in SUBSET (1 .. i) /\ i + 1 \notin Q /\ R = Q \cup {i + 1}
      BY <2>3
    <3>2. IsFiniteSet(Q) /\ Cardinality(Q) \in Nat
      BY <3>1, Counted
    <3>3. Cardinality(R) = Cardinality(Q) + 1
      BY <3>1, <3>2, FS_AddElement
    <3>4. Has(Q)
      BY <1>2, <3>1
    <3>5. ASSUME NEW k1 \in 1 .. Cardinality(R)
          PROVE  \E x \in R : Cardinality(UpTo(R, x)) = k1
      <4>1. CASE k1 = Cardinality(R)
        <5>1. UpTo(R, i + 1) = R
          <6>1. \A y \in R : y <= i + 1
            OBVIOUS
          <6>2. QED  BY <6>1 DEF UpTo
        <5>2. QED  BY <2>3, <4>1, <5>1
      <4>2. CASE k1 \in 1 .. Cardinality(Q)
        <5>1. PICK x \in Q : Cardinality(UpTo(Q, x)) = k1
          BY <3>4, <4>2
        <5>2. UpTo(R, x) = UpTo(Q, x)
          BY <3>1 DEF UpTo
        <5>3. QED  BY <5>1, <5>2
      <4>3. QED  BY <3>2, <3>3, <4>1, <4>2
    <3>6. QED  BY <3>5
  <2>4. QED  BY <2>2, <2>3
<1>3. n \in T
  <2> HIDE DEF T
  <2>1. QED  BY <1>1, <1>2, Induct
<1>4. QED  BY <1>3

LEMMA AscendingFacts ==
    ASSUME NEW n \in Nat, NEW S \in SUBSET (1 .. n)
    PROVE  /\ Ascending(S) \in Seq(S) /\ Cardinality(S) \in Nat
           /\ Len(Ascending(S)) = Cardinality(S)
           /\ DOMAIN Ascending(S) = 1 .. Cardinality(S)
           /\ \A i \in 1 .. Cardinality(S) : Ascending(S)[i] \in S
           /\ \A i, j \in 1 .. Cardinality(S) : i < j => Ascending(S)[i] < Ascending(S)[j]
           /\ \A x \in S : \E i \in 1 .. Cardinality(S) : Ascending(S)[i] = x
<1> DEFINE rank(x) == Cardinality(UpTo(S, x))
           f == Ascending(S)
<1>1. IsFiniteSet(S) /\ Cardinality(S) \in Nat
  BY Counted
<1>2. /\ f = [k \in 1 .. Cardinality(S) |-> CHOOSE x \in S : rank(x) = k]
      /\ DOMAIN f = 1 .. Cardinality(S)
  BY DEF Ascending, UpTo
<1>3. ASSUME NEW k \in 1 .. Cardinality(S) PROVE f[k] \in S /\ rank(f[k]) = k
  <2>1. \E x \in S : rank(x) = k
    BY Ranked
  <2>2. f[k] = CHOOSE x \in S : rank(x) = k
    BY <1>2
  <2>3. QED  BY <2>1, <2>2
<1>4. f \in [1 .. Cardinality(S) -> S]
  BY <1>2, <1>3
<1>5. f \in Seq(S)
  BY <1>1, <1>4, SeqDef
<1>6. Len(f) = Cardinality(S)
  BY <1>1, <1>2, <1>5, LenProperties
<1>7. ASSUME NEW x \in S, NEW y \in S, x <= y
      PROVE  /\ rank(x) \in Nat /\ rank(y) \in Nat /\ rank(x) <= rank(y)
             /\ x < y => rank(x) < rank(y)
  <2>1. UpTo(S, x) \in SUBSET UpTo(S, y) /\ UpTo(S, y) \in SUBSET S
    <3>1. \A z \in S : z \in Nat
      OBVIOUS
    <3>2. \A z \in S : z <= x => z <= y
      BY <1>7, <3>1
    <3>3. QED  BY <3>2 DEF UpTo
  <2>2. IsFiniteSet(UpTo(S, y)) /\ rank(y) \in Nat
    BY <1>1, <2>1, FS_Subset, FS_CardinalityType
  <2>3. /\ rank(x) \in Nat /\ rank(x) <= rank(y)
        /\ rank(y) = rank(x) => UpTo(S, x) = UpTo(S, y)
    BY <2>1, <2>2, FS_Subset, FS_CardinalityType
  <2>4. ASSUME x < y PROVE UpTo(S, x) # UpTo(S, y)
    <3>1. y \in UpTo(S, y) /\ y \notin UpTo(S, x)
      BY <2>4 DEF UpTo
    <3>2. QED  BY <3>1
  <2>5. QED  BY <2>2, <2>3, <2>4
<1>8. ASSUME NEW i \in 1 .. Cardinality(S), NEW j \in 1 .. Cardinality(S), i < j
      PROVE  f[i] < f[j]
  <2>1. f[i] \in S /\ rank(f[i]) = i /\ f[j] \in S /\ rank(f[j]) = j
    BY <1>3
  <2>2. CASE f[j] <= f[i]
    <3>1. rank(f[j]) <= rank(f[i])
      BY <1>7, <2>1, <2>2
    <3>2. QED  BY <1>1, <1>8, <2>1, <3>1
  <2>3. f[i] \in Nat /\ f[j] \in Nat
    <3>1. f[i] \in 1 .. n /\ f[j] \in 1 .. n
      BY <2>1, Zenon
    <3>2. QED  BY <3>1
  <2>4. QED  BY <2>2, <2>3
<1>9. ASSUME NEW x \in S PROVE \E i \in 1 .. Cardinality(S) : f[i] = x
  <2>1. x \in UpTo(S, x) /\ UpTo(S, x) \in SUBSET S
    BY DEF UpTo
  <2>2. rank(x) \in Nat /\ rank(x) <= Cardinality(S) /\ rank(x) # 0
    BY <1>1, <2>1, FS_Subset, FS_EmptySet, FS_CardinalityType
  <2>3. rank(x) \in 1 .. Cardinality(S)
    BY <1>1, <2>2
  <2>4. f[rank(x)] \in S /\ rank(f[rank(x)]) = rank(x)
    BY <1>3, <2>3
  <2>5. f[rank(x)] = x
    <3> DEFINE y == f[rank(x)]
    <3>1. y \in S /\ rank(y) = rank(x)
      BY <2>4
    <3> HIDE DEF y
    <3>2. ~ (x < y) /\ ~ (y < x)
      BY <1>7, <2>2, <3>1
    <3>3. x = y
      BY <3>1, <3>2
    <3>4. QED  BY <3>3 DEF y
  <2>6. QED  BY <2>3, <2>5
<1>10. QED
  <2> HIDE DEF f
  <2>1. QED  BY <1>1, <1>2, <1>3, <1>5, <1>6, <1>8, <1>9 DEF f

\* A list without some messages: the rest, in its order.
LEMMA WithoutFacts ==
    ASSUME NEW S, NEW l \in Seq(S), NEW out
    PROVE  /\ Without(l, out) \in Seq(S)
           /\ \A i \in DOMAIN Without(l, out) : Without(l, out)[i] \notin out
           /\ \A m \in Range(l) : m \notin out => m \in Range(Without(l, out))
           /\ \E h \in [DOMAIN Without(l, out) -> DOMAIN l] :
                /\ \A i \in DOMAIN Without(l, out) : Without(l, out)[i] = l[h[i]]
                /\ \A i, j \in DOMAIN Without(l, out) : i < j => h[i] < h[j]
<1> DEFINE P == {i \in DOMAIN l : l[i] \notin out}
           h == Ascending(P)
           k == Without(l, out)
<1>1. Len(l) \in Nat /\ DOMAIN l = 1 .. Len(l)
  BY LenProperties
<1>2. P \in SUBSET (1 .. Len(l))
  BY <1>1
<1>3. PICK c \in Nat : c = Cardinality(P)
  BY <1>1, <1>2, Counted
<1>4. /\ DOMAIN h = 1 .. c
      /\ \A i \in 1 .. c : h[i] \in P
      /\ \A i, j \in 1 .. c : i < j => h[i] < h[j]
      /\ \A p \in P : \E i \in 1 .. c : h[i] = p
  <2> HIDE DEF P
  <2>1. QED  BY <1>1, <1>2, <1>3, AscendingFacts
<1>5. k = [i \in DOMAIN h |-> l[h[i]]]
  BY DEF Without
<1>6. \A p \in P : p \in DOMAIN l /\ l[p] \in S /\ l[p] \notin out
  BY <1>1, ElementOfSeq
<1>7. \A p \in DOMAIN l : l[p] \notin out => p \in P
  OBVIOUS
<1>8. h \in [1 .. c -> DOMAIN l]
  <2>1. h = [i \in 1 .. c |-> h[i]]
    BY <1>4 DEF Ascending
  <2> HIDE DEF h, P
  <2>2. \A i \in 1 .. c : h[i] \in DOMAIN l
    BY <1>4, <1>6
  <2>3. QED  BY <2>1, <2>2
<1> HIDE DEF P, h, k
<1>9. DOMAIN k = 1 .. c /\ k \in [1 .. c -> S]
  BY <1>4, <1>5, <1>6
<1>10. k \in Seq(S)
  BY <1>9, SeqDef
<1>11. \A i \in DOMAIN k : k[i] = l[h[i]] /\ k[i] \notin out
  BY <1>4, <1>5, <1>6, <1>9
<1>12. ASSUME NEW m \in Range(l), m \notin out PROVE m \in Range(k)
  <2>1. PICK p \in DOMAIN l : l[p] = m
    BY DEF Range
  <2>2. PICK i \in 1 .. c : h[i] = p
    BY <1>4, <1>7, <1>12, <2>1
  <2>3. i \in DOMAIN k /\ k[i] = m
    BY <1>9, <1>11, <2>1, <2>2
  <2>4. QED  BY <2>3 DEF Range
<1>13. h \in [DOMAIN k -> DOMAIN l]
  BY <1>8, <1>9
<1>14. \A i, j \in DOMAIN k : i < j => h[i] < h[j]
  BY <1>4, <1>9
<1>15. QED
  BY <1>10, <1>11, <1>12, <1>13, <1>14 DEF k

-----------------------------------------------------------------------------
LEMMA StoredNumbers ==
    ASSUME used \subseteq Messages
    PROVE  MaxTime \in Nat /\ Top \in Nat /\ \A m \in used : m \in Nat /\ m < Top
BY ChatAssumption DEF Messages, Top

\* A page has a message, or ends before it gets there.
Reaches(page, m) ==
    \/ m \in Range(page)
    \/ page # <<>> /\ m < Last(page)

Descending(l) == \A i, j \in DOMAIN l : i < j => l[i] > l[j]

\* A page of a query: newest first, and nothing skipped down to its last one.
LEMMA NewestFacts ==
    ASSUME NEW n \in Nat, NEW S \in SUBSET (1 .. n), NEW size \in Nat \ {0}
    PROVE  /\ Newest(S, size) \in Seq(S) /\ Descending(Newest(S, size))
           /\ \A m \in S : Reaches(Newest(S, size), m)
<1> DEFINE up == Ascending(S)
           page == Newest(S, size)
<1>1. PICK c \in Nat : c = Cardinality(S)
  BY Counted
<1>2. /\ \A i \in 1 .. c : up[i] \in S
      /\ \A i, j \in 1 .. c : i < j => up[i] < up[j]
      /\ \A m \in S : \E i \in 1 .. c : up[i] = m
  BY <1>1, AscendingFacts
<1>3. PICK z \in Nat : z = IF c < size THEN c ELSE size
  OBVIOUS
<1>4. z <= c /\ (z < c => z # 0)
  BY <1>3
<1>5. page = [k \in 1 .. z |-> up[c + 1 - k]]
  BY <1>1, <1>3 DEF Newest
<1> HIDE DEF up, page
<1>6. \A k \in 1 .. z : c + 1 - k \in 1 .. c
  BY <1>4
<1>7. \A k \in 1 .. z : page[k] = up[c + 1 - k] /\ page[k] \in S
  BY <1>2, <1>5, <1>6
<1>8. page \in [1 .. z -> S]
  BY <1>5, <1>7
<1>9. page \in Seq(S)
  BY <1>8, SeqDef
<1>10. DOMAIN page = 1 .. z /\ Len(page) = z
  BY <1>8, <1>9, LenProperties
<1>11. ASSUME NEW i \in DOMAIN page, NEW j \in DOMAIN page, i < j
       PROVE  page[i] > page[j]
  <2>1. i \in 1 .. z /\ j \in 1 .. z
    BY <1>10
  <2>2. c + 1 - i \in 1 .. c /\ c + 1 - j \in 1 .. c /\ c + 1 - j < c + 1 - i
    BY <1>6, <1>11, <2>1
  <2>3. up[c + 1 - j] < up[c + 1 - i]
    BY <1>2, <2>2
  <2>4. page[j] < page[i]
    BY <1>7, <2>1, <2>3
  <2>5. page[i] \in 1 .. n /\ page[j] \in 1 .. n
    BY <1>7, <2>1
  <2>6. QED  BY <2>4, <2>5
<1>12. ASSUME NEW m \in S PROVE Reaches(page, m)
  <2>1. PICK p \in 1 .. c : up[p] = m
    BY <1>2
  <2>2. PICK i \in 1 .. c : i = c + 1 - p
    OBVIOUS
  <2>3. p = c + 1 - i
    BY <2>2
  <2>4. CASE i <= z
    <3>1. i \in 1 .. z
      BY <2>4
    <3>2. page[i] = m
      BY <1>7, <2>1, <2>3, <3>1
    <3>3. m \in Range(page)
      BY <1>10, <3>1, <3>2 DEF Range
    <3>4. QED  BY <3>3 DEF Reaches
  <2>5. CASE z < i
    <3>1. z \in 1 .. z /\ c + 1 - z \in 1 .. c /\ p < c + 1 - z
      BY <1>4, <2>3, <2>5
    <3>2. page # <<>>
      BY <1>10, <3>1, EmptySeq
    <3>3. Last(page) = up[c + 1 - z]
      BY <1>7, <1>10, <3>1 DEF Last
    <3>4. up[p] < up[c + 1 - z]
      BY <1>2, <3>1
    <3>5. QED  BY <2>1, <3>2, <3>3, <3>4 DEF Reaches
  <2>6. QED  BY <2>4, <2>5
<1>13. QED
  BY <1>9, <1>11, <1>12 DEF page, Descending

\* A page of the chat: messages before the cursor.
LEMMA PageFacts ==
    ASSUME stored \subseteq Messages, NEW c \in Nat
    PROVE  /\ PageAfter(c) \in Seq(stored)
           /\ \A i \in DOMAIN PageAfter(c) : PageAfter(c)[i] < c
           /\ \A i, j \in DOMAIN PageAfter(c) :
                  i < j => PageAfter(c)[i] > PageAfter(c)[j]
           /\ \A m \in stored : m < c => Reaches(PageAfter(c), m)
<1> DEFINE older == {m \in stored : m < c}
           page == PageAfter(c)
<1>1. MaxTime \in Nat /\ older \in SUBSET (1 .. MaxTime) /\ Limit \in Nat \ {0}
  BY ChatAssumption DEF Messages
<1>2. page = Newest(older, Limit)
  BY DEF PageAfter
<1>3. \A m \in older : m \in stored /\ m < c
  OBVIOUS
<1>4. \A m \in stored : m < c => m \in older
  OBVIOUS
<1> HIDE DEF older, page
<1>5. page \in Seq(older) /\ Descending(page) /\ \A m \in older : Reaches(page, m)
  BY <1>1, <1>2, NewestFacts
<1>6. \A i \in DOMAIN page : page[i] \in older
  BY <1>5, ElementOfSeq, LenProperties
<1>7. page \in [1 .. Len(page) -> stored] /\ Len(page) \in Nat
  BY <1>3, <1>5, <1>6, LenProperties
<1>8. page \in Seq(stored)
  BY <1>7, SeqDef
<1>9. QED
  BY <1>3, <1>4, <1>5, <1>6, <1>8 DEF page, Descending

\* A list newest first, no message more than twice in it, and once only when
\* the listener has not announced it.
Ordered(l, announced) ==
    /\ l \in Seq(Nat)
    /\ \A i, j \in DOMAIN l : i < j => l[i] >= l[j]
    /\ \A i, j, k \in DOMAIN l : i < j /\ j < k => l[i] > l[k]
    /\ \A i, j \in DOMAIN l : i < j /\ l[i] \notin announced => l[i] > l[j]

\* What additions do to a list: it grows at the front only.
Grown(l, k) ==
    /\ Range(l) \subseteq Range(k)
    /\ l = <<>> => k = <<>>
    /\ l # <<>> => k # <<>> /\ Last(k) = Last(l) /\ k[1] >= l[1]

LEMMA AddedFacts ==
    ASSUME NEW A, NEW l, Ordered(l, A), NEW m \in Nat, m \notin A
    PROVE  /\ Ordered(Added(l, m), A \cup {m}) /\ Grown(l, Added(l, m))
           /\ Range(Added(l, m)) \subseteq Range(l) \cup {m}
           /\ l # <<>> => Added(l, m)[1] >= m
<1> DEFINE k == Added(l, m)
<1>1. /\ Len(l) \in Nat /\ DOMAIN l = 1 .. Len(l) /\ l \in Seq(Nat)
      /\ \A i \in DOMAIN l : l[i] \in Nat
  BY LenProperties, ElementOfSeq DEF Ordered
<1>2. l # <<>> => 1 \in DOMAIN l
  BY <1>1, EmptySeq
<1>3. CASE ~ (l # <<>> /\ m >= l[1])
  <2>1. k = l
    BY <1>3 DEF Added
  <2>2. Ordered(l, A \cup {m})
    BY DEF Ordered
  <2>3. Grown(l, l) /\ (l # <<>> => l[1] >= m)
    BY <1>1, <1>2, <1>3 DEF Grown
  <2>4. QED  BY <2>1, <2>2, <2>3
<1>4. CASE l # <<>> /\ m >= l[1]
  <2>1. k = <<m>> \o l
    BY <1>4 DEF Added
  <2>2. <<m>> \in Seq(Nat) /\ Len(<<m>>) = 1 /\ <<m>>[1] = m
    OBVIOUS
  <2>3. /\ k \in Seq(Nat) /\ Len(k) = 1 + Len(l)
        /\ \A i \in 1 .. 1 + Len(l) : k[i] = IF i <= 1 THEN <<m>>[i] ELSE l[i - 1]
    BY <1>1, <2>1, <2>2, ConcatProperties
  <2>4. DOMAIN k = 1 .. 1 + Len(l)
    BY <2>3, LenProperties
  <2> HIDE DEF k
  <2>5. k[1] = m /\ \A i \in 1 .. Len(l) : k[i + 1] = l[i]
    <3>1. 1 \in 1 .. 1 + Len(l)
      BY <1>1
    <3>2. \A i \in 1 .. Len(l) : i + 1 \in 1 .. 1 + Len(l) /\ (i + 1) - 1 = i
      BY <1>1
    <3>3. QED  BY <2>2, <2>3, <3>1, <3>2
  <2>6. ASSUME NEW i \in DOMAIN k, i # 1
        PROVE  i - 1 \in DOMAIN l /\ k[i] = l[i - 1]
    BY <1>1, <2>3, <2>4, <2>6, SMTT(40)
  <2>7. \A i \in DOMAIN l : m >= l[i]
    <3>1. ASSUME NEW i \in DOMAIN l PROVE l[1] >= l[i]
      BY <1>1, <1>2, <1>4, SMTT(40) DEF Ordered
    <3>2. QED  BY <1>1, <1>2, <1>4, <3>1
  <2>8. ASSUME NEW i \in DOMAIN k, NEW j \in DOMAIN k, i < j
        PROVE  k[i] >= k[j] /\ (k[i] \notin A \cup {m} => k[i] > k[j])
    <3>1. j # 1 /\ i \in 1 .. 1 + Len(l) /\ j \in 1 .. 1 + Len(l)
      BY <2>4, <2>8
    <3>2. j - 1 \in DOMAIN l /\ k[j] = l[j - 1]
      BY <2>6, <3>1
    <3>3. CASE i = 1
      BY <2>5, <2>7, <3>2, <3>3
    <3>4. CASE i # 1
      <4>1. i - 1 \in DOMAIN l /\ k[i] = l[i - 1] /\ i - 1 < j - 1
        BY <2>6, <2>8, <3>1, <3>4
      <4>2. QED  BY <3>2, <4>1 DEF Ordered
    <3>5. QED  BY <3>3, <3>4
  <2>9. ASSUME NEW i \in DOMAIN k, NEW j \in DOMAIN k, NEW p \in DOMAIN k, i < j, j < p
        PROVE  k[i] > k[p]
    <3>1. j # 1 /\ p # 1 /\ i \in 1 .. 1 + Len(l) /\ j \in 1 .. 1 + Len(l)
             /\ p \in 1 .. 1 + Len(l)
      BY <2>4, <2>9
    <3>2. /\ j - 1 \in DOMAIN l /\ k[j] = l[j - 1]
          /\ p - 1 \in DOMAIN l /\ k[p] = l[p - 1] /\ j - 1 < p - 1
      BY <2>6, <2>9, <3>1
    <3>3. CASE i = 1
      <4>1. m >= l[p - 1] /\ l[p - 1] \in Nat
        BY <1>1, <2>7, <3>2
      <4>2. m # l[p - 1]
        <5>1. m >= l[j - 1] /\ l[j - 1] \in Nat
          BY <1>1, <2>7, <3>2
        <5>2. l[j - 1] \notin A => l[j - 1] > l[p - 1]
          BY <3>2 DEF Ordered
        <5>3. l[j - 1] >= l[p - 1]
          BY <3>2 DEF Ordered
        <5>4. QED  BY <4>1, <5>1, <5>2, <5>3
      <4>3. QED  BY <2>5, <3>2, <3>3, <4>1, <4>2
    <3>4. CASE i # 1
      <4>1. i - 1 \in DOMAIN l /\ k[i] = l[i - 1] /\ i - 1 < j - 1
        BY <2>6, <2>9, <3>1, <3>4
      <4>2. QED  BY <3>2, <4>1 DEF Ordered
    <3>5. QED  BY <3>3, <3>4
  <2>10. Ordered(k, A \cup {m})
    BY <2>3, <2>8, <2>9 DEF Ordered
  <2>11. Range(l) \subseteq Range(k) /\ Range(k) \subseteq Range(l) \cup {m}
    <3>1. ASSUME NEW i \in DOMAIN l PROVE l[i] \in Range(k)
      <4>1. i + 1 \in DOMAIN k /\ k[i + 1] = l[i]
        BY <1>1, <2>4, <2>5
      <4>2. QED  BY <4>1 DEF Range
    <3>2. ASSUME NEW i \in DOMAIN k PROVE k[i] \in Range(l) \cup {m}
      BY <2>5, <2>6 DEF Range
    <3>3. QED  BY <3>1, <3>2 DEF Range
  <2>12. k # <<>> /\ Last(k) = Last(l) /\ k[1] >= l[1] /\ k[1] >= m
    <3>1. Len(k) # 0 /\ Len(l) \in 1 .. Len(l) /\ Len(k) = Len(l) + 1
      BY <1>1, <1>2, <1>4, <2>3
    <3>2. k # <<>>
      BY <3>1, EmptySeq
    <3>3. k[Len(k)] = l[Len(l)]
      BY <2>5, <3>1
    <3>4. QED  BY <1>4, <2>5, <3>2, <3>3 DEF Last
  <2>13. QED
    BY <1>4, <2>10, <2>11, <2>12 DEF Grown, k
<1>5. QED  BY <1>3, <1>4

\* The recursion of AllAdded has its value at every place.
LEMMA AllAddedSteps ==
    ASSUME NEW l, NEW new, Len(new) \in Nat
    PROVE  \E f : /\ AllAdded(l, new) = f[Len(new)] /\ f[0] = l
                  /\ \A i \in 1 .. Len(new) : f[i] = Added(f[i - 1], new[i])
<1> DEFINE Steps(n, f) == f = [i \in 0 .. n |-> IF i = 0 THEN l ELSE Added(f[i - 1], new[i])]
           T == {n \in Nat : \E f : Steps(n, f)}
<1>1. 0 \in T
  <2> DEFINE f == [i \in 0 .. 0 |-> l]
  <2>1. \A i \in 0 .. 0 : (IF i = 0 THEN l ELSE Added(f[i - 1], new[i])) = l
    OBVIOUS
  <2>2. [i \in 0 .. 0 |-> IF i = 0 THEN l ELSE Added(f[i - 1], new[i])] = f
    BY <2>1
  <2>3. Steps(0, f)
    BY <2>2
  <2> HIDE DEF f, Steps
  <2>4. \E g : Steps(0, g)
    BY <2>3
  <2>5. QED  BY <2>4
<1>2. ASSUME NEW n \in Nat, n \in T PROVE n + 1 \in T
  <2>1. PICK f : Steps(n, f)
    BY <1>2
  <2> DEFINE g == [i \in 0 .. n + 1 |-> IF i = n + 1 THEN Added(f[n], new[n + 1]) ELSE f[i]]
             body(i) == IF i = 0 THEN l ELSE Added(g[i - 1], new[i])
  <2>2. ASSUME NEW i \in 0 .. n + 1 PROVE body(i) = g[i]
    <3>1. CASE i = 0
      <4>1. 0 \in 0 .. n /\ 0 # n + 1 /\ 0 \in 0 .. n + 1
        OBVIOUS
      <4>2. f[0] = l
        BY <2>1, <4>1
      <4>3. g[0] = f[0]
        BY <4>1
      <4>4. QED  BY <3>1, <4>2, <4>3
    <3>2. CASE i \in 1 .. n
      <4>1. i \in 0 .. n /\ i # 0 /\ i # n + 1 /\ i - 1 \in 0 .. n + 1 /\ i - 1 # n + 1
        BY <3>2
      <4>2. f[i] = Added(f[i - 1], new[i])
        BY <2>1, <4>1
      <4>3. g[i - 1] = f[i - 1] /\ g[i] = f[i]
        BY <4>1
      <4>4. QED  BY <4>1, <4>2, <4>3
    <3>3. CASE i = n + 1
      <4>1. n \in 0 .. n + 1 /\ n # n + 1 /\ i # 0 /\ i - 1 = n
        BY <3>3
      <4>2. g[n] = f[n] /\ g[n + 1] = Added(f[n], new[n + 1])
        BY <4>1
      <4>3. QED  BY <3>3, <4>1, <4>2
    <3>4. QED  BY <3>1, <3>2, <3>3
  <2>3. g = [i \in 0 .. n + 1 |-> g[i]]
    OBVIOUS
  <2>4. g = [i \in 0 .. n + 1 |-> body(i)]
    <3> HIDE DEF g, body
    <3>1. QED  BY <2>2, <2>3
  <2>5. Steps(n + 1, g)
    BY <2>4
  <2> HIDE DEF g, Steps
  <2>6. \E h : Steps(n + 1, h)
    BY <2>5
  <2>7. QED  BY <2>6
<1>3. Len(new) \in T
  <2> HIDE DEF T
  <2>1. QED  BY <1>1, <1>2, Induct
<1> DEFINE f == CHOOSE f : Steps(Len(new), f)
<1>4. \E g : Steps(Len(new), g)
  BY <1>3
<1>5. Steps(Len(new), f)
  <2> HIDE DEF Steps
  <2>1. QED  BY <1>4
<1>6. AllAdded(l, new) = f[Len(new)]
  BY DEF AllAdded
<1> HIDE DEF f
<1>7. f = [i \in 0 .. Len(new) |-> IF i = 0 THEN l ELSE Added(f[i - 1], new[i])]
  BY <1>5
<1>8. PICK n \in Nat : n = Len(new)
  OBVIOUS
<1>9. f[0] = l
  <2>1. 0 \in 0 .. n
    OBVIOUS
  <2>2. QED  BY <1>7, <1>8, <2>1
<1>10. ASSUME NEW i \in 1 .. n PROVE f[i] = Added(f[i - 1], new[i])
  <2>1. i \in 0 .. n /\ i # 0
    OBVIOUS
  <2>2. QED  BY <1>7, <1>8, <2>1
<1>11. QED  BY <1>6, <1>8, <1>9, <1>10

LEMMA GrownTrans ==
    ASSUME NEW k \in Seq(Nat), NEW l \in Seq(Nat), NEW p \in Seq(Nat),
           Grown(k, l), Grown(l, p)
    PROVE  Grown(k, p)
<1>1. ASSUME k # <<>> PROVE p # <<>> /\ Last(p) = Last(k) /\ p[1] >= k[1]
  <2>1. /\ l # <<>> /\ Last(l) = Last(k) /\ l[1] >= k[1]
        /\ p # <<>> /\ Last(p) = Last(l) /\ p[1] >= l[1]
    BY <1>1 DEF Grown
  <2>2. k[1] \in Nat /\ l[1] \in Nat /\ p[1] \in Nat
    BY <1>1, <2>1, EmptySeq, LenProperties, SMTT(40)
  <2>3. QED  BY <2>1, <2>2
<1>2. QED  BY <1>1 DEF Grown

\* A snapshot's additions, in whatever order: the list stays in order, every
\* message of the snapshot is announced, and none is newer than the list's.
LEMMA AllAddedFacts ==
    ASSUME NEW n \in Nat, NEW S \in SUBSET (1 .. n), NEW A, A \cap S = {},
           NEW l, Ordered(l, A), NEW new \in SetToSeqs(S)
    PROVE  /\ Ordered(AllAdded(l, new), A \cup S) /\ Grown(l, AllAdded(l, new))
           /\ Range(AllAdded(l, new)) \subseteq Range(l) \cup S
           /\ l # <<>> => \A m \in S : AllAdded(l, new)[1] >= m
<1>1. PICK c \in Nat : c = Cardinality(S)
  BY Counted
<1>2. IsFiniteSet(S)
  BY Counted
<1>3. new \in [1 .. c -> S] /\ \A i, j \in 1 .. c : i # j => new[i] # new[j]
  BY <1>1 DEF SetToSeqs
<1>4. new \in Seq(S) /\ DOMAIN new = 1 .. c
  BY <1>3, SeqDef
<1>5. Len(new) = c
  BY <1>4, LenProperties
<1>6. \A i \in 1 .. c : new[i] \in S /\ new[i] \in Nat
  <2>1. \A i \in 1 .. c : new[i] \in S
    BY <1>3
  <2>2. \A m \in S : m \in Nat
    OBVIOUS
  <2>3. QED  BY <2>1, <2>2
<1>7. \A m \in S : \E i \in 1 .. c : new[i] = m
  <2>1. SUFFICES ASSUME NEW m \in S, \A i \in 1 .. c : new[i] # m PROVE FALSE
    OBVIOUS
  <2>2. new \in [1 .. c -> S \ {m}]
    BY <1>3, <2>1
  <2>3. IsFiniteSet(S \ {m}) /\ Cardinality(S \ {m}) = c - 1
    BY <1>1, <1>2, FS_RemoveElement
  <2>4. 1 \in Int /\ c \in Int
    OBVIOUS
  <2>5. IsFiniteSet(1 .. c) /\ Cardinality(1 .. c) = IF 1 > c THEN 0 ELSE c - 1 + 1
    BY <2>4, FS_Interval
  <2>6. c # 0
    BY <1>1, <1>2, FS_EmptySet
  <2>7. Cardinality(S \ {m}) < Cardinality(1 .. c)
    BY <2>3, <2>5, <2>6
  <2>8. \E x, y \in 1 .. c : x # y /\ new[x] = new[y]
    BY <2>2, <2>3, <2>5, <2>7, FS_PigeonHole
  <2>9. QED  BY <1>3, <2>8
<1>8. PICK f : /\ AllAdded(l, new) = f[c] /\ f[0] = l
               /\ \A i \in 1 .. c : f[i] = Added(f[i - 1], new[i])
  <2>1. Len(new) \in Nat
    BY <1>5
  <2>2. \E f : /\ AllAdded(l, new) = f[Len(new)] /\ f[0] = l
               /\ \A i \in 1 .. Len(new) : f[i] = Added(f[i - 1], new[i])
    BY ONLY <2>1, AllAddedSteps
  <2>3. QED  BY ONLY <1>5, <2>2
<1> DEFINE seen(i) == {new[j] : j \in 1 .. i}
           P(i) == /\ Ordered(f[i], A \cup seen(i)) /\ Grown(l, f[i])
                   /\ Range(f[i]) \subseteq Range(l) \cup S
                   /\ l # <<>> => \A m \in seen(i) : f[i][1] >= m
           T == {i \in Nat : i <= c => P(i)}
<1>9. 0 \in T
  <2>1. seen(0) = {}
    OBVIOUS
  <2>2. Grown(l, l)
    <3>1. l # <<>> => l[1] \in Nat
      BY EmptySeq, LenProperties DEF Ordered
    <3>2. QED  BY <3>1 DEF Grown
  <2> HIDE DEF seen
  <2>3. A \cup seen(0) = A
    BY <2>1
  <2>4. P(0)
    BY <1>8, <2>1, <2>2, <2>3
  <2>5. QED  BY <2>4
<1>10. ASSUME NEW i \in Nat, i \in T PROVE i + 1 \in T
  <2>1. SUFFICES ASSUME i + 1 <= c PROVE P(i + 1)
    OBVIOUS
  <2>2. i <= c /\ i + 1 \in 1 .. c /\ (i + 1) - 1 = i
    BY <1>10, <2>1
  <2>3. P(i)
    BY <1>10, <2>2
  <2> DEFINE m == new[i + 1]
             q == f[i]
             p == f[i + 1]
  <2>4. p = Added(q, m)
    BY <1>8, <2>2
  <2>5. m \in S /\ m \in Nat
    BY <1>6, <2>2
  <2>6. m \notin A \cup seen(i)
    <3>1. m \notin A
      BY <2>5
    <3>2. \A j \in 1 .. i : j \in 1 .. c /\ j # i + 1
      BY <2>2
    <3>3. \A j \in 1 .. i : new[j] # m
      BY <1>3, <2>2, <3>2
    <3>4. QED  BY <3>1, <3>3
  <2>7. seen(i + 1) = seen(i) \cup {m}
    <3>1. 1 .. i + 1 = (1 .. i) \cup {i + 1}
      OBVIOUS
    <3>2. QED  BY <3>1
  <2> HIDE DEF seen, m
  <2>8. /\ Ordered(q, A \cup seen(i)) /\ Grown(l, q)
        /\ Range(q) \subseteq Range(l) \cup S
        /\ l # <<>> => \A x \in seen(i) : q[1] >= x
    BY <2>3
  <2> HIDE DEF p, q
  <2>9. /\ Ordered(p, (A \cup seen(i)) \cup {m}) /\ Grown(q, p)
        /\ Range(p) \subseteq Range(q) \cup {m}
        /\ q # <<>> => p[1] >= m
    BY <2>4, <2>5, <2>6, <2>8, AddedFacts
  <2>10. (A \cup seen(i)) \cup {m} = A \cup seen(i + 1)
    BY <2>7
  <2>11. Ordered(p, A \cup seen(i + 1))
    BY <2>9, <2>10
  <2>12. Grown(l, p)
    BY <2>8, <2>9, GrownTrans DEF Ordered
  <2>13. Range(p) \subseteq Range(l) \cup S
    BY <2>5, <2>8, <2>9
  <2>14. ASSUME l # <<>>, NEW x \in seen(i + 1) PROVE p[1] >= x
    <3>1. q # <<>> /\ p # <<>> /\ p[1] >= q[1] /\ p[1] >= m
      BY <2>8, <2>9, <2>14 DEF Grown
    <3>2. p[1] \in Nat /\ q[1] \in Nat
      <4>1. p \in Seq(Nat) /\ q \in Seq(Nat)
        BY <2>8, <2>9 DEF Ordered
      <4>2. 1 \in 1 .. Len(p) /\ 1 \in 1 .. Len(q)
        BY <3>1, <4>1, EmptySeq
      <4>3. QED  BY <4>1, <4>2, ElementOfSeq
    <3>3. CASE x = m
      BY <3>1, <3>3
    <3>4. CASE x \in seen(i)
      <4>1. x \in Nat
        <5>1. \A j \in 1 .. i : new[j] \in Nat
          BY <1>6, <2>2
        <5>2. QED  BY <3>4, <5>1 DEF seen
      <4>2. q[1] >= x
        BY <2>8, <2>14, <3>4
      <4>3. QED  BY <3>1, <3>2, <4>1, <4>2
    <3>5. QED  BY <2>7, <2>14, <3>3, <3>4
  <2>15. QED
    BY <2>11, <2>12, <2>13, <2>14 DEF p
<1>11. P(c)
  <2> HIDE DEF P
  <2>1. c \in T
    <3> HIDE DEF T
    <3>1. QED  BY <1>9, <1>10, Induct
  <2>2. QED  BY <2>1
<1>12. seen(c) = S
  BY <1>6, <1>7
<1> HIDE DEF seen
<1>13. QED  BY <1>8, <1>11, <1>12

\* The list is in order; a page on its way continues it, whatever was removed
\* or announced meanwhile, and who greets still has no message.
OrderInv ==
    /\ Ordered(list, known)
    /\ req \in {"asked", "answered"} => \A m \in Range(list) : cursor <= m
    /\ req = "answered" =>
          /\ \A i \in DOMAIN answer : answer[i] < cursor
          /\ \A i, j \in DOMAIN answer : i < j => answer[i] > answer[j]
    /\ req \in {"greet", "get"} => list = <<>>
    /\ req = "get" => greeting \in used

\* Nothing stored is missing above the cursor of the page on its way, nor
\* between the cursor and the page's end; a chat found empty lost its base.
HoleInv ==
    /\ req \in {"asked", "answered"} =>
          \A m \in base \cap stored : m >= cursor => m \in Range(list)
    /\ req = "answered" =>
          \A m \in base \cap stored : m < cursor => Reaches(answer, m)
    /\ req \in {"greet", "get"} => base \cap stored = {}
    /\ NoHoleBetweenPages

\* What the listener announced or the first page was read with, of what is still
\* stored: but for what was announced too early, all of it was in the list or came
\* behind a newer message that was.
Due == {m \in (known \cup base) \cap stored : m \notin missed \ base}

Overtaken(m) == \E n \in gone : n > m

\* The first page begins with the newest of its base, and goes into an empty list,
\* which missed all that was announced.  Later the newest message is on top, or
\* overtaken by one that was; a list that was emptied lost such a one.
NewestInv ==
    /\ req = "answered" /\ cursor = Top =>
          \A m \in base : answer # <<>> /\ m <= answer[1]
    /\ req \in {"asked", "answered"} /\ cursor = Top => list = <<>> /\ known \subseteq missed
    /\ list = <<>> => known \subseteq missed \/ \A m \in Due : Overtaken(m)
    /\ list = <<>> /\ req \in {"asked", "answered"} /\ cursor # Top =>
          \A m \in Due : Overtaken(m)
    /\ list # <<>> => \A m \in Due : m <= list[1] \/ Overtaken(m)

ChatInv == TypeOK /\ OrderInv /\ HoleInv /\ NewestInv

-----------------------------------------------------------------------------
\* A step that leaves the page alone: messages come and go in the store, and
\* a call throws or the greeting is written.
StoreStep ==
    /\ used \subseteq used' /\ stored' \cap used \subseteq stored

LEMMA PageKept ==
    ASSUME ChatInv, StoreStep,
           UNCHANGED <<list, known, cursor, answer, missed, base, gone>>,
           \/ UNCHANGED <<req, greeting>>
           \/ req' \notin {"asked", "answered", "greet", "get"}
           \/ req = "greet" /\ req' = "get" /\ greeting' \in used'
    PROVE  OrderInv' /\ HoleInv' /\ NewestInv'
<1>1. OrderInv'
  BY DEF ChatInv, OrderInv, StoreStep
<1>2. base \cap stored' \subseteq base \cap stored
  BY DEF ChatInv, TypeOK, StoreStep
<1>3. HoleInv'
  BY <1>2 DEF ChatInv, HoleInv, NoHoleBetweenPages
<1>4. NewestInv'
  <2>1. Due' \subseteq Due
    BY DEF Due, ChatInv, TypeOK, StoreStep
  <2>2. \A m : Overtaken(m) => Overtaken(m)'
    BY DEF Overtaken
  <2>3. QED  BY <2>1, <2>2 DEF ChatInv, NewestInv
<1>5. QED  BY <1>1, <1>3, <1>4

LEMMA SentIsStoreStep ==
    ASSUME TypeOK, NEW m, m \notin used, Store(m)
    PROVE  StoreStep
BY DEF TypeOK, Store, StoreStep

LEMMA RemovedIsStoreStep ==
    ASSUME TypeOK, NEW m, m \in used, stored' = stored \ {m}, used' = used
    PROVE  StoreStep
BY DEF TypeOK, StoreStep

LEMMA SameIsStoreStep ==
    ASSUME UNCHANGED <<stored, used>>
    PROVE  StoreStep
BY DEF StoreStep

\* A new page, or none.
LEMMA Cleared ==
    ASSUME Clear, req' \in {"none", "asked"}
    PROVE  OrderInv' /\ HoleInv' /\ NewestInv'
<1>1. <<>> \in Seq(Nat) /\ DOMAIN <<>> = {} /\ Range(<<>>) = {}
  <2>1. DOMAIN <<>> = {}
    OBVIOUS
  <2>2. QED  BY <2>1, EmptySeq DEF Range
<1>2. OrderInv'
  BY <1>1 DEF Clear, OrderInv, Ordered
<1>3. HoleInv'
  BY DEF Clear, HoleInv, NoHoleBetweenPages
<1>4. NewestInv'
  BY DEF Clear, NewestInv, Due
<1>5. QED  BY <1>2, <1>3, <1>4

LEMMA Stored ==
    ASSUME TypeOK
    PROVE  /\ MaxTime \in Nat /\ Top \in Nat /\ cursor \in Nat
           /\ \A m \in used : m \in Nat /\ m < Top
           /\ used \subseteq Nat /\ stored \subseteq used /\ stored \subseteq Messages
           /\ base \subseteq used /\ used \subseteq Messages
<1>1. MaxTime \in Nat
  BY ChatAssumption
<1>2. /\ cursor \in 1 .. MaxTime + 1 /\ used \subseteq 1 .. MaxTime
      /\ stored \subseteq used /\ base \subseteq used
  BY DEF TypeOK, Top, Messages
<1>3. cursor \in Nat /\ \A m \in used : m \in Nat /\ m < MaxTime + 1
  BY <1>1, <1>2
<1>4. QED  BY <1>1, <1>2, <1>3 DEF Top, Messages

LEMMA ListPlaces ==
    ASSUME NEW S, NEW l \in Seq(S)
    PROVE  /\ Len(l) \in Nat /\ DOMAIN l = 1 .. Len(l) /\ Range(l) \subseteq S
           /\ \A i \in DOMAIN l : l[i] \in S /\ l[i] \in Range(l)
           /\ \A m \in Range(l) : \E i \in DOMAIN l : l[i] = m
           /\ l = <<>> => DOMAIN l = {} /\ Range(l) = {}
           /\ l # <<>> => /\ 1 \in DOMAIN l /\ Len(l) \in DOMAIN l
                          /\ l[1] \in Range(l) /\ Last(l) \in Range(l)
<1>1. Len(l) \in Nat /\ DOMAIN l = 1 .. Len(l) /\ \A i \in DOMAIN l : l[i] \in S
  BY LenProperties, ElementOfSeq
<1>2. l # <<>> => Len(l) # 0
  BY EmptySeq
<1>3. l = <<>> => Len(l) = 0
  BY EmptySeq
<1>4. 1 .. 0 = {}
  OBVIOUS
<1>5. l = <<>> => DOMAIN l = {} /\ Range(l) = {}
  BY <1>1, <1>3, <1>4 DEF Range
<1>6. l # <<>> => 1 \in DOMAIN l /\ Len(l) \in DOMAIN l
  BY <1>1, <1>2
<1>7. QED  BY <1>1, <1>5, <1>6 DEF Range, Last

\* The last of a list in order is the least of it, and the first the greatest.
LEMMA Ends ==
    ASSUME NEW A, NEW l, Ordered(l, A), NEW m \in Range(l)
    PROVE  l # <<>> /\ Last(l) <= m /\ m <= l[1] /\ m \in Nat
<1>1. l \in Seq(Nat)
  BY DEF Ordered
<1>2. PICK i \in DOMAIN l : l[i] = m
  BY <1>1, ListPlaces
<1>3. l # <<>> /\ m \in Nat
  BY <1>1, <1>2, ListPlaces
<1>4. /\ Len(l) \in Nat /\ DOMAIN l = 1 .. Len(l) /\ 1 \in DOMAIN l /\ Len(l) \in DOMAIN l
      /\ l[1] \in Nat /\ l[Len(l)] \in Nat
  BY <1>1, <1>3, ListPlaces
<1>5. Last(l) <= m
  <2>1. CASE i = Len(l)
    BY <1>2, <1>3, <1>4, <2>1 DEF Last
  <2>2. CASE i < Len(l)
    BY <1>2, <1>3, <1>4, <2>2 DEF Last, Ordered
  <2>3. QED  BY <1>4, <2>1, <2>2
<1>6. m <= l[1]
  <2>1. CASE i = 1
    BY <1>2, <1>3, <1>4, <2>1
  <2>2. CASE 1 < i
    BY <1>2, <1>3, <1>4, <2>2 DEF Ordered
  <2>3. QED  BY <1>4, <2>1, <2>2
<1>7. QED  BY <1>3, <1>5, <1>6

\* Removing keeps the order; what is left was not announced, unless it stays.
LEMMA WithoutKeeps ==
    ASSUME NEW A, NEW B, NEW l, Ordered(l, A), NEW out, A \ out \subseteq B
    PROVE  /\ Ordered(Without(l, out), B)
           /\ Range(Without(l, out)) \subseteq Range(l)
<1> DEFINE k == Without(l, out)
<1>0. l \in Seq(Nat) /\ Len(l) \in Nat /\ DOMAIN l = 1 .. Len(l)
  BY ListPlaces DEF Ordered
<1>1. PICK h \in [DOMAIN k -> DOMAIN l] :
          /\ \A i \in DOMAIN k : k[i] = l[h[i]]
          /\ \A i, j \in DOMAIN k : i < j => h[i] < h[j]
  <2>1. l \in Seq(Nat)
    BY <1>0
  <2>2. QED  BY ONLY <2>1, WithoutFacts, ZenonT(30)
<1>2. k \in Seq(Nat) /\ \A i \in DOMAIN k : k[i] \notin out
  BY <1>0, WithoutFacts
<1> HIDE DEF k
<1>3. \A i \in DOMAIN k : h[i] \in DOMAIN l
  BY <1>1
<1>4. \A i, j \in DOMAIN k : i < j => k[i] >= k[j]
  BY <1>1, <1>3 DEF Ordered
<1>5. \A i, j, p \in DOMAIN k : i < j /\ j < p => k[i] > k[p]
  <2>1. SUFFICES ASSUME NEW i \in DOMAIN k, NEW j \in DOMAIN k, NEW p \in DOMAIN k,
                        i < j, j < p
                 PROVE  k[i] > k[p]
    OBVIOUS
  <2>2. h[i] < h[j] /\ h[j] < h[p]
    BY <1>1, <2>1
  <2>3. l[h[i]] > l[h[p]]
    BY <1>3, <2>2 DEF Ordered
  <2>4. QED  BY <1>1, <2>3
<1>6. \A i, j \in DOMAIN k : i < j /\ k[i] \notin B => k[i] > k[j]
  <2>1. SUFFICES ASSUME NEW i \in DOMAIN k, NEW j \in DOMAIN k, i < j, k[i] \notin B
                 PROVE  k[i] > k[j]
    OBVIOUS
  <2>2. k[i] \notin A
    BY <1>2, <2>1
  <2>3. l[h[i]] \notin A /\ h[i] < h[j]
    BY <1>1, <2>1, <2>2
  <2>4. l[h[i]] > l[h[j]]
    BY <1>3, <2>3 DEF Ordered
  <2>5. QED  BY <1>1, <2>4
<1>7. Range(k) \subseteq Range(l)
  BY <1>1, <1>3 DEF Range
<1>8. QED  BY <1>2, <1>4, <1>5, <1>6, <1>7 DEF Ordered, k

LEMMA SnapshotKeeps ==
    ASSUME ChatInv, Snapshot
    PROVE  /\ list' \in Seq(used) /\ missed' \subseteq used /\ gone' \subseteq used
           /\ OrderInv' /\ HoleInv' /\ NewestInv'
<1> DEFINE kept == Without(list, known \ stored)
           added == stored \ known
<1>0. /\ MaxTime \in Nat /\ Top \in Nat /\ cursor \in Nat
      /\ \A m \in used : m \in Nat /\ m < Top
      /\ used \subseteq Nat /\ stored \subseteq used /\ stored \subseteq Messages
      /\ base \subseteq used
  BY Stored DEF ChatInv
<1>1. Ordered(list, known) /\ list \in Seq(used) /\ known \subseteq used /\ missed \subseteq used
  BY DEF ChatInv, OrderInv, TypeOK
<1>2. /\ UNCHANGED <<stored, used, req, cursor, answer, greeting, base>>
      /\ known' = stored /\ gone' = gone \cup (known \ stored)
      /\ missed' = IF kept = <<>> THEN missed \cup added ELSE missed
  BY DEF Snapshot, store, request
<1>3. PICK new \in SetToSeqs(added) : list' = AllAdded(kept, new)
  BY DEF Snapshot
<1>4. /\ Ordered(kept, known \cap stored) /\ Range(kept) \subseteq Range(list)
      /\ \A m \in Range(list) : m \in stored => m \in Range(kept)
  <2>1. known \ (known \ stored) \subseteq known \cap stored
    OBVIOUS
  <2>2. \A m \in Range(list) : m \notin known \ stored => m \in Range(kept)
    BY <1>1, WithoutFacts
  <2>3. QED  BY <1>1, <2>1, <2>2, WithoutKeeps
<1>5. /\ Ordered(list', (known \cap stored) \cup added) /\ Grown(kept, list')
      /\ Range(list') \subseteq Range(kept) \cup added
      /\ kept # <<>> => \A m \in added : list'[1] >= m
  <2>1. added \in SUBSET (1 .. MaxTime) /\ (known \cap stored) \cap added = {}
    BY <1>0 DEF Messages
  <2> HIDE DEF added, kept
  <2>2. QED  BY <1>0, <1>3, <1>4, <2>1, AllAddedFacts
<1>6. (known \cap stored) \cup added = stored
  OBVIOUS
<1>7. Ordered(list', known')
  BY <1>2, <1>5, <1>6
<1>8. Range(list) \subseteq used
  BY <1>1, ListPlaces
<1>9. Range(list') \subseteq used
  BY <1>0, <1>4, <1>5, <1>8
<1>10. list' \in Seq(used)
  <2>1. list' \in Seq(Nat)
    BY <1>7 DEF Ordered
  <2>2. PICK n \in Nat : n = Len(list')
    BY <2>1, LenProperties
  <2>3. list' \in [1 .. n -> Nat] /\ DOMAIN list' = 1 .. n
    BY <2>1, <2>2, LenProperties
  <2>4. \A i \in 1 .. n : list'[i] \in used
    BY <1>9, <2>3 DEF Range
  <2>5. list' \in [1 .. n -> used]
    BY <2>3, <2>4
  <2>6. QED  BY <2>5, SeqDef
<1>11. kept \in Seq(Nat) /\ list \in Seq(Nat) /\ list' \in Seq(Nat)
  BY <1>1, <1>4, <1>7 DEF Ordered
<1> HIDE DEF kept, added
<1>12. list = <<>> => kept = <<>>
  BY <1>4, <1>11, ListPlaces, ZenonT(60)
<1>13. kept = <<>> <=> list' = <<>>
  BY <1>5 DEF Grown
<1>14. kept # <<>> => Last(list') = Last(kept) /\ list'[1] >= kept[1]
  BY <1>5 DEF Grown
<1>15. Range(kept) \subseteq Range(list')
  BY <1>5 DEF Grown
<1>16. OrderInv'
  <2>1. ASSUME req \in {"asked", "answered"}, NEW m \in Range(list') PROVE cursor <= m
    <3>1. \A x \in Range(list) : cursor <= x
      BY <2>1 DEF ChatInv, OrderInv
    <3>2. list' # <<>>
      BY <1>11, <2>1, ListPlaces
    <3>3. kept # <<>>
      BY <1>13, <3>2
    <3>4. Last(kept) \in Range(kept)
      BY <1>11, <3>3, ListPlaces
    <3>5. cursor <= Last(list')
      BY <1>4, <1>14, <3>1, <3>3, <3>4
    <3>6. Last(list') <= m /\ m \in Nat
      BY <1>7, <2>1, Ends
    <3>7. Last(list') \in Nat
      BY <1>11, <3>2, ListPlaces
    <3>8. QED  BY <1>0, <3>5, <3>6, <3>7
  <2>2. req \in {"greet", "get"} => list' = <<>>
    BY <1>12, <1>13 DEF ChatInv, OrderInv
  <2>3. /\ req = "answered" =>
            /\ \A i \in DOMAIN answer : answer[i] < cursor
            /\ \A i, j \in DOMAIN answer : i < j => answer[i] > answer[j]
        /\ req = "get" => greeting \in used
    BY DEF ChatInv, OrderInv
  <2>4. QED  BY <1>2, <1>7, <2>1, <2>2, <2>3 DEF OrderInv
<1>17. HoleInv'
  <2>1. ASSUME req \in {"asked", "answered"}, NEW m \in base \cap stored, m >= cursor
        PROVE  m \in Range(list')
    <3>1. m \in Range(list)
      BY <2>1 DEF ChatInv, HoleInv
    <3>2. QED  BY <1>4, <1>15, <3>1
  <2>2. ASSUME list' # <<>>, NEW m \in base \cap stored, m >= Last(list')
        PROVE  m \in Range(list')
    <3>1. kept # <<>> /\ list # <<>> /\ Last(list') = Last(kept)
      BY <1>12, <1>13, <1>14, <2>2
    <3>2. Last(kept) \in Range(list)
      BY <1>4, <1>11, <3>1, ListPlaces
    <3>3. Last(list) <= Last(kept) /\ Last(kept) \in Nat
      BY <1>1, <3>2, Ends
    <3>4. Last(list) \in Nat /\ m \in Nat
      BY <1>0, <1>11, <3>1, ListPlaces
    <3>5. m >= Last(list)
      BY <2>2, <3>1, <3>3, <3>4
    <3>6. m \in Range(list)
      BY <3>1, <3>5 DEF ChatInv, HoleInv, NoHoleBetweenPages
    <3>7. QED  BY <1>4, <1>15, <3>6
  <2>3. req = "answered" =>
          \A m \in base \cap stored : m < cursor => Reaches(answer, m)
    BY DEF ChatInv, HoleInv
  <2>4. req \in {"greet", "get"} => base \cap stored = {}
    BY DEF ChatInv, HoleInv
  <2>5. NoHoleBetweenPages'
    BY <1>2, <2>2 DEF NoHoleBetweenPages
  <2>6. QED
    BY <1>2, <2>1, <2>3, <2>4, <2>5 DEF HoleInv, Reaches
<1>18. NewestInv'
  <2>1. req = "answered" /\ cursor = Top => \A m \in base : answer # <<>> /\ m <= answer[1]
    BY DEF ChatInv, NewestInv
  <2>2. \A m : Overtaken(m) => Overtaken(m)'
    BY <1>2 DEF Overtaken
  <2>3. ASSUME NEW m \in Due', m \in known PROVE m \in Due
    BY <1>2, <2>3 DEF Due
  <2>4. ASSUME NEW m \in Due' PROVE m \in stored /\ m \in known \cup added
    BY <1>2, <2>4 DEF Due, added
  <2>5. ASSUME NEW m \in Due, list # <<>>, list[1] \in known \ stored, m \in stored
        PROVE  Overtaken(m)'
    <3>1. m <= list[1] \/ Overtaken(m)
      BY <2>5 DEF ChatInv, NewestInv
    <3>2. m # list[1] /\ m \in Nat /\ list[1] \in Nat
      BY <1>0, <1>1, <2>5
    <3>3. list[1] \in gone'
      BY <1>2, <2>5
    <3>4. QED  BY <2>2, <3>1, <3>2, <3>3 DEF Overtaken
  <2>6. ASSUME NEW m \in Due', kept = <<>>, \A x \in Due : x \in stored => Overtaken(x)'
        PROVE  Overtaken(m)'
    <3>1. CASE m \in known
      BY <2>3, <2>4, <2>6, <3>1
    <3>2. CASE m \in added
      <4>1. missed' = missed \cup added
        BY <1>2, <2>6
      <4>2. m \in base
        BY <1>2, <3>2, <4>1 DEF Due
      <4>3. m \in Due
        BY <2>4, <4>2 DEF Due
      <4>4. QED  BY <2>4, <2>6, <4>3
    <3>3. QED  BY <2>4, <3>1, <3>2
  <2>7. ASSUME kept = <<>>, list # <<>> PROVE \A m \in Due' : Overtaken(m)'
    <3>1. list[1] \in Range(list) /\ Range(kept) = {}
      BY <1>11, <2>7, ListPlaces
    <3>2. list[1] \in known \ stored
      <4>1. list[1] \notin Range(kept)
        BY <3>1
      <4>2. QED  BY <1>1, <3>1, <4>1, WithoutFacts DEF kept
    <3>3. QED  BY <2>5, <2>6, <2>7, <3>2
  <2>8. ASSUME kept = <<>>
        PROVE  /\ known' \subseteq missed' \/ \A m \in Due' : Overtaken(m)'
               /\ req \in {"asked", "answered"} /\ cursor # Top =>
                    \A m \in Due' : Overtaken(m)'
    <3>1. CASE list # <<>>
      BY <2>7, <2>8, <3>1
    <3>2. CASE list = <<>>
      <4>1. known \subseteq missed => known' \subseteq missed'
        BY <1>2, <2>8 DEF added
      <4>2. (\A m \in Due : Overtaken(m)) => \A m \in Due' : Overtaken(m)'
        BY <2>2, <2>6, <2>8
      <4>3. QED  BY <3>2, <4>1, <4>2 DEF ChatInv, NewestInv
    <3>3. QED  BY <3>1, <3>2
  <2>9. ASSUME kept # <<>>, NEW m \in Due' PROVE m <= list'[1] \/ Overtaken(m)'
    <3>1. list # <<>> /\ list' # <<>>
      BY <1>12, <1>13, <2>9
    <3>2. list'[1] \in Nat /\ m \in Nat /\ list[1] \in Nat
      BY <1>0, <1>11, <2>4, <3>1, ListPlaces
    <3>3. CASE m \in added
      <4>1. list'[1] >= m
        BY <1>5, <2>9, <3>3
      <4>2. QED  BY <3>2, <4>1
    <3>4. CASE m \in known
      <4>1. m \in Due /\ m \in stored
        BY <2>3, <2>4, <3>4
      <4>2. m <= list[1] \/ Overtaken(m)
        BY <3>1, <4>1 DEF ChatInv, NewestInv
      <4>3. list[1] \in Range(list)
        BY <1>11, <3>1, ListPlaces
      <4>4. CASE list[1] \in known \ stored
        BY <2>5, <3>1, <4>1, <4>4
      <4>5. CASE list[1] \notin known \ stored
        <5>1. list[1] \in Range(kept)
          BY <1>1, <4>3, <4>5, WithoutFacts DEF kept
        <5>2. list[1] <= list'[1]
          BY <1>7, <1>15, <5>1, Ends
        <5>3. QED  BY <2>2, <3>2, <4>2, <5>2
      <4>6. QED  BY <4>4, <4>5
    <3>5. QED  BY <2>4, <3>3, <3>4
  <2>10. req \in {"asked", "answered"} /\ cursor = Top => list' = <<>> /\ known' \subseteq missed'
    <3>1. SUFFICES ASSUME req \in {"asked", "answered"}, cursor = Top
                   PROVE  list' = <<>> /\ known' \subseteq missed'
      OBVIOUS
    <3>2. list = <<>> /\ known \subseteq missed
      BY <3>1 DEF ChatInv, NewestInv
    <3>3. QED  BY <1>2, <1>12, <1>13, <3>2 DEF added
  <2>11. QED  BY <1>2, <1>13, <2>1, <2>8, <2>9, <2>10 DEF NewestInv
<1>19. missed' \subseteq used /\ gone' \subseteq used
  BY <1>0, <1>1, <1>2 DEF added, ChatInv, TypeOK
<1>20. QED  BY <1>10, <1>16, <1>17, <1>18, <1>19

LEMMA ScrollKeeps ==
    ASSUME ChatInv, Scroll
    PROVE  cursor' \in 1 .. Top /\ OrderInv' /\ HoleInv' /\ NewestInv'
<1>0. /\ MaxTime \in Nat /\ Top \in Nat /\ \A m \in used : m \in Nat /\ m < Top
      /\ used \subseteq Messages
  BY Stored DEF ChatInv
<1>1. /\ UNCHANGED <<stored, used, list, known, answer, greeting, missed, base, gone>>
      /\ list # <<>> /\ req' = "asked" /\ cursor' = Last(list)
  BY DEF Scroll, store, history
<1>2. Ordered(list, known) /\ list \in Seq(used)
  BY DEF ChatInv, OrderInv, TypeOK
<1>3. Last(list) \in used
  BY <1>1, <1>2, ListPlaces
<1>4. cursor' \in 1 .. Top
  <2>1. PICK n \in Nat : n = MaxTime
    BY <1>0
  <2>2. cursor' \in 1 .. n
    BY <1>0, <1>1, <1>3, <2>1 DEF Messages
  <2>3. cursor' \in 1 .. n + 1
    BY <2>2
  <2>4. QED  BY <2>1, <2>3 DEF Top
<1>5. \A m \in Range(list) : Last(list) <= m
  BY <1>2, Ends
<1>6. OrderInv'
  BY <1>1, <1>2, <1>5 DEF OrderInv
<1>7. HoleInv'
  <2>1. NoHoleBetweenPages
    BY DEF ChatInv, HoleInv
  <2>2. \A m \in base \cap stored : m >= Last(list) => m \in Range(list)
    BY <1>1, <2>1 DEF NoHoleBetweenPages
  <2>3. QED  BY <1>1, <2>1, <2>2 DEF HoleInv, NoHoleBetweenPages
<1>8. NewestInv'
  <2>1. cursor' # Top
    BY <1>0, <1>1, <1>3
  <2>2. \A m \in Due' : m <= list[1] \/ Overtaken(m)'
    BY <1>1 DEF ChatInv, NewestInv, Due, Overtaken
  <2>3. QED  BY <1>1, <2>1, <2>2 DEF NewestInv
<1>9. QED  BY <1>4, <1>6, <1>7, <1>8

LEMMA ReadPageKeeps ==
    ASSUME ChatInv, ReadPage
    PROVE  /\ answer' \in Seq(used) /\ base' \subseteq used
           /\ OrderInv' /\ HoleInv' /\ NewestInv'
<1>0. /\ MaxTime \in Nat /\ Top \in Nat /\ cursor \in Nat
      /\ \A m \in used : m \in Nat /\ m < Top
      /\ used \subseteq Nat /\ stored \subseteq used /\ stored \subseteq Messages
      /\ base \subseteq used
  BY Stored DEF ChatInv
<1>1. /\ UNCHANGED <<stored, used, list, known, cursor, greeting, missed, gone>>
      /\ req = "asked" /\ req' = "answered" /\ answer' = PageAfter(cursor)
      /\ base' = IF cursor = Top THEN stored ELSE base
  BY DEF ReadPage, store
<1>2. Ordered(list, known) /\ list \in Seq(used)
  BY DEF ChatInv, OrderInv, TypeOK
<1>3. /\ answer' \in Seq(stored)
      /\ \A i \in DOMAIN answer' : answer'[i] < cursor
      /\ \A i, j \in DOMAIN answer' : i < j => answer'[i] > answer'[j]
      /\ \A m \in stored : m < cursor => Reaches(answer', m)
  <2> DEFINE page == PageAfter(cursor)
  <2>1. stored \subseteq Messages /\ cursor \in Nat
    BY <1>0
  <2>2. /\ page \in Seq(stored)
        /\ \A i \in DOMAIN page : page[i] < cursor
        /\ \A i, j \in DOMAIN page : i < j => page[i] > page[j]
    BY ONLY <2>1, PageFacts
  <2>3. \A m \in stored : m < cursor => Reaches(page, m)
    BY ONLY <2>1, PageFacts
  <2> HIDE DEF page
  <2>4. answer' = page
    BY <1>1 DEF page
  <2>5. QED  BY <2>2, <2>3, <2>4
<1>4. answer' \in Seq(used)
  BY <1>0, <1>3, SeqMonotonic
<1>5. base' \subseteq used
  BY <1>0, <1>1
<1>6. cursor = Top => list = <<>>
  <2>1. SUFFICES ASSUME cursor = Top, list # <<>> PROVE FALSE
    OBVIOUS
  <2>2. Last(list) \in Range(list) /\ Last(list) \in used
    BY <1>2, <2>1, ListPlaces
  <2>3. cursor <= Last(list)
    BY <1>1, <2>2 DEF ChatInv, OrderInv
  <2>4. Last(list) < Top /\ Last(list) \in Nat
    BY <1>0, <2>2
  <2>5. QED  BY <1>0, <2>1, <2>3, <2>4
<1>7. OrderInv'
  <2>1. \A m \in Range(list) : cursor <= m
    BY <1>1 DEF ChatInv, OrderInv
  <2>2. QED  BY <1>1, <1>2, <1>3, <2>1 DEF OrderInv
<1>8. HoleInv'
  <2>1. ASSUME NEW m \in base' \cap stored, m >= cursor PROVE m \in Range(list)
    <3>1. cursor # Top
      <4>1. m \in Nat /\ m < Top
        BY <1>0, <2>1
      <4>2. QED  BY <1>0, <2>1, <4>1
    <3>2. m \in base \cap stored
      BY <1>1, <2>1, <3>1
    <3>3. QED  BY <1>1, <2>1, <3>2 DEF ChatInv, HoleInv
  <2>2. ASSUME list # <<>>, NEW m \in base' \cap stored, m >= Last(list)
        PROVE  m \in Range(list)
    <3>1. m \in base
      BY <1>1, <1>6, <2>2
    <3>2. NoHoleBetweenPages
      BY DEF ChatInv, HoleInv
    <3>3. QED  BY <2>2, <3>1, <3>2 DEF NoHoleBetweenPages
  <2>3. NoHoleBetweenPages'
    BY <1>1, <2>2 DEF NoHoleBetweenPages
  <2>4. \A m \in (base \cap stored)' : m < cursor' => Reaches(answer, m)'
    BY <1>1, <1>3 DEF Reaches
  <2>5. QED  BY <1>1, <2>1, <2>3, <2>4 DEF HoleInv
<1>9. NewestInv'
  <2>1. ASSUME cursor = Top, NEW m \in base' PROVE answer' # <<>> /\ m <= answer'[1]
    <3>1. m \in stored /\ m < cursor
      BY <1>0, <1>1, <2>1
    <3>2. Reaches(answer', m)
      BY <1>3, <3>1
    <3>3. answer' # <<>>
      BY <1>4, <3>2, ListPlaces DEF Reaches
    <3>4. /\ 1 \in DOMAIN answer' /\ Len(answer') \in DOMAIN answer' /\ Len(answer') \in Nat
          /\ DOMAIN answer' = 1 .. Len(answer')
          /\ \A i \in DOMAIN answer' : answer'[i] \in used
      BY <1>4, <3>3, ListPlaces
    <3>5. \A i \in DOMAIN answer' : answer'[i] \in Nat /\ answer'[i] <= answer'[1]
      <4>1. SUFFICES ASSUME NEW i \in DOMAIN answer'
                     PROVE  answer'[i] \in Nat /\ answer'[i] <= answer'[1]
        OBVIOUS
      <4>2. answer'[i] \in Nat /\ answer'[1] \in Nat
        BY <1>0, <3>4
      <4>3. CASE i = 1
        BY <4>2, <4>3
      <4>4. CASE 1 < i
        <5>1. answer'[1] > answer'[i]
          BY <1>3, <3>4, <4>4
        <5>2. QED  BY <4>2, <5>1
      <4>5. QED  BY <3>4, <4>3, <4>4
    <3>6. CASE m \in Range(answer')
      <4>1. PICK i \in DOMAIN answer' : answer'[i] = m
        BY <3>6 DEF Range
      <4>2. QED  BY <3>3, <3>5, <4>1
    <3>7. CASE m < Last(answer')
      <4>1. Last(answer') \in Nat /\ Last(answer') <= answer'[1] /\ answer'[1] \in Nat
        BY <3>4, <3>5 DEF Last
      <4>2. m \in Nat
        BY <1>0, <3>1
      <4>3. QED  BY <3>3, <3>7, <4>1, <4>2
    <3>8. QED  BY <3>2, <3>6, <3>7 DEF Reaches
  <2>2. CASE cursor = Top
    <3>1. list = <<>> /\ known \subseteq missed
      BY <1>1, <2>2 DEF ChatInv, NewestInv
    <3>2. QED  BY <1>1, <2>1, <2>2, <3>1 DEF NewestInv
  <2>3. CASE cursor # Top
    <3>1. base' = base
      BY <1>1, <2>3
    <3>2. Due' = Due /\ \A m : Overtaken(m)' <=> Overtaken(m)
      BY <1>1, <3>1 DEF Due, Overtaken
    <3>3. QED  BY <1>1, <2>3, <3>1, <3>2 DEF ChatInv, NewestInv
  <2>4. QED  BY <2>2, <2>3
<1>10. QED  BY <1>4, <1>5, <1>7, <1>8, <1>9

\* A page continues a list in order.
LEMMA Continued ==
    ASSUME NEW A, NEW l, Ordered(l, A), NEW page \in Seq(Nat), NEW c \in Nat,
           \A m \in Range(l) : c <= m,
           \A i \in DOMAIN page : page[i] < c,
           \A i, j \in DOMAIN page : i < j => page[i] > page[j]
    PROVE  /\ Ordered(l \o page, A)
           /\ Range(l \o page) = Range(l) \cup Range(page)
           /\ page # <<>> => l \o page # <<>> /\ Last(l \o page) = Last(page)
           /\ page = <<>> => l \o page = l
           /\ l # <<>> => l \o page # <<>> /\ (l \o page)[1] = l[1]
           /\ l = <<>> => l \o page = page
<1> DEFINE k == l \o page
<1>1. /\ l \in Seq(Nat) /\ Len(l) \in Nat /\ DOMAIN l = 1 .. Len(l)
      /\ Len(page) \in Nat /\ DOMAIN page = 1 .. Len(page)
      /\ \A i \in DOMAIN l : l[i] \in Nat /\ l[i] \in Range(l)
      /\ \A i \in DOMAIN page : page[i] \in Nat
  BY ListPlaces, SMTT(40) DEF Ordered
<1>2. PICK n \in Nat, z \in Nat : n = Len(l) /\ z = Len(page)
  BY <1>1
<1>3. /\ k \in Seq(Nat) /\ Len(k) = n + z
      /\ \A i \in 1 .. n + z : k[i] = IF i <= n THEN l[i] ELSE page[i - n]
  BY <1>1, <1>2, ConcatProperties
<1>4. DOMAIN k = 1 .. n + z
  BY <1>3, LenProperties, SMTT(40)
<1>5. (page = <<>> => k = l) /\ (l = <<>> => k = page)
  BY <1>1, ConcatEmptySeq
<1> HIDE DEF k
<1>6. \A i \in 1 .. n : i \in DOMAIN k /\ k[i] = l[i] /\ i \in DOMAIN l
  BY <1>1, <1>2, <1>3, <1>4, SMTT(40)
<1>7. \A i \in 1 .. z : n + i \in DOMAIN k /\ k[n + i] = page[i] /\ i \in DOMAIN page
  <2>1. SUFFICES ASSUME NEW i \in 1 .. z
                 PROVE  n + i \in DOMAIN k /\ k[n + i] = page[i] /\ i \in DOMAIN page
    OBVIOUS
  <2>2. n + i \in 1 .. n + z /\ ~ (n + i <= n) /\ (n + i) - n = i
    OBVIOUS
  <2>3. QED  BY <1>1, <1>2, <1>3, <1>4, <2>2
<1>8. \A i \in DOMAIN k : i \in 1 .. n \/ \E j \in 1 .. z : i = n + j
  <2>1. SUFFICES ASSUME NEW i \in 1 .. n + z, i \notin 1 .. n PROVE \E j \in 1 .. z : i = n + j
    BY <1>4
  <2>2. i - n \in 1 .. z /\ i = n + (i - n)
    BY <2>1
  <2>3. QED  BY <2>2
<1>9. ASSUME NEW i \in 1 .. n, NEW j \in 1 .. z PROVE l[i] > page[j]
  <2>1. c <= l[i] /\ page[j] < c /\ l[i] \in Nat /\ page[j] \in Nat
    BY <1>1, <1>2
  <2>2. QED  BY <2>1
<1>10. ASSUME NEW i \in DOMAIN k, NEW j \in DOMAIN k, i < j
       PROVE  /\ k[i] >= k[j] /\ (k[i] \notin A => k[i] > k[j])
              /\ j \notin 1 .. n => k[i] > k[j]
  <2>1. k[i] \in Nat /\ k[j] \in Nat
    BY <1>3, ListPlaces
  <2>2. CASE i \in 1 .. n /\ j \in 1 .. n
    <3>1. k[i] = l[i] /\ k[j] = l[j] /\ i \in DOMAIN l /\ j \in DOMAIN l
      BY <1>6, <2>2
    <3>2. l[i] >= l[j] /\ (l[i] \notin A => l[i] > l[j])
      BY <1>10, <3>1 DEF Ordered
    <3>3. QED  BY <2>2, <3>1, <3>2
  <2>3. ASSUME i \in 1 .. n, NEW q \in 1 .. z, j = n + q PROVE k[i] > k[j]
    BY <1>6, <1>7, <1>9, <2>3
  <2>4. ASSUME NEW p \in 1 .. z, i = n + p, NEW q \in 1 .. z, j = n + q PROVE k[i] > k[j]
    <3>1. p < q
      BY <1>10, <2>4
    <3>2. page[p] > page[q]
      BY <1>7, <3>1
    <3>3. QED  BY <1>7, <2>4, <3>2
  <2>5. ASSUME NEW p \in 1 .. z, i = n + p, j \in 1 .. n PROVE FALSE
    BY <1>10, <2>5
  <2>6. CASE j \in 1 .. n
    <3>1. i \in 1 .. n
      BY <1>8, <2>5, <2>6
    <3>2. QED  BY <2>2, <2>6, <3>1
  <2>7. CASE j \notin 1 .. n
    <3>1. PICK q \in 1 .. z : j = n + q
      BY <1>8, <2>7
    <3>2. k[i] > k[j]
      BY <1>8, <2>3, <2>4, <3>1
    <3>3. QED  BY <2>1, <3>2
  <2>8. QED  BY <2>6, <2>7
<1>11. ASSUME NEW i \in DOMAIN k, NEW j \in DOMAIN k, NEW p \in DOMAIN k, i < j, j < p
       PROVE  k[i] > k[p]
  <2>1. CASE p \in 1 .. n
    <3>1. i \in 1 .. n /\ j \in 1 .. n
      BY <1>4, <1>11, <2>1
    <3>2. /\ k[i] = l[i] /\ k[p] = l[p]
          /\ i \in DOMAIN l /\ j \in DOMAIN l /\ p \in DOMAIN l
      BY <1>6, <2>1, <3>1
    <3>3. l[i] > l[p]
      BY <1>11, <3>2 DEF Ordered
    <3>4. QED  BY <3>2, <3>3
  <2>2. CASE p \notin 1 .. n
    <3>1. i < p
      BY <1>4, <1>11
    <3>2. QED  BY <1>10, <2>2, <3>1
  <2>3. QED  BY <2>1, <2>2
<1>12. Ordered(k, A)
  BY <1>3, <1>10, <1>11 DEF Ordered
<1>13. Range(k) = Range(l) \cup Range(page)
  <2>1. \A i \in DOMAIN k : k[i] \in Range(l) \cup Range(page)
    BY <1>6, <1>7, <1>8 DEF Range
  <2>2. \A i \in DOMAIN l : l[i] \in Range(k)
    BY <1>1, <1>2, <1>6 DEF Range
  <2>3. \A i \in DOMAIN page : page[i] \in Range(k)
    <3>1. SUFFICES ASSUME NEW i \in 1 .. z PROVE page[i] \in Range(k)
      BY <1>1, <1>2
    <3>2. QED  BY <1>7 DEF Range
  <2>4. QED  BY <2>1, <2>2, <2>3 DEF Range
<1>14. page # <<>> => k # <<>> /\ Last(k) = Last(page)
  <2>1. SUFFICES ASSUME page # <<>> PROVE k # <<>> /\ Last(k) = Last(page)
    OBVIOUS
  <2>2. z \in 1 .. z /\ Last(page) = page[z]
    BY <1>2, <2>1, EmptySeq DEF Last
  <2>3. n + z # 0
    BY <2>2
  <2>4. k # <<>>
    BY <1>3, <2>3, EmptySeq
  <2>5. QED  BY <1>3, <1>7, <2>2, <2>4 DEF Last
<1>15. l # <<>> => k # <<>> /\ k[1] = l[1]
  <2>1. SUFFICES ASSUME l # <<>> PROVE k # <<>> /\ k[1] = l[1]
    OBVIOUS
  <2>2. n # 0
    BY <1>1, <1>2, <2>1, EmptySeq
  <2>3. n + z # 0 /\ 1 \in 1 .. n
    BY <2>2
  <2>4. k # <<>>
    BY <1>3, <2>3, EmptySeq
  <2>5. QED  BY <1>6, <2>3, <2>4
<1>16. QED  BY <1>5, <1>12, <1>13, <1>14, <1>15 DEF k

LEMMA ApplyPageKeeps ==
    ASSUME ChatInv, ApplyPage
    PROVE  list' \in Seq(used) /\ OrderInv' /\ HoleInv' /\ NewestInv'
<1>0. /\ MaxTime \in Nat /\ Top \in Nat /\ cursor \in Nat
      /\ \A m \in used : m \in Nat /\ m < Top
      /\ used \subseteq Nat /\ stored \subseteq used /\ base \subseteq used
  BY Stored DEF ChatInv
<1>1. /\ UNCHANGED <<stored, used, known, greeting, missed, base, gone>>
      /\ req = "answered" /\ list' = list \o answer
      /\ req' = IF list' = <<>> THEN "greet" ELSE "none"
  BY DEF ApplyPage, store, history
<1>2. Ordered(list, known) /\ list \in Seq(used) /\ answer \in Seq(used)
  BY DEF ChatInv, OrderInv, TypeOK
<1>3. answer \in Seq(Nat) /\ list \in Seq(Nat)
  BY <1>0, <1>2, SeqMonotonic
<1>4. list' \in Seq(used)
  BY <1>1, <1>2, ConcatProperties
<1>5. /\ \A m \in Range(list) : cursor <= m
      /\ \A i \in DOMAIN answer : answer[i] < cursor
      /\ \A i, j \in DOMAIN answer : i < j => answer[i] > answer[j]
  BY <1>1 DEF ChatInv, OrderInv
<1>6. /\ Ordered(list', known)
      /\ Range(list') = Range(list) \cup Range(answer)
      /\ answer # <<>> => list' # <<>> /\ Last(list') = Last(answer)
      /\ answer = <<>> => list' = list
      /\ list # <<>> => list' # <<>> /\ list'[1] = list[1]
      /\ list = <<>> => list' = answer
  <2> DEFINE k == list \o answer
  <2>1. /\ Ordered(k, known)
        /\ Range(k) = Range(list) \cup Range(answer)
        /\ answer # <<>> => k # <<>> /\ Last(k) = Last(answer)
        /\ answer = <<>> => k = list
        /\ list # <<>> => k # <<>> /\ k[1] = list[1]
        /\ list = <<>> => k = answer
    BY <1>0, <1>2, <1>3, <1>5, Continued
  <2> HIDE DEF k
  <2>2. list' = k
    BY <1>1 DEF k
  <2>3. QED  BY <2>1, <2>2
<1>7. OrderInv'
  BY <1>1, <1>6 DEF OrderInv
<1>8. \A m \in base \cap stored : /\ m >= cursor => m \in Range(list)
                                  /\ m < cursor => Reaches(answer, m)
  BY <1>1 DEF ChatInv, HoleInv
<1>9. HoleInv'
  <2>1. ASSUME list' = <<>> PROVE base \cap stored = {}
    <3>1. list = <<>> /\ answer = <<>>
      BY <1>6, <2>1
    <3>2. Range(list) = {} /\ Range(answer) = {}
      BY <1>3, <3>1, ListPlaces
    <3>3. ASSUME NEW m \in base \cap stored PROVE FALSE
      <4>1. m \in Nat
        BY <1>0
      <4>2. m >= cursor \/ m < cursor
        BY <1>0, <4>1
      <4>3. QED  BY <1>8, <3>1, <3>2, <4>2 DEF Reaches
    <3>4. QED  BY <3>3
  <2>2. ASSUME list' # <<>>, NEW m \in base \cap stored, m >= Last(list')
        PROVE  m \in Range(list')
    <3>1. m \in Nat /\ (m >= cursor \/ m < cursor)
      BY <1>0
    <3>2. CASE m >= cursor
      BY <1>6, <1>8, <3>2
    <3>3. CASE m < cursor
      <4>1. Reaches(answer, m)
        BY <1>8, <3>3
      <4>2. CASE m \in Range(answer)
        BY <1>6, <4>2
      <4>3. CASE answer # <<>> /\ m < Last(answer)
        <5>1. Last(list') = Last(answer) /\ Last(answer) \in Nat
          BY <1>3, <1>6, <4>3, ListPlaces
        <5>2. QED  BY <2>2, <3>1, <4>3, <5>1
      <4>4. QED  BY <4>1, <4>2, <4>3 DEF Reaches
    <3>4. QED  BY <3>1, <3>2, <3>3
  <2>3. NoHoleBetweenPages'
    BY <1>1, <2>2 DEF NoHoleBetweenPages
  <2>4. QED  BY <1>1, <2>1, <2>3 DEF HoleInv
<1>10. NewestInv'
  <2>1. req' \notin {"asked", "answered"}
    BY <1>1
  <2>2. Due' = Due /\ \A m : Overtaken(m)' <=> Overtaken(m)
    BY <1>1 DEF Due, Overtaken
  <2>3. CASE list # <<>>
    BY <1>1, <1>6, <2>1, <2>2, <2>3 DEF ChatInv, NewestInv
  <2>4. CASE list = <<>> /\ cursor # Top
    BY <1>1, <1>6, <2>1, <2>2, <2>4 DEF ChatInv, NewestInv
  <2>5. CASE list = <<>> /\ cursor = Top
    <3>1. /\ known \subseteq missed
          /\ \A m \in base : answer # <<>> /\ m <= answer[1]
      BY <1>1, <2>5 DEF ChatInv, NewestInv
    <3>2. \A m \in Due : m \in base
      BY <3>1 DEF Due
    <3>3. list' = answer
      BY <1>6, <2>5
    <3>4. QED  BY <1>1, <2>1, <2>2, <3>1, <3>2, <3>3 DEF NewestInv
  <2>6. QED  BY <2>3, <2>4, <2>5
<1>11. QED  BY <1>4, <1>7, <1>9, <1>10

LEMMA ShowGreetingKeeps ==
    ASSUME ChatInv, ShowGreeting
    PROVE  list' \in Seq(used) /\ OrderInv' /\ HoleInv' /\ NewestInv'
<1>0. used \subseteq Nat /\ stored \subseteq used /\ base \subseteq used
  BY Stored DEF ChatInv
<1>1. /\ UNCHANGED <<stored, used, known, missed, base, gone>>
      /\ req = "get" /\ list' = Append(list, greeting) /\ req' = "none"
  BY DEF ShowGreeting, store, history
<1>2. list = <<>> /\ greeting \in used /\ base \cap stored = {}
  BY <1>1 DEF ChatInv, OrderInv, HoleInv
<1>3. list' = <<greeting>> /\ greeting \in Nat
  BY <1>0, <1>1, <1>2
<1>4. list' \in Seq(used) /\ list' \in Seq(Nat) /\ DOMAIN list' = {1} /\ list' # <<>>
  BY <1>2, <1>3
<1>5. OrderInv'
  BY <1>1, <1>4 DEF OrderInv, Ordered
<1>6. HoleInv'
  BY <1>1, <1>2 DEF HoleInv, NoHoleBetweenPages
<1>7. NewestInv'
  <2>1. Due' = Due /\ \A m : Overtaken(m)' <=> Overtaken(m)
    BY <1>1 DEF Due, Overtaken
  <2>2. ASSUME known \subseteq missed PROVE Due = {}
    BY <1>2, <2>2 DEF Due
  <2>3. \A m \in Due : Overtaken(m)
    BY <1>2, <2>2 DEF ChatInv, NewestInv
  <2>4. QED  BY <1>1, <1>4, <2>1, <2>3 DEF NewestInv
<1>8. QED  BY <1>4, <1>5, <1>6, <1>7

-----------------------------------------------------------------------------
\* A message gets a time: the store's and the clock's types.
LEMMA SentTyped ==
    ASSUME TypeOK, NEW m \in Messages, PhoneSends(m)
    PROVE  /\ m \notin used /\ used' = used \cup {m} /\ used' \subseteq Messages
           /\ stored' \subseteq used' /\ phoneTime' \in 0 .. MaxTime
           /\ m \in 0 .. MaxTime /\ list \in Seq(used') /\ answer \in Seq(used')
<1>1. MaxTime \in Nat /\ m \in 1 .. MaxTime
  BY ChatAssumption DEF Messages
<1>2. /\ m \notin used /\ used' = used \cup {m} /\ stored' = stored \cup {m}
      /\ phoneTime' = m
  BY DEF PhoneSends, PhoneTimes, Store
<1>3. m \in 0 .. MaxTime
  BY <1>1
<1>4. list \in Seq(used) /\ answer \in Seq(used) /\ used \subseteq used'
  BY <1>2 DEF TypeOK
<1>5. list \in Seq(used') /\ answer \in Seq(used')
  BY <1>4, SeqMonotonic
<1>6. QED  BY <1>2, <1>3, <1>5 DEF TypeOK

LEMMA SendKeeps ==
    ASSUME ChatInv, NEW m \in Messages, Send(m)
    PROVE  ChatInv'
<1>1. /\ PhoneSends(m) /\ mine' = mine \cup {m} /\ unacked' = Append(unacked, m)
      /\ UNCHANGED <<lastMessage, orphans, open, list, known, req, cursor, answer,
                     greeting, help, missed, base, gone>>
  BY DEF Send, request, history
<1>2. /\ m \notin used /\ used' = used \cup {m} /\ used' \subseteq Messages
      /\ stored' \subseteq used' /\ phoneTime' \in 0 .. MaxTime
      /\ list \in Seq(used') /\ answer \in Seq(used')
  BY <1>1, SentTyped DEF ChatInv
<1>3. unacked' \in Seq(mine')
  <2>1. unacked \in Seq(mine) /\ mine \subseteq mine'
    BY <1>1 DEF ChatInv, TypeOK
  <2>2. unacked \in Seq(mine')
    BY <2>1, SeqMonotonic
  <2>3. QED  BY <1>1, <2>2, AppendProperties
<1>4. TypeOK'
  BY <1>1, <1>2, <1>3 DEF ChatInv, TypeOK, Top
<1>5. StoreStep
  BY <1>1, <1>2, SentIsStoreStep DEF PhoneSends, ChatInv
<1>6. OrderInv' /\ HoleInv' /\ NewestInv'
  BY <1>1, <1>5, PageKept
<1>7. QED  BY <1>4, <1>6 DEF ChatInv

\* A greeting of the page, or of a page that is closed.
LEMMA GreetingSentKeeps ==
    ASSUME ChatInv, NEW m \in Messages, Greet(m) \/ Help(m) \/ OrphanSends(m)
    PROVE  ChatInv'
<1>1. /\ PhoneSends(m)
      /\ UNCHANGED <<lastMessage, mine, unacked, open, list, known, cursor, answer,
                     missed, base, gone>>
      /\ \/ UNCHANGED <<req, greeting>>
         \/ req = "greet" /\ req' = "get" /\ greeting' = m
      /\ help' \in Helps
      /\ \/ orphans' = orphans
         \/ orphans' = orphans - 1 /\ orphans > 0
  BY DEF Greet, Help, OrphanSends, history, request, ChatInv, TypeOK, Helps
<1>2. /\ m \notin used /\ used' = used \cup {m} /\ used' \subseteq Messages
      /\ stored' \subseteq used' /\ phoneTime' \in 0 .. MaxTime /\ m \in 0 .. MaxTime
      /\ list \in Seq(used') /\ answer \in Seq(used')
  BY <1>1, SentTyped DEF ChatInv
<1>3. orphans' \in Nat
  BY <1>1 DEF ChatInv, TypeOK
<1>4. req' \in Requests /\ greeting' \in 0 .. MaxTime
  BY <1>1, <1>2 DEF ChatInv, TypeOK, Requests
<1>5. TypeOK'
  BY <1>1, <1>2, <1>3, <1>4 DEF ChatInv, TypeOK, Top
<1>6. StoreStep
  BY <1>1, <1>2, SentIsStoreStep DEF PhoneSends, ChatInv
<1>7. OrderInv' /\ HoleInv' /\ NewestInv'
  BY <1>1, <1>2, <1>6, PageKept
<1>8. QED  BY <1>5, <1>7 DEF ChatInv

LEMMA TeamKeeps ==
    ASSUME ChatInv, NEW m \in Messages, TeamSends(m) \/ TeamDeletes(m)
    PROVE  ChatInv'
<1>1. UNCHANGED <<lastMessage, mine, phoneTime, unacked, orphans, open, list, known,
                  req, cursor, answer, greeting, help, missed, base, gone>>
  BY DEF TeamSends, TeamDeletes, phone, request, history
<1>2. /\ used \subseteq used' /\ used' \subseteq Messages /\ stored' \subseteq used'
      /\ StoreStep
  <2>1. CASE TeamSends(m)
    <3>1. m \notin used /\ Store(m)
      BY <2>1 DEF TeamSends
    <3>2. StoreStep
      BY <3>1, SentIsStoreStep DEF ChatInv
    <3>3. QED  BY <3>1, <3>2 DEF Store, ChatInv, TypeOK
  <2>2. CASE TeamDeletes(m)
    <3>1. m \in used /\ stored' = stored \ {m} /\ used' = used
      BY <2>2 DEF TeamDeletes, ChatInv, TypeOK
    <3>2. StoreStep
      BY <3>1, RemovedIsStoreStep DEF ChatInv
    <3>3. QED  BY <3>1, <3>2 DEF ChatInv, TypeOK
  <2>3. QED  BY <2>1, <2>2
<1>3. list \in Seq(used') /\ answer \in Seq(used')
  BY <1>2, SeqMonotonic DEF ChatInv, TypeOK
<1>4. TypeOK'
  BY <1>1, <1>2, <1>3 DEF ChatInv, TypeOK, Top
<1>5. OrderInv' /\ HoleInv' /\ NewestInv'
  BY <1>1, <1>2, PageKept
<1>6. QED  BY <1>4, <1>5 DEF ChatInv

\* The answer to an add.
LEMMA AnsweredKeeps ==
    ASSUME ChatInv, SendAcked \/ SendFails
    PROVE  ChatInv'
<1>1. /\ UNCHANGED <<used, mine, phoneTime, orphans, open, list, known, req, cursor,
                     answer, greeting, help, missed, base, gone>>
      /\ unacked # <<>> /\ unacked' = Tail(unacked)
  BY DEF SendAcked, SendFails, request, history
<1>2. /\ Head(unacked) \in mine /\ Tail(unacked) \in Seq(mine)
  BY <1>1, HeadTailProperties DEF ChatInv, TypeOK
<1>3. Head(unacked) \in used
  BY <1>2 DEF ChatInv, TypeOK
<1>4. \A m \in Messages : m \in 0 .. MaxTime
  BY ChatAssumption DEF Messages
<1>5. lastMessage' \in 0 .. MaxTime
  BY <1>3, <1>4 DEF SendAcked, SendFails, ChatInv, TypeOK
<1>6. stored' \subseteq used /\ StoreStep
  <2>1. CASE SendAcked
    BY <1>1, <2>1, SameIsStoreStep DEF SendAcked, ChatInv, TypeOK
  <2>2. CASE SendFails
    BY <1>1, <1>3, <2>2, RemovedIsStoreStep DEF SendFails, ChatInv, TypeOK
  <2>3. QED  BY <2>1, <2>2
<1>7. TypeOK'
  BY <1>1, <1>2, <1>5, <1>6 DEF ChatInv, TypeOK, Top
<1>8. OrderInv' /\ HoleInv' /\ NewestInv'
  BY <1>1, <1>6, PageKept
<1>9. QED  BY <1>7, <1>8 DEF ChatInv

\* The page is opened, closed or killed.
LEMMA ClearedKeeps ==
    ASSUME ChatInv, Open \/ Close \/ Kill
    PROVE  ChatInv'
<1>1. /\ UNCHANGED <<stored, used, lastMessage, mine, phoneTime>>
      /\ Clear /\ req' \in {"none", "asked"} /\ open' \in BOOLEAN
      /\ unacked' = unacked \/ unacked' = <<>>
  BY DEF Open, Close, Kill, Dispose, store, phone
<1>2. orphans' \in Nat
  <2>1. orphans \in Nat
    BY DEF ChatInv, TypeOK
  <2>2. CASE Open
    BY <2>1, <2>2 DEF Open, phone
  <2>3. CASE Close
    BY <2>1, <2>3 DEF Close
  <2>4. CASE Kill
    BY <2>4 DEF Kill
  <2>5. QED  BY <2>2, <2>3, <2>4
<1>3. Top \in 1 .. Top /\ 0 \in 0 .. MaxTime
  BY ChatAssumption DEF Top
<1>4. \A S : <<>> \in Seq(S)
  BY EmptySeq
<1>5. TypeOK'
  <2>1. unacked' \in Seq(mine')
    BY <1>1, <1>4 DEF ChatInv, TypeOK
  <2>2. /\ stored' \subseteq used' /\ used' \subseteq Messages /\ mine' \subseteq used'
        /\ lastMessage' \in 0 .. MaxTime /\ phoneTime' \in 0 .. MaxTime
    BY <1>1 DEF ChatInv, TypeOK
  <2>3. /\ list' \in Seq(used') /\ answer' \in Seq(used') /\ known' \subseteq used'
        /\ cursor' \in 1 .. Top /\ greeting' \in 0 .. MaxTime /\ help' \in Helps
        /\ missed' \subseteq used' /\ base' \subseteq used' /\ gone' \subseteq used'
    BY <1>1, <1>3, <1>4 DEF Clear, Helps
  <2>4. req' \in Requests /\ open' \in BOOLEAN
    BY <1>1 DEF Requests
  <2>5. QED  BY <1>2, <2>1, <2>2, <2>3, <2>4 DEF TypeOK, Top
<1>6. OrderInv' /\ HoleInv' /\ NewestInv'
  BY <1>1, Cleared
<1>7. QED  BY <1>5, <1>6 DEF ChatInv

\* What the page does by itself: the store and the phone stay as they are.
LEMMA PageStepKeeps ==
    ASSUME ChatInv, Snapshot \/ Scroll \/ ReadPage \/ ApplyPage \/ ShowGreeting
    PROVE  ChatInv'
<1>1. UNCHANGED <<stored, used, lastMessage, mine, phoneTime, unacked, orphans, open,
                  help>>
  BY DEF Snapshot, Scroll, ReadPage, ApplyPage, ShowGreeting, store, phone, request
<1>2. TypeOK /\ stored \subseteq used /\ used \subseteq Messages
  BY DEF ChatInv, TypeOK
<1>3. <<>> \in Seq(used) /\ 0 \in 0 .. MaxTime /\ Top \in 1 .. Top
  BY EmptySeq, ChatAssumption DEF Top
<1>4. CASE Snapshot
  <2>1. /\ list' \in Seq(used) /\ missed' \subseteq used /\ gone' \subseteq used
        /\ OrderInv' /\ HoleInv' /\ NewestInv'
    BY <1>4, SnapshotKeeps
  <2>2. TypeOK'
    BY <1>1, <1>2, <1>4, <2>1 DEF Snapshot, TypeOK, Top, request
  <2>3. QED  BY <2>1, <2>2 DEF ChatInv
<1>5. CASE Scroll
  <2>1. cursor' \in 1 .. Top /\ OrderInv' /\ HoleInv' /\ NewestInv'
    BY <1>5, ScrollKeeps
  <2>2. TypeOK'
    BY <1>1, <1>2, <1>5, <2>1 DEF Scroll, TypeOK, Top, history, Requests
  <2>3. QED  BY <2>1, <2>2 DEF ChatInv
<1>6. CASE ReadPage
  <2>1. /\ answer' \in Seq(used) /\ base' \subseteq used
        /\ OrderInv' /\ HoleInv' /\ NewestInv'
    BY <1>6, ReadPageKeeps
  <2>2. TypeOK'
    BY <1>1, <1>2, <1>6, <2>1 DEF ReadPage, TypeOK, Top, Requests
  <2>3. QED  BY <2>1, <2>2 DEF ChatInv
<1>7. CASE ApplyPage
  <2>1. list' \in Seq(used) /\ OrderInv' /\ HoleInv' /\ NewestInv'
    BY <1>7, ApplyPageKeeps
  <2>2. req' \in Requests
    BY <1>7 DEF ApplyPage, Requests
  <2>3. TypeOK'
    BY <1>1, <1>2, <1>3, <1>7, <2>1, <2>2 DEF ApplyPage, TypeOK, Top, history
  <2>4. QED  BY <2>1, <2>3 DEF ChatInv
<1>8. CASE ShowGreeting
  <2>1. list' \in Seq(used) /\ OrderInv' /\ HoleInv' /\ NewestInv'
    BY <1>8, ShowGreetingKeeps
  <2>2. TypeOK'
    BY <1>1, <1>2, <1>3, <1>8, <2>1 DEF ShowGreeting, TypeOK, Top, history, Requests
  <2>3. QED  BY <2>1, <2>2 DEF ChatInv
<1>9. QED  BY <1>4, <1>5, <1>6, <1>7, <1>8

LEMMA QuietKeeps ==
    ASSUME ChatInv, RequestFails \/ HelpDue \/ UNCHANGED vars
    PROVE  ChatInv'
<1>1. /\ UNCHANGED <<stored, used, lastMessage, mine, phoneTime, unacked, orphans, open,
                     list, known, cursor, answer, greeting, missed, base,
                     gone>>
      /\ req' = req \/ req' = "failed"
      /\ help' \in Helps
  BY DEF RequestFails, HelpDue, vars, store, phone, request, history, ChatInv, TypeOK,
         Helps
<1>2. TypeOK'
  BY <1>1 DEF ChatInv, TypeOK, Top, Requests
<1>3. StoreStep
  BY <1>1, SameIsStoreStep
<1>4. req' = "failed" => req' \notin {"asked", "answered", "greet", "get"}
  OBVIOUS
<1>5. OrderInv' /\ HoleInv' /\ NewestInv'
  BY <1>1, <1>3, <1>4, PageKept
<1>6. QED  BY <1>2, <1>5 DEF ChatInv

LEMMA NextChat == ChatInv /\ [Next]_vars => ChatInv'
<1> SUFFICES ASSUME ChatInv, [Next]_vars PROVE ChatInv'
  OBVIOUS
<1>1. CASE Open \/ Close \/ Kill
  BY <1>1, ClearedKeeps
<1>2. CASE Snapshot \/ Scroll
  BY <1>2, PageStepKeeps
<1>3. CASE Fetch
  <2>1. CASE \E m \in Messages : Greet(m)
    BY <2>1, GreetingSentKeeps
  <2>2. CASE ReadPage \/ ApplyPage \/ ShowGreeting
    BY <2>2, PageStepKeeps
  <2>3. QED  BY <1>3, <2>1, <2>2 DEF Fetch
<1>4. CASE RequestFails \/ HelpDue \/ UNCHANGED vars
  BY <1>4, QuietKeeps
<1>5. CASE SendAcked \/ SendFails
  BY <1>5, AnsweredKeeps
<1>6. ASSUME NEW m \in Messages, TeamSends(m) \/ TeamDeletes(m) PROVE ChatInv'
  BY <1>6, TeamKeeps
<1>7. ASSUME NEW m \in Messages, Send(m) PROVE ChatInv'
  BY <1>7, SendKeeps
<1>8. ASSUME NEW m \in Messages, Help(m) \/ OrphanSends(m) PROVE ChatInv'
  BY <1>8, GreetingSentKeeps
<1>9. QED
  BY <1>1, <1>2, <1>3, <1>4, <1>5, <1>6, <1>7, <1>8 DEF Next

LEMMA InitChat == Init => ChatInv
<1> SUFFICES ASSUME Init PROVE ChatInv
  OBVIOUS
<1>1. Top \in 1 .. Top /\ 0 \in 0 .. MaxTime
  BY ChatAssumption DEF Top
<1>2. \A S : <<>> \in Seq(S)
  BY EmptySeq
<1>3. Range(<<>>) = {} /\ DOMAIN <<>> = {}
  <2>1. DOMAIN <<>> = {}
    OBVIOUS
  <2>2. QED  BY <2>1 DEF Range
<1>4. TypeOK
  BY <1>1, <1>2 DEF Init, TypeOK, Requests, Helps
<1>5. OrderInv
  BY <1>2, <1>3 DEF Init, OrderInv, Ordered
<1>6. HoleInv /\ NewestInv
  BY DEF Init, HoleInv, NoHoleBetweenPages, NewestInv, Due
<1>7. QED  BY <1>4, <1>5, <1>6 DEF ChatInv

THEOREM ChatHeld == Spec => []ChatInv
<1>1. Init => ChatInv
  BY InitChat
<1>2. ChatInv /\ [Next]_vars => ChatInv'
  BY NextChat
<1>3. QED  BY <1>1, <1>2, PTL DEF Spec

THEOREM ChatTyped == Spec => []TypeOK
<1>1. ChatInv => TypeOK
  BY DEF ChatInv
<1>2. QED  BY <1>1, ChatHeld, PTL

\* In an ordered list a message is at two places at most: three would differ.
LEMMA TwiceAtMost ==
    ASSUME NEW A, Ordered(list, A), NEW m
    PROVE  Copies(m) <= 2
<1> DEFINE P == {i \in DOMAIN list : list[i] = m}
<1>1. /\ Len(list) \in Nat /\ DOMAIN list = 1 .. Len(list)
      /\ \A i \in DOMAIN list : list[i] \in Nat
  BY ListPlaces DEF Ordered
<1>2. Copies(m) = Cardinality(P)
  BY DEF Copies
<1>3. CASE P = {}
  BY <1>2, <1>3, FS_EmptySet
<1>4. CASE P # {}
  <2>1. P \subseteq Nat
    BY <1>1
  <2>2. PICK i \in P : \A j \in P : i <= j
    BY <1>4, <2>1, Least
  <2>3. P \subseteq {i, i + 1}
    <3>1. SUFFICES ASSUME NEW j \in P, j # i, j # i + 1 PROVE FALSE
      OBVIOUS
    <3>2. /\ i \in 1 .. Len(list) /\ j \in 1 .. Len(list)
          /\ i <= j /\ list[i] = m /\ list[j] = m
      BY <1>1, <2>2
    <3>3. i + 1 \in DOMAIN list /\ i < i + 1 /\ i + 1 < j
      BY <1>1, <3>1, <3>2
    <3>4. list[i] > list[j]
      BY <1>1, <3>2, <3>3 DEF Ordered
    <3>5. m \in Nat
      BY <1>1, <3>2
    <3>6. QED  BY <3>2, <3>4, <3>5
  <2>4. IsFiniteSet({i}) /\ Cardinality({i}) = 1
    BY FS_Singleton
  <2>5. i \in Nat
    BY <2>1, <2>2
  <2>6. /\ IsFiniteSet({i} \cup {i + 1}) /\ Cardinality({i} \cup {i + 1}) = 2
    <3>1. i + 1 \notin {i}
      BY <2>5
    <3>2. QED  BY <2>4, <3>1, FS_AddElement, SMTT(40)
  <2>7. P \in SUBSET ({i} \cup {i + 1})
    BY <2>3
  <2>8. Cardinality(P) <= Cardinality({i} \cup {i + 1})
    BY <2>6, <2>7, FS_Subset
  <2>9. QED  BY <1>2, <2>6, <2>8
<1>5. QED  BY <1>3, <1>4

\* Whatever the order of snapshots, pages, removals and greetings, the page
\* shows messages newest first, and none of them more than twice.
THEOREM InOrder == Spec => []ListInOrder
<1>1. ChatInv => ListInOrder
  <2> SUFFICES ASSUME ChatInv PROVE ListInOrder
    OBVIOUS
  <2>1. Ordered(list, known)
    BY DEF ChatInv, OrderInv
  <2>2. \A m \in used : Copies(m) <= 2
    BY <2>1, TwiceAtMost
  <2>3. QED  BY <2>1, <2>2 DEF ListInOrder, Ordered
<1>2. QED  BY <1>1, ChatHeld, PTL

\* Pages leave no hole between them, for every size of a page and whatever is
\* removed while one is on its way.
THEOREM NoHole == Spec => []NoHoleBetweenPages
<1>1. ChatInv => NoHoleBetweenPages
  BY DEF ChatInv, HoleInv
<1>2. QED  BY <1>1, ChatHeld, PTL

\* The listener brings the newest message to the top, in whatever order a
\* snapshot lists it, and whatever is removed or refused; only what was announced
\* to an empty list, or came behind a message removed since, may be missing.
THEOREM NewestOnTop == Spec => []NewestArrives
<1>1. ChatInv => NewestArrives
  <2> SUFFICES ASSUME ChatInv, list # <<>>, known = stored,
                      NEW m \in stored \ (missed \ base)
               PROVE  m <= list[1] \/ \E n \in gone : n > m
    BY DEF NewestArrives
  <2>1. \A x \in Due : x <= list[1] \/ Overtaken(x)
    BY DEF ChatInv, NewestInv
  <2>2. m \in Due
    BY DEF Due
  <2>3. QED  BY <2>1, <2>2 DEF Overtaken
<1>2. QED  BY <1>1, ChatHeld, PTL

-----------------------------------------------------------------------------
(***************************************************************************)
(* HomeFeed, whose queries are paged in the same way.                      *)
(***************************************************************************)
\* Only pages asked for at the end of the list have a cursor.
HomeRequests == \A r \in BagToSet(requests) : r.kind # "more" => r.after = NoDate

\* The cursor is the last gift; a category's progress has a load to end it.
HomeCursor ==
    /\ lastItem = IF data = <<>> THEN NoDate ELSE Last(data)
    /\ showCatProgressBar /\ ~ failed => \E r \in BagToSet(requests) : r.kind = "load"

\* A list l of gifts of a category, newest first, that skips none that was
\* there all the time.
Unbroken(l, categ, there) ==
    /\ Descending(l)
    /\ Range(l) \subseteq InCategory(categ)
    /\ \A g \in there \cap InCategory(categ) :
          l # <<>> /\ g > Last(l) => g \in Range(l)

FeedInv ==
    /\ HomeTypeOK /\ HomeRequests /\ HomeCursor
    /\ ~ mixed => Unbroken(data, category, shown \ changed)

\* A finite set of numbers is bounded.
LEMMA Bounded ==
    ASSUME NEW S, IsFiniteSet(S), S \subseteq Nat
    PROVE  \E n \in Nat : \A x \in S : x <= n
<1>1. PICK c \in Nat : ExistsBijection(1 .. c, S)
  BY FS_NatBijection
<1>2. PICK f \in Bijection(1 .. c, S) : TRUE
  BY <1>1 DEF ExistsBijection
<1>3. f \in [1 .. c -> S] /\ \A x \in S : \E i \in 1 .. c : f[i] = x
  BY <1>2 DEF Bijection, Surjection, Injection
<1>4. \A i \in 1 .. c : f[i] \in Nat
  <2>1. \A i \in 1 .. c : f[i] \in S
    BY <1>3
  <2>2. QED  BY <2>1
<1> DEFINE T == {k \in Nat : k <= c => \E n \in Nat : \A i \in 1 .. k : f[i] <= n}
<1>5. 0 \in T
  OBVIOUS
<1>6. ASSUME NEW k \in Nat, k \in T PROVE k + 1 \in T
  <2> SUFFICES ASSUME k + 1 <= c PROVE \E n \in Nat : \A i \in 1 .. k + 1 : f[i] <= n
    OBVIOUS
  <2>1. PICK n \in Nat : \A i \in 1 .. k : f[i] <= n
    BY <1>6
  <2>2. PICK y \in Nat : y = f[k + 1]
    <3>1. k + 1 \in 1 .. c
      OBVIOUS
    <3>2. QED  BY <1>4, <3>1
  <2>3. PICK z \in Nat : z >= n /\ z >= y
    BY <2>1, <2>2
  <2>4. ASSUME NEW i \in 1 .. k + 1 PROVE f[i] <= z
    <3>1. CASE i = k + 1
      BY <2>2, <2>3, <3>1
    <3>2. CASE i \in 1 .. k
      <4>1. f[i] \in Nat /\ f[i] <= n
        BY <1>4, <2>1, <3>2
      <4>2. QED  BY <2>3, <4>1
    <3>3. QED  BY <3>1, <3>2
  <2>5. QED  BY <2>4
<1> HIDE DEF T
<1>7. c \in T
  BY <1>5, <1>6, Induct
<1>8. PICK n \in Nat : \A i \in 1 .. c : f[i] <= n
  BY <1>7 DEF T
<1>9. QED  BY <1>3, <1>8

LEMMA SeqWithin ==
    ASSUME NEW S, NEW T, S \subseteq T, NEW l \in Seq(S)
    PROVE  l \in Seq(T) /\ \A i \in DOMAIN l : l[i] \in T
<1>1. /\ Len(l) \in Nat /\ DOMAIN l = 1 .. Len(l) /\ \A i \in DOMAIN l : l[i] \in S
  BY ListPlaces
<1>2. l \in [1 .. Len(l) -> T]
  BY <1>1, LenProperties
<1>3. QED  BY <1>1, <1>2, SeqDef

LEMMA StrictlyOrdered ==
    ASSUME NEW l \in Seq(Nat), Descending(l)
    PROVE  Ordered(l, {})
<1>1. \A i \in DOMAIN l : l[i] \in Nat
  BY ListPlaces
<1>2. DOMAIN l \subseteq Nat
  BY ListPlaces
<1>3. QED  BY <1>1, <1>2, SMTT(40) DEF Ordered, Descending

\* A page of a query of the home page.
LEMMA HomePageFacts ==
    ASSUME NEW S \in SUBSET Gifts, NEW size \in Nat \ {0}
    PROVE  /\ Newest(S, size) \in Seq(S) /\ Descending(Newest(S, size))
           /\ \A m \in S : Reaches(Newest(S, size), m)
<1>1. IsFiniteSet(Gifts) /\ Gifts \subseteq Nat \ {0}
  BY GiftsAssumption DEF NoDate
<1>2. PICK n \in Nat : \A x \in Gifts : x <= n
  BY <1>1, Bounded
<1>3. S \in SUBSET (1 .. n)
  BY <1>1, <1>2
<1>4. QED  BY <1>3, NewestFacts

\* The gifts a request may be answered with.
Eligible(r) == {g \in shown \cap InCategory(r.categ) : r.after = NoDate \/ g < r.after}

LEMMA ResultFacts ==
    ASSUME HomeTypeOK, NEW r \in Request
    PROVE  /\ Result(r) \in Seq(Gifts) /\ Descending(Result(r))
           /\ Range(Result(r)) \subseteq Eligible(r)
           /\ \A g \in Eligible(r) : Reaches(Result(r), g)
<1> DEFINE S == Eligible(r)
           page == Result(r)
<1>1. S \in SUBSET Gifts
  BY DEF HomeTypeOK, Eligible
<1>2. PageLimit(r) \in Nat \ {0}
  BY LimitsAssumption DEF PageLimit
<1>3. page = Newest(S, PageLimit(r))
  BY DEF Result, Eligible
<1> HIDE DEF S, page
<1>4. page \in Seq(S) /\ Descending(page) /\ \A m \in S : Reaches(page, m)
  BY <1>1, <1>2, <1>3, HomePageFacts
<1>5. /\ Len(page) \in Nat /\ DOMAIN page = 1 .. Len(page)
      /\ Range(page) \subseteq S /\ \A i \in DOMAIN page : page[i] \in S
  BY <1>4, ListPlaces
<1>6. page \in [1 .. Len(page) -> Gifts]
  BY <1>1, <1>4, <1>5, LenProperties
<1>7. page \in Seq(Gifts)
  BY <1>5, <1>6, SeqDef
<1>8. QED  BY <1>4, <1>5, <1>7 DEF S, page

\* What is left of a page that leaves out what the list has.
LEMMA HomeAddedFacts ==
    ASSUME HomeTypeOK, NEW r \in Request
    PROVE  /\ NewGifts(r) \in Seq(Gifts)
           /\ Range(Result(r)) \cap Range(data) = {} =>
                 /\ Descending(NewGifts(r)) /\ Range(NewGifts(r)) \subseteq Eligible(r)
                 /\ \A g \in Eligible(r) : Reaches(NewGifts(r), g)
<1> DEFINE page == Result(r)
           rest == Without(page, ToSet(data))
<1>1. /\ page \in Seq(Gifts) /\ Descending(page) /\ Range(page) \subseteq Eligible(r)
      /\ \A g \in Eligible(r) : Reaches(page, g)
  BY ResultFacts
<1>2. NewGifts(r) = IF r.categ # Default THEN page ELSE rest
  BY DEF NewGifts, ToSet
<1> HIDE DEF page
<1>3. /\ rest \in Seq(Gifts)
      /\ \A m \in Range(page) : m \notin ToSet(data) => m \in Range(rest)
      /\ \E h \in [DOMAIN rest -> DOMAIN page] :
            /\ \A i \in DOMAIN rest : rest[i] = page[h[i]]
            /\ \A i, j \in DOMAIN rest : i < j => h[i] < h[j]
  BY ONLY <1>1, WithoutFacts
<1> HIDE DEF rest
<1>4. PICK h \in [DOMAIN rest -> DOMAIN page] :
            /\ \A i \in DOMAIN rest : rest[i] = page[h[i]]
            /\ \A i, j \in DOMAIN rest : i < j => h[i] < h[j]
  BY <1>3
<1>5. Descending(rest)
  <2> SUFFICES ASSUME NEW i \in DOMAIN rest, NEW j \in DOMAIN rest, i < j
               PROVE  rest[i] > rest[j]
    BY DEF Descending
  <2>1. h[i] \in DOMAIN page /\ h[j] \in DOMAIN page /\ h[i] < h[j]
    BY <1>4
  <2>2. page[h[i]] > page[h[j]]
    BY <1>1, <2>1 DEF Descending
  <2>3. QED  BY <1>4, <2>2
<1>6. Range(rest) \subseteq Range(page)
  <2> SUFFICES ASSUME NEW m \in Range(rest) PROVE m \in Range(page)
    OBVIOUS
  <2>1. PICK i \in DOMAIN rest : rest[i] = m
    BY <1>3, ListPlaces
  <2>2. h[i] \in DOMAIN page /\ page[h[i]] = m
    BY <1>4, <2>1
  <2>3. QED  BY <2>2 DEF Range
<1>7. ASSUME Range(page) \cap Range(data) = {}, NEW g \in Eligible(r)
      PROVE  Reaches(rest, g)
  <2>1. ToSet(data) = Range(data)
    BY DEF ToSet, Range
  <2>2. \A m \in Range(page) : m \in Range(rest)
    BY <1>3, <1>7, <2>1
  <2>3. CASE g \in Range(page)
    BY <2>2, <2>3 DEF Reaches
  <2>4. CASE page # <<>> /\ g < Last(page)
    <3>1. Last(page) \in Range(page) /\ Range(page) \subseteq Gifts
      BY <1>1, <2>4, ListPlaces
    <3>2. rest # <<>> /\ Last(rest) \in Range(rest)
      BY <1>3, <2>2, <3>1, ListPlaces
    <3>3. Last(rest) \in Range(page)
      BY <1>6, <3>2
    <3>4. Gifts \subseteq Nat
      BY GiftsAssumption DEF NoDate
    <3>5. page \in Seq(Nat)
      BY <1>1, <3>4, SeqWithin
    <3>6. Ordered(page, {})
      BY <1>1, <3>5, StrictlyOrdered
    <3>7. Last(page) <= Last(rest)
      BY <3>3, <3>6, Ends
    <3>8. g \in Nat /\ Last(page) \in Nat /\ Last(rest) \in Nat
      BY <3>1, <3>3, <3>4 DEF Eligible, InCategory
    <3>9. g < Last(rest)
      BY <2>4, <3>7, <3>8
    <3>10. QED  BY <3>2, <3>9 DEF Reaches
  <2>5. QED  BY <1>1, <1>7, <2>3, <2>4 DEF Reaches
<1>8. QED
  BY <1>1, <1>2, <1>3, <1>5, <1>6, <1>7 DEF page

\* A page continues a list without a break.
LEMMA StaysUnbroken ==
    ASSUME NEW l \in Seq(Gifts), NEW categ, NEW there,
           Unbroken(l, categ, there),
           NEW page \in Seq(Gifts), Descending(page),
           Range(page) \subseteq InCategory(categ),
           \A g \in Range(page) : l # <<>> => g < Last(l),
           \A g \in there \cap InCategory(categ) :
               l = <<>> \/ g < Last(l) => Reaches(page, g)
    PROVE  Unbroken(l \o page, categ, there)
<1>1. Gifts \subseteq Nat
  BY GiftsAssumption DEF NoDate
<1>2. /\ l \in Seq(Nat) /\ page \in Seq(Nat) /\ Range(l) \subseteq Gifts
      /\ Range(page) \subseteq Gifts /\ \A i \in DOMAIN page : page[i] \in Range(page)
      /\ l # <<>> => Last(l) \in Gifts
  BY <1>1, SeqWithin, ListPlaces, ZenonT(60)
<1>3. Ordered(l, {})
  BY <1>2, StrictlyOrdered DEF Unbroken
<1>4. PICK c \in Nat : /\ \A m \in Range(l) : c <= m
                       /\ \A i \in DOMAIN page : page[i] < c
  <2>1. CASE l # <<>>
    BY <1>1, <1>2, <1>3, <2>1, Ends
  <2>2. CASE l = <<>>
    <3>1. Range(l) = {}
      BY <2>2, ListPlaces
    <3>2. CASE page = <<>>
      <4>1. DOMAIN page = {}
        BY <3>2, ListPlaces
      <4>2. QED  BY <3>1, <4>1
    <3>3. CASE page # <<>>
      <4>1. Ordered(page, {}) /\ page[1] \in Nat
        BY <1>2, <3>3, StrictlyOrdered, ListPlaces
      <4>2. \A i \in DOMAIN page : page[i] <= page[1] /\ page[i] \in Nat
        BY <1>2, <4>1, Ends
      <4>3. page[1] + 1 \in Nat /\ \A i \in DOMAIN page : page[i] < page[1] + 1
        BY <4>1, <4>2
      <4>4. QED  BY <3>1, <4>3
    <3>4. QED  BY <3>2, <3>3
  <2>3. QED  BY <2>1, <2>2
<1>5. /\ Ordered(l \o page, {})
      /\ Range(l \o page) = Range(l) \cup Range(page)
      /\ page # <<>> => Last(l \o page) = Last(page)
      /\ page = <<>> => l \o page = l
  BY ONLY <1>2, <1>3, <1>4, Descending(page), Continued, SMTT(40) DEF Descending
<1>6. Descending(l \o page)
  BY <1>5 DEF Ordered, Descending
<1>7. ASSUME NEW g \in there \cap InCategory(categ), g > Last(l \o page), l \o page # <<>>
      PROVE  g \in Range(l \o page)
  <2>1. CASE page = <<>>
    BY <1>5, <1>7, <2>1 DEF Unbroken
  <2>2. CASE page # <<>> /\ (l = <<>> \/ g < Last(l))
    <3>1. Reaches(page, g)
      BY <2>2
    <3>2. Last(page) \in Nat /\ g \in Nat /\ g > Last(page)
      BY <1>1, <1>2, <1>5, <1>7, <2>2, ListPlaces DEF InCategory
    <3>3. g \in Range(page)
      BY <3>1, <3>2 DEF Reaches
    <3>4. QED  BY <1>5, <3>3
  <2>3. CASE l # <<>> /\ ~ (g < Last(l))
    <3>1. g \in Nat /\ Last(l) \in Nat /\ Last(l) \in Range(l)
      BY <1>1, <1>2, <2>3, ListPlaces DEF InCategory
    <3>2. g \in Range(l)
      BY <2>3, <3>1 DEF Unbroken
    <3>3. QED  BY <1>5, <3>2
  <2>4. QED  BY <2>1, <2>2, <2>3
<1>8. QED
  BY <1>5, <1>6, <1>7 DEF Unbroken

\* One request more; one less.
LEMMA RequestAdded ==
    ASSUME NEW bag, IsABag(bag), NEW r
    PROVE  LET new == bag (+) SetToBag({r})
           IN  IsABag(new) /\ BagToSet(new) = BagToSet(bag) \cup {r}
<1> DEFINE new == bag (+) SetToBag({r})
<1>1. /\ DOMAIN new = DOMAIN bag \cup {r}
      /\ \A e \in DOMAIN new : new[e] = (IF e \in DOMAIN bag THEN bag[e] ELSE 0)
                                        + (IF e \in {r} THEN 1 ELSE 0)
      /\ new = [e \in DOMAIN new |-> new[e]]
  BY DEF SetToBag, (+)
<1>2. \A e \in DOMAIN bag : bag[e] \in Nat /\ bag[e] > 0
  BY DEF IsABag
<1> HIDE DEF new
<1>3. ASSUME NEW e \in DOMAIN new PROVE new[e] \in {n \in Nat : n > 0}
  BY <1>1, <1>2
<1>4. IsABag(new) /\ BagToSet(new) = BagToSet(bag) \cup {r}
  BY <1>1, <1>3 DEF IsABag, BagToSet
<1>5. QED  BY <1>4 DEF new

LEMMA RequestAnswered ==
    ASSUME IsABag(requests), NEW r
    PROVE  /\ IsABag(Answered(r))
           /\ BagToSet(Answered(r)) \subseteq BagToSet(requests)
           /\ BagToSet(requests) \subseteq BagToSet(Answered(r)) \cup {r}
<1> DEFINE new  == Answered(r)
           left == [e \in DOMAIN requests |-> IF e \in {r} THEN requests[e] - 1
                                              ELSE requests[e]]
<1>1. new = [e \in {d \in DOMAIN left : left[d] > 0} |-> left[e]]
  BY DEF Answered, SetToBag, (-)
<1>2. \A e \in DOMAIN requests : requests[e] \in Nat /\ requests[e] > 0
  BY DEF IsABag
<1>3. \A e \in DOMAIN requests : left[e] \in Int
  BY <1>2
<1> HIDE DEF new
<1>4. /\ DOMAIN new \subseteq DOMAIN requests
      /\ DOMAIN requests \subseteq DOMAIN new \cup {r}
      /\ \A e \in DOMAIN new : new[e] \in Nat /\ new[e] > 0
      /\ new = [e \in DOMAIN new |-> new[e]]
  BY <1>1, <1>2, <1>3
<1>5. QED  BY <1>4 DEF IsABag, BagToSet, new

\* The bag of requests and what it may hold.
RequestsTyped == IsABag(requests) /\ BagToSet(requests) \subseteq Request /\ HomeRequests

Cursorless(q) == q \in Request /\ (q.kind # "more" => q.after = NoDate)

LEMMA Asked ==
    ASSUME RequestsTyped, NEW q, Cursorless(q), Ask(q)
    PROVE  RequestsTyped' /\ BagToSet(requests) \subseteq BagToSet(requests')
<1>1. /\ IsABag(requests')
      /\ BagToSet(requests') = BagToSet(requests) \cup {q}
  BY RequestAdded DEF RequestsTyped, Ask
<1>2. QED  BY <1>1 DEF RequestsTyped, HomeRequests, Cursorless

LEMMA Settled ==
    ASSUME RequestsTyped, NEW r, requests' = Answered(r)
    PROVE  /\ RequestsTyped'
           /\ \A q \in BagToSet(requests) : q # r => q \in BagToSet(requests')
<1>1. /\ IsABag(requests')
      /\ BagToSet(requests') \subseteq BagToSet(requests)
      /\ BagToSet(requests) \subseteq BagToSet(requests') \cup {r}
  BY RequestAnswered DEF RequestsTyped
<1>2. QED  BY <1>1 DEF RequestsTyped, HomeRequests

LEMMA SettledAndAsked ==
    ASSUME RequestsTyped, NEW r, NEW q, Cursorless(q),
           requests' = Answered(r) (+) SetToBag({q})
    PROVE  RequestsTyped' /\ q \in BagToSet(requests')
<1>1. /\ IsABag(Answered(r))
      /\ BagToSet(Answered(r)) \subseteq BagToSet(requests)
  BY RequestAnswered DEF RequestsTyped
<1>2. /\ IsABag(requests')
      /\ BagToSet(requests') = BagToSet(Answered(r)) \cup {q}
  BY <1>1, RequestAdded
<1>3. QED  BY <1>1, <1>2 DEF RequestsTyped, HomeRequests, Cursorless

\* A new list.
LEMMA EmptyUnbroken ==
    ASSUME NEW categ, NEW there
    PROVE  /\ Unbroken(<<>>, categ, there)
           /\ <<>> \in Seq(Gifts)
<1>1. DOMAIN <<>> = {}
  OBVIOUS
<1>2. QED  BY <1>1, EmptySeq DEF Unbroken, Descending, Range

\* The list and what the state says of it stay, whatever is shown or hidden.
ListKept ==
    /\ UNCHANGED <<data, lastItem, category, mixed>>
    /\ shown' \ changed' \subseteq shown \ changed

LEMMA ListKeeps ==
    ASSUME FeedInv, ListKept
    PROVE  /\ data' \in Seq(Gifts) /\ lastItem' \in Gifts \cup {NoDate}
           /\ category' \in Categories \cup {Default} /\ mixed' \in BOOLEAN
           /\ lastItem' = IF data' = <<>> THEN NoDate ELSE Last(data')
           /\ ~ mixed' => Unbroken(data', category', shown' \ changed')
BY DEF FeedInv, HomeCursor, ListKept, Unbroken, HomeTypeOK

\* Gifts are added to the list.
LEMMA ListGrows ==
    ASSUME FeedInv, NEW gifts \in Seq(Gifts), Extend(gifts)
    PROVE  /\ data' \in Seq(Gifts) /\ lastItem' \in Gifts \cup {NoDate}
           /\ lastItem' = IF data' = <<>> THEN NoDate ELSE Last(data')
<1>1. data \in Seq(Gifts) /\ lastItem = IF data = <<>> THEN NoDate ELSE Last(data)
  BY DEF FeedInv, HomeTypeOK, HomeCursor
<1>2. data' = data \o gifts /\ lastItem' = IF gifts = <<>> THEN lastItem ELSE Last(gifts)
  BY DEF Extend, Last
<1>3. CASE gifts = <<>>
  <2>1. data' = data /\ lastItem' = lastItem
    BY <1>1, <1>2, <1>3, ConcatEmptySeq
  <2>2. QED  BY <1>1, <2>1 DEF FeedInv, HomeTypeOK
<1>4. CASE gifts # <<>>
  <2>1. PICK n \in Nat, z \in Nat : n = Len(data) /\ z = Len(gifts)
    BY <1>1, ListPlaces
  <2>2. /\ data' \in Seq(Gifts) /\ Len(data') = n + z
        /\ \A i \in 1 .. n + z : data'[i] = IF i <= n THEN data[i] ELSE gifts[i - n]
    BY <1>1, <1>2, <2>1, ConcatProperties
  <2>3. z # 0
    BY <1>4, <2>1, EmptySeq
  <2>4. n + z \in 1 .. n + z /\ ~ (n + z <= n) /\ (n + z) - n = z
    BY <2>3
  <2>5. data'[n + z] = gifts[z]
    BY <2>2, <2>4
  <2>6. data' # <<>>
    BY <2>2, <2>3, EmptySeq
  <2>7. Last(data') = Last(gifts)
    BY <2>1, <2>2, <2>5 DEF Last
  <2>8. Last(gifts) \in Gifts
    BY <1>4, ListPlaces
  <2>9. QED  BY <1>2, <1>4, <2>2, <2>6, <2>7, <2>8
<1>5. QED  BY <1>3, <1>4

LEMMA LoadedKeeps ==
    ASSUME FeedInv, NEW r \in BagToSet(requests), Loaded(r)
    PROVE  FeedInv'
<1>1. r \in Request /\ r.kind = "load" /\ r.after = NoDate /\ RequestsTyped
  BY DEF FeedInv, HomeTypeOK, HomeRequests, RequestsTyped, Loaded
<1>2. HomeTypeOK
  BY DEF FeedInv
<1>3. /\ Result(r) \in Seq(Gifts) /\ Descending(Result(r))
      /\ Range(Result(r)) \subseteq Eligible(r)
      /\ \A g \in Eligible(r) : Reaches(Result(r), g)
  BY <1>1, <1>2, ResultFacts
<1>4. Eligible(r) = shown \cap InCategory(r.categ)
  BY <1>1 DEF Eligible
<1>5. RequestsTyped'
  BY <1>1, Settled DEF Loaded
<1>6. /\ data' \in Seq(Gifts) /\ lastItem' \in Gifts \cup {NoDate}
      /\ lastItem' = IF data' = <<>> THEN NoDate ELSE Last(data')
  BY <1>3, ListGrows DEF Loaded
<1>7. ASSUME ~ mixed' PROVE Unbroken(data', category', shown' \ changed')
  <2>1. /\ data = <<>> /\ r.categ = category /\ category' = category
        /\ shown' = shown /\ changed' = changed /\ data' = data \o Result(r)
    BY <1>7 DEF Loaded, Extend
  <2>2. Unbroken(<<>>, category, shown \ changed) /\ <<>> \in Seq(Gifts)
    BY EmptyUnbroken
  <2>3. Unbroken(<<>> \o Result(r), category, shown \ changed)
    <3>1. Range(Result(r)) \subseteq InCategory(category)
      BY <1>3, <1>4, <2>1
    <3>2. \A g \in (shown \ changed) \cap InCategory(category) : Reaches(Result(r), g)
      BY <1>3, <1>4, <2>1
    <3> DEFINE there == shown \ changed
    <3> HIDE DEF there
    <3>3. Unbroken(<<>> \o Result(r), category, there)
      BY <1>3, <2>2, <3>1, <3>2, StaysUnbroken DEF there
    <3>4. QED  BY <3>3 DEF there
  <2>4. QED  BY <2>1, <2>3
<1>8. HomeTypeOK'
  BY <1>2, <1>5, <1>6 DEF HomeTypeOK, Loaded, RequestsTyped
<1>9. QED
  BY <1>5, <1>6, <1>7, <1>8 DEF FeedInv, HomeCursor, RequestsTyped, Loaded

LEMMA MoreLoadedKeeps ==
    ASSUME FeedInv, NEW r \in BagToSet(requests), MoreLoaded(r)
    PROVE  FeedInv'
<1>1. r \in Request /\ r.kind = "more" /\ RequestsTyped
  BY DEF FeedInv, HomeTypeOK, RequestsTyped, MoreLoaded
<1>2. HomeTypeOK /\ HomeCursor /\ data \in Seq(Gifts) /\ Gifts \subseteq Nat \ {0}
  BY GiftsAssumption DEF FeedInv, HomeTypeOK, NoDate
<1>3. NewGifts(r) \in Seq(Gifts)
  BY <1>1, <1>2, HomeAddedFacts
<1>4. RequestsTyped' /\ \A q \in BagToSet(requests) : q # r => q \in BagToSet(requests')
  BY <1>1, Settled DEF MoreLoaded
<1>5. /\ data' \in Seq(Gifts) /\ lastItem' \in Gifts \cup {NoDate}
      /\ lastItem' = IF data' = <<>> THEN NoDate ELSE Last(data')
  BY <1>3, ListGrows DEF MoreLoaded
<1>6. ASSUME ~ mixed' PROVE Unbroken(data', category', shown' \ changed')
  <2>1. /\ ~ mixed /\ r.after = lastItem /\ r.categ = category /\ category' = category
        /\ shown' = shown /\ changed' = changed /\ data' = data \o NewGifts(r)
    BY <1>6 DEF MoreLoaded, Extend
  <2>2. Unbroken(data, category, shown \ changed)
    BY <2>1 DEF FeedInv
  <2>3. data # <<>> => Last(data) \in Nat \ {0} /\ Last(data) \in Range(data)
    <3>1. data # <<>> => Last(data) \in Range(data) /\ Range(data) \subseteq Gifts
      BY <1>2, ListPlaces
    <3>2. QED  BY <1>2, <3>1
  <2>4. Eligible(r) = {g \in shown \cap InCategory(category) :
                          data = <<>> \/ g < Last(data)}
    BY <1>2, <2>1, <2>3 DEF Eligible, HomeCursor, NoDate
  <2>5. Range(Result(r)) \subseteq Eligible(r)
    BY <1>1, <1>2, ResultFacts
  <2>6. Range(Result(r)) \cap Range(data) = {}
    <3>1. CASE data = <<>>
      BY <1>2, <3>1, ListPlaces
    <3>2. CASE data # <<>>
      <4>1. data \in Seq(Nat) /\ Range(data) \subseteq Nat
        BY <1>2, SeqWithin, ListPlaces
      <4>2. Ordered(data, {})
        BY <2>2, <4>1, StrictlyOrdered DEF Unbroken
      <4>3. \A m \in Range(data) : Last(data) <= m
        BY <4>2, Ends
      <4>4. \A m \in Range(Result(r)) : m < Last(data)
        BY <2>4, <2>5, <3>2
      <4>5. QED  BY <2>3, <3>2, <4>1, <4>3, <4>4
    <3>3. QED  BY <3>1, <3>2
  <2>7. /\ Descending(NewGifts(r)) /\ Range(NewGifts(r)) \subseteq Eligible(r)
        /\ \A g \in Eligible(r) : Reaches(NewGifts(r), g)
    BY <1>1, <1>2, <2>6, HomeAddedFacts
  <2> DEFINE there == shown \ changed
             page == NewGifts(r)
  <2>8. /\ Range(page) \subseteq InCategory(category)
        /\ \A g \in Range(page) : data # <<>> => g < Last(data)
        /\ \A g \in there \cap InCategory(category) :
              data = <<>> \/ g < Last(data) => Reaches(page, g)
    BY <2>4, <2>7
  <2>9. Descending(page) /\ page \in Seq(Gifts) /\ Unbroken(data, category, there)
    BY <1>3, <2>2, <2>7
  <2> HIDE DEF there, page
  <2>10. Unbroken(data \o page, category, there)
    BY <1>2, <2>8, <2>9, StaysUnbroken
  <2>11. QED  BY <2>1, <2>10 DEF there, page
<1>7. HomeTypeOK'
  <2>1. category' \in Categories \cup {Default} /\ mixed' \in BOOLEAN /\ showMore' \in BOOLEAN
    BY <1>2 DEF HomeTypeOK, MoreLoaded
  <2>2. QED  BY <1>2, <1>4, <1>5, <2>1 DEF HomeTypeOK, MoreLoaded, RequestsTyped
<1>8. HomeCursor'
  <2>1. showCatProgressBar /\ ~ failed => \E q \in BagToSet(requests') : q.kind = "load"
    BY <1>1, <1>2, <1>4 DEF HomeCursor
  <2>2. QED  BY <1>5, <2>1 DEF HomeCursor, MoreLoaded
<1>9. QED
  BY <1>4, <1>6, <1>7, <1>8 DEF FeedInv, RequestsTyped

LEMMA HomeBegins ==
    ASSUME requests' = SetToBag({Header})
    PROVE  RequestsTyped'
<1>1. requests' = [q \in {Header} |-> 1]
  BY DEF SetToBag
<1>2. DOMAIN requests' = {Header} /\ \A q \in DOMAIN requests' : requests'[q] = 1
  BY <1>1
<1>3. IsABag(requests') /\ BagToSet(requests') = {Header}
  BY <1>1, <1>2 DEF IsABag, BagToSet
<1>4. Header \in Request /\ Header.kind = "header"
  BY DEF Header, Call, Request
<1>5. QED  BY <1>3, <1>4 DEF RequestsTyped, HomeRequests, Header, Call

LEMMA FeedNext == FeedInv /\ [HomeNext]_homeVars => FeedInv'
<1> SUFFICES ASSUME FeedInv, [HomeNext]_homeVars PROVE FeedInv'
  OBVIOUS
<1> USE DEF feed, flags, past
<1>0. RequestsTyped /\ HomeTypeOK /\ HomeCursor
  BY DEF FeedInv, HomeTypeOK, RequestsTyped
<1>1. CASE UNCHANGED homeVars
  <2>1. ListKept
    BY <1>1 DEF homeVars, ListKept
  <2>2. HomeTypeOK'
    BY <1>0, <1>1 DEF HomeTypeOK, homeVars
  <2>3. HomeRequests' /\ HomeCursor'
    BY <1>0, <1>1 DEF HomeRequests, HomeCursor, RequestsTyped, homeVars
  <2>4. QED  BY <2>1, <2>2, <2>3, ListKeeps DEF FeedInv
<1>2. CASE Reopen
  <2>1. RequestsTyped'
    BY <1>2, HomeBegins DEF Reopen
  <2>2. data' = <<>> /\ data' \in Seq(Gifts) /\ Unbroken(data', category', shown' \ changed')
    BY <1>2, EmptyUnbroken DEF Reopen
  <2>3. HomeTypeOK'
    BY <1>0, <1>2, <2>1, <2>2 DEF Reopen, HomeTypeOK, RequestsTyped
  <2>4. HomeCursor'
    BY <1>2 DEF Reopen, HomeCursor
  <2>5. QED  BY <2>1, <2>2, <2>3, <2>4 DEF FeedInv, RequestsTyped
<1>3. ASSUME NEW q, Cursorless(q), Ask(q), UNCHANGED <<shown, feed, flags, past>>
      PROVE  FeedInv'
  <2>1. RequestsTyped' /\ BagToSet(requests) \subseteq BagToSet(requests')
    BY <1>0, <1>3, Asked
  <2>2. ListKept
    BY <1>3 DEF ListKept
  <2>3. HomeTypeOK'
    BY <1>0, <1>3, <2>1 DEF HomeTypeOK, RequestsTyped
  <2>4. HomeCursor'
    BY <1>0, <1>3, <2>1 DEF HomeCursor
  <2>5. QED  BY <2>1, <2>2, <2>3, <2>4, ListKeeps DEF FeedInv, RequestsTyped
<1>4. CASE Retry
  <2>1. Cursorless(Header)
    BY DEF Cursorless, Header, Call, Request
  <2>2. QED  BY <1>3, <1>4, <2>1 DEF Retry
<1>5. CASE ScrollToEnd
  <2>1. Cursorless(Call("more", category, lastItem))
    BY <1>0 DEF Cursorless, Call, Request, HomeTypeOK
  <2>2. QED  BY <1>3, <1>5, <2>1 DEF ScrollToEnd
<1>6. ASSUME NEW categ \in Categories \cup {Default}, ChooseCategory(categ) PROVE FeedInv'
  <2>1. Cursorless(Call("refresh", categ, NoDate))
    BY DEF Cursorless, Call, Request
  <2>2. QED  BY <1>3, <1>6, <2>1 DEF ChooseCategory
<1>7. ASSUME NEW g \in Gifts, Toggle(g) PROVE FeedInv'
  <2>1. ListKept
    BY <1>7 DEF Toggle, ListKept
  <2>2. shown' \subseteq Gifts /\ changed' \subseteq Gifts
    BY <1>0, <1>7 DEF Toggle, HomeTypeOK
  <2>3. HomeTypeOK'
    BY <1>0, <1>7, <2>2 DEF HomeTypeOK, Toggle
  <2>4. HomeRequests' /\ HomeCursor'
    BY <1>0, <1>7 DEF HomeRequests, HomeCursor, RequestsTyped, Toggle
  <2>5. QED  BY <2>1, <2>3, <2>4, ListKeeps DEF FeedInv
<1>8. ASSUME NEW r \in BagToSet(requests), Offline(r) \/ Fails(r) PROVE FeedInv'
  <2>1. RequestsTyped' /\ \A q \in BagToSet(requests) : q # r => q \in BagToSet(requests')
    BY <1>0, <1>8, Settled DEF Offline, Fails
  <2>2. ListKept
    BY <1>8 DEF Offline, Fails, ListKept
  <2>3. failed' \in BOOLEAN
    BY <1>0, <1>8 DEF HomeTypeOK, Offline, Fails
  <2>4. HomeTypeOK'
    BY <1>0, <1>8, <2>1, <2>3 DEF HomeTypeOK, Offline, Fails, RequestsTyped
  <2>5. HomeCursor'
    <3>1. showCatProgressBar' /\ ~ failed' => \E q \in BagToSet(requests') : q.kind = "load"
      BY <1>0, <1>8, <2>1 DEF HomeCursor, Offline, Fails
    <3>2. QED  BY <2>2, <3>1, ListKeeps DEF HomeCursor
  <2>6. QED  BY <2>1, <2>2, <2>4, <2>5, ListKeeps DEF FeedInv, RequestsTyped
<1>9. ASSUME NEW r \in BagToSet(requests), HeaderLoaded(r) PROVE FeedInv'
  <2> DEFINE load == Call("load", Default, NoDate)
  <2>1. Cursorless(load) /\ load.kind = "load"
    BY DEF Cursorless, Call, Request
  <2> HIDE DEF load
  <2>2. RequestsTyped' /\ load \in BagToSet(requests')
    BY <1>0, <1>9, <2>1, SettledAndAsked DEF HeaderLoaded, load
  <2>3. ListKept
    BY <1>9 DEF HeaderLoaded, ListKept
  <2>4. HomeTypeOK'
    BY <1>0, <1>9, <2>2 DEF HomeTypeOK, HeaderLoaded, RequestsTyped
  <2>5. HomeCursor'
    BY <2>1, <2>2, <2>3, ListKeeps DEF HomeCursor
  <2>6. QED  BY <2>2, <2>3, <2>4, <2>5, ListKeeps DEF FeedInv, RequestsTyped
<1>10. ASSUME NEW r \in BagToSet(requests), Refresh(r) PROVE FeedInv'
  <2> DEFINE load == Call("load", r.categ, NoDate)
  <2>1. r \in Request
    BY <1>0 DEF RequestsTyped
  <2>2. Cursorless(load) /\ load.kind = "load"
    BY <2>1 DEF Cursorless, Call, Request
  <2> HIDE DEF load
  <2>3. RequestsTyped' /\ load \in BagToSet(requests')
    BY <1>0, <1>10, <2>2, SettledAndAsked DEF Refresh, load
  <2>4. data' = <<>> /\ data' \in Seq(Gifts) /\ Unbroken(data', category', shown' \ changed')
    BY <1>10, EmptyUnbroken DEF Refresh
  <2>5. category' \in Categories \cup {Default}
    BY <1>10, <2>1 DEF Refresh, Request
  <2>6. HomeTypeOK'
    BY <1>0, <1>10, <2>3, <2>4, <2>5 DEF HomeTypeOK, Refresh, RequestsTyped
  <2>7. HomeCursor'
    BY <1>10, <2>2, <2>3 DEF HomeCursor, Refresh
  <2>8. QED  BY <2>3, <2>4, <2>6, <2>7 DEF FeedInv, RequestsTyped
<1>11. QED
  BY <1>1, <1>2, <1>4, <1>5, <1>6, <1>7, <1>8, <1>9, <1>10, LoadedKeeps, MoreLoadedKeeps
     DEF HomeNext

\* In whatever order the answers come, whichever fail and whatever the shop
\* shows and hides meanwhile (HomeFeed).
THEOREM HomeHeld == HomeSpec => []FeedInv
<1>1. HomeInit => FeedInv
  <2> SUFFICES ASSUME HomeInit PROVE FeedInv
    OBVIOUS
  <2>1. requests = [q \in {Header} |-> 1]
    BY DEF HomeInit, SetToBag
  <2>2. DOMAIN requests = {Header} /\ \A q \in DOMAIN requests : requests[q] = 1
    BY <2>1
  <2>3. IsABag(requests) /\ BagToSet(requests) = {Header}
    BY <2>1, <2>2 DEF IsABag, BagToSet
  <2>4. Header \in Request /\ Header.kind = "header" /\ Header.after = NoDate
    BY DEF Header, Call, Request
  <2>5. data = <<>> /\ data \in Seq(Gifts) /\ Unbroken(data, category, shown \ changed)
    BY EmptyUnbroken DEF HomeInit
  <2>6. HomeTypeOK
    BY <2>3, <2>4, <2>5 DEF HomeInit, HomeTypeOK
  <2>7. QED  BY <2>3, <2>4, <2>5, <2>6 DEF HomeInit, FeedInv, HomeRequests, HomeCursor
<1>2. QED  BY <1>1, FeedNext, PTL DEF HomeSpec

\* The feed's state has its type.
THEOREM HomeTyped == HomeSpec => []HomeTypeOK
<1>1. FeedInv => HomeTypeOK
  BY DEF FeedInv
<1>2. QED  BY <1>1, HomeHeld, PTL

\* The next page continues the list that is there, a category's progress has a
\* load to end it, and a list that met no answer of another one skips nothing.
THEOREM FeedHeld == HomeSpec => []FeedUnbroken
<1>1. FeedInv => FeedUnbroken
  <2> SUFFICES ASSUME FeedInv PROVE FeedUnbroken
    OBVIOUS
  <2>1. lastItem = IF data = <<>> THEN NoDate ELSE Last(data)
    BY DEF FeedInv, HomeCursor, Last
  <2>2. showCatProgressBar /\ ~ failed => \E r \in BagToSet(requests) : r.kind = "load"
    BY DEF FeedInv, HomeCursor
  <2>3. ASSUME ~ mixed
        PROVE  /\ \A i \in 1 .. Len(data) - 1 : data[i] > data[i + 1]
               /\ ToSet(data) \subseteq InCategory(category)
               /\ \A g \in (shown \cap InCategory(category)) \ changed :
                    data # <<>> /\ g > Last(data) => g \in ToSet(data)
    <3>1. Unbroken(data, category, shown \ changed) /\ data \in Seq(Gifts)
      BY <2>3 DEF FeedInv, HomeTypeOK
    <3>2. DOMAIN data = 1 .. Len(data) /\ Len(data) \in Nat
      BY <3>1, ListPlaces
    <3>3. \A i \in 1 .. Len(data) - 1 : data[i] > data[i + 1]
      BY <3>1, <3>2 DEF Unbroken, Descending
    <3>4. ToSet(data) = Range(data)
      BY DEF ToSet, Range
    <3>5. QED  BY <3>1, <3>3, <3>4 DEF Unbroken, Last
  <2>4. QED  BY <2>1, <2>2, <2>3 DEF FeedUnbroken
<1>2. QED  BY <1>1, HomeHeld, PTL
=============================================================================
