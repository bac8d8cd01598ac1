--------------------------- MODULE GiftPanel_proof ---------------------------
(***************************************************************************)
(* Proofs about GiftPanel, for any gifts, selections and messages under    *)
(* way.                                                                    *)
(***************************************************************************)
EXTENDS GiftPanel, SequenceTheorems, TLAPS

LEMMA TailFacts ==
    ASSUME NEW S, NEW s \in Seq(S), s # <<>>
    PROVE  /\ Tail(s) \in Seq(S) /\ Head(s) \in S
           /\ ToSet(s) \subseteq ToSet(Tail(s)) \cup {Head(s)}
           /\ ToSet(Tail(s)) \subseteq ToSet(s) /\ Head(s) \in ToSet(s)
<1>1. /\ Tail(s) \in Seq(S) /\ Head(s) = s[1] /\ Head(s) \in S
      /\ Len(s) \in Nat \ {0} /\ DOMAIN s = 1 .. Len(s)
      /\ DOMAIN Tail(s) = 1 .. Len(s) - 1
      /\ \A i \in 1 .. Len(s) - 1 : Tail(s)[i] = s[i + 1]
  BY EmptySeq, HeadTailProperties, LenProperties
<1>2. ASSUME NEW i \in DOMAIN s, i # 1
      PROVE  s[i] \in ToSet(Tail(s))
  <2>1. i - 1 \in DOMAIN Tail(s) /\ Tail(s)[i - 1] = s[i]
    BY <1>1, <1>2
  <2>2. QED  BY <2>1 DEF ToSet
<1>3. ASSUME NEW i \in DOMAIN Tail(s)
      PROVE  Tail(s)[i] \in ToSet(s)
  <2>1. i + 1 \in DOMAIN s /\ Tail(s)[i] = s[i + 1]
    BY <1>1
  <2>2. QED  BY <2>1 DEF ToSet
<1>4. ToSet(s) \subseteq ToSet(Tail(s)) \cup {Head(s)}
  BY <1>1, <1>2 DEF ToSet
<1>5. ToSet(Tail(s)) \subseteq ToSet(s)
  BY <1>3 DEF ToSet
<1>6. Head(s) \in ToSet(s)
  BY <1>1 DEF ToSet
<1>7. QED  BY <1>1, <1>4, <1>5, <1>6

LEMMA AppendFacts ==
    ASSUME NEW S, NEW s \in Seq(S), NEW e \in S
    PROVE  /\ Append(s, e) \in Seq(S)
           /\ Len(s) \in Nat /\ Len(Append(s, e)) = Len(s) + 1
           /\ \A i \in 1 .. Len(s) : Append(s, e)[i] = s[i]
           /\ Append(s, e)[Len(s) + 1] = e
           /\ ToSet(Append(s, e)) = ToSet(s) \cup {e}
<1>1. /\ Append(s, e) \in Seq(S)
      /\ Len(s) \in Nat /\ Len(Append(s, e)) = Len(s) + 1
      /\ DOMAIN s = 1 .. Len(s) /\ DOMAIN Append(s, e) = 1 .. Len(s) + 1
      /\ \A i \in 1 .. Len(s) : Append(s, e)[i] = s[i]
      /\ Append(s, e)[Len(s) + 1] = e
  BY AppendProperties, LenProperties
<1>2. ToSet(Append(s, e)) = ToSet(s) \cup {e}
  <2>1. ASSUME NEW i \in DOMAIN Append(s, e)
        PROVE  Append(s, e)[i] \in ToSet(s) \cup {e}
    <3>1. CASE i \in 1 .. Len(s)
      BY <1>1, <3>1 DEF ToSet
    <3>2. CASE i = Len(s) + 1
      BY <1>1, <3>2
    <3>3. QED  BY <1>1, <3>1, <3>2
  <2>2. ASSUME NEW i \in DOMAIN s
        PROVE  s[i] \in ToSet(Append(s, e))
    <3>1. i \in DOMAIN Append(s, e) /\ Append(s, e)[i] = s[i]
      BY <1>1
    <3>2. QED  BY <3>1 DEF ToSet
  <2>3. e \in ToSet(Append(s, e))
    BY <1>1 DEF ToSet
  <2>4. QED  BY <2>1, <2>2, <2>3 DEF ToSet
<1>3. QED  BY <1>1, <1>2

\* One element is taken out: what follows it moves up by one place.
LEMMA RemoveAtPlaces ==
    ASSUME NEW S, NEW s \in Seq(S), NEW i \in DOMAIN s
    PROVE  /\ RemoveAt(s, i) \in Seq(S)
           /\ Len(s) \in Nat \ {0} /\ Len(RemoveAt(s, i)) = Len(s) - 1
           /\ \A j \in 1 .. Len(s) - 1 :
                 RemoveAt(s, i)[j] = IF j < i THEN s[j] ELSE s[j + 1]
<1> DEFINE left  == SubSeq(s, 1, i - 1)
           right == SubSeq(s, i + 1, Len(s))
           t     == RemoveAt(s, i)
<1>1. Len(s) \in Nat /\ DOMAIN s = 1 .. Len(s) /\ i \in 1 .. Len(s)
  BY LenProperties
<1>2. left \in Seq(S) /\ Len(left) = i - 1 /\ \A j \in 1 .. i - 1 : left[j] = s[j]
  <2>1. CASE i = 1
    BY <1>1, <2>1, SubSeqProperties, EmptySeq
  <2>2. CASE i # 1
    BY <1>1, <2>2, SubSeqProperties
  <2>3. QED  BY <2>1, <2>2
<1>3. /\ right \in Seq(S) /\ Len(right) = Len(s) - i
      /\ \A j \in 1 .. Len(s) - i : right[j] = s[i + j]
  <2>1. CASE i = Len(s)
    BY <1>1, <2>1, SubSeqProperties, EmptySeq
  <2>2. CASE i # Len(s)
    BY <1>1, <2>2, SubSeqProperties, SMTT(40)
  <2>3. QED  BY <2>1, <2>2
<1>4. t = left \o right
  BY DEF RemoveAt
<1>5. /\ t \in Seq(S) /\ Len(t) = Len(left) + Len(right)
      /\ \A j \in 1 .. Len(left) + Len(right) :
            t[j] = IF j <= Len(left) THEN left[j] ELSE right[j - Len(left)]
  <2> HIDE DEF left, right, t
  <2> QED  BY <1>2, <1>3, <1>4, ConcatProperties, SMTT(40)
<1>6. ASSUME NEW j \in 1 .. Len(s) - 1
      PROVE  t[j] = IF j < i THEN s[j] ELSE s[j + 1]
  <2> HIDE DEF left, right, t
  <2>1. CASE j < i
    BY <1>1, <1>2, <1>3, <1>5, <2>1, SMTT(40)
  <2>2. CASE ~ (j < i)
    <3>1. t[j] = right[j - (i - 1)] /\ j - (i - 1) \in 1 .. Len(s) - i
      BY <1>1, <1>2, <1>3, <1>5, <2>2, SMTT(40)
    <3>2. QED  BY <1>1, <1>3, <2>2, <3>1, SMTT(40)
  <2>3. QED  BY <2>1, <2>2
<1> HIDE DEF left, right, t
<1>7. Len(t) = Len(s) - 1
  BY <1>1, <1>2, <1>3, <1>5, SMTT(40)
<1>8. \A j \in 1 .. Len(s) - 1 : t[j] = IF j < i THEN s[j] ELSE s[j + 1]
  BY <1>6
<1>9. t \in Seq(S) /\ Len(s) \in Nat \ {0}
  BY <1>1, <1>5
<1>10. QED  BY <1>7, <1>8, <1>9 DEF t

\* A list without repetitions loses one element and keeps the others.
LEMMA RemoveFirstFacts ==
    ASSUME NEW S, NEW s \in Seq(S), IsInjective(s), NEW e \in ToSet(s)
    PROVE  /\ RemoveFirst(s, e) \in Seq(S) /\ IsInjective(RemoveFirst(s, e))
           /\ ToSet(RemoveFirst(s, e)) = ToSet(s) \ {e}
<1>0. Len(s) \in Nat /\ DOMAIN s = 1 .. Len(s)
  BY LenProperties
<1> DEFINE I == {k \in 1 .. Len(s) : s[k] = e}
           n == Min(I)
<1>1. PICK i \in 1 .. Len(s) : s[i] = e
  BY <1>0 DEF ToSet
<1>2. I = {i}
  BY <1>0, <1>1 DEF IsInjective
<1>3. n = i
  <2> HIDE DEF I
  <2> QED  BY <1>0, <1>2 DEF Min
<1>4. RemoveFirst(s, e) = RemoveAt(s, i)
  <2>1. RemoveFirst(s, e) = RemoveAt(s, SelectInSeq(s, LAMBDA v : v = e))
    BY <1>1 DEF RemoveFirst
  <2>2. SelectInSeq(s, LAMBDA v : v = e) = n
    BY <1>1 DEF SelectInSeq
  <2>3. QED  BY <1>3, <2>1, <2>2
<1> DEFINE t == RemoveAt(s, i)
<1>5. /\ t \in Seq(S) /\ Len(s) \in Nat \ {0} /\ Len(t) = Len(s) - 1
      /\ \A j \in 1 .. Len(s) - 1 : t[j] = IF j < i THEN s[j] ELSE s[j + 1]
  BY <1>0, <1>1, RemoveAtPlaces
<1> HIDE DEF t
<1>6. DOMAIN t = 1 .. Len(s) - 1
  BY <1>5, LenProperties
<1>7. IsInjective(t)
  <2> SUFFICES ASSUME NEW a \in DOMAIN t, NEW b \in DOMAIN t, a # b, a < b
               PROVE  t[a] # t[b]
    BY <1>6 DEF IsInjective
  <2>1. t[a] = s[IF a < i THEN a ELSE a + 1] /\ t[b] = s[IF b < i THEN b ELSE b + 1]
    BY <1>5, <1>6
  <2>2. QED  BY <1>0, <1>6, <2>1 DEF IsInjective
<1>8. ToSet(t) = ToSet(s) \ {e}
  <2>1. ASSUME NEW j \in DOMAIN t PROVE t[j] \in ToSet(s) \ {e}
    <3>1. CASE j < i
      BY <1>0, <1>1, <1>5, <1>6, <2>1, <3>1 DEF ToSet, IsInjective
    <3>2. CASE ~ (j < i)
      <4>1. t[j] = s[j + 1] /\ j + 1 \in DOMAIN s /\ j + 1 # i
        BY <1>0, <1>1, <1>5, <1>6, <2>1, <3>2
      <4>2. QED  BY <1>0, <1>1, <4>1 DEF ToSet, IsInjective
    <3>3. QED  BY <3>1, <3>2
  <2>2. ASSUME NEW k \in DOMAIN s, s[k] # e PROVE s[k] \in ToSet(t)
    <3>1. CASE k < i
      <4>1. k \in DOMAIN t /\ t[k] = s[k]
        BY <1>0, <1>1, <1>5, <1>6, <3>1
      <4>2. QED  BY <4>1 DEF ToSet
    <3>2. CASE k > i
      <4>1. k - 1 \in DOMAIN t /\ t[k - 1] = s[k]
        BY <1>0, <1>1, <1>5, <1>6, <3>2
      <4>2. QED  BY <4>1 DEF ToSet
    <3>3. QED  BY <1>0, <1>1, <2>2, <3>1, <3>2
  <2>3. QED  BY <2>1, <2>2 DEF ToSet
<1>9. QED  BY <1>4, <1>5, <1>7, <1>8 DEF t

LEMMA AppendedFacts ==
    ASSUME NEW S, NEW s \in Seq(S), NEW e \in S
    PROVE  /\ Append(s, e) \in Seq(S) /\ ToSet(Append(s, e)) = ToSet(s) \cup {e}
           /\ IsInjective(s) /\ e \notin ToSet(s) => IsInjective(Append(s, e))
<1> DEFINE t == Append(s, e)
<1>1. /\ t \in Seq(S) /\ Len(s) \in Nat /\ Len(t) = Len(s) + 1
      /\ DOMAIN s = 1 .. Len(s) /\ DOMAIN t = 1 .. Len(s) + 1
      /\ \A i \in 1 .. Len(s) : t[i] = s[i]
      /\ t[Len(s) + 1] = e
  BY AppendProperties, LenProperties
<1> HIDE DEF t
<1>2. ToSet(t) = ToSet(s) \cup {e}
  BY <1>1 DEF ToSet
<1>3. IsInjective(s) /\ e \notin ToSet(s) => IsInjective(t)
  BY <1>1 DEF ToSet, IsInjective
<1>4. QED  BY <1>1, <1>2, <1>3 DEF t

LEMMA ReverseFacts ==
    ASSUME NEW S, NEW s \in Seq(S)
    PROVE  /\ Reverse(s) \in Seq(S) /\ DOMAIN Reverse(s) = DOMAIN s
           /\ ToSet(Reverse(s)) = ToSet(s)
           /\ IsInjective(s) => IsInjective(Reverse(s))
           /\ Len(Reverse(s)) = Len(s)
<1> DEFINE t == Reverse(s)
<1>1. Len(s) \in Nat /\ DOMAIN s = 1 .. Len(s)
  BY LenProperties
<1>2. t = [i \in 1 .. Len(s) |-> s[(Len(s) - i) + 1]]
  BY DEF Reverse
<1>3. \A i \in 1 .. Len(s) : (Len(s) - i) + 1 \in 1 .. Len(s) /\ s[(Len(s) - i) + 1] \in S
  BY <1>1, ElementOfSeq
<1>4. t \in [1 .. Len(s) -> S] /\ DOMAIN t = 1 .. Len(s)
  BY <1>2, <1>3
<1> HIDE DEF t
<1>5. t \in Seq(S) /\ Len(t) = Len(s)
  BY <1>1, <1>4, SeqDef, LenProperties
<1>6. ToSet(t) = ToSet(s)
  <2>1. \A i \in DOMAIN t : t[i] \in ToSet(s)
    BY <1>1, <1>2, <1>3, <1>4 DEF ToSet
  <2>2. ASSUME NEW k \in DOMAIN s PROVE s[k] \in ToSet(t)
    <3>1. (Len(s) - k) + 1 \in DOMAIN t /\ (Len(s) - ((Len(s) - k) + 1)) + 1 = k
      BY <1>1, <1>4
    <3>2. t[(Len(s) - k) + 1] = s[k]
      BY <1>2, <1>4, <3>1
    <3>3. QED  BY <3>1, <3>2 DEF ToSet
  <2>3. QED  BY <2>1, <2>2 DEF ToSet
<1>7. IsInjective(s) => IsInjective(t)
  BY <1>1, <1>2, <1>3, <1>4 DEF IsInjective
<1>8. QED  BY <1>1, <1>4, <1>5, <1>6, <1>7 DEF t

\* One loader more
LEMMA WithFacts ==
    ASSUME NEW bag, IsABag(bag), NEW r
    PROVE  /\ IsABag(With(bag, r)) /\ BagToSet(With(bag, r)) = BagToSet(bag) \cup {r}
<1> DEFINE new == With(bag, r)
<1>1. /\ DOMAIN new = DOMAIN bag \cup {r}
      /\ \A e \in DOMAIN new : new[e] = (IF e \in DOMAIN bag THEN bag[e] ELSE 0)
                                        + (IF e \in {r} THEN 1 ELSE 0)
      /\ new = [e \in DOMAIN new |-> new[e]]
  BY DEF With, SetToBag, (+)
<1>2. \A e \in DOMAIN bag : bag[e] \in Nat /\ bag[e] > 0
  BY DEF IsABag
<1> HIDE DEF new
<1>3. ASSUME NEW e \in DOMAIN new PROVE new[e] \in {n \in Nat : n > 0}
  BY <1>1, <1>2
<1>4. QED  BY <1>1, <1>3 DEF IsABag, BagToSet, new

\* One loader less, and none when it was the only one
LEMMA AnsweredFacts ==
    ASSUME IsABag(loaders), NEW r
    PROVE  /\ IsABag(Answered(r)) /\ BagToSet(Answered(r)) \subseteq BagToSet(loaders)
           /\ loaders = SetToBag({r}) => BagToSet(Answered(r)) = {}
<1> DEFINE new  == Answered(r)
           left == [e \in DOMAIN loaders |-> IF e \in {r} THEN loaders[e] - 1
                                             ELSE loaders[e]]
<1>1. new = [e \in {d \in DOMAIN left : left[d] > 0} |-> left[e]]
  BY DEF Answered, SetToBag, (-)
<1>2. \A e \in DOMAIN loaders : loaders[e] \in Nat /\ loaders[e] > 0
  BY DEF IsABag
<1>3. \A e \in DOMAIN loaders : left[e] \in Int
  BY <1>2
<1> HIDE DEF new
<1>4. /\ DOMAIN new \subseteq DOMAIN loaders
      /\ \A e \in DOMAIN new : new[e] \in Nat /\ new[e] > 0
      /\ new = [e \in DOMAIN new |-> new[e]]
  BY <1>1, <1>3
<1>5. loaders = SetToBag({r}) => DOMAIN new = {}
  BY <1>1 DEF SetToBag
<1>6. QED  BY <1>4, <1>5 DEF IsABag, BagToSet, new

-----------------------------------------------------------------------------
(***************************************************************************)
(* The messages                                                            *)
(***************************************************************************)
\* What is selected was tapped after the last message that was stored had been sent.
TapsLater == \A g \in selectedMap : tapped[g] > accepted

\* The messages whose answer is awaited have been sent.
SentInv ==
    /\ selectedMap \subseteq Gifts /\ tapped \in [Gifts -> Nat]
    /\ messages \in Seq(SUBSET Gifts)
    /\ accepted \in 0 .. Len(messages)
    /\ unacked \in Seq(Nat) /\ ToSet(unacked) \subseteq 1 .. Len(messages)
    /\ TapsLater

\* A message takes what is selected along, all of it tapped since.
LEMMA SendKeeps ==
    ASSUME SentInv, Send
    PROVE  /\ SentInv'
           /\ \A i \in 1 .. accepted : \A g \in messages[i] \cap Last(messages') :
                 tapped[g] > i
<1>0. /\ messages \in Seq(SUBSET Gifts) /\ unacked \in Seq(Nat)
      /\ selectedMap \in SUBSET Gifts
  BY DEF SentInv
<1>1. /\ messages' = Append(messages, selectedMap)
      /\ unacked' = Append(unacked, Len(messages'))
      /\ UNCHANGED <<selectedMap, tapped, accepted>>
  BY DEF Send, picked
<1>2. /\ messages' \in Seq(SUBSET Gifts)
      /\ Len(messages) \in Nat /\ Len(messages') = Len(messages) + 1
      /\ messages'[Len(messages')] = selectedMap
  BY <1>0, <1>1, AppendFacts
<1>3. unacked' \in Seq(Nat) /\ ToSet(unacked') = ToSet(unacked) \cup {Len(messages')}
  BY <1>0, <1>1, <1>2, AppendFacts, SMTT(40)
<1>4. ToSet(unacked') \subseteq 1 .. Len(messages')
  BY <1>2, <1>3 DEF SentInv
<1>5. accepted' \in 0 .. Len(messages') /\ TapsLater'
  BY <1>1, <1>2 DEF SentInv, TapsLater
<1>6. SentInv'
  BY <1>0, <1>1, <1>2, <1>3, <1>4, <1>5 DEF SentInv
<1>7. ASSUME NEW i \in 1 .. accepted, NEW g \in Last(messages') PROVE tapped[g] > i
  <2>1. g \in selectedMap
    BY <1>2 DEF Last
  <2>2. tapped[g] > accepted /\ tapped[g] \in Nat /\ accepted \in Nat
    BY <1>2, <2>1 DEF SentInv, TapsLater
  <2>3. QED  BY <2>2
<1>8. QED  BY <1>6, <1>7

\* The answer clears the selection.
LEMMA AckKeeps ==
    ASSUME SentInv, SendAcked
    PROVE  SentInv'
<1>0. unacked \in Seq(Nat) /\ unacked # <<>> /\ unacked' = Tail(unacked)
  BY DEF SentInv, SendAcked
<1>1. /\ unacked' \in Seq(Nat) /\ ToSet(unacked') \subseteq ToSet(unacked)
      /\ Head(unacked) \in ToSet(unacked)
  BY <1>0, TailFacts
<1>2. /\ selectedMap' = {} /\ tapped' = [g \in Gifts |-> 0] /\ messages' = messages
      /\ accepted' = Head(unacked)
  BY DEF SendAcked, ClearSelection
<1>3. Len(messages) \in Nat
  BY LenProperties DEF SentInv
<1>4. accepted' \in 0 .. Len(messages)
  BY <1>1, <1>2, <1>3 DEF SentInv
<1>5. QED  BY <1>1, <1>2, <1>4 DEF SentInv, TapsLater

\* A message that is refused leaves all as it is.
LEMMA FailKeeps ==
    ASSUME SentInv, SendFails
    PROVE  SentInv'
<1>0. unacked \in Seq(Nat) /\ unacked # <<>> /\ unacked' = Tail(unacked)
  BY DEF SentInv, SendFails
<1>1. unacked' \in Seq(Nat) /\ ToSet(unacked') \subseteq ToSet(unacked)
  BY <1>0, TailFacts
<1>2. UNCHANGED <<selectedMap, tapped, messages, accepted>>
  BY DEF SendFails, picked
<1>3. QED  BY <1>1, <1>2 DEF SentInv, TapsLater

\* A tap is for the message that is sent next.
LEMMA SelectKeeps ==
    ASSUME SentInv, NEW g \in Gifts, Select(g)
    PROVE  SentInv'
<1>1. /\ selectedMap' \subseteq selectedMap \cup {g}
      /\ tapped' = [tapped EXCEPT ![g] = IF g \in selectedMap' THEN Len(messages) + 1 ELSE 0]
      /\ UNCHANGED <<messages, unacked, accepted>>
  BY DEF Select, sent
<1>2. Len(messages) \in Nat /\ accepted \in 0 .. Len(messages)
  BY LenProperties DEF SentInv
<1>3. tapped' \in [Gifts -> Nat]
  BY <1>1, <1>2 DEF SentInv
<1>4. ASSUME NEW h \in selectedMap' PROVE tapped'[h] > accepted
  <2>1. CASE h = g
    BY <1>1, <1>2, <1>4, <2>1 DEF SentInv
  <2>2. CASE h # g
    BY <1>1, <2>2 DEF SentInv, TapsLater
  <2>3. QED  BY <2>1, <2>2
<1>5. QED  BY <1>1, <1>2, <1>3, <1>4 DEF SentInv, TapsLater

LEMMA NextSent == SentInv /\ [Next]_vars => SentInv'
<1> SUFFICES ASSUME SentInv, [Next]_vars PROVE SentInv'
  OBVIOUS
<1>1. ASSUME UNCHANGED <<picked, sent>> PROVE SentInv'
  BY <1>1 DEF SentInv, TapsLater, picked, sent
<1>2. ASSUME ClearSelection, UNCHANGED sent PROVE SentInv'
  BY <1>2 DEF SentInv, TapsLater, ClearSelection, sent
<1>3. CASE GiftOnTap \/ Retry
  <2>1. CASE HideGifts
    BY <1>2, <2>1 DEF HideGifts
  <2>2. CASE HideLoading \/ HideError \/ LoadGifts \/ Retry
    BY <1>1, <2>2 DEF HideLoading, HideError, LoadGifts, Retry, Load
  <2>3. QED  BY <1>3, <2>1, <2>2 DEF GiftOnTap
<1>4. CASE ScrollToEnd
  BY <1>1, <1>4 DEF ScrollToEnd
<1>5. CASE Send \/ SendAcked \/ SendFails
  BY <1>5, SendKeeps, AckKeeps, FailKeeps
<1>6. ASSUME NEW g \in Gifts, Toggle(g) \/ ViewGift(g) PROVE SentInv'
  BY <1>1, <1>6 DEF Toggle, ViewGift
<1>7. ASSUME NEW g \in Gifts, Select(g) PROVE SentInv'
  BY <1>7, SelectKeeps
<1>8. ASSUME NEW r \in BagToSet(loaders),
             Online(r) \/ Offline(r) \/ ShowOffline(r) \/ LookUp(r) \/ LoadFails(r)
      PROVE  SentInv'
  BY <1>1, <1>8 DEF Online, Offline, ShowOffline, LookUp, LoadFails
<1>9. CASE UNCHANGED vars
  BY <1>1, <1>9 DEF vars
<1>10. QED
  BY <1>3, <1>4, <1>5, <1>6, <1>7, <1>8, <1>9 DEF Next

THEOREM SentHeld == Spec => []SentInv
<1>1. Init => SentInv
  BY EmptySeq DEF Init, SentInv, TapsLater, ToSet
<1>2. SentInv /\ [Next]_vars => SentInv'
  BY NextSent
<1>3. QED  BY <1>1, <1>2, PTL DEF Spec

\* However many messages are under way and whichever are refused: once one was
\* stored, its gifts go with a later one only when they are tapped again.
THEOREM Again == Spec => SentAgainIfTapped
<1> DEFINE Later == \A i \in 1 .. accepted : \A g \in messages[i] \cap Last(messages') :
                        tapped[g] > i
<1>1. ASSUME SentInv, [Next]_vars PROVE [messages' # messages => Later]_vars
  <2>1. CASE Send
    BY <1>1, <2>1, SendKeeps
  <2>2. CASE ~ Send
    <3>1. messages' = messages
      <4>1. CASE GiftOnTap \/ Retry \/ ScrollToEnd
        BY <4>1 DEF GiftOnTap, HideGifts, HideLoading, HideError, LoadGifts, Retry, Load,
                    ScrollToEnd, sent
      <4>2. CASE SendAcked \/ SendFails
        BY <4>2 DEF SendAcked, SendFails
      <4>3. ASSUME NEW g \in Gifts, Toggle(g) \/ ViewGift(g) \/ Select(g)
            PROVE  messages' = messages
        BY <4>3 DEF Toggle, ViewGift, Select, sent
      <4>4. ASSUME NEW r \in BagToSet(loaders),
                   Online(r) \/ Offline(r) \/ ShowOffline(r) \/ LookUp(r) \/ LoadFails(r)
            PROVE  messages' = messages
        BY <4>4 DEF Online, Offline, ShowOffline, LookUp, LoadFails, sent
      <4>5. CASE UNCHANGED vars
        BY <4>5 DEF vars, sent
      <4>6. QED  BY <1>1, <2>2, <4>1, <4>2, <4>3, <4>4, <4>5 DEF Next
    <3>2. QED  BY <3>1
  <2>3. QED  BY <2>1, <2>2
<1>2. QED  BY <1>1, SentHeld, PTL DEF Spec, SentAgainIfTapped

-----------------------------------------------------------------------------
(***************************************************************************)
(* The loops, the ids and what the phone forgets                           *)
(***************************************************************************)
\* The ids have none twice; the counter is the number of gifts found.
IdsInv ==
    /\ existing \in SUBSET Gifts /\ opened \in SUBSET Gifts
    /\ viewed \in SUBSET Gifts /\ gone \in SUBSET Gifts
    /\ recentlyviewed \in Seq(Gifts) /\ IsInjective(recentlyviewed)
    /\ recentIdListRev \in Seq(Gifts) /\ IsInjective(recentIdListRev)
    /\ recentList \in Seq(Gifts) /\ count = Len(recentList)
    /\ limit \in 1 .. MaxLimit

\* What the page was opened with is still in the list it read then, but for
\* what was looked up in vain; it is in the preferences with all that was
\* viewed since, until that list is written over them.
ForgetInv ==
    ~ overlapped =>
        /\ opened \subseteq ToSet(recentIdListRev) \cup gone
        /\ opened \subseteq ToSet(recentlyviewed) \cup gone
        /\ gone = {} => viewed \subseteq ToSet(recentlyviewed)

LoadersInv ==
    /\ IsABag(loaders) /\ BagToSet(loaders) \subseteq Loader
    /\ overlapped \in BOOLEAN

\* A single loader looks up the id the counter is at, and what it has found are
\* the ids before.
CounterInv ==
    ~ overlapped =>
        /\ Single(loaders)
        /\ \A r \in BagToSet(loaders) : r.kind = "get" =>
              count < Len(recentIdListRev) /\ r.gift = recentIdListRev[count + 1]
        /\ count <= Len(recentIdListRev)
        /\ \A i \in 1 .. count : recentList[i] = recentIdListRev[i]

FlagsTyped ==
    /\ showGifts \in BOOLEAN /\ loadingGifts \in BOOLEAN
    /\ loadingMore \in BOOLEAN /\ internetError \in BOOLEAN

PanelInv == IdsInv /\ ForgetInv /\ LoadersInv /\ CounterInv /\ FlagsTyped

-----------------------------------------------------------------------------
LEMMA CheckLoader ==
    \A by \in {"recent", "more"} : Check(by) \in Loader /\ Check(by).kind = "check"
BY DEF Check, Loader

\* Loaders come and go, and no counter or list changes; there is no new look-up.
LEMMA LoadersKeep ==
    ASSUME PanelInv, UNCHANGED <<existing, recentlyviewed, recentIdListRev, count,
                                 recentList, ids>>,
           limit' \in 1 .. MaxLimit, FlagsTyped',
           NEW bag, IsABag(bag), UnderWay(bag),
           \A r \in BagToSet(bag) : r \in BagToSet(loaders) \/ (r \in Loader /\ r.kind # "get")
    PROVE  PanelInv'
<1>1. /\ loaders' = bag /\ overlapped' = (overlapped \/ ~ Single(bag))
      /\ UNCHANGED <<opened, viewed, gone>>
  BY DEF UnderWay, ids
<1>2. LoadersInv'
  BY <1>1 DEF PanelInv, LoadersInv
<1>3. ~ overlapped' => ~ overlapped /\ Single(loaders')
  BY <1>1
<1>4. CounterInv'
  BY <1>1, <1>3 DEF PanelInv, CounterInv
<1>5. IdsInv'
  BY <1>1 DEF PanelInv, IdsInv
<1>6. ForgetInv'
  BY <1>1, <1>3 DEF PanelInv, ForgetInv
<1>7. QED  BY <1>2, <1>4, <1>5, <1>6 DEF PanelInv

\* The next round of a loop, or its end: the loader that goes on looks up the id
\* the counter is at.
LEMMA LoopKeeps ==
    ASSUME PanelInv, NEW r \in BagToSet(loaders), LoopOn(r.by, Answered(r)),
           IdsInv', ~ overlapped => ForgetInv' /\ count' <= Len(recentIdListRev'),
           ~ overlapped => \A i \in 1 .. count' : recentList'[i] = recentIdListRev'[i]
    PROVE  PanelInv'
<1> DEFINE rest == Answered(r)
           next == Get(r.by, recentIdListRev'[count' + 1])
<1>1. /\ IsABag(rest) /\ BagToSet(rest) \subseteq BagToSet(loaders)
      /\ loaders = SetToBag({r}) => BagToSet(rest) = {}
  BY AnsweredFacts DEF PanelInv, LoadersInv
<1>2. r \in Loader /\ r.by \in {"recent", "more"}
  BY DEF PanelInv, LoadersInv, Loader
<1>3. ~ overlapped => BagToSet(rest) = {}
  BY <1>1 DEF PanelInv, CounterInv, Single
<1> HIDE DEF rest
<1>4. CASE count' < Len(recentIdListRev') /\ count' < limit'
  <2>1. UnderWay(With(rest, next)) /\ UNCHANGED panel
    BY <1>4 DEF LoopOn, rest
  <2>2. IsABag(With(rest, next)) /\ BagToSet(With(rest, next)) = BagToSet(rest) \cup {next}
    BY <1>1, WithFacts
  <2>3. recentIdListRev'[count' + 1] \in Gifts
    <3>1. count' \in Nat /\ recentIdListRev' \in Seq(Gifts)
      BY LenProperties DEF IdsInv
    <3>2. Len(recentIdListRev') \in Nat
      BY <3>1, LenProperties
    <3>a. \A a, b \in Nat : a < b => a + 1 \in 1 .. b
      OBVIOUS
    <3>3. count' + 1 \in 1 .. Len(recentIdListRev')
      BY <1>4, <3>1, <3>2, <3>a, Zenon
    <3>4. QED  BY <3>1, <3>3, ElementOfSeq
  <2>4. next \in Loader /\ next.gift = recentIdListRev'[count' + 1]
    BY <1>2, <2>3 DEF Get, Loader
  <2>5. /\ loaders' = With(rest, next)
        /\ overlapped' = (overlapped \/ ~ Single(With(rest, next)))
    BY <2>1 DEF UnderWay
  <2> HIDE DEF next
  <2>6. LoadersInv'
    BY <1>1, <2>2, <2>4, <2>5 DEF PanelInv, LoadersInv
  <2>7. ~ overlapped' => ~ overlapped /\ Single(loaders')
    BY <2>5
  <2>8. CounterInv'
    <3>1. ~ overlapped' => BagToSet(loaders') = {next}
      BY <1>3, <2>2, <2>5
    <3>2. QED  BY <1>4, <2>4, <2>7, <3>1 DEF CounterInv
  <2>9. FlagsTyped'
    BY <2>1 DEF panel, PanelInv, FlagsTyped
  <2>10. ForgetInv'
    BY <2>7 DEF ForgetInv
  <2>11. QED  BY <2>6, <2>8, <2>9, <2>10 DEF PanelInv
<1>5. CASE ~ (count' < Len(recentIdListRev') /\ count' < limit')
  <2>1. UnderWay(rest) /\ IF r.by = "recent" THEN EndRecent ELSE EndMore
    BY <1>5 DEF LoopOn, rest
  <2>2. loaders' = rest /\ overlapped' = (overlapped \/ ~ Single(rest))
    BY <2>1 DEF UnderWay
  <2>3. LoadersInv'
    BY <1>1, <2>2 DEF PanelInv, LoadersInv
  <2>4. ~ overlapped' => ~ overlapped /\ Single(loaders')
    BY <2>2
  <2>5. CounterInv'
    BY <1>3, <2>2, <2>4 DEF CounterInv
  <2>6. FlagsTyped'
    <3>1. FlagsTyped
      BY DEF PanelInv
    <3>2. CASE EndRecent
      BY <3>1, <3>2 DEF EndRecent, FlagsTyped
    <3>3. CASE EndMore
      <4>1. loadingMore' \in BOOLEAN
        BY <3>3 DEF EndMore
      <4>2. UNCHANGED <<showGifts, loadingGifts, internetError>>
        BY <3>3 DEF EndMore
      <4>3. QED  BY <3>1, <4>1, <4>2 DEF FlagsTyped
    <3>4. QED  BY <2>1, <3>2, <3>3
  <2>7. ForgetInv'
    BY <2>4 DEF ForgetInv
  <2>8. QED  BY <2>3, <2>5, <2>6, <2>7 DEF PanelInv
<1>6. QED  BY <1>4, <1>5

LEMMA OnlineKeeps ==
    ASSUME PanelInv, NEW r \in BagToSet(loaders), Online(r)
    PROVE  PanelInv'
<1>1. /\ UNCHANGED <<existing, recentlyviewed, recentIdListRev, count, limit, recentList,
                     opened, viewed, gone>>
      /\ LoopOn(r.by, Answered(r))
  BY DEF Online, recents, ids
<1>2. IdsInv'
  BY <1>1 DEF PanelInv, IdsInv
<1>3. ~ overlapped => ForgetInv'
  BY <1>1 DEF PanelInv, ForgetInv
<1>4. ~ overlapped => /\ count' <= Len(recentIdListRev')
                      /\ \A i \in 1 .. count' : recentList'[i] = recentIdListRev'[i]
  BY <1>1 DEF PanelInv, CounterInv
<1>5. QED  BY <1>1, <1>2, <1>3, <1>4, LoopKeeps

LEMMA FoundKeeps ==
    ASSUME PanelInv, NEW r \in BagToSet(loaders), LookUp(r), r.gift \in existing
    PROVE  PanelInv'
<1>1. /\ recentList' = Append(recentList, r.gift) /\ count' = count + 1
      /\ UNCHANGED <<existing, recentlyviewed, recentIdListRev, limit, opened, viewed, gone>>
      /\ LoopOn(r.by, Answered(r)) /\ r.kind = "get"
  BY DEF LookUp, Missing
<1>2. recentList \in Seq(Gifts) /\ r.gift \in Gifts /\ count = Len(recentList)
  BY DEF PanelInv, IdsInv
<1>3. /\ recentList' \in Seq(Gifts) /\ Len(recentList') = count + 1 /\ count \in Nat
      /\ \A i \in 1 .. count : recentList'[i] = recentList[i]
      /\ recentList'[count + 1] = r.gift
  BY <1>1, <1>2, AppendProperties, LenProperties
<1>4. IdsInv'
  BY <1>1, <1>3 DEF PanelInv, IdsInv
<1>5. ~ overlapped => ForgetInv'
  BY <1>1 DEF PanelInv, ForgetInv
<1>6. Len(recentIdListRev) \in Nat
  BY LenProperties DEF PanelInv, IdsInv
<1>7. ASSUME ~ overlapped
      PROVE  /\ count' <= Len(recentIdListRev')
             /\ \A i \in 1 .. count' : recentList'[i] = recentIdListRev'[i]
  <2>1. /\ count < Len(recentIdListRev) /\ r.gift = recentIdListRev[count + 1]
        /\ \A i \in 1 .. count : recentList[i] = recentIdListRev[i]
    BY <1>1, <1>7 DEF PanelInv, CounterInv
  <2>2. QED  BY <1>1, <1>3, <1>6, <2>1
<1>8. QED  BY <1>1, <1>4, <1>5, <1>7, LoopKeeps

LEMMA MissingKeeps ==
    ASSUME PanelInv, NEW r \in BagToSet(loaders), LookUp(r), r.gift \notin existing
    PROVE  PanelInv'
<1> DEFINE n   == Len(recentIdListRev)
           new == RemoveAt(recentIdListRev, count + 1)
<1>1. /\ count < n /\ recentIdListRev' = new /\ recentlyviewed' = Reverse(recentIdListRev')
      /\ gone' = gone \cup {r.gift}
      /\ UNCHANGED <<existing, recentList, count, limit, opened, viewed>>
      /\ LoopOn(r.by, Answered(r)) /\ r.kind = "get"
  BY DEF LookUp, Missing
<1>2. /\ recentIdListRev \in Seq(Gifts) /\ IsInjective(recentIdListRev)
      /\ DOMAIN recentIdListRev = 1 .. n /\ n \in Nat /\ count \in Nat
  BY LenProperties DEF PanelInv, IdsInv
<1>3. count + 1 \in DOMAIN recentIdListRev
  BY <1>1, <1>2, SMTT(40)
<1>4. /\ new \in Seq(Gifts) /\ Len(new) = n - 1
      /\ \A j \in 1 .. n - 1 :
            new[j] = IF j < count + 1 THEN recentIdListRev[j] ELSE recentIdListRev[j + 1]
  BY <1>2, <1>3, RemoveAtPlaces
<1> HIDE DEF new
<1>5. DOMAIN new = 1 .. n - 1
  BY <1>2, <1>4, LenProperties
<1>6. IsInjective(new)
  <2> SUFFICES ASSUME NEW a \in DOMAIN new, NEW b \in DOMAIN new, a # b
               PROVE  new[a] # new[b]
    BY DEF IsInjective
  <2>1. /\ new[a] = recentIdListRev[IF a < count + 1 THEN a ELSE a + 1]
        /\ new[b] = recentIdListRev[IF b < count + 1 THEN b ELSE b + 1]
    BY <1>4, <1>5
  <2>2. QED  BY <1>2, <1>5, <2>1 DEF IsInjective
<1>7. ToSet(recentIdListRev) \subseteq ToSet(new) \cup {recentIdListRev[count + 1]}
  <2> SUFFICES ASSUME NEW k \in DOMAIN recentIdListRev, k # count + 1
               PROVE  recentIdListRev[k] \in ToSet(new)
    BY DEF ToSet
  <2>1. CASE k < count + 1
    <3>1. k \in DOMAIN new /\ new[k] = recentIdListRev[k]
      BY <1>2, <1>3, <1>4, <1>5, <2>1
    <3>2. QED  BY <3>1 DEF ToSet
  <2>2. CASE k > count + 1
    <3>1. k - 1 \in DOMAIN new /\ new[k - 1] = recentIdListRev[k]
      BY <1>2, <1>4, <1>5, <2>2
    <3>2. QED  BY <3>1 DEF ToSet
  <2>3. QED  BY <1>2, <2>1, <2>2
<1>8. /\ recentlyviewed' \in Seq(Gifts) /\ IsInjective(recentlyviewed')
      /\ ToSet(recentlyviewed') = ToSet(new)
  BY <1>1, <1>4, <1>6, ReverseFacts
<1>9. r.gift \in Gifts
  BY <1>1 DEF PanelInv, LoadersInv, Loader
<1>10. IdsInv'
  BY <1>1, <1>4, <1>6, <1>8, <1>9 DEF PanelInv, IdsInv
<1>11. ASSUME ~ overlapped
       PROVE  /\ ForgetInv' /\ count' <= Len(recentIdListRev')
              /\ \A i \in 1 .. count' : recentList'[i] = recentIdListRev'[i]
  <2>1. /\ r.gift = recentIdListRev[count + 1]
        /\ \A i \in 1 .. count : recentList[i] = recentIdListRev[i]
    BY <1>1, <1>11 DEF PanelInv, CounterInv
  <2>2. opened \subseteq ToSet(recentIdListRev) \cup gone
    BY <1>11 DEF PanelInv, ForgetInv
  <2>3. opened' \subseteq ToSet(recentIdListRev') \cup gone'
    BY <1>1, <1>7, <2>1, <2>2
  <2>4. ForgetInv'
    BY <1>1, <1>8, <2>3 DEF ForgetInv
  <2>5. count' <= Len(recentIdListRev')
    BY <1>1, <1>2, <1>4
  <2>6. \A i \in 1 .. count : recentIdListRev'[i] = recentIdListRev[i]
    BY <1>1, <1>2, <1>4
  <2>7. QED  BY <1>1, <2>1, <2>4, <2>5, <2>6
<1>12. QED  BY <1>1, <1>10, <1>11, LoopKeeps

\* A gift viewed now is the last of the preferences; no other leaves them.
LEMMA ViewKeeps ==
    ASSUME PanelInv, NEW g \in Gifts, ViewGift(g)
    PROVE  PanelInv'
<1> DEFINE rest == RemoveFirst(recentlyviewed, g)
<1>1. /\ recentlyviewed' = Append(rest, g) /\ viewed' = viewed \cup {g}
      /\ UNCHANGED <<existing, recentIdListRev, count, limit, recentList, loaders,
                     overlapped, showGifts, loadingGifts, loadingMore, internetError,
                     opened, gone>>
  BY DEF ViewGift, recents, loading, panel
<1>2. /\ rest \in Seq(Gifts) /\ IsInjective(rest)
      /\ ToSet(rest) = ToSet(recentlyviewed) \ {g}
  <2>0. recentlyviewed \in Seq(Gifts) /\ IsInjective(recentlyviewed)
    BY DEF PanelInv, IdsInv
  <2>1. CASE g \in ToSet(recentlyviewed)
    BY <2>0, <2>1, RemoveFirstFacts
  <2>2. CASE g \notin ToSet(recentlyviewed)
    <3>1. rest = recentlyviewed
      BY <2>0, <2>2, LenProperties DEF RemoveFirst, ToSet
    <3>2. QED  BY <2>0, <2>2, <3>1
  <2>3. QED  BY <2>1, <2>2
<1> HIDE DEF rest
<1>3. /\ recentlyviewed' \in Seq(Gifts) /\ IsInjective(recentlyviewed')
      /\ ToSet(recentlyviewed') = ToSet(recentlyviewed) \cup {g}
  BY <1>1, <1>2, AppendedFacts
<1>4. IdsInv'
  BY <1>1, <1>3 DEF PanelInv, IdsInv
<1>5. ForgetInv'
  BY <1>1, <1>3 DEF PanelInv, ForgetInv
<1>6. LoadersInv' /\ CounterInv' /\ FlagsTyped'
  BY <1>1 DEF PanelInv, LoadersInv, CounterInv, FlagsTyped, Single
<1>7. QED  BY <1>4, <1>5, <1>6 DEF PanelInv

LEMMA NextPanel == PanelInv /\ [Next]_vars => PanelInv'
<1> SUFFICES ASSUME PanelInv, [Next]_vars PROVE PanelInv'
  OBVIOUS
<1>0. IsABag(loaders) /\ BagToSet(loaders) \subseteq Loader /\ FlagsTyped
      /\ limit \in 1 .. MaxLimit
  BY DEF PanelInv, LoadersInv, IdsInv
<1>1. ASSUME UNCHANGED <<recentlyviewed, recents, loading, ids>>, FlagsTyped',
             existing' \in SUBSET Gifts
      PROVE  PanelInv'
  <2>1. UNCHANGED <<recentlyviewed, recentIdListRev, count, limit, recentList, loaders,
                    overlapped, opened, viewed, gone>>
    BY <1>1 DEF recents, loading, ids
  <2>2. QED  BY <1>1, <2>1 DEF PanelInv, IdsInv, ForgetInv, LoadersInv, CounterInv, Single
<1>2. existing \in SUBSET Gifts
  BY DEF PanelInv, IdsInv
<1>3. CASE HideGifts \/ HideLoading \/ HideError
  BY <1>0, <1>1, <1>2, <1>3 DEF HideGifts, HideLoading, HideError, FlagsTyped
<1>4. CASE LoadGifts \/ Retry
  <2>1. /\ UNCHANGED <<existing, recentlyviewed, recentIdListRev, count, limit, recentList,
                       ids>>
        /\ UnderWay(With(loaders, Check("recent"))) /\ FlagsTyped'
    BY <1>0, <1>4 DEF LoadGifts, Retry, Load, recents, FlagsTyped
  <2>2. /\ IsABag(With(loaders, Check("recent")))
        /\ BagToSet(With(loaders, Check("recent"))) = BagToSet(loaders) \cup {Check("recent")}
    BY <1>0, WithFacts
  <2>3. \A r \in BagToSet(With(loaders, Check("recent"))) :
           r \in BagToSet(loaders) \/ (r \in Loader /\ r.kind # "get")
    BY <2>2, CheckLoader
  <2>4. limit' \in 1 .. MaxLimit
    BY <1>0, <2>1
  <2>5. QED  BY <2>1, <2>2, <2>3, <2>4, LoadersKeep
<1>5. CASE ScrollToEnd
  <2>1. /\ UNCHANGED <<existing, recentlyviewed, recentIdListRev, count, recentList, ids>>
        /\ UnderWay(With(loaders, Check("more"))) /\ FlagsTyped'
        /\ limit' = limit + Step /\ limit + Step <= MaxLimit
    BY <1>0, <1>5 DEF ScrollToEnd, FlagsTyped
  <2>2. /\ IsABag(With(loaders, Check("more")))
        /\ BagToSet(With(loaders, Check("more"))) = BagToSet(loaders) \cup {Check("more")}
    BY <1>0, WithFacts
  <2>3. \A r \in BagToSet(With(loaders, Check("more"))) :
           r \in BagToSet(loaders) \/ (r \in Loader /\ r.kind # "get")
    BY <2>2, CheckLoader
  <2>4. limit' \in 1 .. MaxLimit
    BY <1>0, <2>1, LimitsAssumption
  <2>5. QED  BY <2>1, <2>2, <2>3, <2>4, LoadersKeep
<1>6. CASE Send \/ SendAcked \/ SendFails
  BY <1>0, <1>1, <1>2, <1>6 DEF Send, SendAcked, SendFails, panel, FlagsTyped
<1>7. ASSUME NEW g \in Gifts, Toggle(g) \/ ViewGift(g) \/ Select(g) PROVE PanelInv'
  <2>1. CASE Toggle(g)
    BY <1>0, <1>1, <1>2, <2>1 DEF Toggle, panel, FlagsTyped
  <2>2. CASE Select(g)
    BY <1>0, <1>1, <1>2, <2>2 DEF Select, panel, FlagsTyped
  <2>3. QED  BY <1>7, <2>1, <2>2, ViewKeeps
<1>8. ASSUME NEW r \in BagToSet(loaders), Offline(r) PROVE PanelInv'
  <2> DEFINE rest == Answered(r)
             told == [r EXCEPT !.kind = "offline"]
  <2>1. IsABag(rest) /\ BagToSet(rest) \subseteq BagToSet(loaders)
    BY <1>0, AnsweredFacts
  <2>2. r \in Loader /\ r.kind = "check"
    BY <1>0, <1>8 DEF Offline
  <2>3. told \in Loader /\ told.kind # "get"
    BY <2>2 DEF Loader
  <2>4. UnderWay(IF r.by = "recent" THEN With(rest, told) ELSE rest)
    BY <1>8 DEF Offline
  <2>5. /\ UNCHANGED <<existing, recentlyviewed, recentIdListRev, count, recentList, ids>>
        /\ FlagsTyped' /\ limit' \in 1 .. MaxLimit
    BY <1>0, <1>8 DEF Offline, recents, panel, FlagsTyped
  <2> HIDE DEF rest, told
  <2>6. IsABag(With(rest, told)) /\ BagToSet(With(rest, told)) = BagToSet(rest) \cup {told}
    BY <2>1, WithFacts
  <2>7. CASE r.by = "recent"
    <3>1. UnderWay(With(rest, told))
      BY <2>4, <2>7
    <3>2. \A q \in BagToSet(With(rest, told)) :
             q \in BagToSet(loaders) \/ (q \in Loader /\ q.kind # "get")
      BY <2>1, <2>3, <2>6
    <3>3. QED  BY <2>5, <2>6, <3>1, <3>2, LoadersKeep
  <2>8. CASE r.by # "recent"
    <3>1. UnderWay(rest)
      BY <2>4, <2>8
    <3>2. \A q \in BagToSet(rest) :
             q \in BagToSet(loaders) \/ (q \in Loader /\ q.kind # "get")
      BY <2>1
    <3>3. QED  BY <2>1, <2>5, <3>1, <3>2, LoadersKeep
  <2>9. QED  BY <2>7, <2>8
<1>9. ASSUME NEW r \in BagToSet(loaders), ShowOffline(r) \/ LoadFails(r) PROVE PanelInv'
  <2>1. IsABag(Answered(r)) /\ BagToSet(Answered(r)) \subseteq BagToSet(loaders)
    BY <1>0, AnsweredFacts
  <2>2. UnderWay(Answered(r))
    BY <1>9 DEF ShowOffline, LoadFails
  <2>3. /\ UNCHANGED <<existing, recentlyviewed, recentIdListRev, count, recentList, ids>>
        /\ FlagsTyped' /\ limit' \in 1 .. MaxLimit
    BY <1>0, <1>9 DEF ShowOffline, LoadFails, recents, panel, FlagsTyped
  <2>4. \A q \in BagToSet(Answered(r)) :
           q \in BagToSet(loaders) \/ (q \in Loader /\ q.kind # "get")
    BY <2>1
  <2>5. QED  BY <2>1, <2>2, <2>3, <2>4, LoadersKeep
<1>10. ASSUME NEW r \in BagToSet(loaders), Online(r) \/ LookUp(r) PROVE PanelInv'
  BY <1>10, OnlineKeeps, FoundKeeps, MissingKeeps
<1>11. CASE UNCHANGED vars
  BY <1>0, <1>1, <1>2, <1>11 DEF vars, panel, FlagsTyped
<1>12. QED
  BY <1>3, <1>4, <1>5, <1>6, <1>7, <1>8, <1>9, <1>10, <1>11 DEF Next, GiftOnTap

LEMMA InitPanel == Init => PanelInv
<1> SUFFICES ASSUME Init PROVE PanelInv
  OBVIOUS
<1>1. recentlyviewed \in Seq(Gifts) /\ IsInjective(recentlyviewed)
  BY ViewedAssumption DEF Init
<1>2. /\ recentIdListRev \in Seq(Gifts) /\ IsInjective(recentIdListRev)
      /\ ToSet(recentIdListRev) = ToSet(recentlyviewed)
  BY <1>1, ReverseFacts DEF Init
<1>3. /\ opened \in SUBSET Gifts /\ limit \in 1 .. MaxLimit
      /\ recentList \in Seq(Gifts) /\ count = Len(recentList) /\ count = 0
  <2>1. opened \in SUBSET Gifts
    BY <1>1, LenProperties, ElementOfSeq DEF Init, ToSet
  <2>2. limit \in 1 .. MaxLimit
    BY LimitsAssumption DEF Init
  <2>3. QED  BY <2>1, <2>2, EmptySeq DEF Init
<1>4. IdsInv
  BY <1>1, <1>2, <1>3 DEF Init, IdsInv
<1>5. ForgetInv
  BY <1>2 DEF Init, ForgetInv
<1>6. DOMAIN loaders = {} /\ LoadersInv
  <2>1. loaders = [e \in {} |-> 1]
    BY DEF Init, EmptyBag, SetToBag
  <2>2. QED  BY <2>1 DEF Init, LoadersInv, IsABag, BagToSet
<1>7. Len(recentIdListRev) \in Nat
  BY <1>2, LenProperties
<1>8. CounterInv
  BY <1>3, <1>6, <1>7 DEF CounterInv, Single, BagToSet
<1>9. FlagsTyped
  BY DEF Init, FlagsTyped
<1>10. QED  BY <1>4, <1>5, <1>6, <1>8, <1>9 DEF PanelInv

\* In every state of every run the preferences have no gift twice, the counter is
\* the number of gifts found, and the messages under way were sent (the panel and
\* sendMessages).
THEOREM PanelTyped == Spec => []TypeOK
<1>1. PanelInv /\ SentInv => TypeOK
  <2> SUFFICES ASSUME PanelInv, SentInv PROVE TypeOK
    OBVIOUS
  <2>1. messages \in Seq(SUBSET Gifts) /\ DOMAIN messages = 1 .. Len(messages)
    BY LenProperties DEF SentInv
  <2>2. unacked \in Seq(DOMAIN messages)
    <3>1. unacked \in Seq(Nat) /\ ToSet(unacked) \subseteq 1 .. Len(messages)
      BY DEF SentInv
    <3>2. PICK n \in Nat : unacked \in [1 .. n -> Nat]
      BY <3>1, SeqDef
    <3>3. unacked \in [1 .. n -> 1 .. Len(messages)]
      BY <3>1, <3>2 DEF ToSet
    <3>4. unacked \in Seq(1 .. Len(messages))
      BY <3>3, SeqDef
    <3>5. QED  BY <2>1, <3>4
  <2>3. selectedMap \in SUBSET Gifts /\ tapped \in [Gifts -> Nat] /\ accepted \in Nat
    BY LenProperties DEF SentInv
  <2>4. QED
    BY <2>1, <2>2, <2>3 DEF PanelInv, IdsInv, LoadersInv, FlagsTyped, TypeOK
<1>2. Init => PanelInv
  BY InitPanel
<1>3. PanelInv /\ [Next]_vars => PanelInv'
  BY NextPanel
<1>4. QED  BY <1>1, <1>2, <1>3, SentHeld, PTL DEF Spec

\* Whatever was removed, restored and viewed while the loops ran: as long as no
\* two of them overlapped, the panel has the beginning of the ids, and the phone
\* forgot no gift but those looked up in vain, or viewed since (_getRecentList).
THEOREM Remembers == Spec => []PhoneForgets
<1>1. PanelInv => PhoneForgets
  <2> SUFFICES ASSUME PanelInv, ~ overlapped PROVE
               /\ recentList = SubSeq(recentIdListRev, 1, count)
               /\ \A g \in (opened \cup viewed) \ ToSet(recentlyviewed) :
                     \/ g \in gone
                     \/ g \notin opened /\ gone # {}
    BY DEF PhoneForgets
  <2>1. /\ recentIdListRev \in Seq(Gifts) /\ recentList \in Seq(Gifts)
        /\ count = Len(recentList) /\ count \in Nat /\ count <= Len(recentIdListRev)
        /\ \A i \in 1 .. count : recentList[i] = recentIdListRev[i]
    BY LenProperties DEF PanelInv, IdsInv, CounterInv
  <2> DEFINE t == SubSeq(recentIdListRev, 1, count)
  <2>2. t \in Seq(Gifts) /\ Len(t) = count /\ \A i \in 1 .. count : t[i] = recentIdListRev[i]
    <3>1. \A i \in 1 .. count : recentIdListRev[i] \in Gifts
      BY <2>1, LenProperties, ElementOfSeq
    <3>2. QED  BY <2>1, <3>1, SubSeqProperties
  <2> HIDE DEF t
  <2>3. recentList = t
    BY <2>1, <2>2, SeqEqual
  <2>4. QED  BY <2>3 DEF t, PanelInv, ForgetInv
<1>2. Init => PanelInv
  BY InitPanel
<1>3. PanelInv /\ [Next]_vars => PanelInv'
  BY NextPanel
<1>4. QED  BY <1>1, <1>2, <1>3, PTL DEF Spec
=============================================================================
