---------------------------- MODULE Search_proof ----------------------------
(***************************************************************************)
(* Proofs about Search, for any gifts, texts, menus and lists viewed, and  *)
(* any number of calls and timers under way.                               *)
(***************************************************************************)
EXTENDS Search, SequenceTheorems, TLAPS

(***************************************************************************)
(* Sequences                                                               *)
(***************************************************************************)
LEMMA AppendFacts ==
    ASSUME NEW S, NEW s \in Seq(S), NEW e \in S
    PROVE  /\ Append(s, e) \in Seq(S)
           /\ Len(s) \in Nat /\ Len(Append(s, e)) = Len(s) + 1
           /\ \A i \in 1 .. Len(s) : Append(s, e)[i] = s[i]
           /\ Append(s, e)[Len(s) + 1] = e
           /\ ToSet(Append(s, e)) = ToSet(s) \cup {e}
<1>1. /\ Append(s, e) \in Seq(S)
      /\ Len(s) \in Nat /\ Len(Append(s, e)) = Len(s) + 1
      /\ DOMAIN s = 1 .. Len(s) /\ DOMAIN Append(s, e) = 1 .. Len(s) + 1
      /\ \A i \in 1 .. Len(s) : Append(s, e)[i] = s[i]
      /\ Append(s, e)[Len(s) + 1] = e
  BY AppendProperties, LenProperties
<1>2. ToSet(Append(s, e)) = ToSet(s) \cup {e}
  <2>1. ASSUME NEW i \in DOMAIN Append(s, e)
        PROVE  Append(s, e)[i] \in ToSet(s) \cup {e}
    <3>1. CASE i \in 1 .. Len(s)
      BY <1>1, <3>1 DEF ToSet
    <3>2. CASE i = Len(s) + 1
      BY <1>1, <3>2
    <3>3. QED  BY <1>1, <3>1, <3>2
  <2>2. ASSUME NEW i \in DOMAIN s
        PROVE  s[i] \in ToSet(Append(s, e))
    <3>1. i \in DOMAIN Append(s, e) /\ Append(s, e)[i] = s[i]
      BY <1>1
    <3>2. QED  BY <3>1 DEF ToSet
  <2>3. e \in ToSet(Append(s, e))
    BY <1>1 DEF ToSet
  <2>4. QED  BY <2>1, <2>2, <2>3 DEF ToSet
<1>3. QED  BY <1>1, <1>2

\* One element is taken out: what follows it moves up by one place.
LEMMA RemoveAtPlaces ==
    ASSUME NEW S, NEW s \in Seq(S), NEW i \in DOMAIN s
    PROVE  /\ RemoveAt(s, i) \in Seq(S)
           /\ Len(s) \in Nat \ {0} /\ Len(RemoveAt(s, i)) = Len(s) - 1
           /\ \A j \in 1 .. Len(s) - 1 :
                 RemoveAt(s, i)[j] = IF j < i THEN s[j] ELSE s[j + 1]
<1> DEFINE left  == SubSeq(s, 1, i - 1)
           right == SubSeq(s, i + 1, Len(s))
           t     == RemoveAt(s, i)
<1>1. Len(s) \in Nat /\ DOMAIN s = 1 .. Len(s) /\ i \in 1 .. Len(s)
  BY LenProperties
<1>2. left \in Seq(S) /\ Len(left) = i - 1 /\ \A j \in 1 .. i - 1 : left[j] = s[j]
  <2>1. CASE i = 1
    BY <1>1, <2>1, SubSeqProperties, EmptySeq
  <2>2. CASE i # 1
    BY <1>1, <2>2, SubSeqProperties
  <2>3. QED  BY <2>1, <2>2
<1>3. /\ right \in Seq(S) /\ Len(right) = Len(s) - i
      /\ \A j \in 1 .. Len(s) - i : right[j] = s[i + j]
  <2>1. CASE i = Len(s)
    BY <1>1, <2>1, SubSeqProperties, EmptySeq
  <2>2. CASE i # Len(s)
    BY <1>1, <2>2, SubSeqProperties, SMTT(40)
  <2>3. QED  BY <2>1, <2>2
<1>4. t = left \o right
  BY DEF RemoveAt
<1>5. /\ t \in Seq(S) /\ Len(t) = Len(left) + Len(right)
      /\ \A j \in 1 .. Len(left) + Len(right) :
            t[j] = IF j <= Len(left) THEN left[j] ELSE right[j - Len(left)]
  <2> HIDE DEF left, right, t
  <2> QED  BY <1>2, <1>3, <1>4, ConcatProperties, SMTT(40)
<1>6. ASSUME NEW j \in 1 .. Len(s) - 1
      PROVE  t[j] = IF j < i THEN s[j] ELSE s[j + 1]
  <2> HIDE DEF left, right, t
  <2>1. CASE j < i
    BY <1>1, <1>2, <1>3, <1>5, <2>1, SMTT(40)
  <2>2. CASE ~ (j < i)
    <3>1. t[j] = right[j - (i - 1)] /\ j - (i - 1) \in 1 .. Len(s) - i
      BY <1>1, <1>2, <1>3, <1>5, <2>2, SMTT(40)
    <3>2. QED  BY <1>1, <1>3, <2>2, <3>1, SMTT(40)
  <2>3. QED  BY <2>1, <2>2
<1> HIDE DEF left, right, t
<1>7. Len(t) = Len(s) - 1
  BY <1>1, <1>2, <1>3, <1>5, SMTT(40)
<1>8. \A j \in 1 .. Len(s) - 1 : t[j] = IF j < i THEN s[j] ELSE s[j + 1]
  BY <1>6
<1>9. t \in Seq(S) /\ Len(s) \in Nat \ {0}
  BY <1>1, <1>5
<1>10. QED  BY <1>7, <1>8, <1>9 DEF t

\* A list without repetitions loses the element at a place and keeps the others.
LEMMA RemoveAtFacts ==
    ASSUME NEW S, NEW s \in Seq(S), IsInjective(s), NEW i \in DOMAIN s
    PROVE  /\ RemoveAt(s, i) \in Seq(S) /\ IsInjective(RemoveAt(s, i))
           /\ ToSet(RemoveAt(s, i)) = ToSet(s) \ {s[i]}
<1> DEFINE t == RemoveAt(s, i)
<1>0. Len(s) \in Nat /\ DOMAIN s = 1 .. Len(s) /\ i \in 1 .. Len(s)
  BY LenProperties
<1>1. /\ t \in Seq(S) /\ Len(t) = Len(s) - 1
      /\ \A j \in 1 .. Len(s) - 1 : t[j] = IF j < i THEN s[j] ELSE s[j + 1]
  BY RemoveAtPlaces
<1> HIDE DEF t
<1>2. DOMAIN t = 1 .. Len(s) - 1
  BY <1>0, <1>1, LenProperties
<1>3. IsInjective(t)
  <2> SUFFICES ASSUME NEW a \in DOMAIN t, NEW b \in DOMAIN t, a # b
               PROVE  t[a] # t[b]
    BY DEF IsInjective
  <2>1. t[a] = s[IF a < i THEN a ELSE a + 1] /\ t[b] = s[IF b < i THEN b ELSE b + 1]
    BY <1>1, <1>2
  <2>2. QED  BY <1>0, <1>2, <2>1 DEF IsInjective
<1>4. ASSUME NEW j \in DOMAIN t PROVE t[j] \in ToSet(s) \ {s[i]}
  <2>1. CASE j < i
    <3>1. t[j] = s[j] /\ j \in DOMAIN s /\ j # i
      BY <1>0, <1>1, <1>2, <1>4, <2>1
    <3>2. QED  BY <3>1 DEF ToSet, IsInjective
  <2>2. CASE ~ (j < i)
    <3>1. t[j] = s[j + 1] /\ j + 1 \in DOMAIN s /\ j + 1 # i
      BY <1>0, <1>1, <1>2, <1>4, <2>2
    <3>2. QED  BY <3>1 DEF ToSet, IsInjective
  <2>3. QED  BY <2>1, <2>2
<1>5. ASSUME NEW k \in DOMAIN s, k # i PROVE s[k] \in ToSet(t)
  <2>1. CASE k < i
    <3>1. k \in DOMAIN t /\ t[k] = s[k]
      BY <1>0, <1>1, <1>2, <2>1
    <3>2. QED  BY <3>1 DEF ToSet
  <2>2. CASE k > i
    <3>1. k - 1 \in DOMAIN t /\ t[k - 1] = s[k]
      BY <1>0, <1>1, <1>2, <2>2
    <3>2. QED  BY <3>1 DEF ToSet
  <2>3. QED  BY <1>0, <1>5, <2>1, <2>2
<1>6. ToSet(t) = ToSet(s) \ {s[i]}
  BY <1>4, <1>5 DEF ToSet
<1>7. QED  BY <1>1, <1>3, <1>6 DEF t

LEMMA RemoveFirstFacts ==
    ASSUME NEW S, NEW s \in Seq(S), IsInjective(s), NEW e \in ToSet(s)
    PROVE  /\ RemoveFirst(s, e) \in Seq(S) /\ IsInjective(RemoveFirst(s, e))
           /\ ToSet(RemoveFirst(s, e)) = ToSet(s) \ {e}
<1>0. Len(s) \in Nat /\ DOMAIN s = 1 .. Len(s)
  BY LenProperties
<1> DEFINE I == {k \in 1 .. Len(s) : s[k] = e}
           n == Min(I)
<1>1. PICK i \in 1 .. Len(s) : s[i] = e
  BY <1>0 DEF ToSet
<1>2. I = {i}
  BY <1>0, <1>1 DEF IsInjective
<1>3. n = i
  <2> HIDE DEF I
  <2> QED  BY <1>0, <1>2 DEF Min
<1>4. RemoveFirst(s, e) = RemoveAt(s, i)
  <2>1. RemoveFirst(s, e) = RemoveAt(s, SelectInSeq(s, LAMBDA v : v = e))
    BY <1>1 DEF RemoveFirst
  <2>2. SelectInSeq(s, LAMBDA v : v = e) = n
    BY <1>1 DEF SelectInSeq
  <2>3. QED  BY <1>3, <2>1, <2>2
<1>5. QED  BY <1>0, <1>1, <1>4, RemoveAtFacts

LEMMA AppendedFacts ==
    ASSUME NEW S, NEW s \in Seq(S), NEW e \in S
    PROVE  /\ Append(s, e) \in Seq(S) /\ ToSet(Append(s, e)) = ToSet(s) \cup {e}
           /\ IsInjective(s) /\ e \notin ToSet(s) => IsInjective(Append(s, e))
<1> DEFINE t == Append(s, e)
<1>1. /\ t \in Seq(S) /\ Len(s) \in Nat /\ Len(t) = Len(s) + 1
      /\ DOMAIN s = 1 .. Len(s) /\ DOMAIN t = 1 .. Len(s) + 1
      /\ \A i \in 1 .. Len(s) : t[i] = s[i]
      /\ t[Len(s) + 1] = e
  BY AppendProperties, LenProperties
<1> HIDE DEF t
<1>2. ToSet(t) = ToSet(s) \cup {e}
  BY <1>1 DEF ToSet
<1>3. IsInjective(s) /\ e \notin ToSet(s) => IsInjective(t)
  BY <1>1 DEF ToSet, IsInjective
<1>4. QED  BY <1>1, <1>2, <1>3 DEF t

\* A gift viewed now is the last of the list, once.
LEMMA ViewedFacts ==
    ASSUME NEW S, NEW s \in Seq(S), IsInjective(s), NEW e \in S
    PROVE  /\ Append(RemoveFirst(s, e), e) \in Seq(S)
           /\ IsInjective(Append(RemoveFirst(s, e), e))
           /\ ToSet(Append(RemoveFirst(s, e), e)) = ToSet(s) \cup {e}
<1> DEFINE rest == RemoveFirst(s, e)
<1>1. /\ rest \in Seq(S) /\ IsInjective(rest)
      /\ ToSet(rest) = ToSet(s) \ {e}
  <2>1. CASE e \in ToSet(s)
    BY <2>1, RemoveFirstFacts
  <2>2. CASE e \notin ToSet(s)
    <3>1. rest = s
      BY <2>2, LenProperties DEF RemoveFirst, ToSet
    <3>2. QED  BY <2>2, <3>1
  <2>3. QED  BY <2>1, <2>2
<1> HIDE DEF rest
<1>2. QED  BY <1>1, AppendedFacts DEF rest

LEMMA ReverseFacts ==
    ASSUME NEW S, NEW s \in Seq(S)
    PROVE  /\ Reverse(s) \in Seq(S) /\ DOMAIN Reverse(s) = DOMAIN s
           /\ ToSet(Reverse(s)) = ToSet(s)
           /\ IsInjective(s) => IsInjective(Reverse(s))
           /\ Len(Reverse(s)) = Len(s)
<1> DEFINE t == Reverse(s)
<1>1. Len(s) \in Nat /\ DOMAIN s = 1 .. Len(s)
  BY LenProperties
<1>2. t = [i \in 1 .. Len(s) |-> s[(Len(s) - i) + 1]]
  BY DEF Reverse
<1>3. \A i \in 1 .. Len(s) : (Len(s) - i) + 1 \in 1 .. Len(s) /\ s[(Len(s) - i) + 1] \in S
  BY <1>1, ElementOfSeq
<1>4. t \in [1 .. Len(s) -> S] /\ DOMAIN t = 1 .. Len(s)
  BY <1>2, <1>3
<1> HIDE DEF t
<1>5. t \in Seq(S) /\ Len(t) = Len(s)
  BY <1>1, <1>4, SeqDef, LenProperties
<1>6. ToSet(t) = ToSet(s)
  <2>1. \A i \in DOMAIN t : t[i] \in ToSet(s)
    BY <1>1, <1>2, <1>3, <1>4 DEF ToSet
  <2>2. ASSUME NEW k \in DOMAIN s PROVE s[k] \in ToSet(t)
    <3>1. (Len(s) - k) + 1 \in DOMAIN t /\ (Len(s) - ((Len(s) - k) + 1)) + 1 = k
      BY <1>1, <1>4
    <3>2. t[(Len(s) - k) + 1] = s[k]
      BY <1>2, <1>4, <3>1
    <3>3. QED  BY <3>1, <3>2 DEF ToSet
  <2>3. QED  BY <2>1, <2>2 DEF ToSet
<1>7. IsInjective(s) => IsInjective(t)
  BY <1>1, <1>2, <1>3, <1>4 DEF IsInjective
<1>8. QED  BY <1>1, <1>4, <1>5, <1>6, <1>7 DEF t

-----------------------------------------------------------------------------
(***************************************************************************)
(* Bags of calls and of results                                            *)
(***************************************************************************)
\* One call more
LEMMA WithFacts ==
    ASSUME NEW bag, IsABag(bag), NEW r
    PROVE  /\ IsABag(With(bag, r)) /\ BagToSet(With(bag, r)) = BagToSet(bag) \cup {r}
           /\ With(bag, r) # EmptyBag
           /\ bag = EmptyBag => With(bag, r) = SetToBag({r})
<1> DEFINE new == With(bag, r)
<1>1. /\ DOMAIN new = DOMAIN bag \cup {r}
      /\ \A e \in DOMAIN new : new[e] = (IF e \in DOMAIN bag THEN bag[e] ELSE 0)
                                        + (IF e \in {r} THEN 1 ELSE 0)
      /\ new = [e \in DOMAIN new |-> new[e]]
  BY DEF With, SetToBag, (+)
<1>2. \A e \in DOMAIN bag : bag[e] \in Nat /\ bag[e] > 0
  BY DEF IsABag
<1>3. DOMAIN EmptyBag = {}
  BY DEF EmptyBag, SetToBag
<1> HIDE DEF new
<1>4. ASSUME NEW e \in DOMAIN new PROVE new[e] \in {n \in Nat : n > 0}
  BY <1>1, <1>2
<1>5. new # EmptyBag
  BY <1>1, <1>3
<1>6. ASSUME bag = EmptyBag PROVE new = SetToBag({r})
  <2>1. DOMAIN new = {r} /\ new[r] = 1
    BY <1>1, <1>3, <1>6
  <2>2. QED  BY <1>1, <2>1 DEF SetToBag
<1>7. QED  BY <1>1, <1>4, <1>5, <1>6 DEF IsABag, BagToSet, new

\* One call less; when it is one of its kind, and the only one, none of them
LEMMA AnsweredFacts ==
    ASSUME IsABag(requests), NEW r
    PROVE  /\ IsABag(Answered(r)) /\ BagToSet(Answered(r)) \subseteq BagToSet(requests)
           /\ requests = SetToBag({r}) => Answered(r) = EmptyBag
           /\ r \in BagToSet(requests) /\ requests[r] <= 1 =>
                 r \notin BagToSet(Answered(r))
<1> DEFINE new  == Answered(r)
           left == [e \in DOMAIN requests |-> IF e \in {r} THEN requests[e] - 1
                                              ELSE requests[e]]
<1>1. new = [e \in {d \in DOMAIN left : left[d] > 0} |-> left[e]]
  BY DEF Answered, SetToBag, (-)
<1>2. \A e \in DOMAIN requests : requests[e] \in Nat /\ requests[e] > 0
  BY DEF IsABag
<1>3. \A e \in DOMAIN requests : left[e] \in Int
  BY <1>2
<1> HIDE DEF new
<1>4. /\ DOMAIN new \subseteq DOMAIN requests
      /\ \A e \in DOMAIN new : new[e] \in Nat /\ new[e] > 0
      /\ new = [e \in DOMAIN new |-> new[e]]
  BY <1>1, <1>3
<1>5. requests = SetToBag({r}) => new = EmptyBag
  <2>1. requests = SetToBag({r}) => DOMAIN new = {}
    BY <1>1 DEF SetToBag
  <2>2. QED  BY <1>4, <2>1 DEF EmptyBag, SetToBag
<1>6. ASSUME r \in BagToSet(requests), requests[r] <= 1
      PROVE  r \notin DOMAIN new
  <2>1. r \in DOMAIN requests /\ requests[r] <= 1
    BY <1>6 DEF BagToSet
  <2>2. left[r] <= 0
    BY <1>2, <2>1
  <2>3. QED  BY <1>1, <1>3, <2>1, <2>2
<1>7. QED  BY <1>4, <1>5, <1>6 DEF IsABag, BagToSet, new

LEMMA EmptyBagFacts == IsABag(EmptyBag) /\ BagToSet(EmptyBag) = {}
BY DEF EmptyBag, SetToBag, IsABag, BagToSet

\* What is found is added to the results; alone it is there once.
LEMMA AddedFacts ==
    ASSUME NEW bag, IsABag(bag), NEW S
    PROVE  /\ IsABag(bag (+) SetToBag(S))
           /\ BagToSet(bag (+) SetToBag(S)) = BagToSet(bag) \cup S
           /\ bag = EmptyBag => \A g \in S : (bag (+) SetToBag(S))[g] = 1
<1> DEFINE new == bag (+) SetToBag(S)
<1>1. /\ DOMAIN new = DOMAIN bag \cup S
      /\ \A e \in DOMAIN new : new[e] = (IF e \in DOMAIN bag THEN bag[e] ELSE 0)
                                        + (IF e \in S THEN 1 ELSE 0)
      /\ new = [e \in DOMAIN new |-> new[e]]
  BY DEF SetToBag, (+)
<1>2. \A e \in DOMAIN bag : bag[e] \in Nat /\ bag[e] > 0
  BY DEF IsABag
<1> HIDE DEF new
<1>3. ASSUME NEW e \in DOMAIN new PROVE new[e] \in {n \in Nat : n > 0}
  BY <1>1, <1>2
<1>4. ASSUME bag = EmptyBag, NEW g \in S PROVE new[g] = 1
  <2>1. DOMAIN bag = {}
    BY <1>4, EmptyBagFacts DEF BagToSet
  <2>2. QED  BY <1>1, <1>4, <2>1
<1>5. QED  BY <1>1, <1>3, <1>4 DEF IsABag, BagToSet, new

-----------------------------------------------------------------------------
(***************************************************************************)
(* Types                                                                   *)
(***************************************************************************)
IdsTyped ==
    /\ shown \in SUBSET Gifts /\ opened \in SUBSET Gifts /\ gone \in SUBSET Gifts
    /\ recentlyviewed \in Seq(Gifts) /\ IsInjective(recentlyviewed)
    /\ recentIdListRev \in Seq(Gifts) /\ IsInjective(recentIdListRev)
    /\ recentList \in Seq(Gifts) /\ count = Len(recentList)
    /\ limit \in 1 .. MaxLimit

TextsTyped ==
    /\ searchValue \in Texts \cup {NoText} /\ searchText \in Texts \cup {NoText}
    /\ searchText = NoText \/ ~ Blank(searchText)
    /\ menuIcon \in Menus /\ retried \in BOOLEAN

\* A look-up is of a gift, and a query has a text and an icon to look under.
Sound(r) ==
    /\ r \in Request
    /\ r.kind \in {"load", "more"} => r.gift \in Gifts
    /\ r.kind = "query" => r.text \in Terms /\ r.menu \in Menus

CallsTyped ==
    /\ IsABag(requests) /\ \A r \in BagToSet(requests) : Sound(r)
    /\ sorts \in Nat

ResultsTyped ==
    /\ IsABag(searchList) /\ IsABag(sortedList)
    /\ BagToSet(searchList) \subseteq Gifts /\ BagToSet(sortedList) \subseteq Gifts

FlagsTyped ==
    /\ typing \in BOOLEAN /\ sameList \in BOOLEAN /\ filterOpened \in BOOLEAN
    /\ showLoading \in BOOLEAN /\ internetError \in BOOLEAN
    /\ noPrevGifts \in BOOLEAN /\ noMatches \in BOOLEAN /\ showMore \in BOOLEAN
    /\ overlapped \in BOOLEAN /\ crossed \in BOOLEAN /\ failed \in BOOLEAN

TypesInv == IdsTyped /\ TextsTyped /\ CallsTyped /\ ResultsTyped /\ FlagsTyped

LEMMA TypesEnough == TypesInv => TypeOK
BY LenProperties DEF TypesInv, IdsTyped, TextsTyped, CallsTyped, ResultsTyped,
   FlagsTyped, Sound, TypeOK

-----------------------------------------------------------------------------
(***************************************************************************)
(* The gifts viewed recently                                               *)
(***************************************************************************)
\* A single loop looks up the id the counter is at, and what it has found are
\* the ids before.
CounterInv ==
    /\ ~ Overlap(requests)
    /\ \A r \in Loops(requests) :
          count < Len(recentIdListRev) /\ r.gift = recentIdListRev[count + 1]
    /\ count <= Len(recentIdListRev)
    /\ \A i \in 1 .. count : recentList[i] = recentIdListRev[i]
    /\ ~ showMore => count = Len(recentIdListRev)

\* What the page was opened with is still in its ids and in the preferences,
\* but for what was looked up in vain.
OpenedInv ==
    /\ opened \subseteq ToSet(recentIdListRev) \cup gone
    /\ opened \subseteq ToSet(recentlyviewed) \cup gone

KeptInv == ~ overlapped => CounterInv /\ OpenedInv

-----------------------------------------------------------------------------
(***************************************************************************)
(* The results                                                             *)
(***************************************************************************)
\* Somebody is there to end the animation.
LoadingInv == showLoading /\ ~ failed => typing \/ requests # EmptyBag \/ sorts # 0

\* The list a timer waits with is the other one's only when no timer does.
ListsInv ==
    /\ sorts = 0 => sameList \/ sortedList = EmptyBag
    /\ sameList => sortedList = searchList
    /\ Gifts \ Fickle \subseteq shown

\* Where the results are while a filter has its timer
Held == IF sorts = 0 THEN searchList ELSE sortedList

\* Each call of a search that met no other is one for its term and its icon.
OwnCalls ==
    /\ Alone(requests, sorts)
    /\ \A r \in BagToSet(requests) :
          /\ r.kind \in {"retry", "check", "query"}
          /\ r.kind = "check" => r.text = Asked
          /\ r.kind = "query" => r.text = Asked /\ r.menu = menuIcon

\* Before its answer there are no results, and after it those of the answer.
OwnResults ==
    /\ ~ noPrevGifts
    /\ requests # EmptyBag \/ internetError => Held = EmptyBag /\ ~ noMatches
    /\ requests = EmptyBag /\ ~ internetError /\ ~ failed =>
          /\ \A g \in BagToSet(Held) : Held[g] = 1
          /\ \A g \in Gifts \ Fickle :
                g \in BagToSet(Held) <=> g \in Matches[menuIcon][Asked]
          /\ noMatches <=> Held = EmptyBag

SearchInv == searchText # NoText /\ ~ crossed => OwnCalls /\ OwnResults

-----------------------------------------------------------------------------
(***************************************************************************)
(* The types are kept                                                      *)
(***************************************************************************)
LEMMA InitTypes == Init => TypesInv
<1> SUFFICES ASSUME Init PROVE TypesInv
  OBVIOUS
<1>1. recentlyviewed \in Seq(Gifts) /\ IsInjective(recentlyviewed)
  BY ViewedAssumption DEF Init
<1>2. recentIdListRev \in Seq(Gifts) /\ IsInjective(recentIdListRev)
  BY <1>1, ReverseFacts DEF Init
<1>3. opened \in SUBSET Gifts
  BY <1>1, LenProperties, ElementOfSeq DEF Init, ToSet
<1>4. limit \in 1 .. MaxLimit
  BY LimitsAssumption DEF Init
<1>5. recentList \in Seq(Gifts) /\ count = Len(recentList)
  BY EmptySeq DEF Init
<1>6. shown \in SUBSET Gifts /\ gone \in SUBSET Gifts
  BY DEF Init
<1>7. IdsTyped
  BY <1>1, <1>2, <1>3, <1>4, <1>5, <1>6 DEF IdsTyped
<1>8. IsABag(requests) /\ BagToSet(requests) = {Check(NoText)} /\ sorts \in Nat
  <2>1. requests = [e \in {Check(NoText)} |-> 1] /\ sorts = 0
    BY DEF Init, SetToBag
  <2>2. QED  BY <2>1 DEF IsABag, BagToSet
<1>9. Sound(Check(NoText))
  BY DEF Check, Call, Sound, Request
<1>10. TextsTyped /\ FlagsTyped
  BY DEF Init, TextsTyped, FlagsTyped
<1>11. ResultsTyped
  BY EmptyBagFacts DEF Init, ResultsTyped
<1>12. QED  BY <1>7, <1>8, <1>9, <1>10, <1>11 DEF TypesInv, CallsTyped

LEMMA CheckSound == \A text \in Terms \cup {NoText} : Sound(Check(text))
BY DEF Check, Call, Sound, Request

LEMMA AwaitTyped ==
    ASSUME NEW bag, NEW timers \in Nat, Awaiting(bag, timers), IsABag(bag),
           \A r \in BagToSet(bag) : Sound(r), overlapped \in BOOLEAN, crossed \in BOOLEAN
    PROVE  CallsTyped' /\ overlapped' \in BOOLEAN /\ crossed' \in BOOLEAN
<1>1. requests' = bag /\ sorts' = timers
  BY DEF Awaiting, UnderWay
<1>2. overlapped' \in BOOLEAN
  BY DEF Awaiting, UnderWay
<1>3. crossed' \in BOOLEAN
  BY DEF Awaiting
<1>4. QED  BY <1>1, <1>2, <1>3 DEF CallsTyped

\* What a loop looks up next is one of the ids.
LEMMA NextIsGift ==
    ASSUME NEW s \in Seq(Gifts), NEW n \in Nat, n < Len(s)
    PROVE  s[n + 1] \in Gifts
<1>1. n + 1 \in 1 .. Len(s)
  BY LenProperties
<1>2. QED  BY <1>1, ElementOfSeq

LEMMA WithSound ==
    ASSUME CallsTyped, NEW bag, IsABag(bag), BagToSet(bag) \subseteq BagToSet(requests),
           NEW r, Sound(r)
    PROVE  IsABag(With(bag, r)) /\ \A q \in BagToSet(With(bag, r)) : Sound(q)
<1>1. IsABag(With(bag, r)) /\ BagToSet(With(bag, r)) = BagToSet(bag) \cup {r}
  BY WithFacts
<1>2. ASSUME NEW q \in BagToSet(bag) \cup {r} PROVE Sound(q)
  BY <1>2 DEF CallsTyped
<1>3. QED  BY <1>1, <1>2

LEMMA LoopTyped ==
    ASSUME CallsTyped, FlagsTyped, IdsTyped', NEW kind \in {"load", "more"},
           NEW others, IsABag(others), BagToSet(others) \subseteq BagToSet(requests),
           LoopOn(kind, others),
           UNCHANGED <<typing, sameList, filterOpened, failed>>
    PROVE  CallsTyped' /\ FlagsTyped'
<1> DEFINE next == Call(kind, NoText, None, recentIdListRev'[count' + 1])
<1>1. CASE count' < Len(recentIdListRev') /\ count' < limit'
  <2>1. Awaiting(With(others, next), sorts) /\ UNCHANGED <<showLoading, messages>>
    BY <1>1 DEF LoopOn
  <2>2. recentIdListRev'[count' + 1] \in Gifts
    <3>1. count' \in Nat /\ recentIdListRev' \in Seq(Gifts)
      BY LenProperties DEF IdsTyped
    <3>2. QED  BY <1>1, <3>1, NextIsGift
  <2>3. Sound(next)
    BY <2>2 DEF Call, Sound, Request
  <2> HIDE DEF next
  <2>4. IsABag(With(others, next)) /\ \A r \in BagToSet(With(others, next)) : Sound(r)
    BY <2>3, WithSound
  <2>5. CallsTyped' /\ overlapped' \in BOOLEAN /\ crossed' \in BOOLEAN
    BY <2>1, <2>4, AwaitTyped DEF CallsTyped, FlagsTyped
  <2>6. QED  BY <2>1, <2>5 DEF FlagsTyped, messages
<1>2. CASE ~ (count' < Len(recentIdListRev') /\ count' < limit')
  <2>1. Awaiting(others, sorts) /\ IF kind = "load" THEN EndLoad ELSE EndMore
    BY <1>2 DEF LoopOn
  <2>2. CallsTyped' /\ overlapped' \in BOOLEAN /\ crossed' \in BOOLEAN
    BY <2>1, AwaitTyped DEF CallsTyped, FlagsTyped
  <2>3. CASE EndLoad
    <3>1. showMore' \in BOOLEAN /\ noPrevGifts' \in BOOLEAN
      BY <2>3 DEF EndLoad
    <3>2. internetError' = FALSE /\ showLoading' = FALSE /\ noMatches' = noMatches
      BY <2>3 DEF EndLoad
    <3>3. QED  BY <2>2, <3>1, <3>2 DEF FlagsTyped
  <2>4. CASE EndMore
    <3>1. showMore' \in BOOLEAN
      BY <2>4 DEF EndMore
    <3>2. showLoading' = FALSE /\ UNCHANGED <<internetError, noPrevGifts, noMatches>>
      BY <2>4 DEF EndMore
    <3>3. QED  BY <2>2, <3>1, <3>2 DEF FlagsTyped
  <2>5. QED  BY <2>1, <2>3, <2>4
<1>3. QED  BY <1>1, <1>2

\* A new search, with a text and under an icon of its own
LEMMA SearchTyped ==
    ASSUME CallsTyped, ResultsTyped, FlagsTyped, NEW value \in Texts,
           SearchFor(value), typing' \in BOOLEAN
    PROVE  CallsTyped' /\ ResultsTyped' /\ FlagsTyped'
<1> DEFINE check == Check(Trim[value])
<1>0. Sound(check)
  BY CheckSound, TermsAssumption
<1>1. IsABag(With(requests, check))
      /\ \A r \in BagToSet(With(requests, check)) : Sound(r)
  BY <1>0, WithSound DEF CallsTyped
<1>2. /\ requests' = With(requests, check) /\ sorts' = sorts
      /\ overlapped' \in BOOLEAN
  BY DEF SearchFor, UnderWay
<1>3. CallsTyped'
  BY <1>1, <1>2 DEF CallsTyped
<1>4. ResultsTyped'
  BY EmptyBagFacts DEF SearchFor, ResultsTyped
<1>5. crossed' \in BOOLEAN
  BY DEF SearchFor
<1>6. /\ noPrevGifts' = FALSE /\ internetError' = FALSE /\ noMatches' = FALSE
      /\ failed' = FALSE /\ UNCHANGED <<sameList, filterOpened, showLoading, showMore>>
  BY DEF SearchFor
<1>7. QED  BY <1>2, <1>3, <1>4, <1>5, <1>6 DEF FlagsTyped

LEMMA UserTypes ==
    ASSUME TypesInv,
           \/ StopTyping \/ Retry \/ ToggleFilter \/ Filter \/ Sorted \/ ScrollToEnd
           \/ \E g \in Gifts : Toggle(g) \/ ViewGift(g)
           \/ \E value \in Texts \cup {NoText} : Type(value)
           \/ \E menu \in Menus : ChangeIcon(menu)
    PROVE  TypesInv'
<1>0. IdsTyped /\ TextsTyped /\ CallsTyped /\ ResultsTyped /\ FlagsTyped
  BY DEF TypesInv
<1>a. ASSUME UNCHANGED <<shown, recentlyviewed, recents, opened, gone>> PROVE IdsTyped'
  BY <1>0, <1>a DEF IdsTyped, recents
<1>b. ASSUME UNCHANGED <<searchValue, searchText, menuIcon, retried>> PROVE TextsTyped'
  BY <1>0, <1>b DEF TextsTyped, Blank
<1>c. ASSUME UNCHANGED <<requests, sorts>> PROVE CallsTyped'
  BY <1>0, <1>c DEF CallsTyped
<1>d. ASSUME UNCHANGED <<searchList, sortedList>> PROVE ResultsTyped'
  BY <1>0, <1>d DEF ResultsTyped
<1>1. CASE StopTyping
  <2>1. UNCHANGED <<shown, recentlyviewed, recents, searchValue, menuIcon, opened, gone>>
        /\ typing' = FALSE
    BY <1>1 DEF StopTyping
  <2>2. IdsTyped'
    BY <1>a, <2>1
  <2>3. CASE SearchNothing
    <3>1. /\ searchText' = NoText /\ noMatches' = FALSE /\ showLoading' = FALSE
          /\ retried' = FALSE
          /\ UNCHANGED <<results, calls, internetError, showMore, failed>>
          /\ noPrevGifts' \in BOOLEAN
      BY <2>3 DEF SearchNothing
    <3>2. CallsTyped' /\ ResultsTyped'
      BY <1>c, <1>d, <3>1 DEF calls, results
    <3>3. TextsTyped' /\ FlagsTyped'
      BY <1>0, <2>1, <3>1 DEF TextsTyped, FlagsTyped, results, calls
    <3>4. QED  BY <2>2, <3>2, <3>3 DEF TypesInv
  <2>4. CASE SearchFor(searchValue) /\ ~ Blank(searchValue)
    <3>1. TextsTyped'
      BY <1>0, <2>1, <2>4 DEF TextsTyped, SearchFor, Blank
    <3>2. searchValue \in Texts
      BY <1>0, <2>4 DEF TextsTyped, Blank
    <3>3. CallsTyped' /\ ResultsTyped' /\ FlagsTyped'
      BY <1>0, <2>1, <2>4, <3>2, SearchTyped
    <3>4. QED  BY <2>2, <3>1, <3>3 DEF TypesInv
  <2>5. QED  BY <1>1, <2>3, <2>4 DEF StopTyping
<1>2. CASE Retry
  <2> DEFINE r == Call("retry", NoText, None, None)
  <2>1. Sound(r)
    BY DEF Call, Sound, Request
  <2>2. /\ UNCHANGED <<shown, recentlyviewed, recents, typed, searchText, menuIcon, results,
                       showLoading, messages, failed, retried, opened, gone>>
        /\ Awaiting(With(requests, r), sorts)
    BY <1>2 DEF Retry
  <2> HIDE DEF r
  <2>3. IsABag(With(requests, r)) /\ \A q \in BagToSet(With(requests, r)) : Sound(q)
    BY <1>0, <2>1, WithSound DEF CallsTyped
  <2>4. CallsTyped' /\ overlapped' \in BOOLEAN /\ crossed' \in BOOLEAN
    BY <1>0, <2>2, <2>3, AwaitTyped DEF CallsTyped, FlagsTyped
  <2>5. IdsTyped' /\ TextsTyped' /\ ResultsTyped'
    BY <1>a, <1>b, <1>d, <2>2 DEF typed, results
  <2>6. FlagsTyped'
    BY <1>0, <2>2, <2>4 DEF FlagsTyped, typed, results, messages
  <2>7. QED  BY <2>4, <2>5, <2>6 DEF TypesInv
<1>3. CASE ToggleFilter
  <2>1. IdsTyped' /\ TextsTyped' /\ ResultsTyped' /\ CallsTyped'
    BY <1>3, <1>a, <1>b, <1>c, <1>d DEF ToggleFilter, typed, calls
  <2>2. FlagsTyped'
    BY <1>0, <1>3 DEF ToggleFilter, FlagsTyped, typed, calls, messages
  <2>3. QED  BY <2>1, <2>2 DEF TypesInv
<1>4. CASE Filter
  <2>1. IdsTyped' /\ TextsTyped'
    BY <1>4, <1>a, <1>b DEF Filter, typed
  <2>2. CallsTyped' /\ overlapped' \in BOOLEAN /\ crossed' \in BOOLEAN
    BY <1>0, <1>4, AwaitTyped DEF Filter, CallsTyped, FlagsTyped
  <2>3. ResultsTyped'
    BY <1>0, <1>4, EmptyBagFacts DEF Filter, ResultsTyped
  <2>4. FlagsTyped'
    BY <1>0, <1>4, <2>2 DEF Filter, FlagsTyped, typed, messages
  <2>5. QED  BY <2>1, <2>2, <2>3, <2>4 DEF TypesInv
<1>5. CASE Sorted
  <2>1. IdsTyped' /\ TextsTyped'
    BY <1>5, <1>a, <1>b DEF Sorted, typed
  <2>2. CallsTyped' /\ overlapped' \in BOOLEAN /\ crossed' \in BOOLEAN
    <3>1. sorts - 1 \in Nat
      BY <1>0, <1>5 DEF Sorted, CallsTyped
    <3>2. QED  BY <1>0, <1>5, <3>1, AwaitTyped DEF Sorted, CallsTyped, FlagsTyped
  <2>3. ResultsTyped'
    BY <1>0, <1>5 DEF Sorted, ResultsTyped
  <2>4. FlagsTyped'
    BY <1>0, <1>5, <2>2 DEF Sorted, FlagsTyped, typed, messages
  <2>5. QED  BY <2>1, <2>2, <2>3, <2>4 DEF TypesInv
<1>6. CASE ScrollToEnd
  <2>1. UNCHANGED <<shown, recentlyviewed, typed, searchText, menuIcon, results,
                    failed, retried, opened, gone>>
    BY <1>6 DEF ScrollToEnd
  <2>2. TextsTyped' /\ ResultsTyped'
    BY <1>b, <1>d, <2>1 DEF typed, results
  <2>3. CASE Len(recentIdListRev) >= count
    <3>1. /\ limit + Step <= MaxLimit /\ limit' = limit + Step
          /\ UNCHANGED <<recentIdListRev, count, recentList>>
      BY <1>6, <2>3 DEF ScrollToEnd
    <3>2. IdsTyped'
      BY <1>0, <2>1, <3>1, LimitsAssumption DEF IdsTyped
    <3>3. CASE LoopOn("more", requests)
      <4>1. CallsTyped' /\ FlagsTyped'
        BY <1>0, <2>1, <3>2, <3>3, LoopTyped DEF CallsTyped, typed, results
      <4>2. QED  BY <2>2, <3>2, <4>1 DEF TypesInv
    <3>4. CASE UNCHANGED <<calls, showLoading, messages>>
      <4>1. CallsTyped' /\ FlagsTyped'
        BY <1>0, <2>1, <3>4 DEF CallsTyped, FlagsTyped, calls, messages, typed, results
      <4>2. QED  BY <2>2, <3>2, <4>1 DEF TypesInv
    <3>5. QED  BY <1>6, <2>3, <3>3, <3>4 DEF ScrollToEnd
  <2>4. CASE ~ (Len(recentIdListRev) >= count)
    <3>1. showMore' = FALSE
          /\ UNCHANGED <<recents, calls, showLoading, internetError, noPrevGifts, noMatches>>
      BY <1>6, <2>4 DEF ScrollToEnd
    <3>2. IdsTyped' /\ CallsTyped'
      BY <1>a, <1>c, <2>1, <3>1 DEF calls
    <3>3. FlagsTyped'
      BY <1>0, <2>1, <3>1, ZenonT(60) DEF FlagsTyped, calls, typed, results
    <3>4. QED  BY <2>2, <3>2, <3>3 DEF TypesInv
  <2>5. QED  BY <2>3, <2>4
<1>7. ASSUME NEW g \in Gifts, Toggle(g) PROVE TypesInv'
  <2>1. IdsTyped'
    BY <1>0, <1>7 DEF Toggle, IdsTyped, recents
  <2>2. TextsTyped' /\ ResultsTyped' /\ CallsTyped' /\ FlagsTyped'
    BY <1>0, <1>7, <1>b, <1>c, <1>d DEF Toggle, typed, calls, results, messages, FlagsTyped
  <2>3. QED  BY <2>1, <2>2 DEF TypesInv
<1>8. ASSUME NEW g \in Gifts, ViewGift(g) PROVE TypesInv'
  <2>1. recentlyviewed' \in Seq(Gifts) /\ IsInjective(recentlyviewed')
    BY <1>0, <1>8, ViewedFacts DEF ViewGift, IdsTyped
  <2>2. IdsTyped'
    BY <1>0, <1>8, <2>1 DEF ViewGift, IdsTyped, recents
  <2>3. TextsTyped' /\ ResultsTyped' /\ CallsTyped' /\ FlagsTyped'
    BY <1>0, <1>8, <1>b, <1>c, <1>d
       DEF ViewGift, typed, calls, results, messages, FlagsTyped
  <2>4. QED  BY <2>2, <2>3 DEF TypesInv
<1>9. ASSUME NEW value \in Texts \cup {NoText}, Type(value) PROVE TypesInv'
  <2>1. IdsTyped' /\ ResultsTyped' /\ CallsTyped'
    BY <1>9, <1>a, <1>c, <1>d DEF Type, calls, results
  <2>2. TextsTyped' /\ FlagsTyped'
    BY <1>0, <1>9 DEF Type, calls, results, messages, TextsTyped, FlagsTyped, Blank
  <2>3. QED  BY <2>1, <2>2 DEF TypesInv
<1>10. ASSUME NEW menu \in Menus, ChangeIcon(menu) PROVE TypesInv'
  <2>1. /\ menuIcon' = menu
        /\ UNCHANGED <<shown, recentlyviewed, recents, typed, opened, gone>>
    BY <1>10 DEF ChangeIcon
  <2>2. IdsTyped'
    BY <1>a, <2>1
  <2>3. CASE SearchFor(searchText) /\ searchText # NoText
    <3>1. TextsTyped'
      BY <1>0, <2>1, <2>3 DEF TextsTyped, SearchFor, typed, Blank
    <3>2. CallsTyped' /\ ResultsTyped' /\ FlagsTyped'
      <4>1. searchText \in Texts /\ typing' \in BOOLEAN
        BY <1>0, <2>1, <2>3 DEF TextsTyped, FlagsTyped, typed
      <4>2. QED  BY <1>0, <2>3, <4>1, SearchTyped
    <3>3. QED  BY <2>2, <3>1, <3>2 DEF TypesInv
  <2>4. CASE UNCHANGED <<searchText, results, calls, showLoading, messages, failed, retried>>
    <3>1. CallsTyped' /\ ResultsTyped'
      BY <1>c, <1>d, <2>4 DEF calls, results
    <3>2. TextsTyped' /\ FlagsTyped'
      BY <1>0, <2>1, <2>4 DEF TextsTyped, FlagsTyped, calls, results, messages, typed, Blank
    <3>3. QED  BY <2>2, <3>1, <3>2 DEF TypesInv
  <2>5. QED  BY <1>10, <2>3, <2>4 DEF ChangeIcon
<1>11. QED  BY <1>1, <1>2, <1>3, <1>4, <1>5, <1>6, <1>7, <1>8, <1>9, <1>10

\* A gift that is gone: the id at the counter is taken out.
LEMMA GoneIds ==
    ASSUME IdsTyped, NEW r, r.gift \in Gifts, LookUp(r), r.gift \notin shown
    PROVE  /\ IdsTyped' /\ count \in Nat /\ count < Len(recentIdListRev)
           /\ recentIdListRev' = RemoveAt(recentIdListRev, count + 1)
           /\ count + 1 \in DOMAIN recentIdListRev
           /\ ToSet(recentIdListRev') = ToSet(recentIdListRev) \ {recentIdListRev[count + 1]}
           /\ ToSet(recentlyviewed') = ToSet(recentIdListRev')
<1> DEFINE new == RemoveAt(recentIdListRev, count + 1)
<1>1. /\ count < Len(recentIdListRev) /\ recentIdListRev' = new
      /\ recentlyviewed' = Reverse(recentIdListRev') /\ gone' = gone \cup {r.gift}
      /\ UNCHANGED <<recentList, count, limit, shown, opened>>
  BY DEF LookUp
<1>2. /\ recentIdListRev \in Seq(Gifts) /\ IsInjective(recentIdListRev)
      /\ Len(recentIdListRev) \in Nat /\ DOMAIN recentIdListRev = 1 .. Len(recentIdListRev)
      /\ count \in Nat
  BY LenProperties DEF IdsTyped
<1>3. count + 1 \in DOMAIN recentIdListRev
  BY <1>1, <1>2
<1>4. /\ new \in Seq(Gifts) /\ IsInjective(new)
      /\ ToSet(new) = ToSet(recentIdListRev) \ {recentIdListRev[count + 1]}
  BY <1>2, <1>3, RemoveAtFacts
<1> HIDE DEF new
<1>5. /\ recentlyviewed' \in Seq(Gifts) /\ IsInjective(recentlyviewed')
      /\ ToSet(recentlyviewed') = ToSet(new)
  BY <1>1, <1>4, ReverseFacts
<1>6. IdsTyped'
  BY <1>1, <1>4, <1>5 DEF IdsTyped
<1>7. QED  BY <1>1, <1>2, <1>3, <1>4, <1>5, <1>6 DEF new

\* A gift that is there: it is the next of the list.
LEMMA ThereIds ==
    ASSUME IdsTyped, NEW r, r.gift \in Gifts, LookUp(r), r.gift \in shown
    PROVE  /\ IdsTyped' /\ count \in Nat /\ count' = count + 1
           /\ UNCHANGED <<recentIdListRev, recentlyviewed, opened, gone>>
           /\ \A i \in 1 .. count : recentList'[i] = recentList[i]
           /\ recentList'[count + 1] = r.gift
<1>1. /\ recentList' = Append(recentList, r.gift) /\ count' = count + 1
      /\ UNCHANGED <<recentIdListRev, recentlyviewed, limit, shown, opened, gone>>
  BY DEF LookUp
<1>2. recentList \in Seq(Gifts) /\ count = Len(recentList)
  BY DEF IdsTyped
<1>3. /\ recentList' \in Seq(Gifts) /\ count \in Nat /\ Len(recentList') = count + 1
      /\ \A i \in 1 .. count : recentList'[i] = recentList[i]
      /\ recentList'[count + 1] = r.gift
  BY <1>1, <1>2, AppendFacts
<1>4. IdsTyped'
  BY <1>1, <1>3 DEF IdsTyped
<1>5. QED  BY <1>1, <1>3, <1>4

LEMMA AnswerTypes ==
    ASSUME TypesInv, NEW r \in BagToSet(requests),
           \/ LookUp(r) \/ RetryDue(r) \/ Offline(r) \/ Online(r)
           \/ ShowResults(r) \/ Fails(r)
    PROVE  TypesInv'
<1>0. IdsTyped /\ TextsTyped /\ CallsTyped /\ ResultsTyped /\ FlagsTyped
  BY DEF TypesInv
<1>a. ASSUME UNCHANGED <<shown, recentlyviewed, recents, opened, gone>> PROVE IdsTyped'
  BY <1>0, <1>a DEF IdsTyped, recents
<1>b. ASSUME UNCHANGED <<typed, searchText, menuIcon, retried>> PROVE TextsTyped'
  BY <1>0, <1>b DEF TextsTyped, typed, Blank
<1>d. ASSUME UNCHANGED results PROVE ResultsTyped'
  BY <1>0, <1>d DEF ResultsTyped, results
<1> DEFINE others == Answered(r)
<1>1. /\ IsABag(others) /\ BagToSet(others) \subseteq BagToSet(requests)
      /\ \A q \in BagToSet(others) : Sound(q)
  BY <1>0, AnsweredFacts DEF CallsTyped
<1>2. Sound(r) /\ sorts \in Nat
  BY <1>0 DEF CallsTyped
<1>e. ASSUME Awaiting(others, sorts)
      PROVE  CallsTyped' /\ overlapped' \in BOOLEAN /\ crossed' \in BOOLEAN
  BY <1>0, <1>1, <1>2, <1>e, AwaitTyped DEF FlagsTyped
<1>3. CASE LookUp(r)
  <2>1. /\ r.gift \in Gifts /\ r.kind \in {"load", "more"} /\ LoopOn(r.kind, others)
        /\ UNCHANGED <<shown, typed, searchText, menuIcon, results, failed, retried, opened>>
    BY <1>2, <1>3 DEF LookUp, Sound
  <2>2. IdsTyped'
    BY <1>0, <1>3, <2>1, GoneIds, ThereIds
  <2>3. CallsTyped' /\ FlagsTyped'
    <3> HIDE DEF others
    <3> QED  BY <1>0, <1>1, <2>1, <2>2, LoopTyped DEF typed, results
  <2>4. QED  BY <1>b, <1>d, <2>1, <2>2, <2>3 DEF TypesInv
<1>4. CASE RetryDue(r)
  <2>1. /\ Awaiting(With(others, Check(searchText)), sorts)
        /\ UNCHANGED <<shown, recentlyviewed, recents, typed, searchText, menuIcon,
                       results, showLoading, messages, failed, opened, gone>>
        /\ retried' \in BOOLEAN
    BY <1>4 DEF RetryDue
  <2>2. Sound(Check(searchText))
    BY <1>0, CheckSound, TermsAssumption DEF TextsTyped
  <2> HIDE DEF others
  <2>3. /\ IsABag(With(others, Check(searchText)))
        /\ \A q \in BagToSet(With(others, Check(searchText))) : Sound(q)
    BY <1>0, <1>1, <2>2, WithSound
  <2>4. CallsTyped' /\ overlapped' \in BOOLEAN /\ crossed' \in BOOLEAN
    BY <1>0, <1>2, <2>1, <2>3, AwaitTyped DEF FlagsTyped
  <2>5. FlagsTyped'
    BY <1>0, <2>1, <2>4 DEF FlagsTyped, typed, results, messages
  <2>6. TextsTyped'
    BY <1>0, <2>1 DEF TextsTyped, typed, Blank
  <2>7. QED  BY <1>a, <1>d, <2>1, <2>4, <2>5, <2>6 DEF TypesInv
<1>5. CASE Offline(r)
  <2>1. /\ Awaiting(others, sorts) /\ internetError' = TRUE /\ showLoading' = FALSE
        /\ UNCHANGED <<shown, recentlyviewed, recents, typed, searchText, menuIcon,
                       results, noPrevGifts, noMatches, showMore, failed, retried, opened, gone>>
    BY <1>5 DEF Offline
  <2>2. FlagsTyped'
    BY <1>0, <1>e, <2>1 DEF FlagsTyped, typed, results
  <2>3. QED  BY <1>a, <1>b, <1>d, <1>e, <2>1, <2>2 DEF TypesInv
<1>6. CASE Online(r)
  <2>1. /\ r.kind = "check" /\ UNCHANGED recents
        /\ UNCHANGED <<shown, recentlyviewed, typed, searchText, menuIcon, results,
                       failed, retried, opened, gone>>
    BY <1>6 DEF Online
  <2>2. IdsTyped' /\ TextsTyped' /\ ResultsTyped'
    BY <1>a, <1>b, <1>d, <2>1
  <2>3. CASE r.text = NoText
    <3>1. LoopOn("load", others)
      BY <1>6, <2>3 DEF Online
    <3> HIDE DEF others
    <3>2. CallsTyped' /\ FlagsTyped'
      BY <1>0, <1>1, <2>1, <2>2, <3>1, LoopTyped DEF typed, results
    <3>3. QED  BY <2>2, <3>2 DEF TypesInv
  <2>4. CASE r.text # NoText
    <3> DEFINE query == Call("query", r.text, menuIcon, None)
    <3>1. Awaiting(With(others, query), sorts) /\ UNCHANGED <<showLoading, messages>>
      BY <1>6, <2>4 DEF Online
    <3>2. Sound(query)
      BY <1>0, <1>2, <2>4 DEF Call, Sound, Request, TextsTyped
    <3> HIDE DEF others, query
    <3>3. /\ IsABag(With(others, query))
          /\ \A q \in BagToSet(With(others, query)) : Sound(q)
      BY <1>0, <1>1, <3>2, WithSound
    <3>4. CallsTyped' /\ overlapped' \in BOOLEAN /\ crossed' \in BOOLEAN
      BY <1>0, <1>2, <3>1, <3>3, AwaitTyped DEF FlagsTyped
    <3>5. FlagsTyped'
      BY <1>0, <2>1, <3>1, <3>4 DEF FlagsTyped, typed, results, messages
    <3>6. QED  BY <2>2, <3>4, <3>5 DEF TypesInv
  <2>5. QED  BY <2>3, <2>4
<1>7. CASE ShowResults(r)
  <2> DEFINE found == Found(r.text, r.menu)
  <2>1. /\ Awaiting(others, sorts) /\ internetError' = FALSE /\ showLoading' = FALSE
        /\ noMatches' = (noMatches \/ found = {})
        /\ searchList' = searchList (+) SetToBag(found)
        /\ sortedList' = IF sameList THEN searchList' ELSE sortedList
        /\ UNCHANGED <<shown, recentlyviewed, recents, typed, searchText, menuIcon,
                       sameList, filterOpened, noPrevGifts, showMore, failed, retried, opened, gone>>
    BY <1>7 DEF ShowResults
  <2>2. found \in SUBSET Gifts
    <3>1. r.text \in Terms /\ r.menu \in Menus
      BY <1>2, <1>7 DEF ShowResults, Sound
    <3>2. QED  BY <3>1, MatchesAssumption DEF Found
  <2> HIDE DEF found
  <2>3. IsABag(searchList') /\ BagToSet(searchList') \subseteq Gifts
    BY <1>0, <2>1, <2>2, AddedFacts DEF ResultsTyped
  <2>4. ResultsTyped'
    BY <1>0, <2>1, <2>3 DEF ResultsTyped
  <2>5. FlagsTyped'
    <3>1. noMatches' \in BOOLEAN
      BY <2>1
    <3>2. QED  BY <1>0, <1>e, <2>1, <3>1 DEF FlagsTyped, typed
  <2>6. QED  BY <1>a, <1>b, <1>e, <2>1, <2>4, <2>5 DEF TypesInv
<1>8. CASE Fails(r)
  <2>1. /\ Awaiting(others, sorts) /\ failed' = TRUE
        /\ UNCHANGED <<shown, recentlyviewed, recents, typed, searchText, menuIcon,
                       results, showLoading, messages, retried, opened, gone>>
    BY <1>8 DEF Fails
  <2>2. FlagsTyped'
    BY <1>0, <1>e, <2>1 DEF FlagsTyped, typed, results, messages
  <2>3. QED  BY <1>a, <1>b, <1>d, <1>e, <2>1, <2>2 DEF TypesInv
<1>9. QED  BY <1>3, <1>4, <1>5, <1>6, <1>7, <1>8

LEMMA NextTypes == TypesInv /\ [Next]_vars => TypesInv'
<1> SUFFICES ASSUME TypesInv, [Next]_vars PROVE TypesInv'
  OBVIOUS
<1>1. CASE UNCHANGED vars
  <2>1. IdsTyped' /\ TextsTyped' /\ CallsTyped'
    BY <1>1 DEF vars, TypesInv, IdsTyped, TextsTyped, CallsTyped, recents, typed, calls,
                  Blank
  <2>2. ResultsTyped' /\ FlagsTyped'
    BY <1>1 DEF vars, TypesInv, ResultsTyped, FlagsTyped, typed, results, calls, messages
  <2>3. QED  BY <2>1, <2>2 DEF TypesInv
<1>2. CASE Next
  BY <1>2, UserTypes, AnswerTypes DEF Next
<1>3. QED  BY <1>1, <1>2

THEOREM SearchHeld == Spec => []TypesInv
BY InitTypes, NextTypes, PTL DEF Spec

\* In every state of every run the preferences have no gift twice, the counter
\* and the limit are in range, and results, calls and messages are what the page
\* can have (_SearchActivityState).
THEOREM SearchTypes == Spec => []TypeOK
BY SearchHeld, TypesEnough, PTL

-----------------------------------------------------------------------------

(***************************************************************************)
(* What is kept of the gifts viewed recently                               *)
(***************************************************************************)
LEMMA InitKept == Init => KeptInv
<1> SUFFICES ASSUME Init PROVE KeptInv
  OBVIOUS
<1>1. recentlyviewed \in Seq(Gifts)
  BY ViewedAssumption DEF Init
<1>2. /\ recentIdListRev \in Seq(Gifts)
      /\ ToSet(recentIdListRev) = ToSet(recentlyviewed)
  BY <1>1, ReverseFacts DEF Init
<1>3. Len(recentIdListRev) \in Nat /\ count = 0
  BY <1>2, LenProperties DEF Init
<1>4. Loops(requests) = {}
  <2>1. requests = [e \in {Check(NoText)} |-> 1]
    BY DEF Init, SetToBag
  <2>2. QED  BY <2>1 DEF Loops, BagToSet, Check, Call
<1>5. CounterInv
  <2>1. 1 .. count = {} /\ count <= Len(recentIdListRev) /\ showMore
    BY <1>3 DEF Init
  <2>2. QED  BY <1>4, <2>1 DEF CounterInv, Overlap
<1>6. OpenedInv
  BY <1>2 DEF Init, OpenedInv
<1>7. QED  BY <1>5, <1>6 DEF KeptInv

\* Calls come and go, and no loop is new.
LEMMA CallsKept ==
    ASSUME KeptInv, UNCHANGED <<recentlyviewed, recentIdListRev, count, recentList,
                                showMore, opened, gone>>,
           NEW bag, NEW timers, UnderWay(bag, timers), Loops(bag) \subseteq Loops(requests)
    PROVE  KeptInv'
<1>1. requests' = bag /\ overlapped' = (overlapped \/ Overlap(bag))
  BY DEF UnderWay
<1>2. SUFFICES ASSUME ~ overlapped' PROVE CounterInv' /\ OpenedInv'
  BY DEF KeptInv
<1>3. CounterInv /\ OpenedInv /\ ~ Overlap(requests')
  BY <1>1, <1>2 DEF KeptInv
<1>4. CounterInv'
  <2>1. Loops(requests') \subseteq Loops(requests)
    BY <1>1
  <2>2. QED  BY <1>3, <2>1 DEF CounterInv
<1>5. OpenedInv'
  BY <1>3 DEF OpenedInv
<1>6. QED  BY <1>4, <1>5

\* The next round of a loop: it is the only one, and looks up the id the counter
\* is at.  When it ends, what is left waits for that id.
LEMMA LoopKept ==
    ASSUME IdsTyped', NEW kind \in {"load", "more"}, NEW others, IsABag(others),
           LoopOn(kind, others),
           ~ overlapped =>
              /\ OpenedInv'
              /\ \A r \in Loops(others) :
                    count' < Len(recentIdListRev') /\ r.gift = recentIdListRev'[count' + 1]
              /\ count' <= Len(recentIdListRev')
              /\ \A i \in 1 .. count' : recentList'[i] = recentIdListRev'[i]
              /\ ~ showMore => count' = Len(recentIdListRev')
    PROVE  KeptInv'
<1> DEFINE next == Call(kind, NoText, None, recentIdListRev'[count' + 1])
<1>0. count' \in Nat /\ Len(recentIdListRev') \in Nat
  BY LenProperties DEF IdsTyped
<1>1. CASE count' < Len(recentIdListRev') /\ count' < limit'
  <2>1. Awaiting(With(others, next), sorts) /\ UNCHANGED <<showLoading, messages>>
    BY <1>1 DEF LoopOn
  <2>2. next.kind = kind /\ next.gift = recentIdListRev'[count' + 1]
    BY DEF Call
  <2> HIDE DEF next
  <2>3. BagToSet(With(others, next)) = BagToSet(others) \cup {next}
    BY WithFacts
  <2>4. requests' = With(others, next) /\ overlapped' = (overlapped \/ Overlap(requests'))
    BY <2>1 DEF Awaiting, UnderWay
  <2> SUFFICES ASSUME ~ overlapped' PROVE CounterInv' /\ OpenedInv'
    BY DEF KeptInv
  <2>5. ~ overlapped /\ ~ Overlap(requests')
    BY <2>4
  <2>6. next \in Loops(requests')
    BY <2>2, <2>3, <2>4 DEF Loops
  <2>7. \A r \in Loops(requests') : r = next
    BY <2>5, <2>6 DEF Overlap
  <2>8. CounterInv'
    BY <1>1, <2>1, <2>2, <2>5, <2>7 DEF CounterInv, messages
  <2>9. QED  BY <2>5, <2>8
<1>2. CASE ~ (count' < Len(recentIdListRev') /\ count' < limit')
  <2>1. Awaiting(others, sorts) /\ IF kind = "load" THEN EndLoad ELSE EndMore
    BY <1>2 DEF LoopOn
  <2>2. requests' = others /\ overlapped' = (overlapped \/ Overlap(requests'))
    BY <2>1 DEF Awaiting, UnderWay
  <2> SUFFICES ASSUME ~ overlapped' PROVE CounterInv' /\ OpenedInv'
    BY DEF KeptInv
  <2>3. ~ overlapped /\ ~ Overlap(requests')
    BY <2>2
  <2>4. ~ showMore' => count' = Len(recentIdListRev')
    <3>1. CASE EndLoad
      BY <2>3, <3>1 DEF EndLoad
    <3>2. CASE EndMore
      <4>1. showMore' = (Len(recentIdListRev') > count')
        BY <3>2 DEF EndMore
      <4>2. count' <= Len(recentIdListRev')
        BY <2>3
      <4>3. ~ showMore' => ~ (Len(recentIdListRev') > count')
        BY <4>1, Zenon
      <4>4. QED  BY <1>0, <4>2, <4>3
    <3>3. QED  BY <2>1, <3>1, <3>2
  <2>5. CounterInv'
    BY <2>2, <2>3, <2>4 DEF CounterInv
  <2>6. QED  BY <2>3, <2>5
<1>3. QED  BY <1>1, <1>2

\* With one more call that is no loop, the loops are the same.
LEMMA NoLoopMore ==
    ASSUME NEW bag, IsABag(bag), NEW r, r.kind \notin {"load", "more"}
    PROVE  Loops(With(bag, r)) = Loops(bag)
<1>1. BagToSet(With(bag, r)) = BagToSet(bag) \cup {r}
  BY WithFacts
<1>2. QED  BY <1>1 DEF Loops

LEMMA LessLoops ==
    ASSUME CallsTyped, NEW r
    PROVE  IsABag(Answered(r)) /\ Loops(Answered(r)) \subseteq Loops(requests)
BY AnsweredFacts DEF CallsTyped, Loops

LEMMA LookUpKept ==
    ASSUME TypesInv, KeptInv, NEW r \in BagToSet(requests), LookUp(r)
    PROVE  KeptInv'
<1>0. IdsTyped /\ CallsTyped /\ Sound(r) /\ r.kind \in {"load", "more"} /\ r.gift \in Gifts
  BY DEF TypesInv, CallsTyped, LookUp, Sound
<1>1. /\ LoopOn(r.kind, Answered(r)) /\ IsABag(Answered(r)) /\ IdsTyped'
      /\ Len(recentIdListRev) \in Nat
  BY <1>0, LessLoops, GoneIds, ThereIds, LenProperties DEF LookUp, IdsTyped
<1>2. r \in Loops(requests)
  BY <1>0 DEF Loops
<1>3. ASSUME ~ overlapped
      PROVE  /\ CounterInv /\ OpenedInv /\ showMore /\ count < Len(recentIdListRev)
             /\ r.gift = recentIdListRev[count + 1]
             /\ Loops(Answered(r)) = {}
  <2>1. CounterInv /\ OpenedInv
    BY <1>3 DEF KeptInv
  <2>2. count < Len(recentIdListRev) /\ r.gift = recentIdListRev[count + 1]
    BY <1>2, <2>1 DEF CounterInv
  <2>3. count \in Nat
    BY <1>0, LenProperties DEF IdsTyped
  <2>4. showMore
    BY <1>1, <2>1, <2>2, <2>3 DEF CounterInv
  <2>5. \A q \in Loops(requests) : q = r
    BY <1>2, <2>1 DEF CounterInv, Overlap
  <2>6. requests[r] <= 1
    <3>1. requests[r] \in Nat
      BY <1>0 DEF CallsTyped, IsABag, BagToSet
    <3>2. ~ (requests[r] > 1)
      BY <1>2, <2>1 DEF CounterInv, Overlap
    <3>3. QED  BY <3>1, <3>2
  <2>7. r \notin BagToSet(Answered(r))
    BY <1>0, <2>6, AnsweredFacts DEF CallsTyped
  <2>8. Loops(Answered(r)) = {}
    BY <1>0, <2>5, <2>7, LessLoops DEF Loops
  <2>9. QED  BY <2>1, <2>2, <2>4, <2>8
<1>4. CASE r.gift \in shown
  <2>1. /\ count \in Nat /\ count' = count + 1
        /\ UNCHANGED <<recentIdListRev, recentlyviewed, opened, gone>>
        /\ \A i \in 1 .. count : recentList'[i] = recentList[i]
        /\ recentList'[count + 1] = r.gift
    BY <1>0, <1>4, ThereIds
  <2>2. ASSUME ~ overlapped
        PROVE  /\ OpenedInv' /\ count' <= Len(recentIdListRev')
               /\ \A i \in 1 .. count' : recentList'[i] = recentIdListRev'[i]
    <3>1. OpenedInv'
      BY <1>3, <2>1, <2>2 DEF OpenedInv
    <3>2. count' <= Len(recentIdListRev')
      BY <1>1, <1>3, <2>1, <2>2
    <3>3. \A i \in 1 .. count : recentList[i] = recentIdListRev[i]
      BY <1>3, <2>2 DEF CounterInv
    <3>4. \A i \in 1 .. count + 1 : recentList'[i] = recentIdListRev'[i]
      BY <1>3, <2>1, <2>2, <3>3
    <3>5. QED  BY <2>1, <3>1, <3>2, <3>4
  <2>3. QED  BY <1>0, <1>1, <1>3, <2>2, LoopKept
<1>5. CASE r.gift \notin shown
  <2> DEFINE new == RemoveAt(recentIdListRev, count + 1)
  <2>1. /\ count \in Nat /\ count < Len(recentIdListRev) /\ recentIdListRev' = new
        /\ count + 1 \in DOMAIN recentIdListRev
        /\ ToSet(recentIdListRev') = ToSet(recentIdListRev) \ {recentIdListRev[count + 1]}
        /\ ToSet(recentlyviewed') = ToSet(recentIdListRev')
    BY <1>0, <1>5, GoneIds
  <2>2. /\ gone' = gone \cup {r.gift} /\ UNCHANGED <<recentList, count, opened>>
    BY <1>5 DEF LookUp
  <2>3. /\ Len(new) = Len(recentIdListRev) - 1
        /\ \A j \in 1 .. Len(recentIdListRev) - 1 :
              new[j] = IF j < count + 1 THEN recentIdListRev[j] ELSE recentIdListRev[j + 1]
    <3>1. recentIdListRev \in Seq(Gifts)
      BY <1>0 DEF IdsTyped
    <3>2. QED  BY <2>1, <3>1, RemoveAtPlaces, SMTT(40)
  <2> HIDE DEF new
  <2>4. ASSUME ~ overlapped
        PROVE  /\ OpenedInv' /\ count' <= Len(recentIdListRev')
               /\ \A i \in 1 .. count' : recentList'[i] = recentIdListRev'[i]
    <3>1. OpenedInv'
      BY <1>3, <2>1, <2>2, <2>4 DEF OpenedInv
    <3>2. count' <= Len(recentIdListRev')
      BY <1>1, <2>1, <2>2, <2>3
    <3>3. \A i \in 1 .. count : recentList[i] = recentIdListRev[i]
      BY <1>3, <2>4 DEF CounterInv
    <3>4. \A i \in 1 .. count : recentIdListRev'[i] = recentIdListRev[i]
      BY <1>1, <2>1, <2>3
    <3>5. QED  BY <2>2, <3>1, <3>2, <3>3, <3>4
  <2>5. QED  BY <1>0, <1>1, <1>3, <2>4, LoopKept
<1>6. QED  BY <1>4, <1>5

LEMMA NextKept == TypesInv /\ KeptInv /\ [Next]_vars => KeptInv'
<1> SUFFICES ASSUME TypesInv, KeptInv, [Next]_vars PROVE KeptInv'
  OBVIOUS
<1>0. IdsTyped /\ CallsTyped /\ IdsTyped' /\ Len(recentIdListRev) \in Nat /\ count \in Nat
  <2>1. TypesInv'
    BY NextTypes
  <2>2. QED  BY <2>1, LenProperties DEF TypesInv, IdsTyped
<1>a. ASSUME UNCHANGED <<recentIdListRev, count, recentList, recentlyviewed, showMore,
                         requests, overlapped, opened, gone>>
      PROVE  KeptInv'
  BY <1>a DEF KeptInv, CounterInv, OpenedInv
<1>1. CASE StopTyping \/ \E menu \in Menus : ChangeIcon(menu)
  <2>1. UNCHANGED <<recentlyviewed, recents, opened, gone>>
    BY <1>1 DEF StopTyping, ChangeIcon
  <2>2. UNCHANGED showMore
    BY <1>1 DEF StopTyping, ChangeIcon, SearchNothing, SearchFor, messages
  <2>3. CASE UNCHANGED calls
    BY <1>a, <2>1, <2>2, <2>3 DEF recents, calls
  <2>4. ASSUME NEW value, SearchFor(value) PROVE KeptInv'
    <3>1. UnderWay(With(requests, Check(Trim[value])), sorts)
      BY <2>4 DEF SearchFor
    <3>2. Loops(With(requests, Check(Trim[value]))) = Loops(requests)
      BY <1>0, NoLoopMore DEF CallsTyped, Check, Call
    <3>3. QED  BY <2>1, <2>2, <3>1, <3>2, CallsKept DEF recents
  <2>5. QED  BY <1>1, <2>3, <2>4 DEF StopTyping, ChangeIcon, SearchNothing
<1>2. CASE Retry
  <2> DEFINE r == Call("retry", NoText, None, None)
  <2>1. /\ UNCHANGED <<recentlyviewed, recents, messages, opened, gone>>
        /\ UnderWay(With(requests, r), sorts)
    BY <1>2 DEF Retry, Awaiting
  <2>2. r.kind = "retry"
    BY DEF Call
  <2> HIDE DEF r
  <2>3. Loops(With(requests, r)) = Loops(requests)
    BY <1>0, <2>2, NoLoopMore DEF CallsTyped
  <2>4. QED  BY <2>1, <2>3, CallsKept DEF recents, messages
<1>3. CASE ToggleFilter \/ UNCHANGED vars \/ \E g \in Gifts : Toggle(g)
  BY <1>3, <1>a DEF ToggleFilter, Toggle, vars, recents, calls, messages
<1>4. CASE Filter \/ Sorted
  <2>1. UNCHANGED <<recentlyviewed, recents, messages, opened, gone>>
    BY <1>4 DEF Filter, Sorted
  <2>2. UnderWay(requests, sorts + 1) \/ UnderWay(requests, sorts - 1)
    BY <1>4 DEF Filter, Sorted, Awaiting
  <2>3. QED  BY <2>1, <2>2, CallsKept DEF recents, messages
<1>5. CASE ScrollToEnd
  <2>1. UNCHANGED <<recentlyviewed, opened, gone>>
    BY <1>5 DEF ScrollToEnd
  <2>2. CASE Len(recentIdListRev) >= count
    <3>1. UNCHANGED <<recentIdListRev, count, recentList>>
      BY <1>5, <2>2 DEF ScrollToEnd
    <3>2. CASE LoopOn("more", requests)
      <4>1. ~ overlapped =>
               /\ OpenedInv'
               /\ \A r \in Loops(requests) :
                     count' < Len(recentIdListRev') /\ r.gift = recentIdListRev'[count' + 1]
               /\ count' <= Len(recentIdListRev')
               /\ \A i \in 1 .. count' : recentList'[i] = recentIdListRev'[i]
               /\ ~ showMore => count' = Len(recentIdListRev')
        BY <2>1, <3>1 DEF KeptInv, CounterInv, OpenedInv
      <4>2. QED  BY <1>0, <3>2, <4>1, LoopKept DEF CallsTyped
    <3>3. CASE UNCHANGED <<calls, showLoading, messages>>
      BY <1>a, <2>1, <3>1, <3>3 DEF calls, messages
    <3>4. QED  BY <1>5, <2>2, <3>2, <3>3 DEF ScrollToEnd
  <2>3. CASE ~ (Len(recentIdListRev) >= count)
    <3>1. UNCHANGED <<recents, calls>>
      BY <1>5, <2>3 DEF ScrollToEnd
    <3>2. overlapped
      BY <1>0, <2>3 DEF KeptInv, CounterInv
    <3>3. QED  BY <3>1, <3>2 DEF KeptInv, calls
  <2>4. QED  BY <2>2, <2>3
<1>6. ASSUME NEW g \in Gifts, ViewGift(g) PROVE KeptInv'
  <2>1. /\ recentlyviewed' = Append(RemoveFirst(recentlyviewed, g), g)
        /\ UNCHANGED <<recents, calls, messages, opened, gone>>
    BY <1>6 DEF ViewGift
  <2>2. ToSet(recentlyviewed') = ToSet(recentlyviewed) \cup {g}
    BY <1>0, <2>1, ViewedFacts DEF IdsTyped
  <2>3. ASSUME CounterInv PROVE CounterInv'
    BY <2>1, <2>3 DEF CounterInv, recents, calls, messages
  <2>4. ASSUME OpenedInv PROVE OpenedInv'
    BY <2>1, <2>2, <2>4 DEF OpenedInv, recents
  <2>5. QED  BY <2>1, <2>3, <2>4 DEF KeptInv, calls
<1>7. ASSUME NEW value \in Texts \cup {NoText}, Type(value) PROVE KeptInv'
  BY <1>7, <1>a DEF Type, recents, calls, messages
<1>8. ASSUME NEW r \in BagToSet(requests), RetryDue(r) PROVE KeptInv'
  <2>1. /\ UNCHANGED <<recentlyviewed, recents, messages, opened, gone>>
        /\ UnderWay(With(Answered(r), Check(searchText)), sorts)
    BY <1>8 DEF RetryDue, Awaiting
  <2>2. Loops(With(Answered(r), Check(searchText))) \subseteq Loops(requests)
    BY <1>0, LessLoops, NoLoopMore DEF Check, Call
  <2>3. QED  BY <2>1, <2>2, CallsKept DEF recents, messages
<1>9. ASSUME NEW r \in BagToSet(requests), Offline(r) \/ ShowResults(r) \/ Fails(r)
      PROVE  KeptInv'
  <2>1. UNCHANGED <<recentlyviewed, recents, showMore, opened, gone>>
    BY <1>9 DEF Offline, ShowResults, Fails, messages
  <2>2. UnderWay(Answered(r), sorts)
    BY <1>9 DEF Offline, ShowResults, Fails, Awaiting
  <2>3. QED  BY <1>0, <2>1, <2>2, LessLoops, CallsKept DEF recents
<1>10. ASSUME NEW r \in BagToSet(requests), Online(r) PROVE KeptInv'
  <2>1. UNCHANGED <<recents, recentlyviewed, opened, gone>>
    BY <1>10 DEF Online
  <2>2. IsABag(Answered(r)) /\ Loops(Answered(r)) \subseteq Loops(requests)
    BY <1>0, LessLoops
  <2>3. CASE r.text = NoText
    <3>1. LoopOn("load", Answered(r))
      BY <1>10, <2>3 DEF Online
    <3>2. ~ overlapped =>
             /\ OpenedInv'
             /\ \A q \in Loops(Answered(r)) :
                   count' < Len(recentIdListRev') /\ q.gift = recentIdListRev'[count' + 1]
             /\ count' <= Len(recentIdListRev')
             /\ \A i \in 1 .. count' : recentList'[i] = recentIdListRev'[i]
             /\ ~ showMore => count' = Len(recentIdListRev')
      BY <2>1, <2>2 DEF KeptInv, CounterInv, OpenedInv, recents
    <3>3. QED  BY <1>0, <2>2, <3>1, <3>2, LoopKept
  <2>4. CASE r.text # NoText
    <3> DEFINE query == Call("query", r.text, menuIcon, None)
    <3>1. UnderWay(With(Answered(r), query), sorts) /\ UNCHANGED messages
      BY <1>10, <2>4 DEF Online, Awaiting
    <3>2. query.kind = "query"
      BY DEF Call
    <3> HIDE DEF query
    <3>3. Loops(With(Answered(r), query)) \subseteq Loops(requests)
      BY <2>2, <3>2, NoLoopMore
    <3>4. QED  BY <2>1, <3>1, <3>3, CallsKept DEF recents, messages
  <2>5. QED  BY <2>3, <2>4
<1>11. ASSUME NEW r \in BagToSet(requests), LookUp(r) PROVE KeptInv'
  BY <1>11, LookUpKept
<1>12. QED
  BY <1>1, <1>2, <1>3, <1>4, <1>5, <1>6, <1>7, <1>8, <1>9, <1>10, <1>11 DEF Next

\* Whatever was hidden, shown again and viewed while the loops ran: as long as no
\* two of them overlapped, the list is the beginning of the ids, says there are no
\* more only when it has all of them, and the phone forgot no gift but those
\* looked up in vain (_loadData, _loadMoreData).
THEOREM KeepsRecents == Spec => []RecentsKept
<1>1. TypesInv /\ KeptInv => RecentsKept
  <2> SUFFICES ASSUME TypesInv, KeptInv, ~ overlapped
               PROVE  /\ recentList = SubSeq(recentIdListRev, 1, count)
                      /\ ~ showMore => count = Len(recentIdListRev)
                      /\ opened \ gone \subseteq ToSet(recentlyviewed)
    BY DEF RecentsKept
  <2>1. /\ recentIdListRev \in Seq(Gifts) /\ recentList \in Seq(Gifts)
        /\ count = Len(recentList) /\ count \in Nat /\ count <= Len(recentIdListRev)
        /\ \A i \in 1 .. count : recentList[i] = recentIdListRev[i]
    BY LenProperties DEF TypesInv, IdsTyped, KeptInv, CounterInv
  <2> DEFINE t == SubSeq(recentIdListRev, 1, count)
  <2>2. t \in Seq(Gifts) /\ Len(t) = count /\ \A i \in 1 .. count : t[i] = recentIdListRev[i]
    <3>1. \A i \in 1 .. count : recentIdListRev[i] \in Gifts
      BY <2>1, LenProperties, ElementOfSeq
    <3>2. QED  BY <2>1, <3>1, SubSeqProperties
  <2> HIDE DEF t
  <2>3. recentList = t
    BY <2>1, <2>2, SeqEqual
  <2>4. QED  BY <2>3 DEF t, KeptInv, CounterInv, OpenedInv
<1>2. TypesInv /\ KeptInv /\ [Next]_vars => KeptInv'
  BY NextKept
<1>3. QED  BY <1>1, <1>2, InitKept, SearchHeld, PTL DEF Spec

-----------------------------------------------------------------------------

(***************************************************************************)
(* What is found                                                           *)
(***************************************************************************)
LEMMA NextLists == ListsInv /\ TypesInv /\ [Next]_vars => ListsInv'
<1> SUFFICES ASSUME ListsInv, TypesInv, [Next]_vars PROVE ListsInv'
  OBVIOUS
<1>0. sorts \in Nat
  BY DEF TypesInv, CallsTyped
<1>a. ASSUME UNCHANGED <<shown, searchList, sortedList, sameList, sorts>> PROVE ListsInv'
  BY <1>a DEF ListsInv
<1>1. ASSUME NEW value, SearchFor(value), UNCHANGED shown PROVE ListsInv'
  BY <1>1 DEF SearchFor, UnderWay, ListsInv
<1>2. CASE StopTyping \/ \E menu \in Menus : ChangeIcon(menu)
  <2>1. UNCHANGED shown
    BY <1>2 DEF StopTyping, ChangeIcon
  <2>2. CASE SearchNothing \/ UNCHANGED <<results, calls>>
    BY <1>a, <2>1, <2>2 DEF SearchNothing, results, calls
  <2>3. QED  BY <1>1, <1>2, <2>1, <2>2 DEF StopTyping, ChangeIcon
<1>3. CASE Filter
  <2>1. sorts' = sorts + 1 /\ UNCHANGED shown /\ searchList' = EmptyBag
    BY <1>3 DEF Filter, Awaiting, UnderWay
  <2>2. \/ sameList' = FALSE
        \/ searchList = EmptyBag /\ UNCHANGED <<sortedList, sameList>>
    BY <1>3 DEF Filter
  <2>3. sorts' # 0
    BY <1>0, <2>1
  <2>4. QED  BY <2>1, <2>2, <2>3 DEF ListsInv
<1>4. CASE Sorted
  BY <1>4 DEF Sorted, ListsInv
<1>5. ASSUME NEW g \in Gifts, Toggle(g) PROVE ListsInv'
  BY <1>5 DEF Toggle, ListsInv, results, calls
<1>6. ASSUME NEW r \in BagToSet(requests), ShowResults(r) PROVE ListsInv'
  BY <1>6 DEF ShowResults, Awaiting, UnderWay, ListsInv
<1>7. CASE Retry \/ ToggleFilter \/ ScrollToEnd
  <2>1. UNCHANGED <<shown, searchList, sortedList, sameList>>
    BY <1>7 DEF Retry, ToggleFilter, ScrollToEnd, results
  <2>2. UNCHANGED sorts
    BY <1>7 DEF Retry, ToggleFilter, ScrollToEnd, LoopOn, Awaiting, UnderWay, calls
  <2>3. QED  BY <1>a, <2>1, <2>2
<1>8. ASSUME \/ \E g \in Gifts : ViewGift(g)
             \/ \E value \in Texts \cup {NoText} : Type(value)
             \/ UNCHANGED vars
      PROVE  ListsInv'
  BY <1>8, <1>a DEF ViewGift, Type, vars, results, calls
<1>9. ASSUME NEW r \in BagToSet(requests),
             LookUp(r) \/ RetryDue(r) \/ Offline(r) \/ Online(r) \/ Fails(r)
      PROVE  ListsInv'
  <2>1. UNCHANGED <<shown, results>>
    BY <1>9 DEF LookUp, RetryDue, Offline, Online, Fails
  <2>2. UNCHANGED sorts
    BY <1>9 DEF LookUp, RetryDue, Offline, Online, Fails, LoopOn, Awaiting, UnderWay
  <2>3. QED  BY <1>a, <2>1, <2>2 DEF results
<1>10. QED  BY <1>2, <1>3, <1>4, <1>5, <1>6, <1>7, <1>8, <1>9 DEF Next

\* A loop goes on with a call under way, or ends the animation.
LEMMA LoopLoading ==
    ASSUME NEW kind, NEW others, IsABag(others), LoopOn(kind, others), UNCHANGED failed,
           showLoading' /\ ~ failed'
    PROVE  requests' # EmptyBag
<1> DEFINE next == Call(kind, NoText, None, recentIdListRev'[count' + 1])
<1>1. CASE count' < Len(recentIdListRev') /\ count' < limit'
  <2>1. requests' = With(others, next)
    BY <1>1 DEF LoopOn, Awaiting, UnderWay
  <2> HIDE DEF next
  <2>2. QED  BY <2>1, WithFacts
<1>2. CASE ~ (count' < Len(recentIdListRev') /\ count' < limit')
  <2>1. showLoading' = FALSE
    BY <1>2 DEF LoopOn, EndLoad, EndMore
  <2>2. QED  BY <2>1
<1>3. QED  BY <1>1, <1>2

LEMMA NextLoading == LoadingInv /\ TypesInv /\ [Next]_vars => LoadingInv'
<1> SUFFICES ASSUME LoadingInv, TypesInv, [Next]_vars, showLoading', ~ failed'
             PROVE  typing' \/ requests' # EmptyBag \/ sorts' # 0
  BY DEF LoadingInv
<1>0. IsABag(requests) /\ sorts \in Nat /\ \A r : IsABag(Answered(r))
  BY AnsweredFacts DEF TypesInv, CallsTyped
<1>a. ASSUME UNCHANGED <<typing, requests, sorts, showLoading, failed>>
      PROVE  typing' \/ requests' # EmptyBag \/ sorts' # 0
  BY <1>a DEF LoadingInv
<1>1. ASSUME NEW value, SearchFor(value) PROVE requests' # EmptyBag
  BY <1>0, <1>1, WithFacts DEF SearchFor, UnderWay
<1>2. CASE StopTyping
  BY <1>1, <1>2 DEF StopTyping, SearchNothing
<1>3. ASSUME NEW menu \in Menus, ChangeIcon(menu)
      PROVE  typing' \/ requests' # EmptyBag \/ sorts' # 0
  BY <1>1, <1>3, <1>a DEF ChangeIcon, typed, calls
<1>4. CASE Retry
  BY <1>0, <1>4, WithFacts DEF Retry, Awaiting, UnderWay
<1>5. CASE Filter
  <2>1. sorts' = sorts + 1
    BY <1>5 DEF Filter, Awaiting, UnderWay
  <2>2. QED  BY <1>0, <2>1
<1>6. CASE ScrollToEnd
  <2>1. UNCHANGED <<typed, failed>>
    BY <1>6 DEF ScrollToEnd
  <2>2. CASE LoopOn("more", requests)
    BY <1>0, <2>1, <2>2, LoopLoading
  <2>3. CASE UNCHANGED <<calls, showLoading>>
    BY <1>a, <2>1, <2>3 DEF calls, typed
  <2>4. QED  BY <1>6, <2>2, <2>3 DEF ScrollToEnd
<1>7. CASE Sorted
  BY <1>7 DEF Sorted
<1>8. CASE \/ ToggleFilter \/ UNCHANGED vars
           \/ \E g \in Gifts : Toggle(g) \/ ViewGift(g)
  BY <1>8, <1>a DEF ToggleFilter, vars, Toggle, ViewGift, typed, calls
<1>9. CASE \E value \in Texts \cup {NoText} : Type(value)
  BY <1>9 DEF Type
<1>10. ASSUME NEW r \in BagToSet(requests), RetryDue(r) PROVE requests' # EmptyBag
  BY <1>0, <1>10, WithFacts DEF RetryDue, Awaiting, UnderWay
<1>11. ASSUME NEW r \in BagToSet(requests), Offline(r) \/ ShowResults(r) \/ Fails(r)
       PROVE  FALSE
  BY <1>11 DEF Offline, ShowResults, Fails
<1>12. ASSUME NEW r \in BagToSet(requests), Online(r) PROVE requests' # EmptyBag
  <2>1. CASE r.text = NoText
    BY <1>0, <1>12, <2>1, LoopLoading DEF Online
  <2>2. CASE r.text # NoText
    BY <1>0, <1>12, <2>2, WithFacts DEF Online, Awaiting, UnderWay
  <2>3. QED  BY <2>1, <2>2
<1>13. ASSUME NEW r \in BagToSet(requests), LookUp(r) PROVE requests' # EmptyBag
  BY <1>0, <1>13, LoopLoading DEF LookUp
<1>14. QED
  BY <1>2, <1>3, <1>4, <1>5, <1>6, <1>7, <1>8, <1>9, <1>10, <1>11, <1>12, <1>13 DEF Next

LEMMA FirstCall ==
    ASSUME NEW r
    PROVE  /\ IsABag(With(EmptyBag, r)) /\ BagToSet(With(EmptyBag, r)) = {r}
           /\ With(EmptyBag, r) # EmptyBag
<1>1. IsABag(EmptyBag) /\ BagToSet(EmptyBag) = {}
  BY EmptyBagFacts
<1>2. BagToSet(With(EmptyBag, r)) = BagToSet(EmptyBag) \cup {r}
  BY <1>1, WithFacts
<1>3. QED  BY <1>1, <1>2, WithFacts

\* A search begins with its own call; with another under way, or a timer, they
\* have crossed.
LEMMA SearchBegins ==
    ASSUME TypesInv, ListsInv, NEW value, SearchFor(value), ~ crossed'
    PROVE  OwnCalls' /\ OwnResults'
<1> DEFINE check == Check(Trim[value])
<1>1. /\ requests = EmptyBag /\ ~ (sorts > 0) /\ sorts \in Nat
      /\ requests' = With(requests, check) /\ sorts' = sorts
      /\ searchText' = value /\ noPrevGifts' = FALSE /\ noMatches' = FALSE
      /\ searchList' = EmptyBag /\ retried' = FALSE
  BY DEF SearchFor, UnderWay, TypesInv, CallsTyped
<1>2. sorts' = 0 /\ requests' = SetToBag({check})
  BY <1>1, EmptyBagFacts, WithFacts
<1>3. BagToSet(requests') = {check} /\ requests' # EmptyBag
  BY <1>1, FirstCall
<1>4. check.kind = "check" /\ check.text = Trim[value]
  BY DEF Check, Call
<1>a. Asked' = Trim[value]
  BY <1>1 DEF Asked
<1>5. OwnCalls'
  BY <1>1, <1>2, <1>3, <1>4, <1>a DEF OwnCalls, Alone
<1>6. OwnResults'
  BY <1>1, <1>2, <1>3 DEF OwnResults, Held
<1>7. QED  BY <1>5, <1>6

\* What a call that is answered, or a timer, leaves to be shown: the calls are
\* those there were, or one of the same search, and the results are the same.
LEMMA CallsOwn ==
    ASSUME OwnCalls, OwnResults, NEW bag, IsABag(bag), Awaiting(bag, sorts), ~ crossed',
           UNCHANGED <<searchText, menuIcon, searchList, sortedList, noPrevGifts, noMatches>>,
           requests # EmptyBag \/ internetError,
           \A r \in BagToSet(bag) :
              \/ r \in BagToSet(requests) /\ UNCHANGED retried
              \/ r.kind = "retry"
              \/ r.kind = "check" /\ r.text = Asked'
              \/ r.kind = "query" /\ r.text = Asked' /\ r.menu = menuIcon,
           bag # EmptyBag \/ internetError' \/ failed'
    PROVE  OwnCalls' /\ OwnResults'
<1>1. requests' = bag /\ sorts' = sorts /\ Alone(bag, sorts)
  BY DEF Awaiting, UnderWay
<1>2. OwnCalls'
  <2>1. Alone(requests, sorts)'
    BY <1>1 DEF Alone
  <2>2. ASSUME NEW r \in BagToSet(requests')
        PROVE  /\ r.kind \in {"retry", "check", "query"}
               /\ r.kind = "check" => r.text = Asked'
               /\ r.kind = "query" => r.text = Asked' /\ r.menu = menuIcon'
    <3>1. UNCHANGED retried => Asked' = Asked
      BY DEF Asked
    <3>2. QED  BY <1>1, <2>2, <3>1 DEF OwnCalls
  <2>3. QED  BY <2>1, <2>2 DEF OwnCalls
<1>3. Held' = Held /\ Held = EmptyBag /\ ~ noMatches /\ ~ noPrevGifts
  BY <1>1 DEF OwnResults, Held
<1>4. OwnResults'
  BY <1>1, <1>3 DEF OwnResults
<1>5. QED  BY <1>2, <1>4

\* The call of a search that met no other is the only one.
LEMMA OnlyCall ==
    ASSUME TypesInv, OwnCalls, NEW r \in BagToSet(requests)
    PROVE  /\ sorts = 0 /\ requests = SetToBag({r}) /\ Answered(r) = EmptyBag
           /\ requests # EmptyBag
<1>1. IsABag(requests)
  BY DEF TypesInv, CallsTyped
<1>2. requests # EmptyBag
  BY EmptyBagFacts
<1>3. sorts = 0 /\ requests = SetToBag({r})
  BY <1>2 DEF OwnCalls, Alone
<1>4. QED  BY <1>1, <1>2, <1>3, AnsweredFacts

\* The answer: the results are what is found, each gift once.
LEMMA ResultsOwn ==
    ASSUME TypesInv, ListsInv, OwnCalls, OwnResults, NEW r \in BagToSet(requests),
           ShowResults(r), ~ crossed'
    PROVE  OwnCalls' /\ OwnResults'
<1> DEFINE found == Found(r.text, r.menu)
<1>1. /\ r.kind = "query" /\ Awaiting(Answered(r), sorts)
      /\ searchList' = searchList (+) SetToBag(found)
      /\ noMatches' = (noMatches \/ found = {})
      /\ UNCHANGED <<shown, searchText, retried, menuIcon, noPrevGifts, failed>>
      /\ Asked' = Asked
  BY DEF ShowResults, typed, Asked
<1>2. sorts = 0 /\ Answered(r) = EmptyBag /\ requests # EmptyBag
  BY OnlyCall
<1>3. requests' = EmptyBag /\ sorts' = 0
  BY <1>1, <1>2 DEF Awaiting, UnderWay
<1>4. found = Matches[menuIcon][Asked] \cap shown
  BY <1>1 DEF OwnCalls, Found
<1>5. searchList = EmptyBag /\ ~ noMatches /\ ~ noPrevGifts
  BY <1>2 DEF OwnResults, Held
<1> HIDE DEF found
<1>6. /\ BagToSet(searchList') = found
      /\ \A g \in found : searchList'[g] = 1
  BY <1>1, <1>5, EmptyBagFacts, AddedFacts, ZenonT(60)
<1>7. OwnCalls'
  BY <1>3, EmptyBagFacts DEF OwnCalls, Alone
<1>8. Held' = searchList'
  BY <1>3 DEF Held
<1>9. \A g \in Gifts \ Fickle :
         g \in BagToSet(Held') <=> g \in Matches[menuIcon'][Asked']
  BY <1>1, <1>4, <1>6, <1>8 DEF ListsInv
<1>10. noMatches' <=> Held' = EmptyBag
  <2>1. noMatches' <=> found = {}
    BY <1>1, <1>5
  <2>2. found = {} <=> searchList' = EmptyBag
    <3>1. searchList' = EmptyBag => found = {}
      BY <1>6, EmptyBagFacts
    <3>2. ASSUME found = {} PROVE searchList' = EmptyBag
      <4>1. DOMAIN searchList' = {}
        BY <1>6, <3>2 DEF BagToSet
      <4>2. searchList' = [e \in DOMAIN searchList' |-> searchList'[e]]
        BY <1>1 DEF (+)
      <4>3. QED  BY <4>1, <4>2 DEF EmptyBag, SetToBag
    <3>3. QED  BY <3>1, <3>2
  <2>3. QED  BY <1>8, <2>1, <2>2
<1>11. internetError' = FALSE
  BY DEF ShowResults
<1>12. OwnResults'
  BY <1>1, <1>3, <1>5, <1>6, <1>8, <1>9, <1>10, <1>11 DEF OwnResults
<1>13. QED  BY <1>7, <1>12

\* A filter copies the results, and its timer brings them back.
LEMMA FilterOwn ==
    ASSUME TypesInv, ListsInv, OwnCalls, OwnResults, Filter \/ Sorted, ~ crossed'
    PROVE  OwnCalls' /\ OwnResults'
<1>0. sorts \in Nat
  BY DEF TypesInv, CallsTyped
<1>1. UNCHANGED <<searchText, menuIcon, messages, failed, requests>> /\ Asked' = Asked
  BY DEF Filter, Sorted, Awaiting, UnderWay, Asked
<1>2. Held' = Held
  <2>1. CASE Filter
    <3>1. sorts' = sorts + 1 /\ Alone(requests, sorts + 1)
      BY <2>1 DEF Filter, Awaiting, UnderWay
    <3>2. sorts = 0 /\ sorts' # 0
      BY <1>0, <3>1 DEF Alone
    <3>3. sortedList' = searchList
      BY <2>1, <3>2 DEF Filter, ListsInv
    <3>4. QED  BY <3>2, <3>3 DEF Held
  <2>2. CASE Sorted
    <3>1. sorts' = sorts - 1 /\ sorts > 0 /\ searchList' = sortedList
          /\ UNCHANGED sortedList
      BY <2>2 DEF Sorted, Awaiting, UnderWay
    <3>2. QED  BY <1>0, <3>1 DEF Held
  <2>3. QED  BY <2>1, <2>2
<1>3. Alone(requests, sorts)'
  <2>1. \/ Alone(requests, sorts + 1) /\ sorts' = sorts + 1
        \/ Alone(requests, sorts - 1) /\ sorts' = sorts - 1
    BY DEF Filter, Sorted, Awaiting, UnderWay
  <2>2. QED  BY <1>1, <2>1 DEF Alone
<1>4. OwnCalls'
  BY <1>1, <1>3 DEF OwnCalls
<1>5. OwnResults'
  BY <1>1, <1>2 DEF OwnResults, messages
<1>6. QED  BY <1>4, <1>5

LEMMA NextSearch == SearchInv /\ ListsInv /\ TypesInv /\ [Next]_vars => SearchInv'
<1> SUFFICES ASSUME SearchInv, ListsInv, TypesInv, [Next]_vars,
                    searchText' # NoText, ~ crossed'
             PROVE  OwnCalls' /\ OwnResults'
  BY DEF SearchInv
<1>0. IsABag(requests) /\ BagToSet(EmptyBag) = {} /\ IsABag(EmptyBag)
  BY EmptyBagFacts DEF TypesInv, CallsTyped
<1>a. ASSUME UNCHANGED <<searchText, menuIcon, searchList, sortedList, requests, sorts,
                         crossed, internetError, noPrevGifts, noMatches, failed, retried>>
      PROVE  OwnCalls' /\ OwnResults'
  BY <1>a DEF SearchInv, OwnCalls, OwnResults, Alone, Held, Asked
<1>1. CASE StopTyping
  <2>1. CASE SearchNothing
    BY <2>1 DEF SearchNothing
  <2>2. QED  BY <1>1, <2>1, SearchBegins DEF StopTyping
<1>2. ASSUME NEW menu \in Menus, ChangeIcon(menu) PROVE OwnCalls' /\ OwnResults'
  BY <1>2, SearchBegins DEF ChangeIcon
<1>3. CASE \/ ToggleFilter \/ UNCHANGED vars
           \/ \E g \in Gifts : Toggle(g) \/ ViewGift(g)
           \/ \E value \in Texts \cup {NoText} : Type(value)
  BY <1>3, <1>a DEF ToggleFilter, vars, Toggle, ViewGift, Type, results, calls, messages
<1>4. CASE ScrollToEnd
  <2>1. UNCHANGED <<searchText, menuIcon, results, failed, retried>>
    BY <1>4 DEF ScrollToEnd
  <2>2. UNCHANGED <<calls, internetError, noPrevGifts, noMatches>>
    BY <1>4, <2>1 DEF ScrollToEnd, messages
  <2>3. QED  BY <1>a, <2>1, <2>2 DEF results, calls
<1>b. ASSUME NEW bag, NEW timers, Awaiting(bag, timers), UNCHANGED searchText
      PROVE  OwnCalls /\ OwnResults
  BY <1>b DEF Awaiting, SearchInv
<1>5. CASE Retry
  <2> DEFINE r == Call("retry", NoText, None, None)
  <2>1. /\ Awaiting(With(requests, r), sorts) /\ internetError
        /\ UNCHANGED <<searchText, menuIcon, results, messages, retried>>
    BY <1>5 DEF Retry
  <2>2. r.kind = "retry"
    BY DEF Call
  <2> HIDE DEF r
  <2>3. OwnCalls /\ OwnResults
    BY <1>b, <2>1
  <2>4. /\ IsABag(With(requests, r)) /\ BagToSet(With(requests, r)) = BagToSet(requests) \cup {r}
        /\ With(requests, r) # EmptyBag
    BY <1>0, WithFacts
  <2>5. QED  BY <2>1, <2>2, <2>3, <2>4, CallsOwn DEF results, messages
<1>6. CASE Filter \/ Sorted
  <2>1. OwnCalls /\ OwnResults
    BY <1>6, <1>b DEF Filter, Sorted
  <2>2. QED  BY <1>6, <2>1, FilterOwn
<1>7. ASSUME NEW r \in BagToSet(requests), RetryDue(r) PROVE OwnCalls' /\ OwnResults'
  <2> DEFINE check == Check(searchText)
  <2>1. /\ Awaiting(With(Answered(r), check), sorts)
        /\ retried' = TRUE
        /\ UNCHANGED <<searchText, menuIcon, results, messages>>
    BY <1>7 DEF RetryDue
  <2>2. check.kind = "check" /\ check.text = Asked'
    BY <2>1 DEF Check, Call, Asked
  <2> HIDE DEF check
  <2>3. OwnCalls /\ OwnResults
    BY <1>b, <2>1
  <2>4. Answered(r) = EmptyBag /\ requests # EmptyBag
    BY <2>3, OnlyCall
  <2>5. /\ IsABag(With(EmptyBag, check)) /\ BagToSet(With(EmptyBag, check)) = {check}
        /\ With(EmptyBag, check) # EmptyBag
    BY FirstCall
  <2>6. QED  BY <2>1, <2>2, <2>3, <2>4, <2>5, CallsOwn DEF results, messages
<1>8. ASSUME NEW r \in BagToSet(requests), Offline(r) \/ Fails(r)
      PROVE  OwnCalls' /\ OwnResults'
  <2>1. /\ Awaiting(Answered(r), sorts)
        /\ UNCHANGED <<searchText, menuIcon, results, noPrevGifts, noMatches, retried>>
        /\ internetError' \/ failed'
    BY <1>8 DEF Offline, Fails, messages
  <2>2. OwnCalls /\ OwnResults
    BY <1>b, <2>1
  <2>3. Answered(r) = EmptyBag /\ requests # EmptyBag
    BY <2>2, OnlyCall
  <2>4. QED  BY <1>0, <2>1, <2>2, <2>3, CallsOwn DEF results
<1>9. ASSUME NEW r \in BagToSet(requests), Online(r) PROVE OwnCalls' /\ OwnResults'
  <2>1. r.kind = "check" /\ UNCHANGED <<searchText, menuIcon, results, retried>>
    BY <1>9 DEF Online
  <2>2. OwnCalls /\ OwnResults
    BY <1>9, <1>b, <2>1 DEF Online, LoopOn
  <2>3. r.text = Asked /\ r.text # NoText /\ Asked' = Asked
    BY <2>1, <2>2 DEF OwnCalls, Asked, TypesInv, TextsTyped, Blank
  <2> DEFINE query == Call("query", r.text, menuIcon, None)
  <2>4. Awaiting(With(Answered(r), query), sorts) /\ UNCHANGED messages
    BY <1>9, <2>3 DEF Online
  <2>5. query.kind = "query" /\ query.text = Asked' /\ query.menu = menuIcon
    BY <2>3 DEF Call
  <2> HIDE DEF query
  <2>6. Answered(r) = EmptyBag /\ requests # EmptyBag
    BY <2>2, OnlyCall
  <2>7. /\ IsABag(With(EmptyBag, query)) /\ BagToSet(With(EmptyBag, query)) = {query}
        /\ With(EmptyBag, query) # EmptyBag
    BY FirstCall
  <2>8. QED  BY <2>1, <2>2, <2>4, <2>5, <2>6, <2>7, CallsOwn DEF results, messages
<1>10. ASSUME NEW r \in BagToSet(requests), ShowResults(r) PROVE OwnCalls' /\ OwnResults'
  <2>1. OwnCalls /\ OwnResults
    BY <1>10, <1>b DEF ShowResults
  <2>2. QED  BY <1>10, <2>1, ResultsOwn
<1>11. ASSUME NEW r \in BagToSet(requests), LookUp(r) PROVE FALSE
  <2>1. r.kind \in {"load", "more"} /\ UNCHANGED searchText
    BY <1>11 DEF LookUp
  <2>2. OwnCalls
    BY <1>11, <1>b, <2>1 DEF LookUp, LoopOn
  <2>3. QED  BY <2>1, <2>2 DEF OwnCalls
<1>12. QED
  BY <1>1, <1>2, <1>3, <1>4, <1>5, <1>6, <1>7, <1>8, <1>9, <1>10, <1>11 DEF Next

\* When no timer or call is left and none threw, nothing is loading; and a search
\* that met no other call or timer has what its text finds under the icon that is
\* shown, each gift once, whether it was filtered or started anew for another icon
\* in between: the text without the blanks around it, or with them once it was
\* retried (_loadData, _onChangeHandler, the filter's timer).
THEOREM FindsWhatMatches == Spec => []ResultsMatch
<1> DEFINE Inv == ListsInv /\ LoadingInv /\ SearchInv
<1>1. Init => Inv
  <2> SUFFICES ASSUME Init PROVE Inv
    OBVIOUS
  <2>1. ListsInv
    BY DEF Init, ListsInv
  <2>2. requests # EmptyBag
    <3>1. Check(NoText) \in BagToSet(requests)
      BY DEF Init, SetToBag, BagToSet
    <3>2. QED  BY <3>1, EmptyBagFacts
  <2>3. QED  BY <2>1, <2>2 DEF Init, LoadingInv, SearchInv
<1>2. Inv /\ TypesInv /\ [Next]_vars => Inv'
  BY NextLists, NextLoading, NextSearch
<1>3. Inv => ResultsMatch
  <2> SUFFICES ASSUME Inv, ~ typing, requests = EmptyBag, sorts = 0, ~ failed
               PROVE  /\ ~ showLoading
                      /\ searchText # NoText /\ ~ crossed /\ ~ internetError =>
                            /\ \A g \in BagToSet(searchList) : searchList[g] = 1
                            /\ \A g \in Gifts \ Fickle :
                                  g \in BagToSet(searchList) <=> g \in Found(Asked, menuIcon)
                            /\ noMatches <=> searchList = EmptyBag
                            /\ ~ noPrevGifts
    BY DEF ResultsMatch
  <2>1. ~ showLoading
    BY DEF LoadingInv
  <2>2. ASSUME searchText # NoText, ~ crossed, ~ internetError
        PROVE  /\ \A g \in BagToSet(searchList) : searchList[g] = 1
               /\ \A g \in Gifts \ Fickle :
                     g \in BagToSet(searchList) <=> g \in Matches[menuIcon][Asked]
               /\ noMatches <=> searchList = EmptyBag
               /\ ~ noPrevGifts
    <3>1. OwnResults /\ Held = searchList
      BY <2>2 DEF SearchInv, Held
    <3>2. QED  BY <2>2, <3>1 DEF OwnResults
  <2>3. \A g \in Gifts \ Fickle :
           g \in Found(Asked, menuIcon) <=> g \in Matches[menuIcon][Asked]
    BY DEF Found, ListsInv
  <2>4. QED  BY <2>1, <2>2, <2>3
<1>4. QED  BY <1>1, <1>2, <1>3, SearchHeld, PTL DEF Spec
=============================================================================
