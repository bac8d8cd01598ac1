--------------------------- MODULE Favourites_proof ---------------------------
(***************************************************************************)
(* Proofs about Favourites, for any users, gifts and pages, and any number *)
(* of sign-ins under way.                                                  *)
(***************************************************************************)
EXTENDS Favourites, SequenceTheorems, TLAPS

Steps == {"find", "code", "auth", "doc", "get", "set", "favs", "token"}

IsSignIn(in) ==
    /\ in = [user |-> in.user, step |-> in.step, at |-> in.at, to |-> in.to,
             alone |-> in.alone]
    /\ in.user \in Users /\ in.step \in Steps /\ in.alone \in BOOLEAN

IsSignOut(out) ==
    /\ out = [step |-> out.step, at |-> out.at, alone |-> out.alone]
    /\ out.step \in {"no", "wait", "auth"} /\ out.alone \in BOOLEAN

\* What the proof needs to know of the types: nothing of pages and lists.
CallsTyped ==
    /\ signins \in Seq(ToSet(signins))
    /\ \A i \in DOMAIN signins : IsSignIn(signins[i])
    /\ IsSignOut(signout)
    /\ crossed \in BOOLEAN

\* Who signed in by name has no session; it is that of someone before, or none.
ByName(u) == u # NoUser /\ KindOf[u] = "name" /\ (currentUser = NoUser \/ kept)

Agree == currentUser = uid \/ ByName(uid)

\* How far a sign-in of u that nothing disturbs has got when it awaits a call
Undisturbed(u, step) ==
    /\ step \in {"find", "code"} => KindOf[u] = "name"
    /\ step = "auth" => KindOf[u] # "name"
    /\ step = "doc" => KindOf[u] = "google" /\ currentUser = u
    /\ step = "get" => /\ KindOf[u] # "name" /\ currentUser = u
                       /\ KindOf[u] = "google" => uid = u
    /\ step = "set" => /\ currentUser = u
                       /\ KindOf[u] = "facebook" \/ uid = u
    /\ step \in {"favs", "token"} => uid = u /\ (currentUser = u \/ ByName(u))

\* Who is alone is the only one,
AloneInv ==
    \A i \in DOMAIN signins : signins[i].alone =>
        /\ Len(signins) = 1 /\ signout.step = "no"
        /\ Undisturbed(signins[i].user, signins[i].step)

OutInv ==
    signout.step # "no" /\ signout.alone =>
        signins = <<>> /\ (signout.step = "auth" => uid = NoUser)

\* and without a crossing everyone is; then session and preferences agree until
\* FirebaseAuth has answered.
CrossInv ==
    ~ crossed =>
        /\ \A i \in DOMAIN signins : signins[i].alone
        /\ signout.step # "no" => signout.alone
        /\ /\ signout.step # "auth"
           /\ \A i \in DOMAIN signins : signins[i].step \in {"find", "code", "auth"}
           => Agree

SessionInv == CallsTyped /\ AloneInv /\ OutInv /\ CrossInv

-----------------------------------------------------------------------------
(***************************************************************************)
(* Sequences and records                                                   *)
(***************************************************************************)
LEMMA OfItself ==
    ASSUME NEW S, NEW s \in Seq(S)
    PROVE  s \in Seq(ToSet(s))
<1>1. PICK n \in Nat : s \in [1 .. n -> S]
  BY SeqDef
<1>2. s \in [1 .. n -> ToSet(s)]
  BY <1>1 DEF ToSet
<1>3. QED  BY <1>2, SeqDef

LEMMA SameDomain ==
    ASSUME NEW S, NEW s \in Seq(S), NEW t, t = [i \in DOMAIN s |-> t[i]]
    PROVE  t \in Seq(ToSet(t)) /\ Len(t) = Len(s) /\ DOMAIN t = DOMAIN s
<1>1. DOMAIN s = 1 .. Len(s) /\ Len(s) \in Nat
  BY LenProperties
<1>2. \A i \in 1 .. Len(s) : t[i] \in ToSet(t)
  BY <1>1 DEF ToSet
<1>3. t \in [1 .. Len(s) -> ToSet(t)]
  BY <1>1, <1>2
<1>4. t \in Seq(ToSet(t))
  BY <1>1, <1>3, SeqDef
<1>5. QED  BY <1>1, <1>3, <1>4, LenProperties

LEMMA EmptyTyped == <<>> \in Seq(ToSet(<<>>)) /\ Len(<<>>) = 0 /\ DOMAIN <<>> = {}
BY EmptySeq

LEMMA AppendFacts ==
    ASSUME NEW S, NEW s \in Seq(S), NEW e
    PROVE  /\ Append(s, e) \in Seq(ToSet(Append(s, e)))
           /\ Len(s) \in Nat /\ Len(Append(s, e)) = Len(s) + 1
           /\ DOMAIN s = 1 .. Len(s) /\ DOMAIN Append(s, e) = 1 .. Len(s) + 1
           /\ \A i \in 1 .. Len(s) : Append(s, e)[i] = s[i]
           /\ Append(s, e)[Len(s) + 1] = e
<1>1. s \in Seq(S \cup {e}) /\ e \in S \cup {e}
  BY SeqDef
<1>2. /\ Append(s, e) \in Seq(S \cup {e})
      /\ Len(s) \in Nat /\ Len(Append(s, e)) = Len(s) + 1
      /\ DOMAIN s = 1 .. Len(s) /\ DOMAIN Append(s, e) = 1 .. Len(s) + 1
      /\ \A i \in 1 .. Len(s) : Append(s, e)[i] = s[i]
      /\ Append(s, e)[Len(s) + 1] = e
  BY <1>1, AppendProperties, LenProperties
<1>3. QED  BY <1>2, OfItself

\* One element is taken out: what follows it moves up by one place.
LEMMA RemoveAtPlaces ==
    ASSUME NEW S, NEW s \in Seq(S), NEW i \in DOMAIN s
    PROVE  /\ RemoveAt(s, i) \in Seq(S)
           /\ Len(s) \in Nat \ {0} /\ Len(RemoveAt(s, i)) = Len(s) - 1
           /\ \A j \in 1 .. Len(s) - 1 :
                 RemoveAt(s, i)[j] = IF j < i THEN s[j] ELSE s[j + 1]
<1> DEFINE left  == SubSeq(s, 1, i - 1)
           right == SubSeq(s, i + 1, Len(s))
           t     == RemoveAt(s, i)
<1>1. Len(s) \in Nat /\ DOMAIN s = 1 .. Len(s) /\ i \in 1 .. Len(s)
  BY LenProperties
<1>2. left \in Seq(S) /\ Len(left) = i - 1 /\ \A j \in 1 .. i - 1 : left[j] = s[j]
  <2>1. CASE i = 1
    BY <1>1, <2>1, SubSeqProperties, EmptySeq
  <2>2. CASE i # 1
    BY <1>1, <2>2, SubSeqProperties
  <2>3. QED  BY <2>1, <2>2
<1>3. /\ right \in Seq(S) /\ Len(right) = Len(s) - i
      /\ \A j \in 1 .. Len(s) - i : right[j] = s[i + j]
  <2>1. CASE i = Len(s)
    BY <1>1, <2>1, SubSeqProperties, EmptySeq
  <2>2. CASE i # Len(s)
    BY <1>1, <2>2, SubSeqProperties, SMTT(40)
  <2>3. QED  BY <2>1, <2>2
<1>4. t = left \o right
  BY DEF RemoveAt
<1>5. /\ t \in Seq(S) /\ Len(t) = Len(left) + Len(right)
      /\ \A j \in 1 .. Len(left) + Len(right) :
            t[j] = IF j <= Len(left) THEN left[j] ELSE right[j - Len(left)]
  <2> HIDE DEF left, right, t
  <2> QED  BY <1>2, <1>3, <1>4, ConcatProperties, SMTT(40)
<1>6. ASSUME NEW j \in 1 .. Len(s) - 1
      PROVE  t[j] = IF j < i THEN s[j] ELSE s[j + 1]
  <2> HIDE DEF left, right, t
  <2>1. CASE j < i
    BY <1>1, <1>2, <1>3, <1>5, <2>1, SMTT(40)
  <2>2. CASE ~ (j < i)
    <3>1. t[j] = right[j - (i - 1)] /\ j - (i - 1) \in 1 .. Len(s) - i
      BY <1>1, <1>2, <1>3, <1>5, <2>2, SMTT(40)
    <3>2. QED  BY <1>1, <1>3, <2>2, <3>1, SMTT(40)
  <2>3. QED  BY <2>1, <2>2
<1> HIDE DEF left, right, t
<1>7. Len(t) = Len(s) - 1
  BY <1>1, <1>2, <1>3, <1>5, SMTT(40)
<1>8. \A j \in 1 .. Len(s) - 1 : t[j] = IF j < i THEN s[j] ELSE s[j + 1]
  BY <1>6
<1>9. t \in Seq(S) /\ Len(s) \in Nat \ {0}
  BY <1>1, <1>5
<1>10. QED  BY <1>7, <1>8, <1>9 DEF t

\* A list without repetitions loses one element and keeps the others.
LEMMA RemoveFirstFacts ==
    ASSUME NEW S, NEW s \in Seq(S), IsInjective(s), NEW e \in ToSet(s)
    PROVE  /\ RemoveFirst(s, e) \in Seq(S) /\ IsInjective(RemoveFirst(s, e))
           /\ ToSet(RemoveFirst(s, e)) = ToSet(s) \ {e}
<1>0. Len(s) \in Nat /\ DOMAIN s = 1 .. Len(s)
  BY LenProperties
<1> DEFINE I == {k \in 1 .. Len(s) : s[k] = e}
           n == Min(I)
<1>1. PICK i \in 1 .. Len(s) : s[i] = e
  BY <1>0 DEF ToSet
<1>2. I = {i}
  BY <1>0, <1>1 DEF IsInjective
<1>3. n = i
  <2> HIDE DEF I
  <2> QED  BY <1>0, <1>2 DEF Min
<1>4. RemoveFirst(s, e) = RemoveAt(s, i)
  <2>1. RemoveFirst(s, e) = RemoveAt(s, SelectInSeq(s, LAMBDA v : v = e))
    BY <1>1 DEF RemoveFirst
  <2>2. SelectInSeq(s, LAMBDA v : v = e) = n
    BY <1>1 DEF SelectInSeq
  <2>3. QED  BY <1>3, <2>1, <2>2
<1> DEFINE t == RemoveAt(s, i)
<1>5. /\ t \in Seq(S) /\ Len(s) \in Nat \ {0} /\ Len(t) = Len(s) - 1
      /\ \A j \in 1 .. Len(s) - 1 : t[j] = IF j < i THEN s[j] ELSE s[j + 1]
  BY <1>0, <1>1, RemoveAtPlaces
<1> HIDE DEF t
<1>6. DOMAIN t = 1 .. Len(s) - 1
  BY <1>5, LenProperties
<1>7. IsInjective(t)
  <2> SUFFICES ASSUME NEW a \in DOMAIN t, NEW b \in DOMAIN t, a # b, a < b
               PROVE  t[a] # t[b]
    BY <1>6 DEF IsInjective
  <2>1. t[a] = s[IF a < i THEN a ELSE a + 1] /\ t[b] = s[IF b < i THEN b ELSE b + 1]
    BY <1>5, <1>6
  <2>2. QED  BY <1>0, <1>6, <2>1 DEF IsInjective
<1>8. ToSet(t) = ToSet(s) \ {e}
  <2>1. ASSUME NEW j \in DOMAIN t PROVE t[j] \in ToSet(s) \ {e}
    <3>1. CASE j < i
      BY <1>0, <1>1, <1>5, <1>6, <2>1, <3>1 DEF ToSet, IsInjective
    <3>2. CASE ~ (j < i)
      <4>1. t[j] = s[j + 1] /\ j + 1 \in DOMAIN s /\ j + 1 # i
        BY <1>0, <1>1, <1>5, <1>6, <2>1, <3>2
      <4>2. QED  BY <1>0, <1>1, <4>1 DEF ToSet, IsInjective
    <3>3. QED  BY <3>1, <3>2
  <2>2. ASSUME NEW k \in DOMAIN s, s[k] # e PROVE s[k] \in ToSet(t)
    <3>1. CASE k < i
      <4>1. k \in DOMAIN t /\ t[k] = s[k]
        BY <1>0, <1>1, <1>5, <1>6, <3>1
      <4>2. QED  BY <4>1 DEF ToSet
    <3>2. CASE k > i
      <4>1. k - 1 \in DOMAIN t /\ t[k - 1] = s[k]
        BY <1>0, <1>1, <1>5, <1>6, <3>2
      <4>2. QED  BY <4>1 DEF ToSet
    <3>3. QED  BY <1>0, <1>1, <2>2, <3>1, <3>2
  <2>3. QED  BY <2>1, <2>2 DEF ToSet
<1>9. QED  BY <1>4, <1>5, <1>7, <1>8 DEF t

LEMMA AppendedFacts ==
    ASSUME NEW S, NEW s \in Seq(S), NEW e \in S
    PROVE  /\ Append(s, e) \in Seq(S) /\ ToSet(Append(s, e)) = ToSet(s) \cup {e}
           /\ IsInjective(s) /\ e \notin ToSet(s) => IsInjective(Append(s, e))
<1> DEFINE t == Append(s, e)
<1>1. /\ t \in Seq(S) /\ Len(s) \in Nat /\ Len(t) = Len(s) + 1
      /\ DOMAIN s = 1 .. Len(s) /\ DOMAIN t = 1 .. Len(s) + 1
      /\ \A i \in 1 .. Len(s) : t[i] = s[i]
      /\ t[Len(s) + 1] = e
  BY AppendProperties, LenProperties
<1> HIDE DEF t
<1>2. ToSet(t) = ToSet(s) \cup {e}
  BY <1>1 DEF ToSet
<1>3. IsInjective(s) /\ e \notin ToSet(s) => IsInjective(t)
  BY <1>1 DEF ToSet, IsInjective
<1>4. QED  BY <1>1, <1>2, <1>3 DEF t

LEMMA ReverseFacts ==
    ASSUME NEW S, NEW s \in Seq(S)
    PROVE  /\ Reverse(s) \in Seq(S) /\ DOMAIN Reverse(s) = DOMAIN s
           /\ ToSet(Reverse(s)) = ToSet(s)
           /\ IsInjective(s) => IsInjective(Reverse(s))
           /\ Len(Reverse(s)) = Len(s)
<1> DEFINE t == Reverse(s)
<1>1. Len(s) \in Nat /\ DOMAIN s = 1 .. Len(s)
  BY LenProperties
<1>2. t = [i \in 1 .. Len(s) |-> s[(Len(s) - i) + 1]]
  BY DEF Reverse
<1>3. \A i \in 1 .. Len(s) : (Len(s) - i) + 1 \in 1 .. Len(s) /\ s[(Len(s) - i) + 1] \in S
  BY <1>1, ElementOfSeq
<1>4. t \in [1 .. Len(s) -> S] /\ DOMAIN t = 1 .. Len(s)
  BY <1>2, <1>3
<1> HIDE DEF t
<1>5. t \in Seq(S) /\ Len(t) = Len(s)
  BY <1>1, <1>4, SeqDef, LenProperties
<1>6. ToSet(t) = ToSet(s)
  <2>1. \A i \in DOMAIN t : t[i] \in ToSet(s)
    BY <1>1, <1>2, <1>3, <1>4 DEF ToSet
  <2>2. ASSUME NEW k \in DOMAIN s PROVE s[k] \in ToSet(t)
    <3>1. (Len(s) - k) + 1 \in DOMAIN t /\ (Len(s) - ((Len(s) - k) + 1)) + 1 = k
      BY <1>1, <1>4
    <3>2. t[(Len(s) - k) + 1] = s[k]
      BY <1>2, <1>4, <3>1
    <3>3. QED  BY <3>1, <3>2 DEF ToSet
  <2>3. QED  BY <2>1, <2>2 DEF ToSet
<1>7. IsInjective(s) => IsInjective(t)
  BY <1>1, <1>2, <1>3, <1>4 DEF IsInjective
<1>8. QED  BY <1>1, <1>4, <1>5, <1>6, <1>7 DEF t

LEMMA FrontFacts ==
    ASSUME NEW S, NEW s \in Seq(S), s # <<>>
    PROVE  /\ Front(s) \in Seq(S) /\ Len(Front(s)) = Len(s) - 1
           /\ Len(s) \in Nat \ {0} /\ DOMAIN Front(s) = 1 .. Len(s) - 1
           /\ \A i \in 1 .. Len(s) - 1 : Front(s)[i] = s[i]
<1>1. Len(s) \in Nat \ {0} /\ Front(s) = SubSeq(s, 1, Len(s) - 1)
  BY EmptySeq, LenProperties DEF Front
<1>2. PICK n \in Nat : n = Len(s) - 1
  BY <1>1, SMTT(40)
<1>3. \A i \in 1 .. n : s[i] \in S
  BY <1>1, <1>2, ElementOfSeq
<1> DEFINE t == SubSeq(s, 1, n)
<1>4. t \in Seq(S) /\ Len(t) = n /\ \A i \in 1 .. n : t[i] = s[i]
  BY <1>3, SubSeqProperties
<1>5. DOMAIN t = 1 .. n
  BY <1>4, LenProperties
<1>6. Front(s) = t
  BY <1>1, <1>2
<1> HIDE DEF t
<1>7. QED  BY <1>1, <1>2, <1>4, <1>5, <1>6

LEMMA RemoveAtFacts ==
    ASSUME NEW S, NEW s \in Seq(S), NEW i \in DOMAIN s
    PROVE  /\ RemoveAt(s, i) \in Seq(ToSet(RemoveAt(s, i)))
           /\ Len(s) \in Nat \ {0} /\ Len(RemoveAt(s, i)) = Len(s) - 1
           /\ DOMAIN RemoveAt(s, i) = 1 .. Len(s) - 1
           /\ \A j \in 1 .. Len(s) - 1 : \E k \in DOMAIN s : RemoveAt(s, i)[j] = s[k]
<1> DEFINE t == RemoveAt(s, i)
<1>1. /\ t \in Seq(S) /\ Len(s) \in Nat \ {0} /\ Len(t) = Len(s) - 1
      /\ \A j \in 1 .. Len(s) - 1 : t[j] = IF j < i THEN s[j] ELSE s[j + 1]
  BY RemoveAtPlaces
<1> HIDE DEF t
<1>2. DOMAIN t = 1 .. Len(s) - 1 /\ DOMAIN s = 1 .. Len(s)
  BY <1>1, LenProperties
<1>3. \A j \in 1 .. Len(s) - 1 : \E k \in DOMAIN s : t[j] = s[k]
  BY <1>1, <1>2, SMTT(40)
<1>4. t \in Seq(ToSet(t))
  BY <1>1, OfItself
<1>5. QED  BY <1>1, <1>2, <1>3, <1>4 DEF t

LEMMA Stepped ==
    ASSUME NEW in, IsSignIn(in), NEW step \in Steps, NEW q, q = [in EXCEPT !.step = step]
    PROVE  IsSignIn(q) /\ q.user = in.user /\ q.step = step /\ q.alone = in.alone
BY DEF IsSignIn

-----------------------------------------------------------------------------
(***************************************************************************)
(* What the steps of a sign-in keep                                        *)
(***************************************************************************)
\* Pages move, are covered or go; everyone goes on.
LEMMA MoveKeeps ==
    ASSUME SessionInv, CallsTyped', DOMAIN signins' = DOMAIN signins,
           Len(signins') = Len(signins),
           \A i \in DOMAIN signins :
              /\ signins'[i].user = signins[i].user
              /\ signins'[i].step = signins[i].step
              /\ signins'[i].alone = signins[i].alone,
           signout'.step = signout.step, signout'.alone = signout.alone,
           UNCHANGED <<session, crossed, kept>>
    PROVE  SessionInv'
<1>1. signins = <<>> => signins' = <<>>
  BY EmptySeq, EmptyTyped DEF CallsTyped
<1>2. UNCHANGED <<currentUser, uid, crossed, kept>>
  BY DEF session
<1>3. AloneInv'
  BY <1>2 DEF SessionInv, AloneInv, Undisturbed, ByName
<1>4. OutInv'
  BY <1>1, <1>2 DEF SessionInv, OutInv
<1>5. CrossInv'
  BY <1>2 DEF SessionInv, CrossInv, Agree, ByName
<1>6. QED  BY <1>3, <1>4, <1>5 DEF SessionInv

\* A sign-in goes on to its next call, past the session's beginning.
LEMMA StepKeeps ==
    ASSUME SessionInv, NEW i \in DOMAIN signins,
           NEW step \in Steps \ {"find", "code", "auth"}, GoTo(i, step),
           UNCHANGED <<signout, crossed>>,
           NEW u, u = signins[i].user,
           signins[i].alone => Undisturbed(u, step)'
    PROVE  SessionInv'
<1>0. signins \in Seq(ToSet(signins))
  BY DEF SessionInv, CallsTyped
<1>1. /\ signins' = [signins EXCEPT ![i] = [signins[i] EXCEPT !.step = step]]
      /\ DOMAIN signins' = DOMAIN signins
  BY DEF GoTo
<1>2. signins' \in Seq(ToSet(signins')) /\ Len(signins') = Len(signins)
  BY <1>0, <1>1, SameDomain
<1>3. DOMAIN signins = 1 .. Len(signins) /\ Len(signins) \in Nat
  BY <1>0, LenProperties
<1>4. /\ IsSignIn(signins'[i]) /\ signins'[i].user = u
      /\ signins'[i].step = step /\ signins'[i].alone = signins[i].alone
  BY <1>1, Stepped DEF SessionInv, CallsTyped
<1>5. \A j \in DOMAIN signins : j # i => signins'[j] = signins[j]
  BY <1>1
<1>6. CallsTyped'
  BY <1>1, <1>2, <1>4, <1>5 DEF SessionInv, CallsTyped
<1>7. ASSUME NEW j \in DOMAIN signins', signins'[j].alone
      PROVE  /\ Len(signins') = 1 /\ signout'.step = "no"
             /\ Undisturbed(signins[j].user, signins[j].step)'
  <2>1. signins[j].alone
    BY <1>1, <1>4, <1>5, <1>7
  <2>2. Len(signins) = 1 /\ signout.step = "no"
    BY <1>1, <2>1 DEF SessionInv, AloneInv
  <2>3. j = i
    BY <1>1, <1>3, <2>2
  <2>4. Undisturbed(u, step)'
    BY <2>1, <2>3
  <2>5. QED  BY <1>2, <1>4, <2>2, <2>3, <2>4 DEF Undisturbed, ByName
<1>8. AloneInv'
  BY <1>7 DEF AloneInv
<1>9. OutInv'
  BY EmptyTyped DEF SessionInv, OutInv
<1>10. CrossInv'
  <2>1. ~ crossed => \A j \in DOMAIN signins' : signins'[j].alone
    BY <1>1, <1>4, <1>5 DEF SessionInv, CrossInv
  <2>2. signins'[i].step \notin {"find", "code", "auth"}
    BY <1>4
  <2>3. QED  BY <1>1, <2>1, <2>2 DEF SessionInv, CrossInv
<1>11. QED  BY <1>6, <1>8, <1>9, <1>10 DEF SessionInv

\* A sign-in ends: the others are those there were.
LEMMA Fewer ==
    ASSUME CallsTyped, NEW i \in DOMAIN signins, NEW rest, rest = RemoveAt(signins, i)
    PROVE  /\ rest \in Seq(ToSet(rest))
           /\ \A j \in DOMAIN rest : /\ IsSignIn(rest[j])
                                     /\ \E k \in DOMAIN signins : rest[j] = signins[k]
           /\ Len(signins) = 1 => rest = <<>>
<1>0. signins \in Seq(ToSet(signins))
  BY DEF CallsTyped
<1>1. /\ rest \in Seq(ToSet(rest))
      /\ Len(rest) = Len(signins) - 1 /\ Len(signins) \in Nat \ {0}
      /\ DOMAIN rest = 1 .. Len(signins) - 1
      /\ \A j \in 1 .. Len(signins) - 1 : \E k \in DOMAIN signins : rest[j] = signins[k]
  <2>1. /\ RemoveAt(signins, i) \in Seq(ToSet(RemoveAt(signins, i)))
        /\ Len(signins) \in Nat \ {0} /\ Len(RemoveAt(signins, i)) = Len(signins) - 1
        /\ DOMAIN RemoveAt(signins, i) = 1 .. Len(signins) - 1
        /\ \A j \in 1 .. Len(signins) - 1 :
              \E k \in DOMAIN signins : RemoveAt(signins, i)[j] = signins[k]
    BY <1>0, RemoveAtFacts, Zenon
  <2>2. QED  BY <2>1
<1>2. Len(signins) = 1 => rest = <<>>
  BY <1>1, EmptySeq
<1>3. ASSUME NEW j \in DOMAIN rest
      PROVE  IsSignIn(rest[j]) /\ \E k \in DOMAIN signins : rest[j] = signins[k]
  <2>1. PICK k \in DOMAIN signins : rest[j] = signins[k]
    BY <1>1
  <2>2. QED  BY <2>1 DEF CallsTyped
<1>4. QED  BY <1>1, <1>2, <1>3

\* One that was not alone leaves others that were not: nothing is said of them.
LEMMA CrossedKeeps ==
    ASSUME CallsTyped', crossed', \A j \in DOMAIN signins' : ~ signins'[j].alone,
           signout'.step # "no" => ~ signout'.alone
    PROVE  SessionInv'
BY DEF SessionInv, AloneInv, OutInv, CrossInv

\* The last of them is gone, and nobody signs out.
LEMMA IdleKeeps ==
    ASSUME CallsTyped', signins' = <<>>, signout'.step = "no", ~ crossed' => Agree'
    PROVE  SessionInv'
BY EmptyTyped DEF SessionInv, AloneInv, OutInv, CrossInv

\* A new home page covers the pages of those under way, or leaves them as they are.
LEMMA CoveredTyped ==
    ASSUME NEW s, s \in Seq(ToSet(s)), \A j \in DOMAIN s : IsSignIn(s[j]),
           NEW t, \/ t = s
                  \/ t = [j \in DOMAIN s |-> [s[j] EXCEPT !.at = Covered(@)]]
    PROVE  /\ t \in Seq(ToSet(t)) /\ DOMAIN t = DOMAIN s /\ Len(t) = Len(s)
           /\ \A j \in DOMAIN s : /\ IsSignIn(t[j]) /\ t[j].user = s[j].user
                                  /\ t[j].step = s[j].step /\ t[j].alone = s[j].alone
<1>1. CASE t = s
  BY <1>1
<1>2. CASE t = [j \in DOMAIN s |-> [s[j] EXCEPT !.at = Covered(@)]]
  <2>1. t = [j \in DOMAIN s |-> t[j]]
    BY <1>2
  <2>2. t \in Seq(ToSet(t)) /\ DOMAIN t = DOMAIN s /\ Len(t) = Len(s)
    BY <2>1, SameDomain
  <2>3. ASSUME NEW j \in DOMAIN s
        PROVE  /\ IsSignIn(t[j]) /\ t[j].user = s[j].user
               /\ t[j].step = s[j].step /\ t[j].alone = s[j].alone
    <3>1. PICK at : at = Covered(s[j].at)
      OBVIOUS
    <3>2. IsSignIn(s[j]) /\ t[j] = [s[j] EXCEPT !.at = at]
      BY <1>2, <3>1
    <3>3. QED  BY <3>2 DEF IsSignIn
  <2>4. QED  BY <2>2, <2>3
<1>3. QED  BY <1>1, <1>2

\* The end of a sign-in
LEMMA LeaveKeeps ==
    ASSUME SessionInv, NEW i \in DOMAIN signins, NEW pgs, Leave(i, pgs),
           signins[i].alone => Agree'
    PROVE  SessionInv'
<1> DEFINE rest == RemoveAt(signins, i)
<1>0. CallsTyped /\ IsSignOut(signout) /\ IsSignIn(signins[i]) /\ crossed \in BOOLEAN
  BY DEF SessionInv, CallsTyped
<1>1. /\ rest \in Seq(ToSet(rest))
      /\ \A j \in DOMAIN rest : /\ IsSignIn(rest[j])
                                /\ \E k \in DOMAIN signins : rest[j] = signins[k]
      /\ Len(signins) = 1 => rest = <<>>
  BY <1>0, Fewer
<1>2. \/ signins' = rest
      \/ signins' = [j \in DOMAIN rest |-> [rest[j] EXCEPT !.at = Covered(@)]]
  BY DEF Leave
<1>3. crossed' = (crossed /\ ~ signins[i].alone)
  BY DEF Leave
<1>4. \/ signout' = signout
      \/ signout' = [signout EXCEPT !.at = Covered(@)]
  BY DEF Leave
<1>5. IsSignOut(signout') /\ signout'.step = signout.step /\ signout'.alone = signout.alone
  <2>1. PICK at : at = Covered(signout.at)
    OBVIOUS
  <2>2. signout' = signout \/ signout' = [signout EXCEPT !.at = at]
    BY <1>4, <2>1
  <2>3. QED  BY <1>0, <2>2 DEF IsSignOut
<1> HIDE DEF rest
<1>6. /\ signins' \in Seq(ToSet(signins')) /\ DOMAIN signins' = DOMAIN rest
      /\ Len(signins') = Len(rest)
      /\ \A j \in DOMAIN rest : /\ IsSignIn(signins'[j])
                                /\ signins'[j].alone = rest[j].alone
  BY <1>1, <1>2, CoveredTyped
<1>7. CallsTyped'
  BY <1>0, <1>3, <1>5, <1>6 DEF CallsTyped, IsSignIn
<1>8. CASE signins[i].alone
  <2>1. Len(signins) = 1 /\ signout.step = "no"
    BY <1>8 DEF SessionInv, AloneInv
  <2>2. signins' = <<>>
    BY <1>1, <1>6, <2>1, EmptySeq, EmptyTyped
  <2>3. QED  BY <1>5, <1>7, <1>8, <2>1, <2>2, IdleKeeps
<1>9. CASE ~ signins[i].alone
  <2>1. ASSUME NEW k \in DOMAIN signins PROVE ~ signins[k].alone
    <3>1. SUFFICES ASSUME signins[k].alone PROVE FALSE
      OBVIOUS
    <3>2. Len(signins) = 1
      BY <3>1 DEF SessionInv, AloneInv
    <3>3. DOMAIN signins = 1 .. Len(signins)
      BY <1>0, LenProperties DEF CallsTyped
    <3>4. k = i
      BY <3>2, <3>3
    <3>5. QED  BY <1>9, <3>1, <3>4
  <2>2. crossed
    BY <1>9 DEF SessionInv, CrossInv
  <2>3. crossed'
    BY <1>3, <1>9, <2>2
  <2>4. ASSUME NEW j \in DOMAIN signins' PROVE ~ signins'[j].alone
    BY <1>1, <1>6, <2>1
  <2>5. signout'.step # "no" => ~ signout'.alone
    <3>1. signins # <<>>
      BY EmptyTyped
    <3>2. QED  BY <1>5, <3>1 DEF SessionInv, OutInv
  <2>6. QED  BY <1>7, <2>3, <2>4, <2>5, CrossedKeeps
<1>10. QED  BY <1>8, <1>9

\* A call of a sign-in that is not its last
LEMMA NextCallKeeps ==
    ASSUME SessionInv, NEW i \in 1 .. MaxSignIns,
           \/ Find(i) \/ Auth(i) \/ Verified(i) \/ Merged(i) \/ Known(i) \/ New(i)
    PROVE  SessionInv'
<1>0. i \in DOMAIN signins
  BY DEF Find, Auth, Verified, Merged, Known, New, At
<1>1. IsSignIn(signins[i]) /\ signins[i].user \in Users
  BY <1>0 DEF SessionInv, CallsTyped, IsSignIn
<1>2. PICK u \in Users : u = signins[i].user
  BY <1>1
<1>3. KindOf[u] \in Kinds
  BY UsersAssumption
<1>4. signins[i].alone => Undisturbed(u, signins[i].step)
  BY <1>0, <1>2 DEF SessionInv, AloneInv
<1>5. {"doc", "get", "set", "favs"} \subseteq Steps \ {"find", "code", "auth"}
  BY DEF Steps
<1>6. CASE Find(i)
  <2>1. /\ GoTo(i, "favs") /\ uid' = u /\ UNCHANGED <<currentUser, signout, crossed>>
        /\ kept' = (currentUser # NoUser) /\ signins[i].step = "find"
    BY <1>2, <1>6 DEF Find, SetUid, At
  <2>2. signins[i].alone => Undisturbed(u, "favs")'
    <3>1. u # NoUser
      BY UsersAssumption
    <3>2. currentUser' = NoUser \/ kept'
      BY <2>1
    <3>3. QED  BY <1>4, <2>1, <3>1, <3>2 DEF Undisturbed, ByName
  <2>3. QED  BY <1>0, <1>2, <1>5, <2>1, <2>2, StepKeeps
<1>7. CASE Auth(i)
  <2>1. /\ currentUser' = u /\ UNCHANGED <<uid, signout, crossed>>
        /\ \/ KindOf[u] = "google" /\ GoTo(i, "doc")
           \/ KindOf[u] # "google" /\ GoTo(i, "get")
    BY <1>2, <1>7 DEF Auth
  <2>2. CASE KindOf[u] = "google"
    <3>1. GoTo(i, "doc") /\ (signins[i].alone => Undisturbed(u, "doc")')
      BY <2>1, <2>2 DEF Undisturbed
    <3>2. QED  BY <1>0, <1>2, <1>5, <2>1, <3>1, StepKeeps
  <2>3. CASE KindOf[u] # "google"
    <3>1. GoTo(i, "get") /\ (signins[i].alone => Undisturbed(u, "get")')
      BY <1>4, <1>7, <2>1, <2>3 DEF Auth, At, Undisturbed
    <3>2. QED  BY <1>0, <1>2, <1>5, <2>1, <3>1, StepKeeps
  <2>4. QED  BY <2>2, <2>3
<1>8. CASE Verified(i)
  <2>1. GoTo(i, "set") /\ uid' = u /\ currentUser' = u /\ UNCHANGED <<signout, crossed>>
    BY <1>2, <1>8 DEF Verified, SetUid
  <2>2. signins[i].alone => Undisturbed(u, "set")'
    BY <2>1 DEF Undisturbed
  <2>3. QED  BY <1>0, <1>2, <1>5, <2>1, <2>2, StepKeeps
<1>9. CASE Merged(i)
  <2>1. GoTo(i, "get") /\ uid' = u /\ UNCHANGED <<currentUser, signout, crossed>>
    BY <1>2, <1>9 DEF Merged, SetUid
  <2>2. signins[i].alone => Undisturbed(u, "get")'
    BY <1>4, <1>9, <2>1 DEF Merged, At, Undisturbed
  <2>3. QED  BY <1>0, <1>2, <1>5, <2>1, <2>2, StepKeeps
<1>10. CASE Known(i)
  <2>1. /\ GoTo(i, "favs") /\ uid' = u
        /\ UNCHANGED <<currentUser, signout, crossed, kept>>
    BY <1>2, <1>10 DEF Known, SetUid
  <2>2. signins[i].alone => Undisturbed(u, "favs")'
    BY <1>4, <1>10, <2>1 DEF Known, At, Undisturbed
  <2>3. QED  BY <1>0, <1>2, <1>5, <2>1, <2>2, StepKeeps
<1>11. CASE New(i)
  <2>1. /\ GoTo(i, "set") /\ UNCHANGED <<currentUser, signout, crossed>>
        /\ uid' = IF KindOf[u] = "apple" THEN u ELSE uid
    BY <1>2, <1>11 DEF New, SetUid
  <2>2. signins[i].alone => Undisturbed(u, "set")'
    BY <1>3, <1>4, <1>11, <2>1 DEF New, At, Undisturbed, Kinds
  <2>3. QED  BY <1>0, <1>2, <1>5, <2>1, <2>2, StepKeeps
<1>12. QED  BY <1>6, <1>7, <1>8, <1>9, <1>10, <1>11

\* The last call of a sign-in
LEMMA LastCallKeeps ==
    ASSUME SessionInv, NEW i \in 1 .. MaxSignIns,
           Stored(i) \/ ReadFavourites(i) \/ TokenStored(i)
    PROVE  SessionInv'
<1>0. i \in DOMAIN signins
  BY DEF Stored, ReadFavourites, TokenStored, At
<1>1. IsSignIn(signins[i]) /\ signins[i].user \in Users
  BY <1>0 DEF SessionInv, CallsTyped, IsSignIn
<1>2. PICK u \in Users : u = signins[i].user
  BY <1>1
<1>3. signins[i].alone => Undisturbed(u, signins[i].step)
  BY <1>0, <1>2 DEF SessionInv, AloneInv
<1>4. CASE Stored(i)
  <2>1. /\ signins[i].step = "set" /\ UNCHANGED <<currentUser, kept>> /\ Leave(i, stack)
        /\ uid' = IF KindOf[u] = "facebook" THEN u ELSE uid
    BY <1>2, <1>4 DEF Stored, At
  <2>2. signins[i].alone => Agree'
    BY <1>3, <2>1 DEF Undisturbed, Agree, ByName
  <2>3. QED  BY <1>0, <2>1, <2>2, LeaveKeeps
<1>5. CASE TokenStored(i)
  <2>1. /\ signins[i].step = "token" /\ Leave(i, stack)
        /\ UNCHANGED <<currentUser, uid, kept>>
    BY <1>5 DEF TokenStored, At
  <2>2. signins[i].alone => Agree'
    BY <1>3, <2>1 DEF Undisturbed, Agree, ByName
  <2>3. QED  BY <1>0, <2>1, <2>2, LeaveKeeps
<1>6. CASE ReadFavourites(i)
  <2>1. signins[i].step = "favs" /\ UNCHANGED <<currentUser, uid, kept>>
    BY <1>6 DEF ReadFavourites, At
  <2>2. CASE KindOf[u] = "name"
    <3>1. GoTo(i, "token") /\ UNCHANGED <<signout, crossed>>
      BY <1>2, <1>6, <2>2 DEF ReadFavourites
    <3>2. signins[i].alone => Undisturbed(u, "token")'
      BY <1>3, <2>1 DEF Undisturbed, ByName
    <3>3. QED  BY <1>0, <1>2, <3>1, <3>2, StepKeeps DEF Steps
  <2>3. CASE KindOf[u] # "name"
    <3>1. PICK pgs : Leave(i, pgs)
      BY <1>2, <1>6, <2>3 DEF ReadFavourites
    <3>2. signins[i].alone => Agree'
      BY <1>3, <2>1 DEF Undisturbed, Agree, ByName
    <3>3. QED  BY <1>0, <3>1, <3>2, LeaveKeeps
  <2>4. QED  BY <2>2, <2>3
<1>7. QED  BY <1>4, <1>5, <1>6

\* A sign-in that fails halfway is a crossing; one that fails before has changed
\* nothing, and one that fails later has set both.
LEMMA FailureKeeps ==
    ASSUME SessionInv, NEW i \in 1 .. MaxSignIns, SignInFails(i)
    PROVE  SessionInv'
<1>0. /\ i \in DOMAIN signins /\ signins' = RemoveAt(signins, i)
      /\ crossed' = (crossed \/ Halfway(signins[i]))
      /\ UNCHANGED <<currentUser, uid, kept, signout>>
  BY DEF SignInFails, session
<1>1. /\ signins' \in Seq(ToSet(signins'))
      /\ \A j \in DOMAIN signins' : /\ IsSignIn(signins'[j])
                                    /\ \E k \in DOMAIN signins : signins'[j] = signins[k]
      /\ Len(signins) = 1 => signins' = <<>>
  BY <1>0, Fewer DEF SessionInv
<1>2. IsSignIn(signins[i]) /\ signins[i].alone \in BOOLEAN /\ signins[i].step \in Steps
  BY <1>0 DEF SessionInv, CallsTyped, IsSignIn
<1>3. CallsTyped'
  BY <1>0, <1>1 DEF SessionInv, CallsTyped, Halfway
<1>4. CASE signins[i].alone
  <2>1. /\ Len(signins) = 1 /\ signout.step = "no"
        /\ Undisturbed(signins[i].user, signins[i].step)
    BY <1>0, <1>4 DEF SessionInv, AloneInv
  <2>2. ASSUME ~ crossed' PROVE Agree'
    <3>1. ~ crossed /\ ~ Halfway(signins[i])
      BY <1>0, <2>2
    <3>2. CASE signins[i].step \in {"find", "code", "auth"}
      <4>1. \A k \in DOMAIN signins : k = i
        BY <1>0, <2>1, LenProperties DEF SessionInv, CallsTyped
      <4>2. Agree
        BY <2>1, <3>1, <3>2, <4>1 DEF SessionInv, CrossInv
      <4>3. QED  BY <1>0, <4>2 DEF Agree, ByName
    <3>3. CASE signins[i].step \notin {"find", "code", "auth"}
      BY <1>0, <1>2, <2>1, <3>1, <3>3 DEF Steps, Halfway, Undisturbed, Agree, ByName
    <3>4. QED  BY <3>2, <3>3
  <2>3. QED  BY <1>0, <1>1, <1>3, <2>1, <2>2, IdleKeeps
<1>5. CASE ~ signins[i].alone
  <2>1. \A k \in DOMAIN signins : ~ signins[k].alone
    BY <1>0, <1>5, LenProperties DEF SessionInv, AloneInv, CallsTyped
  <2>2. crossed'
    BY <1>0, <1>5 DEF SessionInv, CrossInv
  <2>3. \A j \in DOMAIN signins' : ~ signins'[j].alone
    BY <1>1, <2>1
  <2>4. signout'.step # "no" => ~ signout'.alone
    BY <1>0, EmptyTyped DEF SessionInv, OutInv
  <2>5. QED  BY <1>3, <2>2, <2>3, <2>4, CrossedKeeps
<1>6. QED  BY <1>4, <1>5

-----------------------------------------------------------------------------
(***************************************************************************)
(* Beginnings, signing out, restarts                                       *)
(***************************************************************************)
LEMMA AccompaniedTyped ==
    ASSUME NEW s, s \in Seq(ToSet(s)), \A j \in DOMAIN s : IsSignIn(s[j]),
           NEW t, t = Accompanied(s)
    PROVE  /\ t \in Seq(ToSet(t)) /\ DOMAIN t = DOMAIN s /\ Len(t) = Len(s)
           /\ \A j \in DOMAIN s : /\ IsSignIn(t[j]) /\ ~ t[j].alone
<1>1. t = [j \in DOMAIN s |-> t[j]]
  BY DEF Accompanied
<1>2. t \in Seq(ToSet(t)) /\ DOMAIN t = DOMAIN s /\ Len(t) = Len(s)
  BY <1>1, SameDomain
<1>3. ASSUME NEW j \in DOMAIN s PROVE IsSignIn(t[j]) /\ ~ t[j].alone
  <2>1. IsSignIn(s[j]) /\ t[j] = [s[j] EXCEPT !.alone = FALSE]
    BY DEF Accompanied
  <2>2. QED  BY <2>1 DEF IsSignIn
<1>4. QED  BY <1>2, <1>3

LEMMA BeginKeeps ==
    ASSUME SessionInv, NEW u \in Users, Begin(u)
    PROVE  SessionInv'
<1> DEFINE before == Accompanied(signins)
           alone  == signins = <<>> /\ signout.step = "no"
           to     == IF FirstStep(u) = "code" THEN NoGift ELSE Last(stack).gift
           in     == [user |-> u, step |-> FirstStep(u), at |-> Len(stack), to |-> to,
                      alone |-> alone]
           n      == Len(signins)
<1>1. /\ signins' = Append(before, in) /\ crossed' = (crossed \/ ~ alone)
      /\ signout' = [signout EXCEPT !.alone = signout.step = "no"]
      /\ UNCHANGED <<currentUser, uid, kept>>
  BY DEF Begin, session
<1>2. /\ before \in Seq(ToSet(before)) /\ Len(before) = n /\ n \in Nat
      /\ DOMAIN before = 1 .. n
      /\ \A j \in 1 .. n : IsSignIn(before[j]) /\ ~ before[j].alone
  BY AccompaniedTyped, LenProperties DEF SessionInv, CallsTyped
<1>3. /\ IsSignIn(in) /\ in.user = u /\ in.step = FirstStep(u) /\ in.alone = alone
      /\ FirstStep(u) \in {"auth", "find", "code"}
  BY DEF IsSignIn, FirstStep, Steps
<1>4. /\ IsSignOut(signout') /\ signout'.step = signout.step
      /\ signout'.alone = (signout.step = "no")
  BY <1>1 DEF SessionInv, CallsTyped, IsSignOut
<1> HIDE DEF before, in, to
<1>5. /\ signins' \in Seq(ToSet(signins'))
      /\ Len(signins') = n + 1 /\ DOMAIN signins' = 1 .. n + 1
      /\ \A j \in 1 .. n : signins'[j] = before[j]
      /\ signins'[n + 1] = in
  BY <1>1, <1>2, AppendFacts
<1>6. CallsTyped'
  <2>1. ASSUME NEW j \in DOMAIN signins' PROVE IsSignIn(signins'[j])
    <3>1. CASE j \in 1 .. n
      BY <1>2, <1>5, <3>1
    <3>2. CASE j = n + 1
      BY <1>3, <1>5, <3>2
    <3>3. QED  BY <1>2, <1>5, <3>1, <3>2
  <2>2. crossed' \in BOOLEAN
    BY <1>1 DEF SessionInv, CallsTyped
  <2>3. QED  BY <1>4, <1>5, <2>1, <2>2 DEF CallsTyped
<1>7. CASE alone
  <2>1. n = 0
    BY <1>7, EmptyTyped
  <2>2. Undisturbed(u, FirstStep(u)) /\ (~ crossed' => Agree)
    <3>1. Undisturbed(u, FirstStep(u))
      BY DEF FirstStep, Undisturbed
    <3>2. ~ crossed' => Agree
      BY <1>1, <1>7, EmptyTyped DEF SessionInv, CrossInv
    <3>3. QED  BY <3>1, <3>2
  <2>3. PICK step \in Steps : step = FirstStep(u)
    BY <1>3 DEF IsSignIn
  <2>4. Undisturbed(u, step)' /\ (~ crossed' => Agree')
    BY <1>1, <2>2, <2>3 DEF Undisturbed, Agree, ByName
  <2>5. /\ Len(signins') = 1 /\ signout'.step = "no" /\ DOMAIN signins' = {1}
        /\ signins'[1].user = u /\ signins'[1].step = step /\ signins'[1].alone
    <3>1. Len(signins') = 1 /\ DOMAIN signins' = {1} /\ signins'[1] = in
      BY <1>5, <2>1
    <3>2. signout'.step = "no"
      BY <1>4, <1>7
    <3>3. in.user = u /\ in.step = step /\ in.alone
      <4> HIDE DEF alone
      <4> QED  BY <1>3, <1>7, <2>3, Zenon
    <3>4. QED  BY <3>1, <3>2, <3>3
  <2>6. AloneInv'
    BY <2>4, <2>5 DEF AloneInv
  <2>7. OutInv' /\ CrossInv'
    BY <2>4, <2>5 DEF OutInv, CrossInv
  <2>8. QED  BY <1>6, <2>6, <2>7 DEF SessionInv
<1>8. CASE ~ alone
  <2>1. crossed'
    BY <1>1, <1>8
  <2>2. ASSUME NEW j \in DOMAIN signins' PROVE ~ signins'[j].alone
    <3>1. CASE j \in 1 .. n
      BY <1>2, <1>5, <3>1
    <3>2. CASE j = n + 1
      BY <1>3, <1>5, <1>8, <3>2
    <3>3. QED  BY <1>2, <1>5, <3>1, <3>2
  <2>3. signout'.step # "no" => ~ signout'.alone
    BY <1>4
  <2>4. QED  BY <1>6, <2>1, <2>2, <2>3, CrossedKeeps
<1>9. QED  BY <1>7, <1>8

LEMMA ConfirmKeeps ==
    ASSUME SessionInv, Confirm
    PROVE  SessionInv'
<1>1. /\ signout.step = "no" /\ signins' = Accompanied(signins)
      /\ signout' = [step |-> "wait", at |-> Len(stack), alone |-> signins = <<>>]
      /\ crossed' = (crossed \/ signins # <<>>)
      /\ UNCHANGED <<currentUser, uid, kept>>
  BY DEF Confirm, session
<1>2. /\ signins' \in Seq(ToSet(signins')) /\ DOMAIN signins' = DOMAIN signins
      /\ Len(signins') = Len(signins)
      /\ \A j \in DOMAIN signins : IsSignIn(signins'[j]) /\ ~ signins'[j].alone
  BY <1>1, AccompaniedTyped DEF SessionInv, CallsTyped
<1>3. CallsTyped'
  BY <1>1, <1>2 DEF SessionInv, CallsTyped, IsSignOut
<1>4. CASE signins = <<>>
  <2>1. /\ signins' = <<>> /\ DOMAIN signins' = {}
        /\ signout'.step = "wait" /\ signout'.alone
    BY <1>1, <1>2, <1>4, EmptySeq, EmptyTyped
  <2>2. ~ crossed' => Agree'
    BY <1>1, <1>4, EmptyTyped DEF SessionInv, CrossInv, Agree, ByName
  <2>3. QED  BY <1>3, <2>1, <2>2 DEF SessionInv, AloneInv, OutInv, CrossInv
<1>5. CASE signins # <<>>
  <2>1. crossed' /\ ~ signout'.alone /\ \A j \in DOMAIN signins' : ~ signins'[j].alone
    BY <1>1, <1>2, <1>5
  <2>2. QED  BY <1>3, <2>1, CrossedKeeps
<1>6. QED  BY <1>4, <1>5

\* While the phone signs out no sign-in is alone; without a crossing there is none.
LEMMA SigningOut ==
    ASSUME SessionInv, signout.step # "no"
    PROVE  /\ \A i \in DOMAIN signins : ~ signins[i].alone
           /\ ~ crossed \/ signout.alone => signins = <<>>
           /\ signout.step = "auth" /\ signout.alone => uid = NoUser
           /\ ~ crossed => signout.alone
BY DEF SessionInv, AloneInv, OutInv, CrossInv

\* The signing out ends.
LEMMA OutKeeps ==
    ASSUME SessionInv, signout.step # "no", signout' = NoSignOut, SignedOut,
           crossed' \in BOOLEAN,
           ~ crossed' => signins = <<>> /\ Agree'
    PROVE  SessionInv'
<1>0. signins \in Seq(ToSet(signins)) /\ \A j \in DOMAIN signins : IsSignIn(signins[j])
  BY DEF SessionInv, CallsTyped
<1>1. \/ signins' = signins
      \/ signins' = [j \in DOMAIN signins |-> [signins[j] EXCEPT !.at = Covered(@)]]
  BY DEF SignedOut
<1>2. /\ signins' \in Seq(ToSet(signins')) /\ DOMAIN signins' = DOMAIN signins
      /\ Len(signins') = Len(signins)
      /\ \A j \in DOMAIN signins : /\ IsSignIn(signins'[j])
                                   /\ signins'[j].alone = signins[j].alone
  BY <1>0, <1>1, CoveredTyped
<1>3. signout'.step = "no" /\ IsSignOut(signout')
  BY DEF NoSignOut, IsSignOut
<1>4. CallsTyped'
  BY <1>2, <1>3 DEF CallsTyped
<1>5. CASE crossed'
  BY <1>2, <1>3, <1>4, <1>5, SigningOut, CrossedKeeps
<1>6. CASE ~ crossed'
  <2>1. signins' = <<>>
    BY <1>2, <1>6, EmptySeq, EmptyTyped
  <2>2. QED  BY <1>3, <1>4, <1>6, <2>1, IdleKeeps
<1>7. QED  BY <1>5, <1>6

LEMMA ClearKeeps ==
    ASSUME SessionInv, ClearPreferences
    PROVE  SessionInv'
<1>1. /\ signout.step = "wait" /\ uid' = NoUser /\ UNCHANGED <<currentUser, crossed>>
      /\ crossed \in BOOLEAN
  BY DEF ClearPreferences, SessionInv, CallsTyped
<1>2. CASE currentUser # NoUser
  <2>1. signout' = [signout EXCEPT !.step = "auth"] /\ UNCHANGED signins
    BY <1>2 DEF ClearPreferences
  <2>2. IsSignOut(signout') /\ signout'.step = "auth" /\ signout'.alone = signout.alone
    BY <2>1 DEF SessionInv, CallsTyped, IsSignOut
  <2>3. CallsTyped'
    BY <1>1, <2>1, <2>2 DEF SessionInv, CallsTyped
  <2>4. CASE crossed /\ ~ signout.alone
    BY <1>1, <2>1, <2>2, <2>3, <2>4, SigningOut, CrossedKeeps
  <2>5. CASE ~ crossed \/ signout.alone
    <3>1. signins' = <<>> /\ DOMAIN signins' = {} /\ (~ crossed => signout.alone)
      BY <1>1, <2>1, <2>5, SigningOut, EmptyTyped
    <3>2. QED  BY <1>1, <2>2, <2>3, <3>1 DEF SessionInv, AloneInv, OutInv, CrossInv
  <2>6. QED  BY <1>1, <2>4, <2>5
<1>3. CASE currentUser = NoUser
  <2>1. signout' = NoSignOut /\ SignedOut
    BY <1>3 DEF ClearPreferences
  <2>2. ~ crossed' => signins = <<>> /\ Agree'
    BY <1>1, <1>3, SigningOut DEF Agree
  <2>3. QED  BY <1>1, <2>1, <2>2, OutKeeps
<1>4. QED  BY <1>2, <1>3

LEMMA AuthOutKeeps ==
    ASSUME SessionInv, AuthSignOut
    PROVE  SessionInv'
<1>1. /\ signout.step = "auth" /\ currentUser' = NoUser /\ UNCHANGED uid
      /\ signout' = NoSignOut /\ SignedOut
      /\ crossed' = (crossed /\ ~ signout.alone)
      /\ crossed \in BOOLEAN /\ signout.alone \in BOOLEAN
  BY DEF AuthSignOut, SessionInv, CallsTyped, IsSignOut
<1>2. ~ crossed' => signins = <<>> /\ Agree'
  BY <1>1, SigningOut DEF Agree
<1>3. QED  BY <1>1, <1>2, OutKeeps

\* FirebaseAuth keeps the session of who has left the preferences.
LEMMA OutFails ==
    ASSUME SessionInv, SignOutFails
    PROVE  SessionInv'
<1>1. /\ signout.step = "auth" /\ signout' = NoSignOut /\ crossed' = TRUE
      /\ UNCHANGED signins
  BY DEF SignOutFails
<1>2. signout'.step = "no" /\ IsSignOut(signout')
  BY <1>1 DEF NoSignOut, IsSignOut
<1>3. CallsTyped'
  BY <1>1, <1>2 DEF SessionInv, CallsTyped
<1>4. \A j \in DOMAIN signins' : ~ signins'[j].alone
  BY <1>1, SigningOut
<1>5. QED  BY <1>1, <1>2, <1>3, <1>4, CrossedKeeps

\* The app is killed halfway, which is a crossing, or session and preferences
\* are what they were or will be.
LEMMA KillKeeps ==
    ASSUME SessionInv, Kill
    PROVE  SessionInv'
<1>1. /\ signins' = <<>> /\ signout' = NoSignOut /\ UNCHANGED <<currentUser, uid, kept>>
      /\ crossed' = (crossed \/ signout.step = "auth"
                             \/ \E i \in DOMAIN signins : Halfway(signins[i]))
  BY DEF Kill, session
<1>2. signout'.step = "no" /\ IsSignOut(signout')
  BY <1>1 DEF NoSignOut, IsSignOut
<1>3. CallsTyped'
  BY <1>1, <1>2, EmptyTyped DEF SessionInv, CallsTyped
<1>4. ASSUME ~ crossed' PROVE Agree'
  <2>1. /\ ~ crossed /\ signout.step # "auth"
        /\ \A i \in DOMAIN signins : ~ Halfway(signins[i])
    BY <1>1, <1>4
  <2>2. CASE \A i \in DOMAIN signins : signins[i].step \in {"find", "code", "auth"}
    <3>1. Agree
      BY <2>1, <2>2 DEF SessionInv, CrossInv
    <3>2. QED  BY <1>1, <3>1 DEF Agree, ByName
  <2>3. CASE \E i \in DOMAIN signins : signins[i].step \notin {"find", "code", "auth"}
    <3>1. PICK i \in DOMAIN signins : signins[i].step \notin {"find", "code", "auth"}
      BY <2>3
    <3>2. signins[i].alone /\ ~ Halfway(signins[i]) /\ signins[i].step \in Steps
      BY <2>1 DEF SessionInv, CrossInv, CallsTyped, IsSignIn
    <3>3. Undisturbed(signins[i].user, signins[i].step)
      BY <3>2 DEF SessionInv, AloneInv
    <3>4. QED  BY <1>1, <3>1, <3>2, <3>3 DEF Steps, Halfway, Undisturbed, Agree, ByName
  <2>4. QED  BY <2>2, <2>3
<1>5. QED  BY <1>1, <1>2, <1>3, <1>4, IdleKeeps

LEMMA BackKeeps ==
    ASSUME SessionInv, Back
    PROVE  SessionInv'
<1>0. signins \in Seq(ToSet(signins)) /\ \A j \in DOMAIN signins : IsSignIn(signins[j])
  BY DEF SessionInv, CallsTyped
<1>1. /\ signins' = [i \in DOMAIN signins |-> [signins[i] EXCEPT !.at = Unmounted(@)]]
      /\ signout' = [signout EXCEPT !.at = Unmounted(@)]
      /\ UNCHANGED <<session, crossed, kept>>
  BY DEF Back, history
<1>2. /\ signins' \in Seq(ToSet(signins')) /\ DOMAIN signins' = DOMAIN signins
      /\ Len(signins') = Len(signins)
  <2>1. signins' = [i \in DOMAIN signins |-> signins'[i]]
    BY <1>1
  <2>2. QED  BY <1>0, <2>1, SameDomain
<1>3. ASSUME NEW i \in DOMAIN signins
      PROVE  /\ IsSignIn(signins'[i]) /\ signins'[i].user = signins[i].user
             /\ signins'[i].step = signins[i].step
             /\ signins'[i].alone = signins[i].alone
  <2>1. PICK at : at = Unmounted(signins[i].at)
    OBVIOUS
  <2>2. IsSignIn(signins[i]) /\ signins'[i] = [signins[i] EXCEPT !.at = at]
    BY <1>0, <1>1, <2>1
  <2>3. QED  BY <2>2 DEF IsSignIn
<1>4. IsSignOut(signout') /\ signout'.step = signout.step /\ signout'.alone = signout.alone
  <2>1. PICK at : at = Unmounted(signout.at)
    OBVIOUS
  <2>2. IsSignOut(signout) /\ signout' = [signout EXCEPT !.at = at]
    BY <1>1, <2>1 DEF SessionInv, CallsTyped
  <2>3. QED  BY <2>2 DEF IsSignOut
<1>5. CallsTyped'
  BY <1>1, <1>2, <1>3, <1>4 DEF SessionInv, CallsTyped
<1>6. QED  BY <1>1, <1>2, <1>3, <1>4, <1>5, MoveKeeps

-----------------------------------------------------------------------------
LEMMA InitSession == Init => SessionInv
<1> SUFFICES ASSUME Init PROVE SessionInv
  OBVIOUS
<1>1. /\ signins = <<>> /\ signout = NoSignOut /\ crossed = FALSE
      /\ currentUser = IF uid # NoUser /\ KindOf[uid] = "name" THEN NoUser ELSE uid
  BY DEF Init
<1>2. signout.step = "no" /\ IsSignOut(signout)
  BY <1>1 DEF NoSignOut, IsSignOut
<1>3. Agree
  BY <1>1 DEF Agree, ByName
<1>4. QED
  BY <1>1, <1>2, <1>3, EmptyTyped
  DEF SessionInv, CallsTyped, AloneInv, OutInv, CrossInv

LEMMA NextSession == SessionInv /\ [Next]_vars => SessionInv'
<1> SUFFICES ASSUME SessionInv, [Next]_vars PROVE SessionInv'
  OBVIOUS
<1>1. ASSUME UNCHANGED <<session, calls, crossed, kept>> PROVE SessionInv'
  BY <1>1 DEF session, calls, SessionInv, CallsTyped, AloneInv, OutInv, CrossInv,
              Undisturbed, Agree, ByName
<1>2. CASE OpenLogin \/ OpenSignOut \/ Heart
  BY <1>1, <1>2 DEF OpenLogin, OpenSignOut, Heart, history, calls
<1>3. CASE Back
  BY <1>3, BackKeeps
<1>4. ASSUME NEW t \in {"home", "fav"}, SelectTab(t) PROVE SessionInv'
  BY <1>1, <1>4 DEF SelectTab
<1>5. ASSUME NEW g \in Gifts, OpenGift(g) PROVE SessionInv'
  BY <1>1, <1>5 DEF OpenGift, history
<1>6. ASSUME NEW u \in Users, Begin(u) PROVE SessionInv'
  BY <1>6, BeginKeeps
<1>7. ASSUME NEW i \in 1 .. MaxSignIns,
             \/ Find(i) \/ Auth(i) \/ Verified(i) \/ Merged(i) \/ Known(i) \/ New(i)
             \/ Stored(i) \/ ReadFavourites(i) \/ TokenStored(i) \/ SignInFails(i)
      PROVE  SessionInv'
  BY <1>7, NextCallKeeps, LastCallKeeps, FailureKeeps
<1>8. CASE Confirm \/ ClearPreferences \/ AuthSignOut \/ SignOutFails \/ Kill
  BY <1>8, ConfirmKeeps, ClearKeeps, AuthOutKeeps, OutFails, KillKeeps
<1>9. CASE Retry \/ Offline \/ Online \/ Answered \/ QueryFails
  BY <1>1, <1>9 DEF Retry, Offline, Online, Answered, QueryFails, BesidesFavPage
<1>10. CASE UNCHANGED vars
  BY <1>1, <1>10 DEF vars, history
<1>11. QED
  BY <1>2, <1>3, <1>4, <1>5, <1>6, <1>7, <1>8, <1>9, <1>10 DEF Next

THEOREM SessionHeld == Spec => []SessionInv
<1>1. Init => SessionInv
  BY InitSession
<1>2. SessionInv /\ [Next]_vars => SessionInv'
  BY NextSession
<1>3. QED  BY <1>1, <1>2, PTL DEF Spec

\* Whatever sign-ins and sign-outs came before, and wherever they failed or the
\* app was killed, when nothing is under way FirebaseAuth and the preferences
\* have the same user; or the preferences have one who signed in by name, and
\* FirebaseAuth nobody, or still whom it had then.  Nothing is said when one was
\* cut short halfway, or met another, and none has been through alone since.
THEOREM SessionsAgree == Spec => []SessionAgrees
<1>1. SessionInv => SessionAgrees
  <2> SUFFICES ASSUME SessionInv, signins = <<>>, signout.step = "no", ~ crossed
               PROVE  Agree
    BY DEF SessionAgrees, Agree, ByName
  <2>1. QED  BY EmptyTyped DEF SessionInv, CrossInv
<1>2. QED  BY <1>1, SessionHeld, PTL

-----------------------------------------------------------------------------
(***************************************************************************)
(* The lists, the pages, what is under way, the favourites page            *)
(***************************************************************************)
\* A gift page: its copy of the favourites has no gift twice; while nobody
\* else has changed them it is that of the preferences, and unless the phone's
\* favourites may be someone else's it is of the user there.
Good(page, user, list, others) ==
    page.kind = "gift" =>
        /\ IsInjective(page.list)
        /\ page.fresh => page.list = list /\ (others \/ page.userId = user)

ListsInv ==
    /\ docs \subseteq Users
    /\ favorites \in [Users -> Seq(Gifts)] /\ \A u \in Users : IsInjective(favorites[u])
    /\ currentUser \in Users \cup {NoUser} /\ uid \in Users \cup {NoUser}
    /\ favorite \in Seq(Gifts) /\ IsInjective(favorite)
    /\ drift \in BOOLEAN
    /\ uid # NoUser /\ ~ drift => ToSet(favorite) = ToSet(favorites[uid])

StackInv ==
    /\ tab \in {"home", "fav"}
    /\ stack \in Seq(Pages) /\ Len(stack) <= MaxStack
    /\ \A k \in DOMAIN stack : Good(stack[k], uid, favorite, drift)

UnderWayInv ==
    /\ signins \in Seq(SignIns)
    /\ signout \in [step : {"no", "wait", "auth"}, at : Gone .. MaxStack, alone : BOOLEAN]
    /\ taps \in 0 .. MaxTaps /\ crossed \in BOOLEAN

\* While the favourites page loads it is not shown; what the query was sent for
\* are the favourites, until they change.
FavPageInv ==
    /\ favIdList \in Seq(Gifts) /\ favList \in Seq(Gifts \cup {Hole}) /\ load \in Loads
    /\ empty \in BOOLEAN /\ internetError \in BOOLEAN
    /\ showLoading \in BOOLEAN /\ current \in BOOLEAN
    /\ load # "no" => ~ empty /\ (showLoading \/ internetError)
    /\ load = "query" /\ current => favIdList = favorite
    /\ FavPageComplete

FavouritesInv ==
    ListsInv /\ StackInv /\ UnderWayInv /\ FavPageInv /\ kept \in BOOLEAN

LEMMA RemovedFacts ==
    ASSUME NEW S, NEW s \in Seq(S), IsInjective(s), NEW e
    PROVE  /\ RemoveFirst(s, e) \in Seq(S) /\ IsInjective(RemoveFirst(s, e))
           /\ ToSet(RemoveFirst(s, e)) = ToSet(s) \ {e}
<1>1. CASE e \in ToSet(s)
  BY <1>1, RemoveFirstFacts
<1>2. CASE e \notin ToSet(s)
  <2>1. RemoveFirst(s, e) = s
    BY <1>2, LenProperties DEF RemoveFirst, ToSet
  <2>2. QED  BY <1>2, <2>1
<1>3. QED  BY <1>1, <1>2

\* The heart puts the gift on the list or takes it off.
LEMMA ToggledFacts ==
    ASSUME NEW list \in Seq(Gifts), IsInjective(list), NEW g \in Gifts
    PROVE  /\ Toggled(list, g) \in Seq(Gifts) /\ IsInjective(Toggled(list, g))
           /\ ToSet(Toggled(list, g)) = IF g \in ToSet(list) THEN ToSet(list) \ {g}
                                        ELSE ToSet(list) \cup {g}
<1>1. CASE g \in ToSet(list)
  BY <1>1, RemovedFacts DEF Toggled
<1>2. CASE g \notin ToSet(list)
  BY <1>2, AppendedFacts DEF Toggled
<1>3. QED  BY <1>1, <1>2

LEMMA MirroredFacts ==
    ASSUME NEW list \in Seq(Gifts), IsInjective(list), NEW g \in Gifts,
           NEW marked \in BOOLEAN
    PROVE  /\ Mirrored(list, g, marked) \in Seq(Gifts)
           /\ IsInjective(Mirrored(list, g, marked))
           /\ ToSet(Mirrored(list, g, marked)) =
                 IF marked THEN ToSet(list) \cup {g} ELSE ToSet(list) \ {g}
<1> DEFINE rest == RemoveFirst(list, g)
<1>1. rest \in Seq(Gifts) /\ IsInjective(rest) /\ ToSet(rest) = ToSet(list) \ {g}
  BY RemovedFacts
<1>2. Mirrored(list, g, marked) = IF marked THEN Append(rest, g) ELSE rest
  BY DEF Mirrored
<1> HIDE DEF rest
<1>3. /\ Append(rest, g) \in Seq(Gifts) /\ IsInjective(Append(rest, g))
      /\ ToSet(Append(rest, g)) = ToSet(rest) \cup {g}
  BY <1>1, AppendedFacts
<1>4. QED  BY <1>1, <1>2, <1>3

\* The page on top, when there is one
LEMMA TopPage ==
    ASSUME StackInv, Top \notin {"home", "fav"}
    PROVE  /\ stack # <<>> /\ Len(stack) \in 1 .. MaxStack
           /\ Last(stack) \in Pages /\ Last(stack).kind = Top
           /\ Good(Last(stack), uid, favorite, drift)
           /\ Front(stack) \in Seq(Pages) /\ Len(Front(stack)) = Len(stack) - 1
           /\ \A k \in DOMAIN Front(stack) : Good(Front(stack)[k], uid, favorite, drift)
<1>1. stack # <<>> /\ stack \in Seq(Pages) /\ Last(stack).kind = Top
  BY DEF Top, StackInv
<1>2. /\ Len(stack) \in 1 .. MaxStack /\ DOMAIN stack = 1 .. Len(stack)
      /\ Last(stack) = stack[Len(stack)]
  BY <1>1, LenProperties, EmptySeq, LimitsAssumption DEF Last, StackInv
<1>3. Last(stack) \in Pages /\ Good(Last(stack), uid, favorite, drift)
  BY <1>1, <1>2, ElementOfSeq DEF StackInv
<1> DEFINE front == Front(stack)
<1>4. /\ front \in Seq(Pages) /\ Len(front) = Len(stack) - 1
      /\ DOMAIN front = 1 .. Len(stack) - 1
      /\ \A k \in DOMAIN front : front[k] = stack[k]
  BY <1>1, FrontFacts, LenProperties
<1> HIDE DEF front
<1>5. \A k \in DOMAIN front : Good(front[k], uid, favorite, drift)
  BY <1>2, <1>4 DEF StackInv
<1>6. QED  BY <1>1, <1>2, <1>3, <1>4, <1>5 DEF front

-----------------------------------------------------------------------------
(***************************************************************************)
(* The lists of the phone and of the server                                *)
(***************************************************************************)
\* A sign-in under way is of a user.
LEMMA UserOf ==
    ASSUME UnderWayInv, NEW i \in DOMAIN signins
    PROVE  signins[i] \in SignIns /\ signins[i].user \in Users
<1>1. signins \in Seq(SignIns) /\ i \in 1 .. Len(signins)
  BY LenProperties DEF UnderWayInv
<1>2. signins[i] \in SignIns
  BY <1>1, ElementOfSeq
<1>3. QED  BY <1>2 DEF SignIns

LEMMA HeartLists ==
    ASSUME ListsInv, StackInv, Heart
    PROVE  ListsInv'
<1> DEFINE page == Last(stack)
           g    == page.gift
           list == Toggled(page.list, g)
           u    == page.userId
<1>1. /\ page \in Pages /\ page.kind = "gift"
      /\ Good(page, uid, favorite, drift)
  BY TopPage DEF Heart
<1>2. /\ g \in Gifts /\ u \in Users \cup {NoUser} /\ page.list \in Seq(Gifts)
      /\ page.fresh \in BOOLEAN /\ IsInjective(page.list)
      /\ page.fresh => page.list = favorite /\ (drift \/ u = uid)
  BY <1>1 DEF Pages, Good
<1>3. /\ favorite' = list /\ UNCHANGED <<docs, currentUser, uid>>
      /\ \/ /\ u # NoUser
            /\ favorites' = [favorites EXCEPT ![u] = Mirrored(@, g, g \in ToSet(list))]
            /\ drift' = (drift \/ ~ page.fresh)
         \/ UNCHANGED favorites /\ drift' = TRUE
  BY DEF Heart, session
<1> HIDE DEF page
<1>4. /\ list \in Seq(Gifts) /\ IsInjective(list)
      /\ ToSet(list) = IF g \in ToSet(page.list) THEN ToSet(page.list) \ {g}
                       ELSE ToSet(page.list) \cup {g}
  BY <1>2, ToggledFacts
<1> HIDE DEF g, list, u
<1>5. CASE UNCHANGED favorites /\ drift' = TRUE
  BY <1>3, <1>4, <1>5 DEF ListsInv
<1>6. CASE /\ u # NoUser
           /\ favorites' = [favorites EXCEPT ![u] = Mirrored(@, g, g \in ToSet(list))]
           /\ drift' = (drift \/ ~ page.fresh)
  <2>1. u \in Users /\ favorites[u] \in Seq(Gifts) /\ IsInjective(favorites[u])
    BY <1>2, <1>6 DEF ListsInv
  <2>a. PICK marked \in BOOLEAN : marked = (g \in ToSet(list))
    <3>1. (g \in ToSet(list)) \in BOOLEAN
      OBVIOUS
    <3>2. QED  BY <3>1, Zenon
  <2> DEFINE new == Mirrored(favorites[u], g, marked)
  <2>2. /\ new \in Seq(Gifts) /\ IsInjective(new)
        /\ ToSet(new) = IF marked THEN ToSet(favorites[u]) \cup {g}
                        ELSE ToSet(favorites[u]) \ {g}
    BY <1>2, <2>1, MirroredFacts, ZenonT(60)
  <2>3. favorites' = [favorites EXCEPT ![u] = new]
    BY <1>6, <2>a
  <2> HIDE DEF new
  <2>4. /\ favorites' \in [Users -> Seq(Gifts)] /\ favorites'[u] = new
        /\ \A v \in Users : IsInjective(favorites'[v])
    BY <2>1, <2>2, <2>3 DEF ListsInv
  <2>5. ASSUME uid # NoUser, ~ drift' PROVE ToSet(list) = ToSet(favorites'[uid])
    <3>1. u = uid /\ page.list = favorite /\ ~ drift
      BY <1>2, <1>6, <2>5 DEF ListsInv
    <3>2. ToSet(page.list) = ToSet(favorites[u])
      BY <2>5, <3>1 DEF ListsInv
    <3>3. ToSet(list) = ToSet(new)
      BY <1>4, <2>a, <2>2, <3>2
    <3>4. QED  BY <2>4, <3>1, <3>3
  <2>6. drift' \in BOOLEAN
    BY <1>2, <1>6 DEF ListsInv
  <2>7. UNCHANGED <<docs, currentUser, uid>> /\ favorite' = list
    BY <1>3
  <2>8. QED  BY <1>4, <2>4, <2>5, <2>6, <2>7 DEF ListsInv
<1>7. QED  BY <1>3, <1>5, <1>6

LEMMA SignInLists ==
    ASSUME ListsInv, UnderWayInv, NEW i \in 1 .. MaxSignIns,
           \/ Find(i) \/ Auth(i) \/ Verified(i) \/ Merged(i) \/ Known(i) \/ New(i)
           \/ Stored(i) \/ ReadFavourites(i) \/ TokenStored(i) \/ SignInFails(i)
    PROVE  ListsInv'
<1>1. i \in DOMAIN signins
  BY DEF Find, Auth, Verified, Merged, Known, New, Stored, ReadFavourites, TokenStored,
         SignInFails, At
<1>2. PICK u \in Users : u = signins[i].user
  BY <1>1, UserOf
<1>3. CASE Find(i) \/ Verified(i) \/ Known(i)
  <2>1. /\ uid' = u /\ drift' = TRUE /\ UNCHANGED <<docs, favorites, favorite>>
        /\ currentUser' \in {currentUser, u}
    BY <1>2, <1>3 DEF Find, Verified, Known, SetUid, server
  <2>2. QED  BY <2>1 DEF ListsInv
<1>4. CASE Auth(i) \/ TokenStored(i) \/ SignInFails(i)
  <2>1. /\ UNCHANGED <<docs, favorites, uid, drift, favorite>>
        /\ currentUser' \in {currentUser, u}
    BY <1>2, <1>4 DEF Auth, TokenStored, SignInFails, server, session
  <2>2. QED  BY <2>1 DEF ListsInv
<1>5. CASE Merged(i)
  <2>1. /\ uid' = u /\ drift' = TRUE /\ UNCHANGED <<currentUser, favorites, favorite>>
        /\ docs' = docs \cup {u}
    BY <1>2, <1>5 DEF Merged, SetUid
  <2>2. QED  BY <2>1 DEF ListsInv
<1>6. CASE New(i)
  <2>1. /\ \/ uid' = u /\ drift' = TRUE
           \/ UNCHANGED <<uid, drift>>
        /\ UNCHANGED <<currentUser, docs, favorites, favorite>>
    BY <1>2, <1>6 DEF New, SetUid, server
  <2>2. QED  BY <2>1 DEF ListsInv
<1>7. CASE Stored(i)
  <2>1. /\ uid' \in {uid, u} /\ drift' = TRUE
        /\ UNCHANGED <<currentUser, favorites, favorite>> /\ docs' = docs \cup {u}
    BY <1>2, <1>7 DEF Stored
  <2>2. QED  BY <2>1 DEF ListsInv
<1>8. CASE ReadFavourites(i)
  <2>1. /\ favorite' = Reverse(favorites[u]) /\ drift' = (uid # u)
        /\ UNCHANGED <<docs, favorites, currentUser, uid>>
    BY <1>2, <1>8 DEF ReadFavourites, server
  <2>2. /\ favorite' \in Seq(Gifts) /\ IsInjective(favorite')
        /\ ToSet(favorite') = ToSet(favorites[u])
    BY <2>1, ReverseFacts DEF ListsInv
  <2>3. QED  BY <2>1, <2>2 DEF ListsInv
<1>9. QED  BY <1>3, <1>4, <1>5, <1>6, <1>7, <1>8

LEMMA NextLists ==
    ASSUME ListsInv, StackInv, UnderWayInv, [Next]_vars
    PROVE  ListsInv'
<1>1. ASSUME UNCHANGED <<server, session, favorite, drift>> PROVE ListsInv'
  BY <1>1 DEF server, session, ListsInv
<1>2. CASE OpenLogin \/ OpenSignOut \/ Back \/ Confirm \/ SignOutFails \/ Kill
  BY <1>1, <1>2 DEF OpenLogin, OpenSignOut, Back, Confirm, SignOutFails, Kill, history
<1>3. CASE Heart
  BY <1>3, HeartLists
<1>4. ASSUME NEW t \in {"home", "fav"}, SelectTab(t) PROVE ListsInv'
  BY <1>1, <1>4 DEF SelectTab
<1>5. ASSUME NEW g \in Gifts, OpenGift(g) PROVE ListsInv'
  BY <1>1, <1>5 DEF OpenGift, history
<1>6. ASSUME NEW u \in Users, Begin(u) PROVE ListsInv'
  BY <1>1, <1>6 DEF Begin
<1>7. ASSUME NEW i \in 1 .. MaxSignIns,
             \/ Find(i) \/ Auth(i) \/ Verified(i) \/ Merged(i) \/ Known(i) \/ New(i)
             \/ Stored(i) \/ ReadFavourites(i) \/ TokenStored(i) \/ SignInFails(i)
      PROVE  ListsInv'
  BY <1>7, SignInLists
<1>8. CASE ClearPreferences
  <2>1. /\ uid' = NoUser /\ favorite' = <<>> /\ drift' = FALSE
        /\ UNCHANGED <<docs, favorites, currentUser>>
    BY <1>8 DEF ClearPreferences, server
  <2>2. <<>> \in Seq(Gifts) /\ IsInjective(<<>>)
    BY EmptySeq DEF IsInjective
  <2>3. QED  BY <2>1, <2>2 DEF ListsInv
<1>9. CASE AuthSignOut
  <2>1. currentUser' = NoUser /\ UNCHANGED <<docs, favorites, uid, favorite, drift>>
    BY <1>9 DEF AuthSignOut, server
  <2>2. QED  BY <2>1 DEF ListsInv
<1>10. CASE Retry \/ Offline \/ Online \/ Answered \/ QueryFails
  BY <1>1, <1>10 DEF Retry, Offline, Online, Answered, QueryFails, BesidesFavPage
<1>11. CASE UNCHANGED vars
  BY <1>1, <1>11 DEF vars, history
<1>12. QED
  BY <1>2, <1>3, <1>4, <1>5, <1>6, <1>7, <1>8, <1>9, <1>10, <1>11 DEF Next

-----------------------------------------------------------------------------
(***************************************************************************)
(* The pages                                                               *)
(***************************************************************************)
\* Pages are as good as they were when the list stays, and its user too unless
\* the phone's favourites may be someone else's.
LEMMA StillGood ==
    ASSUME NEW page, NEW user, NEW list, NEW others \in BOOLEAN,
           Good(page, user, list, others),
           NEW user2, NEW others2 \in BOOLEAN, others2 \/ (user2 = user /\ ~ others)
    PROVE  Good(page, user2, list, others2)
BY DEF Good

\* What was read before is old, whatever the favourites are now.
LEMMA OutdatedGood ==
    ASSUME NEW pgs \in Seq(Pages),
           \A k \in DOMAIN pgs : Good(pgs[k], uid, favorite, drift)
    PROVE  /\ Outdated(pgs) \in Seq(Pages) /\ Len(Outdated(pgs)) = Len(pgs)
           /\ \A k \in DOMAIN Outdated(pgs) : \A user, list, others :
                 Good(Outdated(pgs)[k], user, list, others)
<1> DEFINE old == Outdated(pgs)
<1>1. DOMAIN pgs = 1 .. Len(pgs) /\ Len(pgs) \in Nat
  BY LenProperties
<1>2. old = [k \in DOMAIN pgs |->
                IF pgs[k].kind = "gift" THEN [pgs[k] EXCEPT !.fresh = FALSE] ELSE pgs[k]]
  BY DEF Outdated
<1> HIDE DEF old
<1>3. ASSUME NEW k \in DOMAIN pgs, NEW user, NEW list, NEW others
      PROVE  old[k] \in Pages /\ Good(old[k], user, list, others)
  <2>1. pgs[k] \in Pages /\ Good(pgs[k], uid, favorite, drift)
    BY <1>1, ElementOfSeq
  <2>2. CASE pgs[k].kind = "gift"
    <3>1. PICK page : page = pgs[k]
      OBVIOUS
    <3>2. old[k] = [page EXCEPT !.fresh = FALSE]
      BY <1>2, <2>2, <3>1
    <3>3. page \in [kind : {"gift"}, gift : Gifts, userId : Users \cup {NoUser},
                    list : Seq(Gifts), fresh : BOOLEAN]
      BY <2>1, <2>2, <3>1 DEF Pages
    <3>4. /\ old[k] \in [kind : {"gift"}, gift : Gifts, userId : Users \cup {NoUser},
                         list : Seq(Gifts), fresh : BOOLEAN]
          /\ old[k].list = page.list /\ ~ old[k].fresh
      BY <3>2, <3>3
    <3>5. IsInjective(page.list)
      BY <2>1, <2>2, <3>1 DEF Good
    <3>6. QED  BY <3>4, <3>5 DEF Pages, Good
  <2>3. CASE pgs[k].kind # "gift"
    BY <1>2, <2>1, <2>3 DEF Good
  <2>4. QED  BY <2>2, <2>3
<1>4. old \in [1 .. Len(pgs) -> Pages] /\ DOMAIN old = DOMAIN pgs
  BY <1>1, <1>2, <1>3
<1>5. old \in Seq(Pages) /\ Len(old) = Len(pgs)
  BY <1>1, <1>4, SeqDef, LenProperties
<1>6. QED  BY <1>3, <1>4, <1>5 DEF old

LEMMA AppendGood ==
    ASSUME NEW user, NEW list, NEW others,
           NEW pgs \in Seq(Pages), \A k \in DOMAIN pgs : Good(pgs[k], user, list, others),
           NEW page \in Pages, Good(page, user, list, others)
    PROVE  /\ Append(pgs, page) \in Seq(Pages) /\ Len(Append(pgs, page)) = Len(pgs) + 1
           /\ Len(pgs) \in Nat
           /\ \A k \in DOMAIN Append(pgs, page) :
                 Good(Append(pgs, page)[k], user, list, others)
<1> DEFINE new == Append(pgs, page)
<1>1. /\ new \in Seq(Pages) /\ Len(pgs) \in Nat /\ Len(new) = Len(pgs) + 1
      /\ DOMAIN pgs = 1 .. Len(pgs) /\ DOMAIN new = 1 .. Len(pgs) + 1
      /\ \A k \in 1 .. Len(pgs) : new[k] = pgs[k]
      /\ new[Len(pgs) + 1] = page
  BY AppendProperties, LenProperties
<1> HIDE DEF new
<1>2. ASSUME NEW k \in DOMAIN new PROVE Good(new[k], user, list, others)
  <2>1. CASE k = Len(pgs) + 1
    BY <1>1, <2>1
  <2>2. CASE k # Len(pgs) + 1
    <3>1. k \in DOMAIN pgs /\ new[k] = pgs[k]
      BY <1>1, <2>2
    <3>2. QED  BY <3>1
  <2>3. QED  BY <2>1, <2>2
<1>3. QED  BY <1>1, <1>2 DEF new

\* A page opened now has the favourites and the user of the preferences.
LEMMA GiftPageGood ==
    ASSUME NEW user \in Users \cup {NoUser}, NEW list \in Seq(Gifts), IsInjective(list),
           NEW others, NEW g \in Gifts,
           NEW page, page = [kind |-> "gift", gift |-> g, userId |-> user,
                             list |-> list, fresh |-> TRUE]
    PROVE  page \in Pages /\ Good(page, user, list, others)
BY DEF Pages, Good

LEMMA NoPages ==
    <<>> \in Seq(Pages) /\ Len(<<>>) = 0 /\ DOMAIN <<>> = {} /\ Len(<<>>) <= MaxStack
BY EmptySeq, LimitsAssumption

\* A page is opened above the others.
LEMMA PushKeeps ==
    ASSUME StackInv, NEW page \in Pages, Good(page, uid, favorite, drift), Push(page),
           UNCHANGED <<tab, uid, favorite, drift>>
    PROVE  StackInv'
<1>1. stack' = Append(stack, page) /\ Len(stack) < MaxStack
  BY DEF Push
<1>2. /\ stack' \in Seq(Pages) /\ Len(stack') = Len(stack) + 1 /\ Len(stack) \in Nat
      /\ \A k \in DOMAIN stack' : Good(stack'[k], uid, favorite, drift)
  BY <1>1, AppendGood DEF StackInv
<1>3. Len(stack') <= MaxStack
  BY <1>1, <1>2, LimitsAssumption
<1>4. QED  BY <1>2, <1>3 DEF StackInv

\* A new home page covers all the others.
LEMMA HomeKeeps == Home => StackInv'
BY NoPages DEF Home, StackInv

LEMMA LeaveStack ==
    ASSUME StackInv, ListsInv', NEW i, signins[i] \in SignIns, NEW pgs \in Seq(Pages),
           Len(pgs) <= MaxStack, Leave(i, pgs),
           \A k \in DOMAIN pgs : Good(pgs[k], uid', favorite', drift')
    PROVE  StackInv'
<1>1. CASE stack' = pgs /\ tab' = tab
  BY <1>1 DEF StackInv
<1>2. CASE /\ signins[i].to # NoGift /\ Len(pgs) < MaxStack /\ tab' = tab
           /\ stack' = Append(pgs, [kind |-> "gift", gift |-> signins[i].to,
                            userId |-> uid', list |-> favorite', fresh |-> TRUE])
  <2>1. /\ signins[i].to \in Gifts /\ uid' \in Users \cup {NoUser}
        /\ favorite' \in Seq(Gifts) /\ IsInjective(favorite')
    BY <1>2 DEF SignIns, ListsInv
  <2>2. PICK page : page = [kind |-> "gift", gift |-> signins[i].to,
                            userId |-> uid', list |-> favorite', fresh |-> TRUE]
    OBVIOUS
  <2>3. page \in Pages /\ Good(page, uid', favorite', drift')
    BY <2>1, <2>2, GiftPageGood
  <2>4. /\ stack' \in Seq(Pages) /\ Len(stack') = Len(pgs) + 1 /\ Len(pgs) \in Nat
        /\ \A k \in DOMAIN stack' : Good(stack'[k], uid', favorite', drift')
    BY <1>2, <2>2, <2>3, AppendGood, ZenonT(60)
  <2>5. Len(stack') <= MaxStack
    BY <1>2, <2>4, LimitsAssumption
  <2>6. QED  BY <1>2, <2>4, <2>5 DEF StackInv
<1>3. CASE Home
  BY <1>3, HomeKeeps
<1>4. QED  BY <1>1, <1>2, <1>3 DEF Leave

\* Pages and favourites stay; the user too, or the phone's favourites may now
\* be someone else's.
LEMMA StayKeeps ==
    ASSUME ListsInv, StackInv, ListsInv', UNCHANGED <<pages, favorite>>,
           drift' \/ UNCHANGED <<uid, drift>>
    PROVE  StackInv'
<1>1. /\ UNCHANGED <<tab, stack, favorite>>
      /\ drift \in BOOLEAN /\ drift' \in BOOLEAN
  BY DEF pages, ListsInv
<1>2. ASSUME NEW k \in DOMAIN stack' PROVE Good(stack'[k], uid', favorite', drift')
  <2>1. Good(stack'[k], uid, favorite', drift)
    BY <1>1 DEF StackInv
  <2>2. CASE drift'
    BY <2>1, <2>2 DEF Good
  <2>3. CASE UNCHANGED <<uid, drift>>
    BY <2>1, <2>3
  <2>4. QED  BY <2>2, <2>3
<1>3. QED  BY <1>1, <1>2 DEF StackInv

\* What the pages were opened with is old.
LEMMA OutdateKeeps ==
    ASSUME StackInv, stack' = Outdated(stack), UNCHANGED tab
    PROVE  StackInv'
<1>1. /\ stack' \in Seq(Pages) /\ Len(stack') = Len(stack)
      /\ \A k \in DOMAIN stack' : \A user, list, others : Good(stack'[k], user, list, others)
  BY OutdatedGood DEF StackInv
<1>2. QED  BY <1>1 DEF StackInv

LEMMA HeartStack ==
    ASSUME ListsInv, StackInv, ListsInv', Heart
    PROVE  StackInv'
<1> DEFINE page == Last(stack)
           list == Toggled(page.list, page.gift)
           new  == [page EXCEPT !.list = list]
<1>1. /\ page \in Pages /\ page.kind = "gift" /\ Good(page, uid, favorite, drift)
      /\ Front(stack) \in Seq(Pages) /\ Len(Front(stack)) = Len(stack) - 1
      /\ Len(stack) \in 1 .. MaxStack
      /\ \A k \in DOMAIN Front(stack) : Good(Front(stack)[k], uid, favorite, drift)
  BY TopPage DEF Heart
<1>2. /\ stack' = Append(Outdated(Front(stack)), new) /\ favorite' = list
      /\ drift' = (drift \/ ~ page.fresh) \/ drift' = TRUE
      /\ UNCHANGED <<tab, uid>>
  BY DEF Heart, session
<1> DEFINE under == Outdated(Front(stack))
<1>3. /\ under \in Seq(Pages) /\ Len(under) = Len(stack) - 1
      /\ \A k \in DOMAIN under : Good(under[k], uid', favorite', drift')
  BY <1>1, OutdatedGood
<1> HIDE DEF under, page, list
<1>4. /\ page \in [kind : {"gift"}, gift : Gifts, userId : Users \cup {NoUser},
                   list : Seq(Gifts), fresh : BOOLEAN]
  BY <1>1 DEF Pages
<1>5. list \in Seq(Gifts) /\ IsInjective(list)
  BY <1>2 DEF ListsInv
<1>6. /\ new \in [kind : {"gift"}, gift : Gifts, userId : Users \cup {NoUser},
                  list : Seq(Gifts), fresh : BOOLEAN]
      /\ new.list = list /\ new.userId = page.userId /\ new.fresh = page.fresh
  BY <1>4, <1>5
<1> HIDE DEF new
<1>7. new \in Pages
  BY <1>6 DEF Pages
<1>8. Good(new, uid', favorite', drift')
  <2>1. SUFFICES ASSUME new.fresh, ~ drift' PROVE new.userId = uid'
    BY <1>2, <1>5, <1>6, Zenon DEF Good
  <2>2. page.fresh /\ ~ drift
    BY <1>2, <1>6, <2>1 DEF ListsInv
  <2>3. page.userId = uid
    BY <1>1, <2>2 DEF Good
  <2>4. QED  BY <1>2, <1>6, <2>3
<1>9. stack' = Append(under, new)
  BY <1>2 DEF under
<1>10. /\ stack' \in Seq(Pages) /\ Len(stack') = Len(under) + 1 /\ Len(under) \in Nat
       /\ \A k \in DOMAIN stack' : Good(stack'[k], uid', favorite', drift')
  BY <1>3, <1>7, <1>8, <1>9, AppendGood
<1>11. Len(stack') <= MaxStack
  BY <1>1, <1>3, <1>10, LimitsAssumption
<1>12. QED  BY <1>2, <1>10, <1>11 DEF StackInv

LEMMA SignInStack ==
    ASSUME ListsInv, StackInv, UnderWayInv, ListsInv', NEW i \in 1 .. MaxSignIns,
           \/ Find(i) \/ Auth(i) \/ Verified(i) \/ Merged(i) \/ Known(i) \/ New(i)
           \/ Stored(i) \/ ReadFavourites(i) \/ TokenStored(i) \/ SignInFails(i)
    PROVE  StackInv'
<1>1. i \in DOMAIN signins
  BY DEF Find, Auth, Verified, Merged, Known, New, Stored, ReadFavourites, TokenStored,
         SignInFails, At
<1>2. signins[i] \in SignIns
  BY <1>1, UserOf
<1>3. stack \in Seq(Pages) /\ Len(stack) <= MaxStack
  BY DEF StackInv
<1>4. CASE \/ Find(i) \/ Auth(i) \/ Verified(i) \/ Merged(i) \/ Known(i) \/ New(i)
           \/ SignInFails(i)
  <2>1. UNCHANGED <<pages, favorite>> /\ (drift' \/ UNCHANGED <<uid, drift>>)
    BY <1>4 DEF Find, Auth, Verified, Merged, Known, New, SignInFails, SetUid, session
  <2>2. QED  BY <2>1, StayKeeps
<1>5. CASE Stored(i)
  <2>1. Leave(i, stack) /\ drift' = TRUE /\ UNCHANGED favorite
    BY <1>5 DEF Stored
  <2>2. \A k \in DOMAIN stack : Good(stack[k], uid', favorite', drift')
    BY <2>1 DEF StackInv, Good
  <2>3. QED  BY <1>2, <1>3, <2>1, <2>2, LeaveStack
<1>6. CASE TokenStored(i)
  <2>1. Leave(i, stack) /\ UNCHANGED <<uid, favorite, drift>>
    BY <1>6 DEF TokenStored
  <2>2. \A k \in DOMAIN stack : Good(stack[k], uid', favorite', drift')
    BY <2>1 DEF StackInv
  <2>3. QED  BY <1>2, <1>3, <2>1, <2>2, LeaveStack
<1>7. CASE ReadFavourites(i)
  <2> DEFINE old == Outdated(stack)
  <2>1. \/ stack' = old /\ UNCHANGED tab
        \/ Leave(i, old)
    BY <1>7 DEF ReadFavourites
  <2>2. /\ old \in Seq(Pages) /\ Len(old) <= MaxStack
        /\ \A k \in DOMAIN old : Good(old[k], uid', favorite', drift')
    BY <1>3, OutdatedGood DEF StackInv
  <2>3. CASE Leave(i, old)
    <3> HIDE DEF old
    <3> QED  BY <1>2, <2>2, <2>3, LeaveStack
  <2>4. QED  BY <2>1, <2>3, OutdateKeeps
<1>8. QED  BY <1>4, <1>5, <1>6, <1>7

LEMMA NextStack ==
    ASSUME ListsInv, StackInv, UnderWayInv, ListsInv', [Next]_vars
    PROVE  StackInv'
<1>1. ASSUME UNCHANGED <<pages, session, favorite, drift>> PROVE StackInv'
  BY <1>1 DEF pages, session, StackInv
<1>2. CASE OpenLogin
  <2>1. PICK g \in Gifts \cup {NoGift} : Push([kind |-> "login", gift |-> g])
    <3>1. Top = "gift" => Last(stack) \in Pages /\ Last(stack).kind = "gift"
      BY TopPage
    <3>2. QED  BY <1>2, <3>1 DEF OpenLogin, Pages
  <2>2. PICK page \in Pages : page = [kind |-> "login", gift |-> g]
    BY DEF Pages
  <2>3. Good(page, uid, favorite, drift)
    BY <2>2 DEF Good
  <2>4. Push(page) /\ UNCHANGED <<tab, uid, favorite, drift>>
    BY <1>2, <2>1, <2>2 DEF OpenLogin, session, history
  <2>5. QED  BY <2>3, <2>4, PushKeeps
<1>3. CASE OpenSignOut
  <2>1. PICK page \in Pages : page = [kind |-> "dialog", signingOut |-> FALSE]
    BY DEF Pages
  <2>2. Good(page, uid, favorite, drift)
    BY <2>1 DEF Good
  <2>3. Push(page) /\ UNCHANGED <<tab, uid, favorite, drift>>
    BY <1>3, <2>1 DEF OpenSignOut, session, history
  <2>4. QED  BY <2>2, <2>3, PushKeeps
<1>4. CASE Back
  <2>1. /\ stack # <<>> /\ stack' = Front(stack) /\ stack \in Seq(Pages)
        /\ UNCHANGED <<tab, uid, favorite, drift>>
    BY <1>4 DEF Back, session, history, StackInv
  <2>2. /\ stack' \in Seq(Pages) /\ Len(stack') = Len(stack) - 1
        /\ Len(stack) \in Nat \ {0} /\ DOMAIN stack' = 1 .. Len(stack) - 1
        /\ \A k \in 1 .. Len(stack) - 1 : stack'[k] = stack[k]
    BY <2>1, FrontFacts
  <2>3. DOMAIN stack = 1 .. Len(stack) /\ Len(stack') <= MaxStack
    BY <2>1, <2>2, LenProperties, LimitsAssumption DEF StackInv
  <2>4. QED  BY <2>1, <2>2, <2>3 DEF StackInv
<1>5. CASE Heart
  BY <1>5, HeartStack
<1>6. ASSUME NEW t \in {"home", "fav"}, SelectTab(t) PROVE StackInv'
  BY <1>6 DEF SelectTab, session, StackInv
<1>7. ASSUME NEW g \in Gifts, OpenGift(g) PROVE StackInv'
  <2>1. PICK page : page = FreshGift(g)
    OBVIOUS
  <2>2. page \in Pages /\ Good(page, uid, favorite, drift)
    BY <2>1, GiftPageGood DEF FreshGift, ListsInv
  <2>3. Push(page) /\ UNCHANGED <<tab, uid, favorite, drift>>
    BY <1>7, <2>1 DEF OpenGift, session, history
  <2>4. QED  BY <2>2, <2>3, PushKeeps
<1>8. ASSUME NEW u \in Users, Begin(u) PROVE StackInv'
  BY <1>1, <1>8 DEF Begin
<1>9. ASSUME NEW i \in 1 .. MaxSignIns,
             \/ Find(i) \/ Auth(i) \/ Verified(i) \/ Merged(i) \/ Known(i) \/ New(i)
             \/ Stored(i) \/ ReadFavourites(i) \/ TokenStored(i) \/ SignInFails(i)
      PROVE  StackInv'
  BY <1>9, SignInStack
<1>10. CASE Confirm
  <2> DEFINE page  == Last(stack)
             front == Front(stack)
             new   == [page EXCEPT !.signingOut = TRUE]
  <2>1. /\ page \in Pages /\ page.kind = "dialog"
        /\ front \in Seq(Pages) /\ Len(front) = Len(stack) - 1
        /\ Len(stack) \in 1 .. MaxStack
        /\ \A k \in DOMAIN front : Good(front[k], uid, favorite, drift)
    BY <1>10, TopPage DEF Confirm
  <2>2. stack' = Append(front, new) /\ UNCHANGED <<tab, uid, favorite, drift>>
    BY <1>10 DEF Confirm, session
  <2> HIDE DEF page, front
  <2>3. page \in [kind : {"dialog"}, signingOut : BOOLEAN]
    BY <2>1 DEF Pages
  <2>4. new \in Pages /\ new.kind = "dialog"
    BY <2>3 DEF Pages
  <2> HIDE DEF new
  <2>5. Good(new, uid, favorite, drift)
    BY <2>4 DEF Good
  <2>6. /\ stack' \in Seq(Pages) /\ Len(stack') = Len(front) + 1 /\ Len(front) \in Nat
        /\ \A k \in DOMAIN stack' : Good(stack'[k], uid, favorite, drift)
    BY <2>1, <2>2, <2>4, <2>5, AppendGood
  <2>7. Len(stack') <= MaxStack
    BY <2>1, <2>6, LimitsAssumption
  <2>8. QED  BY <2>2, <2>6, <2>7 DEF StackInv
<1>11. CASE ClearPreferences
  BY <1>11, OutdateKeeps, HomeKeeps DEF ClearPreferences, SignedOut
<1>12. CASE AuthSignOut
  BY <1>12, OutdateKeeps, HomeKeeps DEF AuthSignOut, SignedOut
<1>13. CASE Kill
  BY <1>13, HomeKeeps DEF Kill
<1>14. CASE Retry \/ Offline \/ Online \/ Answered \/ QueryFails
  BY <1>1, <1>14 DEF Retry, Offline, Online, Answered, QueryFails, BesidesFavPage
<1>15. CASE SignOutFails \/ UNCHANGED vars
  BY <1>1, <1>15 DEF SignOutFails, vars, history
<1>16. QED
  BY <1>2, <1>3, <1>4, <1>5, <1>6, <1>7, <1>8, <1>9, <1>10, <1>11, <1>12, <1>13, <1>14,
     <1>15 DEF Next

-----------------------------------------------------------------------------
(***************************************************************************)
(* What is under way                                                       *)
(***************************************************************************)
LEMMA Places0 == Gone \in Gone .. MaxStack /\ 0 \in Gone .. MaxStack
BY LimitsAssumption DEF Gone

\* The pages of those under way move, are covered or go.
LEMMA MovedTyped ==
    ASSUME NEW s \in Seq(SignIns), NEW t,
           \/ t = s
           \/ t = [j \in DOMAIN s |-> [s[j] EXCEPT !.at = Covered(@)]]
           \/ t = [j \in DOMAIN s |-> [s[j] EXCEPT !.at = Unmounted(@)]]
           \/ t = Accompanied(s)
    PROVE  t \in Seq(SignIns)
<1>1. CASE t = s
  BY <1>1
<1>2. CASE t # s
  <2>1. t = [j \in DOMAIN s |-> t[j]]
    BY <1>2 DEF Accompanied
  <2>2. DOMAIN s = 1 .. Len(s) /\ Len(s) \in Nat
    BY LenProperties
  <2>3. ASSUME NEW j \in DOMAIN s PROVE t[j] \in SignIns
    <3>1. s[j] \in SignIns
      BY <2>2, ElementOfSeq
    <3>2. PICK in \in SignIns : in = s[j]
      BY <3>1
    <3>3. in.at \in Gone .. MaxStack
      BY DEF SignIns
    <3>4. CASE t = Accompanied(s)
      <4>1. t[j] = [in EXCEPT !.alone = FALSE]
        BY <3>2, <3>4 DEF Accompanied
      <4>2. QED  BY <4>1 DEF SignIns
    <3>5. CASE t # Accompanied(s)
      <4>1. PICK at \in Gone .. MaxStack : t[j] = [in EXCEPT !.at = at]
        BY <1>2, <3>2, <3>3, <3>5, Places0 DEF Covered, Unmounted
      <4>2. QED  BY <4>1 DEF SignIns
    <3>6. QED  BY <3>4, <3>5
  <2>4. t \in [1 .. Len(s) -> SignIns]
    BY <2>1, <2>2, <2>3
  <2>5. QED  BY <2>2, <2>4, SeqDef
<1>3. QED  BY <1>1, <1>2

LEMMA OutTyped ==
    ASSUME signout \in [step : {"no", "wait", "auth"}, at : Gone .. MaxStack,
                        alone : BOOLEAN],
           NEW out, \/ out = signout
                    \/ out = [signout EXCEPT !.at = Covered(@)]
                    \/ out = [signout EXCEPT !.at = Unmounted(@)]
                    \/ out = [signout EXCEPT !.step = "auth"]
                    \/ out = NoSignOut
    PROVE  out \in [step : {"no", "wait", "auth"}, at : Gone .. MaxStack, alone : BOOLEAN]
<1>1. CASE out = NoSignOut
  BY <1>1, Places0 DEF NoSignOut
<1>2. CASE out = signout \/ out = [signout EXCEPT !.step = "auth"]
  BY <1>2
<1>3. CASE \/ out = [signout EXCEPT !.at = Covered(@)]
           \/ out = [signout EXCEPT !.at = Unmounted(@)]
  <2>1. signout.at \in Gone .. MaxStack
    OBVIOUS
  <2>2. PICK at \in Gone .. MaxStack : out = [signout EXCEPT !.at = at]
    BY <1>3, <2>1, Places0 DEF Covered, Unmounted
  <2>3. QED  BY <2>2
<1>4. QED  BY <1>1, <1>2, <1>3

LEMMA GoToTyped ==
    ASSUME signins \in Seq(SignIns), NEW i \in DOMAIN signins,
           NEW step \in {"doc", "get", "set", "favs", "token"}, GoTo(i, step)
    PROVE  signins' \in Seq(SignIns)
<1>1. signins' = [signins EXCEPT ![i] = [signins[i] EXCEPT !.step = step]]
  BY DEF GoTo
<1>2. signins[i] \in SignIns
  BY LenProperties, ElementOfSeq
<1>3. PICK in : in = [signins[i] EXCEPT !.step = step]
  OBVIOUS
<1>4. in \in SignIns
  BY <1>2, <1>3 DEF SignIns
<1>5. signins' = [signins EXCEPT ![i] = in]
  BY <1>1, <1>3
<1>6. QED  BY <1>4, <1>5, ExceptSeq

LEMMA LeaveUnderWay ==
    ASSUME UnderWayInv, NEW i \in DOMAIN signins, NEW pgs, Leave(i, pgs), UNCHANGED taps
    PROVE  UnderWayInv'
<1> DEFINE rest == RemoveAt(signins, i)
<1>1. signins \in Seq(SignIns) /\ rest \in Seq(SignIns)
  BY RemoveAtPlaces DEF UnderWayInv
<1>2. \/ signins' = rest
      \/ signins' = [j \in DOMAIN rest |-> [rest[j] EXCEPT !.at = Covered(@)]]
  BY DEF Leave
<1> HIDE DEF rest
<1>3. signins' \in Seq(SignIns)
  BY <1>1, <1>2, MovedTyped
<1>4. signout' = signout \/ signout' = [signout EXCEPT !.at = Covered(@)]
  BY DEF Leave
<1>5. signout' \in [step : {"no", "wait", "auth"}, at : Gone .. MaxStack, alone : BOOLEAN]
  BY <1>4, OutTyped DEF UnderWayInv
<1>6. crossed' \in BOOLEAN
  BY DEF Leave, UnderWayInv
<1>7. QED  BY <1>3, <1>5, <1>6 DEF UnderWayInv

LEMMA BeginUnderWay ==
    ASSUME StackInv, UnderWayInv, NEW u \in Users, Begin(u)
    PROVE  UnderWayInv'
<1> DEFINE alone == signins = <<>> /\ signout.step = "no"
           to    == IF FirstStep(u) = "code" THEN NoGift ELSE Last(stack).gift
           in    == [user |-> u, step |-> FirstStep(u), at |-> Len(stack), to |-> to,
                     alone |-> alone]
<1>1. /\ signins' = Append(Accompanied(signins), in) /\ crossed' = (crossed \/ ~ alone)
      /\ signout' = [signout EXCEPT !.alone = signout.step = "no"]
      /\ taps < MaxTaps /\ taps' = taps + 1
  BY DEF Begin
<1>2. /\ Last(stack) \in Pages /\ Last(stack).kind = "login"
      /\ Len(stack) \in 1 .. MaxStack
  BY TopPage DEF Begin
<1>3. Last(stack).gift \in Gifts \cup {NoGift}
  BY <1>2 DEF Pages
<1>4. FirstStep(u) \in {"auth", "find", "code"} /\ to \in Gifts \cup {NoGift}
  BY <1>3 DEF FirstStep
<1>5. Len(stack) \in Gone .. MaxStack
  BY <1>2, LimitsAssumption DEF Gone
<1>6. alone \in BOOLEAN
  OBVIOUS
<1> HIDE DEF alone, to
<1>7. in \in SignIns
  BY <1>4, <1>5, <1>6 DEF SignIns
<1>8. PICK q \in SignIns : q = in
  BY <1>7
<1>9. signins' \in Seq(SignIns)
  BY <1>1, <1>8, MovedTyped, AppendProperties DEF UnderWayInv
<1>10. signout' \in [step : {"no", "wait", "auth"}, at : Gone .. MaxStack, alone : BOOLEAN]
  BY <1>1 DEF UnderWayInv
<1>11. taps' \in 0 .. MaxTaps
  BY <1>1, LimitsAssumption DEF UnderWayInv
<1>12. crossed' \in BOOLEAN
  BY <1>1, <1>6 DEF UnderWayInv
<1>13. QED  BY <1>9, <1>10, <1>11, <1>12 DEF UnderWayInv

LEMMA SignInUnderWay ==
    ASSUME UnderWayInv, NEW i \in 1 .. MaxSignIns,
           \/ Find(i) \/ Auth(i) \/ Verified(i) \/ Merged(i) \/ Known(i) \/ New(i)
           \/ Stored(i) \/ ReadFavourites(i) \/ TokenStored(i) \/ SignInFails(i)
    PROVE  UnderWayInv'
<1>1. i \in DOMAIN signins /\ signins \in Seq(SignIns)
  BY DEF Find, Auth, Verified, Merged, Known, New, Stored, ReadFavourites, TokenStored,
         SignInFails, At, UnderWayInv
<1>2. ASSUME NEW step \in {"doc", "get", "set", "favs", "token"}, GoTo(i, step),
             UNCHANGED <<signout, taps, crossed>>
      PROVE  UnderWayInv'
  BY <1>1, <1>2, GoToTyped DEF UnderWayInv
<1>3. CASE \/ Find(i) \/ Auth(i) \/ Verified(i) \/ Merged(i) \/ Known(i) \/ New(i)
  <2>1. UNCHANGED <<signout, taps, crossed>>
    BY <1>3 DEF Find, Auth, Verified, Merged, Known, New
  <2>2. \E step \in {"doc", "get", "set", "favs", "token"} : GoTo(i, step)
    BY <1>3 DEF Find, Auth, Verified, Merged, Known, New
  <2>3. QED  BY <1>2, <2>1, <2>2
<1>4. CASE Stored(i) \/ TokenStored(i)
  BY <1>1, <1>4, LeaveUnderWay DEF Stored, TokenStored
<1>5. CASE ReadFavourites(i)
  <2>1. \/ GoTo(i, "token") /\ UNCHANGED <<signout, taps, crossed>>
        \/ Leave(i, Outdated(stack)) /\ UNCHANGED taps
    BY <1>5 DEF ReadFavourites
  <2>2. CASE Leave(i, Outdated(stack)) /\ UNCHANGED taps
    BY <1>1, <2>2, LeaveUnderWay
  <2>3. QED  BY <1>2, <2>1, <2>2
<1>6. CASE SignInFails(i)
  <2>1. signins' = RemoveAt(signins, i) /\ UNCHANGED <<signout, taps>>
        /\ crossed' = (crossed \/ Halfway(signins[i]))
    BY <1>6 DEF SignInFails
  <2>2. signins' \in Seq(SignIns)
    BY <1>1, <2>1, RemoveAtPlaces
  <2>3. crossed' \in BOOLEAN
    BY <2>1 DEF Halfway, UnderWayInv
  <2>4. QED  BY <2>1, <2>2, <2>3 DEF UnderWayInv
<1>7. QED  BY <1>3, <1>4, <1>5, <1>6

\* A signing out goes on or ends.
LEMMA OutUnderWay ==
    ASSUME UnderWayInv, UNCHANGED taps, crossed' \in BOOLEAN,
           \/ signins' = signins
           \/ signins' = [j \in DOMAIN signins |-> [signins[j] EXCEPT !.at = Covered(@)]]
           \/ signins' = [j \in DOMAIN signins |-> [signins[j] EXCEPT !.at = Unmounted(@)]],
           \/ signout' = [signout EXCEPT !.at = Unmounted(@)]
           \/ signout' = [signout EXCEPT !.step = "auth"]
           \/ signout' = NoSignOut
    PROVE  UnderWayInv'
<1>1. signins' \in Seq(SignIns)
  BY MovedTyped DEF UnderWayInv
<1>2. signout' \in [step : {"no", "wait", "auth"}, at : Gone .. MaxStack, alone : BOOLEAN]
  BY OutTyped DEF UnderWayInv
<1>3. QED  BY <1>1, <1>2 DEF UnderWayInv

LEMMA NextUnderWay ==
    ASSUME StackInv, UnderWayInv, [Next]_vars
    PROVE  UnderWayInv'
<1>1. ASSUME UNCHANGED <<calls, crossed>>, taps' \in 0 .. MaxTaps PROVE UnderWayInv'
  BY <1>1 DEF calls, UnderWayInv
<1>2. CASE OpenLogin \/ OpenSignOut
  BY <1>1, <1>2 DEF OpenLogin, OpenSignOut, history, UnderWayInv
<1>3. CASE Back
  BY <1>3, OutUnderWay DEF Back, history, UnderWayInv
<1>4. CASE Heart
  <2>1. taps' \in 0 .. MaxTaps
    BY <1>4, LimitsAssumption DEF Heart, UnderWayInv
  <2>2. QED  BY <1>1, <1>4, <2>1 DEF Heart
<1>5. ASSUME NEW t \in {"home", "fav"}, SelectTab(t) PROVE UnderWayInv'
  BY <1>1, <1>5 DEF SelectTab, UnderWayInv
<1>6. ASSUME NEW g \in Gifts, OpenGift(g) PROVE UnderWayInv'
  BY <1>1, <1>6 DEF OpenGift, history, UnderWayInv
<1>7. ASSUME NEW u \in Users, Begin(u) PROVE UnderWayInv'
  BY <1>7, BeginUnderWay
<1>8. ASSUME NEW i \in 1 .. MaxSignIns,
             \/ Find(i) \/ Auth(i) \/ Verified(i) \/ Merged(i) \/ Known(i) \/ New(i)
             \/ Stored(i) \/ ReadFavourites(i) \/ TokenStored(i) \/ SignInFails(i)
      PROVE  UnderWayInv'
  BY <1>8, SignInUnderWay
<1>9. CASE Confirm
  <2>1. /\ signins' = Accompanied(signins) /\ crossed' \in BOOLEAN
        /\ signout' = [step |-> "wait", at |-> Len(stack), alone |-> signins = <<>>]
        /\ taps < MaxTaps /\ taps' = taps + 1
    BY <1>9 DEF Confirm, UnderWayInv
  <2>2. Len(stack) \in Gone .. MaxStack
    BY <1>9, TopPage, LimitsAssumption DEF Confirm, Gone
  <2>3. signins' \in Seq(SignIns)
    BY <2>1, MovedTyped DEF UnderWayInv
  <2>4. taps' \in 0 .. MaxTaps
    BY <2>1, LimitsAssumption DEF UnderWayInv
  <2>5. QED  BY <2>1, <2>2, <2>3, <2>4 DEF UnderWayInv
<1>10. CASE ClearPreferences
  <2>1. UNCHANGED taps /\ crossed' \in BOOLEAN
    BY <1>10 DEF ClearPreferences, UnderWayInv
  <2>2. /\ \/ signins' = signins
           \/ signins' = [j \in DOMAIN signins |-> [signins[j] EXCEPT !.at = Covered(@)]]
        /\ signout' = [signout EXCEPT !.step = "auth"] \/ signout' = NoSignOut
    BY <1>10 DEF ClearPreferences, SignedOut
  <2>3. QED  BY <2>1, <2>2, OutUnderWay
<1>11. CASE AuthSignOut \/ SignOutFails
  <2>1. UNCHANGED taps /\ crossed' \in BOOLEAN
    BY <1>11 DEF AuthSignOut, SignOutFails, UnderWayInv
  <2>2. /\ \/ signins' = signins
           \/ signins' = [j \in DOMAIN signins |-> [signins[j] EXCEPT !.at = Covered(@)]]
        /\ signout' = NoSignOut
    BY <1>11 DEF AuthSignOut, SignOutFails, SignedOut
  <2>3. QED  BY <2>1, <2>2, OutUnderWay
<1>12. CASE Kill
  <2>1. signins' = <<>> /\ signout' = NoSignOut /\ UNCHANGED taps /\ crossed' \in BOOLEAN
    BY <1>12 DEF Kill, UnderWayInv, Halfway
  <2>2. signout' \in [step : {"no", "wait", "auth"}, at : Gone .. MaxStack,
                      alone : BOOLEAN]
    BY <2>1, OutTyped DEF UnderWayInv
  <2>3. QED  BY <2>1, <2>2, EmptySeq DEF UnderWayInv
<1>13. CASE Retry \/ Offline \/ Online \/ Answered \/ QueryFails
  BY <1>1, <1>13 DEF Retry, Offline, Online, Answered, QueryFails, BesidesFavPage,
                     UnderWayInv
<1>14. CASE UNCHANGED vars
  BY <1>1, <1>14 DEF vars, history, UnderWayInv
<1>15. QED
  BY <1>2, <1>3, <1>4, <1>5, <1>6, <1>7, <1>8, <1>9, <1>10, <1>11, <1>12, <1>13, <1>14
  DEF Next

-----------------------------------------------------------------------------
(***************************************************************************)
(* The favourites page                                                     *)
(***************************************************************************)
\* The favourites page stays as it is, and the favourites are as it knows them or
\* it no longer says so.
LEMMA SameFavPage ==
    ASSUME FavPageInv, UNCHANGED <<tab, favPage>>,
           current' = FALSE \/ UNCHANGED <<favorite, current>>
    PROVE  FavPageInv'
<1>1. UNCHANGED <<favIdList, favList, empty, internetError, showLoading, load, tab>>
  BY DEF favPage
<1>2. current' \in BOOLEAN /\ (current' => current /\ UNCHANGED favorite)
  <2>1. current \in BOOLEAN
    BY DEF FavPageInv
  <2>2. CASE current' = FALSE
    BY <2>2
  <2>3. CASE UNCHANGED <<favorite, current>>
    BY <2>1, <2>3
  <2>4. QED  BY <2>2, <2>3
<1>3. FavPageComplete'
  BY <1>1, <1>2 DEF FavPageInv, FavPageComplete, Shown
<1>4. load' = "query" /\ current' => favIdList' = favorite'
  BY <1>1, <1>2 DEF FavPageInv
<1>5. QED  BY <1>1, <1>2, <1>3, <1>4 DEF FavPageInv

\* The page starts anew, or there is none.
LEMMA NewFavPage ==
    ASSUME favIdList' = <<>>, favList' = <<>>, empty' = FALSE, internetError' = FALSE,
           showLoading' = TRUE, load' \in {"no", "check"}, current' \in BOOLEAN
    PROVE  FavPageInv'
BY EmptySeq DEF FavPageInv, FavPageComplete, Shown, Loads

LEMMA HomeFavPage == Home /\ current' \in BOOLEAN => FavPageInv'
BY NewFavPage DEF Home

LEMMA LeaveFavPage ==
    ASSUME FavPageInv, NEW i, NEW pgs, Leave(i, pgs),
           current' = FALSE \/ UNCHANGED <<favorite, current>>
    PROVE  FavPageInv'
<1>1. Home \/ UNCHANGED <<tab, favPage>>
  BY DEF Leave
<1>2. current' \in BOOLEAN
  BY DEF FavPageInv
<1>3. QED  BY <1>1, <1>2, HomeFavPage, SameFavPage

\* The preferences are read.
LEMMA OnlineFavPage ==
    ASSUME ListsInv, FavPageInv, Online
    PROVE  FavPageInv'
<1>1. /\ load = "check" /\ ~ empty /\ (showLoading \/ internetError)
      /\ favorite \in Seq(Gifts) /\ favIdList' = favorite /\ current' = TRUE
      /\ UNCHANGED <<favList, internetError, tab, favorite>>
  BY DEF Online, BesidesFavPage, pages, ListsInv, FavPageInv
<1>2. CASE empty' = TRUE /\ showLoading' = FALSE /\ load' = "no"
  BY <1>1, <1>2 DEF FavPageInv, FavPageComplete, Shown, Loads
<1>3. CASE load' = "query" /\ UNCHANGED <<empty, showLoading>>
  BY <1>1, <1>3 DEF FavPageInv, FavPageComplete, Shown, Loads
<1>4. QED  BY <1>2, <1>3 DEF Online

\* Each gift found is in its place; the others were removed.
LEMMA PlacesFacts ==
    ASSUME favIdList \in Seq(Gifts), NEW removed \in SUBSET Fickle,
           NEW list, list = Places(ToSet(favIdList) \ removed)
    PROVE  /\ list \in Seq(Gifts \cup {Hole}) /\ Len(list) = Len(favIdList)
           /\ \A k \in DOMAIN list :
                 \/ list[k] = Reverse(favIdList)[k]
                 \/ list[k] = Hole /\ Reverse(favIdList)[k] \in Fickle
<1> DEFINE rev   == Reverse(favIdList)
           found == ToSet(favIdList) \ removed
<1>1. /\ rev \in Seq(Gifts) /\ Len(rev) = Len(favIdList) /\ ToSet(rev) = ToSet(favIdList)
      /\ DOMAIN rev = 1 .. Len(rev) /\ Len(rev) \in Nat
  BY ReverseFacts, LenProperties
<1>2. list = [k \in DOMAIN rev |-> IF rev[k] \in found THEN rev[k] ELSE Hole]
  BY DEF Places
<1> HIDE DEF rev
<1>3. \A k \in DOMAIN rev : rev[k] \in Gifts /\ rev[k] \in ToSet(favIdList)
  BY <1>1, ElementOfSeq DEF ToSet
<1>4. list \in [1 .. Len(rev) -> Gifts \cup {Hole}] /\ DOMAIN list = DOMAIN rev
  BY <1>1, <1>2, <1>3
<1>5. list \in Seq(Gifts \cup {Hole}) /\ Len(list) = Len(rev)
  <2>1. PICK n \in Nat : n = Len(rev)
    BY <1>1
  <2>2. PICK T : T = Gifts \cup {Hole}
    OBVIOUS
  <2>3. list \in [1 .. n -> T]
    BY <1>4, <2>1, <2>2
  <2>4. list \in Seq(T) /\ Len(list) = n
    <3>1. list \in Seq(T)
      BY <2>3, SeqDef
    <3>2. DOMAIN list = 1 .. n
      BY <2>3
    <3>3. QED  BY <3>1, <3>2, LenProperties
  <2>5. QED  BY <2>1, <2>2, <2>4, SMTT(40)
<1>6. \A k \in DOMAIN list : list[k] = rev[k] \/ (list[k] = Hole /\ rev[k] \in Fickle)
  BY <1>2, <1>3, <1>4
<1>7. QED  BY <1>1, <1>5, <1>6 DEF rev

\* The answer is shown, or none of the gifts is left and the network is blamed.
LEMMA AnsweredFavPage ==
    ASSUME FavPageInv, Answered
    PROVE  FavPageInv'
<1>1. PICK removed \in SUBSET Fickle :
          /\ favList' = IF ToSet(favIdList) \ removed = {} THEN favList
                        ELSE Places(ToSet(favIdList) \ removed)
          /\ internetError' = (ToSet(favIdList) \ removed = {})
  BY DEF Answered
<1>2. /\ load = "query" /\ load' = "no" /\ ~ empty /\ favIdList \in Seq(Gifts)
      /\ current => favIdList = favorite
      /\ UNCHANGED <<favIdList, empty, current, tab, favorite>> /\ showLoading' = FALSE
  BY DEF Answered, BesidesFavPage, pages, FavPageInv
<1>3. CASE internetError'
  BY <1>1, <1>2, <1>3 DEF FavPageInv, FavPageComplete, Shown, Loads
<1>4. CASE ~ internetError'
  <2>1. favList' = Places(ToSet(favIdList) \ removed)
    BY <1>1, <1>4
  <2>2. /\ favList' \in Seq(Gifts \cup {Hole}) /\ Len(favList') = Len(favIdList)
        /\ \A k \in DOMAIN favList' :
              \/ favList'[k] = Reverse(favIdList)[k]
              \/ favList'[k] = Hole /\ Reverse(favIdList)[k] \in Fickle
    BY <1>2, <2>1, PlacesFacts
  <2>3. FavPageComplete'
    BY <1>2, <2>2 DEF FavPageComplete
  <2>4. internetError' \in BOOLEAN
    BY <1>1
  <2>5. QED  BY <1>2, <2>2, <2>3, <2>4 DEF FavPageInv, Loads
<1>5. QED  BY <1>3, <1>4

LEMMA NextFavPage ==
    ASSUME ListsInv, FavPageInv, [Next]_vars
    PROVE  FavPageInv'
<1>0. current \in BOOLEAN
  BY DEF FavPageInv
<1>1. CASE OpenLogin \/ OpenSignOut \/ Back \/ Confirm \/ SignOutFails
  BY <1>1, SameFavPage DEF OpenLogin, OpenSignOut, Back, Confirm, SignOutFails, pages,
                           history
<1>2. CASE Heart
  BY <1>2, SameFavPage DEF Heart
<1>3. ASSUME NEW t \in {"home", "fav"}, SelectTab(t) PROVE FavPageInv'
  <2>1. load' \in {"no", "check"}
    BY <1>3 DEF SelectTab
  <2>2. QED  BY <1>3, <2>1, NewFavPage DEF SelectTab
<1>4. ASSUME NEW g \in Gifts, OpenGift(g) PROVE FavPageInv'
  BY <1>4, SameFavPage DEF OpenGift, history
<1>5. ASSUME NEW u \in Users, Begin(u) PROVE FavPageInv'
  BY <1>5, SameFavPage DEF Begin, pages
<1>6. ASSUME NEW i \in 1 .. MaxSignIns,
             \/ Find(i) \/ Auth(i) \/ Verified(i) \/ Merged(i) \/ Known(i) \/ New(i)
             \/ SignInFails(i)
      PROVE  FavPageInv'
  BY <1>6, SameFavPage
  DEF Find, Auth, Verified, Merged, Known, New, SignInFails, pages
<1>7. ASSUME NEW i \in 1 .. MaxSignIns, Stored(i) \/ ReadFavourites(i) \/ TokenStored(i)
      PROVE  FavPageInv'
  <2>1. current' = FALSE \/ UNCHANGED <<favorite, current>>
    BY <1>7 DEF Stored, ReadFavourites, TokenStored
  <2>2. UNCHANGED <<tab, favPage>> \/ \E pgs : Leave(i, pgs)
    BY <1>7 DEF Stored, ReadFavourites, TokenStored
  <2>3. QED  BY <2>1, <2>2, SameFavPage, LeaveFavPage
<1>8. CASE ClearPreferences
  BY <1>8, SameFavPage, HomeFavPage DEF ClearPreferences, SignedOut
<1>9. CASE AuthSignOut
  BY <1>0, <1>9, SameFavPage, HomeFavPage DEF AuthSignOut, SignedOut
<1>10. CASE Kill
  BY <1>0, <1>10, HomeFavPage DEF Kill
<1>11. CASE Retry
  <2>1. /\ internetError /\ ~ empty /\ load' = "check"
        /\ UNCHANGED <<favIdList, favList, empty, internetError, showLoading, current,
                       tab, favorite>>
    BY <1>11 DEF Retry, BesidesFavPage, pages
  <2>2. QED  BY <2>1 DEF FavPageInv, FavPageComplete, Shown, Loads
<1>12. CASE Offline
  <2>1. /\ internetError' = TRUE /\ showLoading' = FALSE /\ load' = "no" /\ ~ empty
        /\ UNCHANGED <<favIdList, favList, empty, current, tab, favorite>>
    BY <1>12 DEF Offline, BesidesFavPage, pages, FavPageInv
  <2>2. QED  BY <2>1 DEF FavPageInv, FavPageComplete, Shown, Loads
<1>13. CASE Online
  BY <1>13, OnlineFavPage
<1>14. CASE Answered
  BY <1>14, AnsweredFavPage
<1>15. CASE QueryFails
  <2>1. /\ load' = "no"
        /\ UNCHANGED <<favIdList, favList, empty, internetError, showLoading, current,
                       tab, favorite>>
    BY <1>15 DEF QueryFails, BesidesFavPage, pages
  <2>2. QED  BY <2>1 DEF FavPageInv, FavPageComplete, Shown, Loads
<1>16. CASE UNCHANGED vars
  BY <1>16, SameFavPage DEF vars, pages, history
<1>17. QED
  BY <1>1, <1>2, <1>3, <1>4, <1>5, <1>6, <1>7, <1>8, <1>9, <1>10, <1>11, <1>12, <1>13,
     <1>14, <1>15, <1>16 DEF Next

LEMMA NextKept ==
    ASSUME kept \in BOOLEAN, [Next]_vars
    PROVE  kept' \in BOOLEAN
<1>1. CASE \/ OpenLogin \/ OpenSignOut \/ Back \/ Heart \/ UNCHANGED vars
           \/ \E t \in {"home", "fav"} : SelectTab(t)
           \/ \E g \in Gifts : OpenGift(g)
           \/ \E u \in Users : Begin(u)
  BY <1>1 DEF OpenLogin, OpenSignOut, Back, Heart, SelectTab, OpenGift, Begin, vars, history
<1>2. ASSUME NEW i \in 1 .. MaxSignIns,
             \/ Find(i) \/ Auth(i) \/ Verified(i) \/ Merged(i) \/ Known(i) \/ New(i)
             \/ Stored(i) \/ ReadFavourites(i) \/ TokenStored(i) \/ SignInFails(i)
      PROVE  kept' \in BOOLEAN
  BY <1>2 DEF Find, Auth, Verified, Merged, Known, New, Stored, ReadFavourites,
              TokenStored, SignInFails
<1>3. CASE Confirm \/ ClearPreferences \/ AuthSignOut \/ SignOutFails \/ Kill
  BY <1>3 DEF Confirm, ClearPreferences, AuthSignOut, SignOutFails, Kill
<1>4. CASE Retry \/ Offline \/ Online \/ Answered \/ QueryFails
  BY <1>4 DEF Retry, Offline, Online, Answered, QueryFails, BesidesFavPage
<1>5. QED  BY <1>1, <1>2, <1>3, <1>4 DEF Next

-----------------------------------------------------------------------------
LEMMA InitFavourites == Init => FavouritesInv
<1> SUFFICES ASSUME Init PROVE FavouritesInv
  OBVIOUS
<1>1. uid \in Users \cup {NoUser} /\ docs \subseteq Users /\ NoUser \notin Users
  BY UsersAssumption DEF Init
<1>2. favorites \in [Users -> Seq(Gifts)] /\ \A u \in Users : IsInjective(favorites[u])
  BY GiftsAssumption DEF Init
<1>3. /\ favorite \in Seq(Gifts) /\ IsInjective(favorite)
      /\ uid # NoUser => ToSet(favorite) = ToSet(favorites[uid])
  <2>1. CASE uid = NoUser
    BY <2>1, EmptySeq DEF Init, IsInjective
  <2>2. CASE uid # NoUser
    BY <1>1, <1>2, <2>2, ReverseFacts DEF Init
  <2>3. QED  BY <2>1, <2>2
<1>4. ListsInv
  BY <1>1, <1>2, <1>3 DEF Init, ListsInv
<1>5. StackInv
  BY NoPages DEF Init, StackInv
<1>6. UnderWayInv
  <2>1. signout \in [step : {"no", "wait", "auth"}, at : Gone .. MaxStack, alone : BOOLEAN]
    BY Places0 DEF Init, NoSignOut
  <2>2. taps \in 0 .. MaxTaps
    BY LimitsAssumption DEF Init
  <2>3. QED  BY <2>1, <2>2, EmptySeq DEF Init, UnderWayInv
<1>7. FavPageInv
  BY EmptySeq DEF Init, FavPageInv, FavPageComplete, Shown, Loads
<1>8. QED  BY <1>4, <1>5, <1>6, <1>7 DEF Init, FavouritesInv

LEMMA NextFavourites == FavouritesInv /\ [Next]_vars => FavouritesInv'
BY NextLists, NextStack, NextUnderWay, NextFavPage, NextKept DEF FavouritesInv

\* In every state of every run the lists have no gift twice, and the pages, the
\* sign-ins and the favourites page are of their types (the whole phone).
THEOREM FavouritesTyped == Spec => []TypeOK
<1>1. FavouritesInv => TypeOK
  BY DEF FavouritesInv, ListsInv, StackInv, UnderWayInv, FavPageInv, TypeOK
<1>2. QED  BY <1>1, InitFavourites, NextFavourites, PTL DEF Spec

\* For any users, gifts and pages and whatever the sign-ins, the signing out and
\* the hearts met: the phone has the favourites of its user, and each gift page
\* its heart, unless one of the writes named at FavouritesAgree came between.
THEOREM FavouritesHeld == Spec => []FavouritesAgree
<1>1. FavouritesInv => FavouritesAgree
  BY DEF FavouritesInv, ListsInv, StackInv, Good, FavouritesAgree
<1>2. QED  BY <1>1, InitFavourites, NextFavourites, PTL DEF Spec

\* Whatever the favourites did while it loaded, the favourites page shows those it
\* read, each in its place from the last of the list to the first, and holes for
\* removed gifts only (_getFavIdList).
THEOREM FavPageHeld == Spec => []FavPageComplete
<1>1. FavouritesInv => FavPageComplete
  BY DEF FavouritesInv, FavPageInv
<1>2. QED  BY <1>1, InitFavourites, NextFavourites, PTL DEF Spec
=============================================================================
