---------------------------- MODULE Signup_proof ----------------------------
(***************************************************************************)
(* Proofs about Signup, for any devices, names, numbers and attempts.      *)
(***************************************************************************)
EXTENDS Signup, SequenceTheorems, TLAPS

-----------------------------------------------------------------------------
(***************************************************************************)
(* The code pages of a device                                              *)
(***************************************************************************)
LEMMA PushSet ==
    ASSUME NEW S, NEW s \in Seq(S), NEW e \in S
    PROVE  Append(s, e) \in Seq(S) /\ ToSet(Append(s, e)) = ToSet(s) \cup {e}
<1> DEFINE t == Append(s, e)
<1>1. /\ t \in Seq(S) /\ Len(t) = Len(s) + 1
      /\ \A i \in 1 .. Len(s) : t[i] = s[i]
      /\ t[Len(s) + 1] = e
  BY AppendProperties
<1>2. /\ DOMAIN t = 1 .. Len(t) /\ DOMAIN s = 1 .. Len(s)
      /\ Len(s) \in Nat
  BY <1>1, LenProperties
<1> HIDE DEF t
<1>3. ASSUME NEW x \in ToSet(t) PROVE x \in ToSet(s) \cup {e}
  <2>1. PICK i \in 1 .. Len(s) + 1 : x = t[i]
    BY <1>1, <1>2 DEF ToSet
  <2>2. CASE i \in 1 .. Len(s)
    BY <1>1, <1>2, <2>1, <2>2 DEF ToSet
  <2>3. CASE i = Len(s) + 1
    BY <1>1, <2>1, <2>3
  <2>4. QED  BY <1>2, <2>1, <2>2, <2>3
<1>4. ASSUME NEW x \in ToSet(s) PROVE x \in ToSet(t)
  <2>1. PICK i \in 1 .. Len(s) : x = s[i]
    BY <1>2 DEF ToSet
  <2>2. i \in DOMAIN t /\ x = t[i]
    BY <1>1, <1>2, <2>1
  <2>3. QED  BY <2>2 DEF ToSet
<1>5. e \in ToSet(t)
  <2>1. Len(s) + 1 \in DOMAIN t
    BY <1>1, <1>2
  <2>2. QED  BY <1>1, <2>1 DEF ToSet
<1>6. QED  BY <1>1, <1>3, <1>4, <1>5 DEF t

LEMMA PopSet ==
    ASSUME NEW S, NEW s \in Seq(S), s # <<>>
    PROVE  /\ Front(s) \in Seq(S) /\ ToSet(Front(s)) \subseteq ToSet(s)
           /\ Last(s) \in ToSet(s)
<1>1. Len(s) \in Nat \ {0} /\ DOMAIN s = 1 .. Len(s)
  BY EmptySeq, LenProperties
<1>2. /\ Front(s) \in Seq(S)
      /\ Len(Front(s)) = Len(s) - 1
      /\ \A i \in 1 .. Len(s) - 1 : Front(s)[i] = s[i]
  BY <1>1, SubSeqProperties DEF Front
<1>3. DOMAIN Front(s) = 1 .. Len(s) - 1
  BY <1>2, LenProperties
<1>4. \A i \in 1 .. Len(s) - 1 : i \in 1 .. Len(s)
  BY <1>1
<1>5. ToSet(Front(s)) \subseteq ToSet(s)
  BY <1>1, <1>2, <1>3, <1>4 DEF ToSet
<1>6. Len(s) \in DOMAIN s
  BY <1>1
<1>7. Last(s) \in ToSet(s)
  BY <1>6 DEF ToSet, Last
<1>8. QED  BY <1>2, <1>5, <1>7

OnStack(a) == a \in ToSet(otps[DeviceOf[a]])

LEMMA TopOnStack ==
    ASSUME TypeOK, NEW a \in Attempts, OnTop(a)
    PROVE  OnStack(a)
<1>1. otps[DeviceOf[a]] \in Seq(Attempts)
  BY DeviceOfAssumption DEF TypeOK
<1>2. QED  BY <1>1, PopSet DEF OnTop, OnStack

-----------------------------------------------------------------------------
(***************************************************************************)
(* The calls of saveUser                                                   *)
(***************************************************************************)
Writing == [at : {"usersAuth", "users"}, uid : Numbers, fields : Fields, edited : Spoilt]

LEMMA SaveTypes ==
    ASSUME TypeOK, NEW a \in Attempts, NEW by \in By
    PROVE  /\ saves[a][by] \in Saves
           /\ saves[a][by].at \in {"usersAuth", "users"} => saves[a][by] \in Writing
           /\ saves[a][by] = NoSave => saves[a][by].at = "none"
           /\ key[a] \in Fields /\ otp[a] \in Fields /\ FormOf(a) \in Fields
           /\ edited[a][by] \in Spoilt
<1>1. saves[a][by] \in Saves
  BY DEF TypeOK
<1>2. saves[a][by].at \in {"usersAuth", "users"} => saves[a][by] \in Writing
  BY <1>1 DEF Saves, Writing, NoSave, Settled
<1>3. QED  BY <1>1, <1>2, DeviceOfAssumption DEF TypeOK, NoSave, FormOf

\* Each step of a save changes that save only.
Others(a, by) == \A b \in Attempts, y \in By :
                     b # a \/ y # by => saves'[b][y] = saves[b][y]

LEMMA StartFacts ==
    ASSUME TypeOK, NEW a \in Attempts, NEW by \in By, NEW f \in Fields, Start(a, by, f)
    PROVE  /\ saves' \in [Attempts -> [By -> Saves]]
           /\ Others(a, by)
           /\ saves[a][by] = NoSave
           /\ saves'[a][by] = [at |-> "usersAuth", uid |-> key[a].number, fields |-> f,
                               edited |-> edited[a][by]]
<1> DEFINE s == [at |-> "usersAuth", uid |-> key[a].number, fields |-> f,
                 edited |-> edited[a][by]]
<1>1. saves' = [saves EXCEPT ![a][by] = s] /\ saves[a][by] = NoSave
  BY DEF Start
<1>2. s \in Saves
  BY SaveTypes DEF Saves, Fields
<1>3. saves \in [Attempts -> [By -> Saves]]
  BY DEF TypeOK
<1> HIDE DEF s
<1>4. QED  BY <1>1, <1>2, <1>3 DEF Others, s

LEMMA SettleFacts ==
    ASSUME TypeOK, NEW a \in Attempts, NEW by \in By, Settle(a, by)
    PROVE  /\ saves' \in [Attempts -> [By -> Saves]]
           /\ Others(a, by)
           /\ saves'[a][by] = Settled /\ saves'[a][by].at = "settled"
<1>1. Settled \in Saves /\ Settled.at = "settled"
  BY DEF Saves, Settled
<1>2. saves \in [Attempts -> [By -> Saves]]
  BY DEF TypeOK
<1>3. QED  BY <1>1, <1>2 DEF Settle, Others

LEMMA AdvanceFacts ==
    ASSUME TypeOK, NEW a \in Attempts, NEW by \in By,
           saves[a][by].at = "usersAuth", Advance(a, by)
    PROVE  /\ saves' \in [Attempts -> [By -> Saves]]
           /\ Others(a, by)
           /\ saves'[a][by].at \in {"settled", "users"}
           /\ saves'[a][by].at = "users" => saves'[a][by].uid = saves[a][by].uid
           /\ saves'[a][by] # NoSave
<1> DEFINE s == [saves[a][by] EXCEPT !.at = "users"]
<1>1. CASE killed[a]
  BY <1>1, SettleFacts DEF Advance, Settled, NoSave
<1>2. CASE ~ killed[a]
  <2>1. saves[a][by] \in Writing
    BY SaveTypes
  <2>2. s \in Saves /\ s.at = "users" /\ s.uid = saves[a][by].uid
    BY <2>1 DEF Writing, Saves
  <2>3. saves' = [saves EXCEPT ![a][by] = s]
    BY <1>2 DEF Advance
  <2>4. saves \in [Attempts -> [By -> Saves]]
    BY DEF TypeOK
  <2> HIDE DEF s
  <2>5. saves' \in [Attempts -> [By -> Saves]] /\ Others(a, by) /\ saves'[a][by] = s
    BY <2>2, <2>3, <2>4 DEF Others
  <2>6. QED  BY <2>2, <2>5 DEF NoSave
<1>3. QED  BY <1>1, <1>2

-----------------------------------------------------------------------------
(***************************************************************************)
(* Types                                                                   *)
(***************************************************************************)
LEMMA InitType == Init => TypeOK
<1> SUFFICES ASSUME Init PROVE TypeOK
  OBVIOUS
<1>1. key \in [Attempts -> Fields] /\ otp \in [Attempts -> Fields]
  BY DeviceOfAssumption DEF Init
<1>2. otps \in [Devices -> Seq(Attempts)]
  BY EmptySeq DEF Init
<1>3. saves \in [Attempts -> [By -> Saves]]
  BY DEF Init, Saves
<1>4. /\ edits \in 0 .. MaxEdits
      /\ edited \in [Attempts -> [By -> Spoilt]] /\ dirty \in [Numbers -> Spoilt]
  BY MaxEditsAssumption DEF Init, Spoilt
<1>5. /\ home \in [Devices -> BOOLEAN] /\ killed \in [Attempts -> BOOLEAN]
      /\ overtaken \in [Attempts -> BOOLEAN] /\ at \in [Attempts -> Places]
  BY DEF Init, Places
<1>6. usersAuth \in [Numbers -> Fields \cup {NoDoc}] /\ users \subseteq Numbers
  BY DEF Init
<1>7. form \in [Devices -> Fields]
  BY DEF Init
<1>8. QED  BY <1>1, <1>2, <1>3, <1>4, <1>5, <1>6, <1>7 DEF TypeOK

\* An attempt that goes on, with its fields, or stops
LEMMA GoOnType ==
    ASSUME TypeOK, NEW a \in Attempts, NEW next \in Places, GoOn(a, next) \/ Stop(a)
    PROVE  TypeOK'
<1>1. at' \in [Attempts -> Places]
  BY DEF GoOn, Stop, TypeOK, Places
<1>2. key' \in [Attempts -> Fields]
  BY SaveTypes, ZenonT(60) DEF GoOn, Stop, TypeOK, By
<1>3. UNCHANGED <<store, device, otp, saves, killed, history>>
  BY DEF GoOn, Stop
<1>4. QED  BY <1>1, <1>2, <1>3 DEF TypeOK, store, device, history

LEMMA NextType == TypeOK /\ [Next]_vars => TypeOK'
<1> SUFFICES ASSUME TypeOK, [Next]_vars PROVE TypeOK'
  OBVIOUS
<1>0. Places = {"idle", "image", "sms", "otp", "ended", "name", "number"}
  BY DEF Places, Checking
<1>b. \A a \in Attempts : FormOf(a) \in Fields /\ otps[DeviceOf[a]] \in Seq(Attempts)
  BY DeviceOfAssumption DEF TypeOK, FormOf
<1>1. ASSUME NEW d \in Devices, Kill(d) PROVE TypeOK'
  <2>1. otps' \in [Devices -> Seq(Attempts)]
    BY <1>1, EmptySeq DEF Kill, TypeOK
  <2>2. killed' \in [Attempts -> BOOLEAN]
    BY <1>1 DEF Kill
  <2>3. at' \in [Attempts -> Places]
    BY <1>0, <1>1 DEF Kill, TypeOK
  <2>4. home' \in [Devices -> BOOLEAN]
    BY <1>1 DEF Kill, TypeOK
  <2>5. QED  BY <1>1, <2>1, <2>2, <2>3, <2>4 DEF Kill, TypeOK, store, history
<1>2. ASSUME NEW d \in Devices, NEW f \in Fields, Edit(d, f) PROVE TypeOK'
  <2>1. \A a \in Attempts, by \in By : Spoils(a, by) \in Spoilt
    BY DEF Spoils, Spoilt, TypeOK
  <2>2. edited' \in [Attempts -> [By -> Spoilt]]
    BY <1>2, <2>1 DEF Edit, TypeOK
  <2>3. form' \in [Devices -> Fields]
    BY <1>2 DEF Edit, TypeOK
  <2>4. edits' \in 0 .. MaxEdits
    BY <1>2, MaxEditsAssumption DEF Edit, TypeOK
  <2>5. QED  BY <1>2, <2>2, <2>3, <2>4 DEF Edit, TypeOK, store, attempt
<1>3. ASSUME NEW a \in Attempts, Tap(a) PROVE TypeOK'
  <2>1. at' \in [Attempts -> Places] /\ key' \in [Attempts -> Fields]
    BY <1>0, <1>b, <1>3 DEF Tap, TypeOK
  <2>2. QED  BY <1>3, <2>1 DEF Tap, TypeOK, store, device, history
<1>4. ASSUME NEW a \in Attempts,
             CheckUser(a) \/ CheckPhone(a) \/ ImageUploaded(a) \/ AttemptFails(a)
      PROVE  TypeOK'
  BY <1>0, <1>4, GoOnType DEF CheckUser, CheckPhone, ImageUploaded, AttemptFails
<1>5. ASSUME NEW a \in Attempts, CodeSent(a) PROVE TypeOK'
  <2>1. Append(otps[DeviceOf[a]], a) \in Seq(Attempts)
    BY <1>b, PushSet
  <2>2. otps' \in [Devices -> Seq(Attempts)]
    BY <1>5, <2>1 DEF CodeSent, TypeOK
  <2>3. at' \in [Attempts -> Places] /\ otp' \in [Attempts -> Fields]
    BY <1>0, <1>b, <1>5 DEF CodeSent, TypeOK
  <2>4. QED  BY <1>5, <2>2, <2>3 DEF CodeSent, TypeOK, store, history
<1>6. ASSUME NEW a \in Attempts, Resend(a) PROVE TypeOK'
  <2>1. key' \in [Attempts -> Fields]
    BY <1>6 DEF Resend, TypeOK
  <2>2. QED  BY <1>6, <2>1 DEF Resend, TypeOK, store, device, history
<1>7. ASSUME NEW a \in Attempts, Back(a) PROVE TypeOK'
  <2>1. Front(otps[DeviceOf[a]]) \in Seq(Attempts)
    BY <1>b, <1>7, PopSet DEF Back, OnTop
  <2>2. otps' \in [Devices -> Seq(Attempts)]
    BY <1>7, <2>1 DEF Back, TypeOK
  <2>3. QED  BY <1>7, <2>2 DEF Back, TypeOK, store, attempt, history
<1>8. ASSUME NEW a \in Attempts, VerifiedByForm(a) \/ VerifiedByPage(a) PROVE TypeOK'
  <2>1. PICK by \in By, f \in Fields : Start(a, by, f)
    BY <1>b, <1>8 DEF VerifiedByForm, VerifiedByPage, By, TypeOK
  <2>2. saves' \in [Attempts -> [By -> Saves]]
    BY <2>1, StartFacts
  <2>3. UNCHANGED <<store, device, at, key, otp, killed, history>>
    BY <2>1 DEF Start
  <2>4. QED  BY <2>2, <2>3 DEF TypeOK, store, device, history
<1>9. ASSUME NEW a \in Attempts, NEW by \in By, WriteUsersAuth(a, by) PROVE TypeOK'
  <2>1. saves[a][by] \in Writing /\ saves[a][by].at = "usersAuth"
    BY <1>9, SaveTypes DEF WriteUsersAuth
  <2>2. usersAuth' \in [Numbers -> Fields \cup {NoDoc}]
    BY <1>9, <2>1 DEF WriteUsersAuth, TypeOK, Writing
  <2>3. dirty' \in [Numbers -> Spoilt]
    <3>1. saves[a][by].edited \in Spoilt /\ "name" \in Spoilt
      BY <2>1 DEF Writing, Spoilt
    <3>2. QED  BY <1>9, <3>1 DEF WriteUsersAuth, TypeOK
  <2>4. overtaken' \in [Attempts -> BOOLEAN]
    BY <1>9 DEF WriteUsersAuth, Overtaken
  <2>5. saves' \in [Attempts -> [By -> Saves]]
    BY <1>9, <2>1, AdvanceFacts DEF WriteUsersAuth
  <2>6. QED
    BY <1>9, <2>2, <2>3, <2>4, <2>5 DEF WriteUsersAuth, TypeOK, device
<1>10. ASSUME NEW a \in Attempts, NEW by \in By, WriteUsers(a, by) PROVE TypeOK'
  <2>1. saves[a][by] \in Writing
    BY <1>10, SaveTypes DEF WriteUsers
  <2>2. users' \subseteq Numbers
    BY <1>10, <2>1 DEF WriteUsers, TypeOK, Writing
  <2>3. home' \in [Devices -> BOOLEAN]
    BY <1>10 DEF WriteUsers, TypeOK
  <2>4. saves' \in [Attempts -> [By -> Saves]]
    BY <1>10, SettleFacts DEF WriteUsers
  <2>5. QED  BY <1>10, <2>2, <2>3, <2>4 DEF WriteUsers, TypeOK, history
<1>11. ASSUME NEW a \in Attempts, NEW by \in By, SaveFails(a, by) PROVE TypeOK'
  <2>1. saves' \in [Attempts -> [By -> Saves]]
    BY <1>11, SettleFacts DEF SaveFails
  <2>2. QED  BY <1>11, <2>1 DEF SaveFails, TypeOK, store, device, history
<1>12. CASE UNCHANGED vars
  BY <1>12 DEF vars, store, device, attempt, history, TypeOK
<1>13. QED
  BY <1>1, <1>2, <1>3, <1>4, <1>5, <1>6, <1>7, <1>8, <1>9, <1>10, <1>11, <1>12 DEF Next

\* Every field keeps its type, however many attempts, pages, saves and deaths
\* there are; in particular no save is answered twice (saveUser).
THEOREM TypeCorrect == Spec => []TypeOK
<1>1. QED  BY InitType, NextType, PTL DEF Spec

-----------------------------------------------------------------------------
(***************************************************************************)
(* What was checked, what was verified, and what will be stored            *)
(***************************************************************************)
\* A code page on the stack keeps its form as it was when the code was sent.
PageHeld(a) == OnStack(a) => at[a] = "otp" /\ otp[a] = FormOf(a)
PageInv     == \A a \in Attempts : PageHeld(a)

LEMMA InitPage == Init => PageInv
<1> SUFFICES ASSUME Init, NEW a \in Attempts PROVE PageHeld(a)
  BY DEF PageInv
<1>1. otps[DeviceOf[a]] = <<>>
  BY DeviceOfAssumption DEF Init
<1>2. ToSet(<<>>) = {}
  BY DEF ToSet
<1>3. QED  BY <1>1, <1>2 DEF PageHeld, OnStack

LEMMA NextPage == TypeOK /\ PageInv /\ [Next]_vars => PageInv'
<1> SUFFICES ASSUME TypeOK, PageInv, [Next]_vars, NEW b \in Attempts PROVE PageHeld(b)'
  BY DEF PageInv
<1>0. PageHeld(b) /\ DeviceOf[b] \in Devices
  BY DeviceOfAssumption DEF PageInv
<1>e. ToSet(<<>>) = {}
  BY DEF ToSet
<1>1. ASSUME NEW d \in Devices, Kill(d) PROVE PageHeld(b)'
  <2>1. CASE DeviceOf[b] = d
    <3>1. otps'[DeviceOf[b]] = <<>>
      BY <1>0, <1>1, <2>1 DEF Kill, TypeOK
    <3>2. QED  BY <1>e, <3>1 DEF PageHeld, OnStack
  <2>2. CASE DeviceOf[b] # d
    <3>1. /\ otps'[DeviceOf[b]] = otps[DeviceOf[b]] /\ at'[b] = at[b]
          /\ otp' = otp /\ form' = form
      BY <1>0, <1>1, <2>2 DEF Kill, TypeOK
    <3>2. QED  BY <1>0, <3>1 DEF PageHeld, OnStack, FormOf
  <2>3. QED  BY <2>1, <2>2
<1>2. ASSUME NEW d \in Devices, NEW f \in Fields, Edit(d, f) PROVE PageHeld(b)'
  <2>1. otps' = otps /\ at' = at /\ otp' = otp
    BY <1>2 DEF Edit, attempt
  <2>2. CASE DeviceOf[b] = d
    <3>1. otps[DeviceOf[b]] = <<>>
      BY <1>2, <2>2 DEF Edit, AtForm
    <3>2. QED  BY <1>e, <2>1, <3>1 DEF PageHeld, OnStack
  <2>3. CASE DeviceOf[b] # d
    <3>1. form'[DeviceOf[b]] = form[DeviceOf[b]]
      BY <1>0, <1>2, <2>3 DEF Edit, TypeOK
    <3>2. QED  BY <1>0, <2>1, <3>1 DEF PageHeld, OnStack, FormOf
  <2>4. QED  BY <2>2, <2>3
<1>3. ASSUME NEW a \in Attempts, at[a] # "otp", at' = [at EXCEPT ![a] = at'[a]],
             UNCHANGED <<otp, otps, form>>
      PROVE  PageHeld(b)'
  <2>1. b = a => ~ OnStack(b)
    BY <1>0, <1>3 DEF PageHeld
  <2>2. b # a => at'[b] = at[b]
    BY <1>3 DEF TypeOK
  <2>3. QED  BY <1>0, <1>3, <2>1, <2>2 DEF PageHeld, OnStack, FormOf
<1>4. ASSUME NEW a \in Attempts,
             Tap(a) \/ CheckUser(a) \/ CheckPhone(a) \/ ImageUploaded(a) \/ AttemptFails(a)
      PROVE  PageHeld(b)'
  <2>1. PICK next \in Places : at' = [at EXCEPT ![a] = next]
    BY <1>4 DEF Tap, CheckUser, CheckPhone, ImageUploaded, AttemptFails, GoOn, Stop,
       Places, Checking
  <2>2. at'[a] = next
    BY <2>1 DEF TypeOK
  <2>3. at[a] # "otp" /\ UNCHANGED <<otp, otps, form>>
    BY <1>4 DEF Tap, CheckUser, CheckPhone, ImageUploaded, AttemptFails, GoOn, Stop,
       Checking, device
  <2>4. QED  BY <1>3, <2>1, <2>2, <2>3
<1>5. ASSUME NEW a \in Attempts, CodeSent(a) PROVE PageHeld(b)'
  <2>1. CASE b = a
    <3>1. at'[b] = "otp" /\ otp'[b] = FormOf(b) /\ form' = form
      BY <1>5, <2>1 DEF CodeSent, TypeOK
    <3>2. QED  BY <3>1 DEF PageHeld, FormOf
  <2>2. CASE b # a
    <3>1. at'[b] = at[b] /\ otp'[b] = otp[b] /\ form' = form
      BY <1>5, <2>2 DEF CodeSent, TypeOK
    <3>2. OnStack(b)' => OnStack(b)
      <4>1. otps[DeviceOf[a]] \in Seq(Attempts) /\ DeviceOf[a] \in Devices
        BY DeviceOfAssumption DEF TypeOK
      <4>2. otps'[DeviceOf[a]] = Append(otps[DeviceOf[a]], a)
        BY <1>5, <4>1 DEF CodeSent, TypeOK
      <4>3. DeviceOf[b] # DeviceOf[a] => otps'[DeviceOf[b]] = otps[DeviceOf[b]]
        BY <1>0, <1>5 DEF CodeSent, TypeOK
      <4>4. ToSet(otps'[DeviceOf[a]]) = ToSet(otps[DeviceOf[a]]) \cup {a}
        BY <4>1, <4>2, PushSet
      <4>5. QED  BY <2>2, <4>3, <4>4 DEF OnStack
    <3>3. QED  BY <1>0, <3>1, <3>2 DEF PageHeld, FormOf
  <2>3. QED  BY <2>1, <2>2
<1>6. ASSUME NEW a \in Attempts, Back(a) PROVE PageHeld(b)'
  <2>1. at' = at /\ otp' = otp /\ form' = form
    BY <1>6 DEF Back, attempt
  <2>2. otps[DeviceOf[a]] \in Seq(Attempts) /\ otps[DeviceOf[a]] # <<>>
        /\ DeviceOf[a] \in Devices
    BY <1>6, DeviceOfAssumption DEF TypeOK, Back, OnTop
  <2>3. otps' = [otps EXCEPT ![DeviceOf[a]] = Front(otps[DeviceOf[a]])]
    BY <1>6 DEF Back
  <2>4. ToSet(Front(otps[DeviceOf[a]])) \subseteq ToSet(otps[DeviceOf[a]])
    BY <2>2, PopSet
  <2>5. OnStack(b)' => OnStack(b)
    BY <1>0, <2>2, <2>3, <2>4 DEF OnStack, TypeOK
  <2>6. QED  BY <1>0, <2>1, <2>5 DEF PageHeld, FormOf
<1>7. CASE UNCHANGED <<at, otp, otps, form>>
  BY <1>0, <1>7 DEF PageHeld, OnStack, FormOf
<1>8. QED
  BY <1>1, <1>2, <1>4, <1>5, <1>6, <1>7 DEF Next, vars, store, device, attempt, Resend,
     VerifiedByForm, VerifiedByPage, Start, WriteUsersAuth, WriteUsers, SaveFails

\* What a verification would store now: the code page's copy, or the form
Given(a, by) == IF by = "page" /\ at[a] = "otp" THEN otp[a] ELSE FormOf(a)

\* As long as no edit came between, that is what was given to the call that
\* is awaited; and its number is, once that was given to verifyPhone.
Same(a, by)    == edited[a][by] = "nothing" => Given(a, by) = key[a]
SameNumber(a, by) == edited[a][by] # "number" => Given(a, by).number = key[a].number
KeyHeld(a, by) ==
    /\ at[a] \in {"name", "number", "image", "sms", "otp"} => Same(a, by)
    /\ at[a] \in {"sms", "otp"} => SameNumber(a, by)
KeyInv == \A a \in Attempts, by \in By : KeyHeld(a, by)

LEMMA InitKey == Init => KeyInv
BY DEF Init, KeyInv, KeyHeld

LEMMA NextKey == TypeOK /\ PageInv /\ KeyInv /\ [Next]_vars => KeyInv'
<1> SUFFICES ASSUME TypeOK, PageInv, KeyInv, [Next]_vars,
                    NEW b \in Attempts, NEW y \in By
             PROVE  KeyHeld(b, y)'
  BY DEF KeyInv
<1>0. KeyHeld(b, y) /\ PageHeld(b) /\ DeviceOf[b] \in Devices
  BY DeviceOfAssumption DEF KeyInv, PageInv
\* An attempt of which nothing changes
<1>u. ASSUME at'[b] = at[b] \/ at'[b] = "ended", key'[b] = key[b], otp'[b] = otp[b],
             FormOf(b)' = FormOf(b), edited'[b][y] = edited[b][y]
      PROVE  KeyHeld(b, y)'
  BY <1>0, <1>u DEF KeyHeld, Same, SameNumber, Given
\* An attempt that is given the form's fields
<1>g. ASSUME key'[b] = FormOf(b), form' = form, at'[b] # "otp"
      PROVE  KeyHeld(b, y)'
  BY <1>g DEF KeyHeld, Same, SameNumber, Given, FormOf
<1>1. ASSUME NEW d \in Devices, Kill(d) PROVE KeyHeld(b, y)'
  <2>1. /\ at'[b] = at[b] \/ at'[b] = "ended"
        /\ key' = key /\ otp' = otp /\ form' = form /\ edited' = edited
    BY <1>1 DEF Kill, history
  <2>2. QED  BY <1>u, <2>1 DEF FormOf
<1>2. ASSUME NEW d \in Devices, NEW f \in Fields, Edit(d, f) PROVE KeyHeld(b, y)'
  <2>1. at' = at /\ key' = key /\ otp' = otp
    BY <1>2 DEF Edit, attempt
  <2>2. CASE DeviceOf[b] # d
    <3>1. form'[DeviceOf[b]] = form[DeviceOf[b]] /\ edited'[b][y] = edited[b][y]
      BY <1>0, <1>2, <2>2 DEF Edit, TypeOK
    <3>2. QED  BY <1>u, <2>1, <3>1 DEF FormOf
  <2>3. CASE DeviceOf[b] = d
    <3>1. edited'[b][y] = Spoils(b, y)
      BY <1>2, <2>3 DEF Edit
    <3>2. CASE at[b] \in {"name", "number", "image"}
      <4>1. edited'[b][y] # "nothing"
        BY <3>1, <3>2 DEF Spoils
      <4>2. QED  BY <2>1, <3>2, <4>1 DEF KeyHeld, Same
    <3>3. CASE at[b] = "sms" \/ (y = "form" /\ at[b] = "otp")
      <4>1. edited'[b][y] = "number"
        BY <3>1, <3>3 DEF Spoils
      <4>2. QED  BY <4>1 DEF KeyHeld, Same, SameNumber
    <3>4. CASE y = "page" /\ at[b] = "otp"
      <4>1. edited'[b][y] = edited[b][y]
        BY <3>1, <3>4 DEF Spoils
      <4>2. QED  BY <1>0, <2>1, <3>4, <4>1 DEF KeyHeld, Same, SameNumber, Given
    <3>5. CASE at[b] \notin {"name", "number", "image", "sms", "otp"}
      BY <2>1, <3>5 DEF KeyHeld
    <3>6. QED  BY <3>2, <3>3, <3>4, <3>5 DEF By
  <2>4. QED  BY <2>2, <2>3
<1>3. ASSUME NEW a \in Attempts, NEW next \in Places, next # "otp",
             at' = [at EXCEPT ![a] = next], key' = [key EXCEPT ![a] = FormOf(a)],
             UNCHANGED <<otp, form, edited>>
      PROVE  KeyHeld(b, y)'
  <2>1. CASE b = a
    <3>1. key'[b] = FormOf(b) /\ at'[b] # "otp"
      BY <1>3, <2>1 DEF TypeOK
    <3>2. QED  BY <1>3, <1>g, <3>1
  <2>2. CASE b # a
    <3>1. key'[b] = key[b] /\ at'[b] = at[b]
      BY <1>3, <2>2 DEF TypeOK
    <3>2. QED  BY <1>3, <1>u, <3>1 DEF FormOf
  <2>3. QED  BY <2>1, <2>2
<1>4. ASSUME NEW a \in Attempts, NEW next \in {"number", "image", "sms"}, GoOn(a, next)
      PROVE  KeyHeld(b, y)'
  BY <1>3, <1>4 DEF GoOn, Places, Checking, device, history
<1>5. ASSUME NEW a \in Attempts, Tap(a) PROVE KeyHeld(b, y)'
  BY <1>3, <1>5 DEF Tap, Places, Checking, device, history
<1>6. ASSUME NEW a \in Attempts, Stop(a) PROVE KeyHeld(b, y)'
  <2>1. at'[b] = at[b] \/ at'[b] = "ended"
    BY <1>6 DEF Stop, TypeOK
  <2>2. QED  BY <1>6, <1>u, <2>1 DEF Stop, FormOf, device, history
<1>7. ASSUME NEW a \in Attempts, CodeSent(a) PROVE KeyHeld(b, y)'
  <2>1. key' = key /\ form' = form /\ edited' = edited
    BY <1>7 DEF CodeSent, history
  <2>2. CASE b = a
    <3>1. at[b] = "sms" /\ at'[b] = "otp" /\ otp'[b] = FormOf(b)
      BY <1>7, <2>2 DEF CodeSent, TypeOK
    <3>2. Given(b, y)' = Given(b, y)
      BY <2>1, <3>1 DEF Given, FormOf
    <3>3. QED  BY <1>0, <2>1, <3>1, <3>2 DEF KeyHeld, Same, SameNumber
  <2>3. CASE b # a
    <3>1. at'[b] = at[b] /\ otp'[b] = otp[b]
      BY <1>7, <2>3 DEF CodeSent, TypeOK
    <3>2. QED  BY <1>u, <2>1, <3>1 DEF FormOf
  <2>4. QED  BY <2>2, <2>3
<1>8. ASSUME NEW a \in Attempts, Resend(a) PROVE KeyHeld(b, y)'
  <2>1. at' = at /\ otp' = otp /\ form' = form /\ edited' = edited
    BY <1>8 DEF Resend, device, history
  <2>2. CASE b = a
    <3>1. key'[b] = otp[b]
      BY <1>8, <2>2 DEF Resend, TypeOK
    <3>2. otp[b] = FormOf(b)
      BY <1>0, <1>8, <2>2, TopOnStack DEF Resend, PageHeld
    <3>3. QED  BY <2>1, <3>1, <3>2 DEF KeyHeld, Same, SameNumber, Given, FormOf
  <2>3. CASE b # a
    <3>1. key'[b] = key[b]
      BY <1>8, <2>3 DEF Resend, TypeOK
    <3>2. QED  BY <1>u, <2>1, <3>1 DEF FormOf
  <2>4. QED  BY <2>2, <2>3
<1>9. CASE UNCHANGED <<at, key, otp, form, edited>>
  BY <1>9, <1>u DEF FormOf
<1>10. QED
  BY <1>1, <1>2, <1>4, <1>5, <1>6, <1>7, <1>8, <1>9
  DEF Next, vars, store, device, attempt, history, CheckUser, CheckPhone, ImageUploaded,
      AttemptFails, Back, VerifiedByForm, VerifiedByPage, Start, WriteUsersAuth,
      WriteUsers, SaveFails

-----------------------------------------------------------------------------
(***************************************************************************)
(* The number of an account                                                *)
(***************************************************************************)
\* A save that no edit spoilt stores the number that was verified, and the
\* user's document is written for an account that is there.
SaveHeld(a, by) ==
    /\ saves[a][by].at = "usersAuth" /\ saves[a][by].edited # "number"
            => saves[a][by].fields.number = saves[a][by].uid
    /\ saves[a][by].at = "users" => saves[a][by].uid \in Accounts
SaveInv   == \A a \in Attempts, by \in By : SaveHeld(a, by)
NumberInv == PageInv /\ KeyInv /\ SaveInv /\ MobileIsVerified

LEMMA InitNumber == Init => NumberInv
<1> SUFFICES ASSUME Init PROVE NumberInv
  OBVIOUS
<1>1. \A a \in Attempts, by \in By : saves[a][by].at = "none"
  BY DEF Init, NoSave
<1>2. Accounts = {} /\ users = {}
  BY DEF Init, Accounts
<1>3. SaveInv /\ MobileIsVerified
  BY <1>1, <1>2 DEF SaveInv, SaveHeld, MobileIsVerified
<1>4. QED  BY <1>3, InitPage, InitKey DEF NumberInv

\* The write of UsersAuth: one account is stored, and the record of it
LEMMA WriteFacts ==
    ASSUME TypeOK, NEW a \in Attempts, NEW by \in By, WriteUsersAuth(a, by)
    PROVE  /\ saves[a][by] \in Writing /\ saves[a][by].at = "usersAuth"
           /\ saves[a][by].uid \in Numbers /\ saves[a][by].fields \in Fields
           /\ usersAuth' = [usersAuth EXCEPT ![saves[a][by].uid] = saves[a][by].fields]
           /\ Accounts' = Accounts \cup {saves[a][by].uid}
           /\ \A n \in Numbers : n # saves[a][by].uid =>
                  usersAuth'[n] = usersAuth[n] /\ dirty'[n] = dirty[n]
           /\ usersAuth'[saves[a][by].uid] = saves[a][by].fields
           /\ dirty'[saves[a][by].uid] = IF saves[a][by].edited = "nothing" /\ overtaken[a]
                                         THEN "name" ELSE saves[a][by].edited
           /\ Others(a, by)
           /\ saves'[a][by].at \in {"settled", "users"}
           /\ saves'[a][by].at = "users" => saves'[a][by].uid = saves[a][by].uid
           /\ saves'[a][by] # NoSave
<1> DEFINE s == saves[a][by]
<1>1. s \in Writing /\ s.at = "usersAuth"
  BY SaveTypes DEF WriteUsersAuth
<1>2. s.uid \in Numbers /\ s.fields \in Fields /\ s.fields # NoDoc
  BY <1>1 DEF Writing, Fields, NoDoc
<1>3. /\ usersAuth' = [usersAuth EXCEPT ![s.uid] = s.fields]
      /\ Advance(a, by)
      /\ dirty' = [dirty EXCEPT ![s.uid] =
                     IF s.edited = "nothing" /\ overtaken[a] THEN "name" ELSE s.edited]
  BY DEF WriteUsersAuth
<1> HIDE DEF s
<1>4. /\ \A n \in Numbers : n # s.uid => usersAuth'[n] = usersAuth[n] /\ dirty'[n] = dirty[n]
      /\ usersAuth'[s.uid] = s.fields
      /\ dirty'[s.uid] = IF s.edited = "nothing" /\ overtaken[a] THEN "name" ELSE s.edited
  BY <1>2, <1>3 DEF TypeOK
<1>5. Accounts' = Accounts \cup {s.uid}
  BY <1>2, <1>4 DEF Accounts
<1>6. QED  BY <1>1, <1>2, <1>3, <1>4, <1>5, AdvanceFacts DEF s

\* A verification starts a save with what is given to it then.
LEMMA VerifiedFacts ==
    ASSUME TypeOK, PageInv, NEW a \in Attempts, VerifiedByForm(a) \/ VerifiedByPage(a)
    PROVE  \E by \in By : /\ at[a] \in {"sms", "otp"}
                          /\ Start(a, by, Given(a, by))
                          /\ Given(a, by) \in Fields
<1>1. CASE VerifiedByForm(a)
  <2>1. "form" \in By /\ Given(a, "form") = FormOf(a)
    BY DEF By, Given
  <2>2. QED  BY <1>1, <2>1, SaveTypes DEF VerifiedByForm
<1>2. CASE VerifiedByPage(a)
  <2>1. at[a] = "otp"
    BY <1>2, TopOnStack DEF VerifiedByPage, PageInv, PageHeld
  <2>2. "page" \in By /\ Given(a, "page") = otp[a]
    BY <2>1 DEF By, Given
  <2>3. QED  BY <1>2, <2>1, <2>2, SaveTypes DEF VerifiedByPage
<1>3. QED  BY <1>1, <1>2

LEMMA NextSave == TypeOK /\ NumberInv /\ [Next]_vars => SaveInv'
<1> SUFFICES ASSUME TypeOK, NumberInv, [Next]_vars, NEW b \in Attempts, NEW y \in By
             PROVE  SaveHeld(b, y)'
  BY DEF SaveInv
<1>0. SaveHeld(b, y) /\ PageInv /\ KeyInv
  BY DEF NumberInv, SaveInv
<1>1. ASSUME NEW a \in Attempts, VerifiedByForm(a) \/ VerifiedByPage(a)
      PROVE  SaveHeld(b, y)'
  <2>1. PICK by \in By : /\ at[a] \in {"sms", "otp"}
                         /\ Start(a, by, Given(a, by))
                         /\ Given(a, by) \in Fields
    BY <1>0, <1>1, VerifiedFacts
  <2>2. /\ Others(a, by)
        /\ saves'[a][by] = [at |-> "usersAuth", uid |-> key[a].number,
                            fields |-> Given(a, by), edited |-> edited[a][by]]
    BY <2>1, StartFacts
  <2>3. usersAuth' = usersAuth
    BY <2>1 DEF Start, store
  <2>4. SameNumber(a, by)
    BY <1>0, <2>1 DEF KeyInv, KeyHeld
  <2>5. CASE b = a /\ y = by
    BY <2>2, <2>4, <2>5 DEF SaveHeld, SameNumber
  <2>6. CASE b # a \/ y # by
    BY <1>0, <2>2, <2>3, <2>6 DEF SaveHeld, Others, Accounts
  <2>7. QED  BY <2>5, <2>6
<1>2. ASSUME NEW a \in Attempts, NEW by \in By, WriteUsersAuth(a, by)
      PROVE  SaveHeld(b, y)'
  <2>1. CASE b = a /\ y = by
    BY <1>2, <2>1, WriteFacts DEF SaveHeld
  <2>2. CASE b # a \/ y # by
    <3>1. saves'[b][y] = saves[b][y] /\ Accounts \subseteq Accounts'
      BY <1>2, <2>2, WriteFacts DEF Others
    <3>2. QED  BY <1>0, <3>1 DEF SaveHeld
  <2>3. QED  BY <2>1, <2>2
<1>3. ASSUME NEW a \in Attempts, NEW by \in By, WriteUsers(a, by) \/ SaveFails(a, by)
      PROVE  SaveHeld(b, y)'
  <2>1. Others(a, by) /\ saves'[a][by].at = "settled" /\ usersAuth' = usersAuth
    BY <1>3, SettleFacts DEF WriteUsers, SaveFails, store
  <2>2. CASE b = a /\ y = by
    BY <2>1, <2>2 DEF SaveHeld
  <2>3. CASE b # a \/ y # by
    BY <1>0, <2>1, <2>3 DEF SaveHeld, Others, Accounts
  <2>4. QED  BY <2>2, <2>3
<1>4. CASE UNCHANGED <<saves, usersAuth>>
  BY <1>0, <1>4 DEF SaveHeld, Accounts
<1>5. QED
  BY <1>1, <1>2, <1>3, <1>4
  DEF Next, vars, store, attempt, Kill, Edit, Tap, CheckUser, CheckPhone, ImageUploaded,
      AttemptFails, GoOn, Stop, CodeSent, Resend, Back

LEMMA NextMobile == TypeOK /\ NumberInv /\ [Next]_vars => MobileIsVerified'
<1> SUFFICES ASSUME TypeOK, NumberInv, [Next]_vars PROVE MobileIsVerified'
  OBVIOUS
<1>0. MobileIsVerified /\ \A a \in Attempts, by \in By : SaveHeld(a, by)
  BY DEF NumberInv, SaveInv
<1>1. ASSUME NEW a \in Attempts, NEW by \in By, WriteUsersAuth(a, by)
      PROVE  MobileIsVerified'
  <2>0. users' = users
    BY <1>1 DEF WriteUsersAuth
  <2>1. Accounts \subseteq Accounts'
    BY <1>1, WriteFacts
  <2>2. ASSUME NEW n \in Accounts', dirty'[n] # "number"
        PROVE  usersAuth'[n].number = n
    <3>1. CASE n = saves[a][by].uid
      BY <1>0, <1>1, <2>2, <3>1, WriteFacts DEF SaveHeld
    <3>2. CASE n # saves[a][by].uid
      <4>1. n \in Accounts /\ n \in Numbers
        BY <1>1, <2>2, <3>2, WriteFacts DEF Accounts
      <4>2. QED  BY <1>0, <1>1, <2>2, <3>2, <4>1, WriteFacts DEF MobileIsVerified
    <3>3. QED  BY <3>1, <3>2
  <2>3. QED  BY <1>0, <2>0, <2>1, <2>2 DEF MobileIsVerified
<1>2. ASSUME NEW a \in Attempts, NEW by \in By, WriteUsers(a, by)
      PROVE  MobileIsVerified'
  <2>1. saves[a][by].uid \in Accounts /\ users' = users \cup {saves[a][by].uid}
        /\ usersAuth' = usersAuth /\ dirty' = dirty
    BY <1>0, <1>2 DEF WriteUsers, SaveHeld, history
  <2>2. QED  BY <1>0, <2>1 DEF MobileIsVerified, Accounts
<1>3. CASE UNCHANGED <<usersAuth, users, dirty>>
  BY <1>0, <1>3 DEF MobileIsVerified, Accounts
<1>4. QED
  BY <1>1, <1>2, <1>3
  DEF Next, vars, store, history, Kill, Edit, Tap, CheckUser, CheckPhone, ImageUploaded,
      AttemptFails, GoOn, Stop, CodeSent, Resend, Back, VerifiedByForm, VerifiedByPage,
      Start, SaveFails

\* What is verified, saved and stored has one number, as long as no edit parts them.
THEOREM NumbersHeld == Spec => []NumberInv
<1>1. TypeOK /\ NumberInv /\ [Next]_vars => NumberInv'
  BY NextPage, NextKey, NextSave, NextMobile DEF NumberInv
<1>2. QED  BY <1>1, InitNumber, TypeCorrect, PTL DEF Spec

\* Every user has an entry to sign in by, with the number that was verified
\* unless the form was edited after verifyPhone had read it (saveUser of
\* lib/Signup.dart and lib/CustomOtp.dart, whichever gets how far).
THEOREM MobileVerified == Spec => []MobileIsVerified
<1>1. NumberInv => MobileIsVerified
  BY DEF NumberInv
<1>2. QED  BY <1>1, NumbersHeld, PTL

-----------------------------------------------------------------------------
(***************************************************************************)
(* The name of an account                                                  *)
(***************************************************************************)
\* No account that is sound has the name or the number of k, but k itself.
Free(k) == \A n \in Sound : usersAuth[n].name = k.name \/ n = k.number
                               => n = k.number /\ usersAuth[n] = k

\* An attempt saves only once it had a code sent.
Started(a) == \A by \in By : saves[a][by] # NoSave => at[a] \in {"sms", "otp", "ended"}

\* What was checked is free until another attempt stores it, ...
Clean(a) == ~ overtaken[a] /\ \E by \in By : edited[a][by] = "nothing"
CheckedHeld(a) ==
    /\ at[a] = "number" /\ Clean(a) => \A n \in Accounts : usersAuth[n].name # key[a].name
    /\ at[a] \in {"image", "sms", "otp"} /\ Clean(a) => Free(key[a])

\* ... and so is what will be stored, which is the same in both saves.
Waiting(a, by) == saves[a][by].at = "usersAuth" /\ saves[a][by].edited = "nothing"
WaitHeld(a, by) == Waiting(a, by) =>
    /\ ~ overtaken[a] => Free(saves[a][by].fields)
    /\ saves[a][by].fields.number = saves[a][by].uid
    /\ at[a] \in {"sms", "otp"} /\ (\E x \in By : edited[a][x] = "nothing")
            => saves[a][by].fields = key[a]
PairHeld(a) == \A by, x \in By :
    Waiting(a, by) /\ Waiting(a, x) => saves[a][by].fields = saves[a][x].fields

NameHeld(a) == Started(a) /\ CheckedHeld(a) /\ PairHeld(a) /\ \A by \in By : WaitHeld(a, by)
NameInv     == (\A a \in Attempts : NameHeld(a)) /\ NamesUnique

LEMMA InitName == Init => NameInv
<1> SUFFICES ASSUME Init PROVE NameInv
  OBVIOUS
<1>1. \A a \in Attempts : at[a] = "idle" /\ \A by \in By : saves[a][by] = NoSave
  BY DEF Init
<1>2. Sound = {}
  BY DEF Init, Sound, Accounts
<1>3. \A a \in Attempts : NameHeld(a)
  BY <1>1 DEF NameHeld, Started, CheckedHeld, PairHeld, WaitHeld, Waiting, NoSave
<1>4. NamesUnique
  BY <1>2 DEF NamesUnique
<1>5. QED  BY <1>3, <1>4 DEF NameInv

\* A write keeps k free that has another name and number, or is k, or spoils
\* the account it writes.
LEMMA WriteFree ==
    ASSUME TypeOK, NEW a \in Attempts, NEW by \in By, WriteUsersAuth(a, by),
           NEW k, Free(k),
           \/ /\ saves[a][by].fields.name # k.name
              /\ saves[a][by].uid # k.number
           \/ saves[a][by].fields = k /\ saves[a][by].uid = k.number
           \/ dirty'[saves[a][by].uid] # "nothing"
    PROVE  Free(k)'
<1> DEFINE s == saves[a][by]
<1> SUFFICES ASSUME NEW n \in Sound', usersAuth'[n].name = k.name \/ n = k.number
             PROVE  n = k.number /\ usersAuth'[n] = k
  BY DEF Free
<1>1. n \in Numbers /\ dirty'[n] = "nothing" /\ (n \in Accounts \/ n = s.uid)
  BY WriteFacts DEF Sound, Accounts
<1>2. CASE n = s.uid
  BY <1>1, <1>2, WriteFacts
<1>3. CASE n # s.uid
  <2>1. usersAuth'[n] = usersAuth[n] /\ n \in Sound
    BY <1>1, <1>3, WriteFacts DEF Sound
  <2>2. QED  BY <2>1 DEF Free
<1>4. QED  BY <1>2, <1>3

\* A step that stores no account and starts no save of b
Quiet(b) ==
    /\ usersAuth' = usersAuth /\ dirty' = dirty
    /\ key'[b] = key[b] /\ overtaken'[b] = overtaken[b]
    /\ \/ at'[b] \in {at[b], "ended"}
       \/ at[b] = "sms" /\ at'[b] = "otp"
    /\ \A y \in By : edited'[b][y] = "nothing" => edited[b][y] = "nothing"
    /\ \A y \in By : \/ saves'[b][y] = saves[b][y]
                     \/ saves[b][y] # NoSave /\ saves'[b][y].at # "usersAuth"

LEMMA QuietKeeps ==
    ASSUME TypeOK, NEW b \in Attempts, NameHeld(b), Quiet(b)
    PROVE  NameHeld(b)'
<1>0. /\ \A k : Free(k)' <=> Free(k)
      /\ Accounts' = Accounts
  BY DEF Quiet, Free, Sound, Accounts
<1>1. Clean(b)' => Clean(b)
  BY DEF Quiet, Clean
<1>2. \A y \in By : Waiting(b, y)' => saves'[b][y] = saves[b][y] /\ Waiting(b, y)
  BY DEF Quiet, Waiting
<1>3. Started(b)'
  BY DEF Quiet, Started, NameHeld
<1>4. CheckedHeld(b)'
  <2>1. ASSUME at'[b] = "number", Clean(b)'
        PROVE  \A n \in Accounts' : usersAuth'[n].name # key'[b].name
    BY <1>0, <1>1, <2>1 DEF Quiet, CheckedHeld, NameHeld
  <2>2. ASSUME at'[b] \in {"image", "sms", "otp"}, Clean(b)'
        PROVE  Free(key[b])'
    <3>1. at[b] \in {"image", "sms", "otp"} /\ Clean(b) /\ key'[b] = key[b]
      BY <1>1, <2>2 DEF Quiet
    <3>2. Free(key[b])
      BY <3>1 DEF NameHeld, CheckedHeld
    <3>3. QED  BY <3>1, <3>2 DEF Quiet, Free, Sound, Accounts
  <2>3. QED  BY <2>1, <2>2 DEF CheckedHeld
<1>5. PairHeld(b)'
  <2>1. ASSUME NEW y \in By, NEW x \in By, Waiting(b, y)', Waiting(b, x)'
        PROVE  saves'[b][y].fields = saves'[b][x].fields
    BY <1>2, <2>1 DEF NameHeld, PairHeld
  <2>2. QED  BY <2>1 DEF PairHeld
<1>6. ASSUME NEW y \in By PROVE WaitHeld(b, y)'
  <2> SUFFICES ASSUME Waiting(b, y)'
               PROVE  /\ ~ overtaken'[b] => Free(saves[b][y].fields)'
                      /\ saves[b][y].fields.number = saves[b][y].uid
                      /\ at'[b] \in {"sms", "otp"} /\ (\E x \in By : edited'[b][x] = "nothing")
                            => saves[b][y].fields = key[b]
    BY <1>2 DEF WaitHeld, Quiet, Free
  <2>1. WaitHeld(b, y) /\ Waiting(b, y)
    BY <1>2 DEF NameHeld
  <2>2. ~ overtaken'[b] => Free(saves[b][y].fields)
    BY <2>1 DEF WaitHeld, Quiet
  <2>3. QED  BY <1>2, <2>1, <2>2 DEF WaitHeld, Quiet, Free, Sound, Accounts
<1>7. QED  BY <1>3, <1>4, <1>5, <1>6 DEF NameHeld

\* An attempt that has no save yet goes on with what it checked.
LEMMA EarlyKeeps ==
    ASSUME TypeOK, NEW a \in Attempts, NameHeld(a), saves'[a] = saves[a],
           at[a] \in {"idle", "name", "number", "image"}, CheckedHeld(a)'
    PROVE  NameHeld(a)'
<1>1. \A by \in By : saves'[a][by] = NoSave
  BY DEF NameHeld, Started
<1>2. QED  BY <1>1 DEF NameHeld, Started, PairHeld, WaitHeld, Waiting, NoSave

LEMMA CleanSame ==
    ASSUME TypeOK, KeyInv, NEW a \in Attempts, Clean(a), at[a] \in {"name", "number", "image"}
    PROVE  FormOf(a) = key[a]
BY DEF KeyInv, KeyHeld, Same, Given, Clean

LEMMA CheckKeeps ==
    ASSUME TypeOK, NumberInv, NEW a \in Attempts, NameHeld(a),
           NEW next \in {"number", "image", "sms"}, GoOn(a, next),
           \/ /\ at[a] = "name" /\ next = "number"
              /\ \A n \in Accounts : usersAuth[n].name # key[a].name
           \/ /\ at[a] = "number" /\ next # "number"
              /\ \A n \in Accounts : usersAuth[n].number # key[a].number
           \/ at[a] = "image" /\ next = "sms"
    PROVE  NameHeld(a)'
<1>0. /\ at'[a] = next /\ key'[a] = FormOf(a) /\ saves' = saves
      /\ usersAuth' = usersAuth /\ dirty' = dirty
      /\ edited' = edited /\ overtaken' = overtaken
  BY DEF GoOn, TypeOK, store, history
<1>1. Clean(a)' => Clean(a) /\ key'[a] = key[a]
  BY <1>0, CleanSame DEF Clean, NumberInv
<1>2. CASE at[a] = "name"
  BY <1>0, <1>1, <1>2, EarlyKeeps DEF CheckedHeld, Accounts
<1>3. CASE at[a] = "number"
  <2>1. Clean(a) => Free(key[a])
    <3>1. SUFFICES ASSUME Clean(a), NEW n \in Sound
                   PROVE  usersAuth[n].name # key[a].name /\ n # key[a].number
      BY DEF Free
    <3>2. n \in Accounts /\ usersAuth[n].number = n
      BY DEF Sound, NumberInv, MobileIsVerified
    <3>3. QED  BY <1>3, <3>1, <3>2 DEF NameHeld, CheckedHeld
  <2>2. CheckedHeld(a)'
    BY <1>0, <1>1, <1>3, <2>1 DEF CheckedHeld, Free, Sound, Accounts
  <2>3. QED  BY <1>0, <1>3, <2>2, EarlyKeeps
<1>4. CASE at[a] = "image"
  <2>1. CheckedHeld(a)'
    BY <1>0, <1>1, <1>4 DEF NameHeld, CheckedHeld, Free, Sound, Accounts
  <2>2. QED  BY <1>0, <1>4, <2>1, EarlyKeeps
<1>5. QED  BY <1>2, <1>3, <1>4

\* Resending changes what is verified only after an edit.
LEMMA ResendKeeps ==
    ASSUME TypeOK, NumberInv, NEW a \in Attempts, NameHeld(a), Resend(a)
    PROVE  NameHeld(a)'
<1>0. /\ key'[a] = otp[a] /\ at' = at /\ saves' = saves
      /\ usersAuth' = usersAuth /\ dirty' = dirty
      /\ edited' = edited /\ overtaken' = overtaken
  BY DEF Resend, TypeOK, store, history
<1>1. at[a] = "otp" /\ otp[a] = FormOf(a)
  BY TopOnStack DEF Resend, NumberInv, PageInv, PageHeld
<1>2. (\E x \in By : edited[a][x] = "nothing") => key'[a] = key[a]
  BY <1>0, <1>1 DEF NumberInv, KeyInv, KeyHeld, Same, Given
<1>3. CASE \E x \in By : edited[a][x] = "nothing"
  BY <1>0, <1>2, <1>3, QuietKeeps DEF Quiet
<1>4. CASE ~ \E x \in By : edited[a][x] = "nothing"
  BY <1>0, <1>1, <1>4
  DEF NameHeld, Started, CheckedHeld, PairHeld, WaitHeld, Waiting, Clean, Free, Sound, Accounts
<1>5. QED  BY <1>3, <1>4

LEMMA VerifiedKeeps ==
    ASSUME TypeOK, NumberInv, NEW a \in Attempts, NameHeld(a), NEW by \in By,
           at[a] \in {"sms", "otp"}, Given(a, by) \in Fields, Start(a, by, Given(a, by))
    PROVE  NameHeld(a)'
<1> DEFINE w == [at |-> "usersAuth", uid |-> key[a].number, fields |-> Given(a, by),
                 edited |-> edited[a][by]]
<1>0. UNCHANGED <<usersAuth, dirty, at, key, edited, overtaken>>
  BY DEF Start, store, history
<1>1. saves[a][by] = NoSave /\ saves'[a][by] = w
      /\ \A x \in By : x # by => saves'[a][x] = saves[a][x]
  BY StartFacts DEF Others
<1>2. edited[a][by] = "nothing" => Given(a, by) = key[a]
  BY DEF NumberInv, KeyInv, KeyHeld, Same
<1>3. Started(a)'
  BY <1>0 DEF Started
<1>4. CheckedHeld(a)'
  BY <1>0 DEF NameHeld, CheckedHeld, Clean, Free, Sound, Accounts
<1>5. ASSUME Waiting(a, by)'
      PROVE  w.fields = key[a] /\ w.uid = key[a].number /\ (~ overtaken[a] => Free(key[a]))
  <2>1. edited[a][by] = "nothing"
    BY <1>1, <1>5 DEF Waiting
  <2>2. QED  BY <1>2, <2>1 DEF NameHeld, CheckedHeld, Clean
<1>6. WaitHeld(a, by)'
  BY <1>0, <1>1, <1>5 DEF WaitHeld, Free, Sound, Accounts
<1>7. ASSUME NEW x \in By, x # by PROVE WaitHeld(a, x)'
  <2>1. WaitHeld(a, x) /\ saves'[a][x] = saves[a][x]
    BY <1>1, <1>7 DEF NameHeld
  <2>2. QED  BY <1>0, <2>1 DEF WaitHeld, Waiting, Free, Sound, Accounts
<1>8. ASSUME NEW x \in By, x # by, Waiting(a, x)', Waiting(a, by)'
      PROVE  saves'[a][x].fields = saves'[a][by].fields
  <2>1. saves'[a][x] = saves[a][x] /\ Waiting(a, x) /\ WaitHeld(a, x)
    BY <1>1, <1>8 DEF NameHeld, Waiting
  <2>2. edited[a][by] = "nothing"
    BY <1>1, <1>8 DEF Waiting
  <2>3. saves[a][x].fields = key[a]
    BY <2>1, <2>2 DEF WaitHeld
  <2>4. QED  BY <1>1, <1>5, <1>8, <2>1, <2>3
<1>9. PairHeld(a)'
  <2>1. ASSUME NEW y \in By, NEW x \in By, y # by, x # by, Waiting(a, y)', Waiting(a, x)'
        PROVE  saves'[a][y].fields = saves'[a][x].fields
    BY <1>1, <2>1 DEF NameHeld, PairHeld, Waiting
  <2>2. QED  BY <1>8, <2>1 DEF PairHeld
<1>10. QED  BY <1>3, <1>4, <1>6, <1>7, <1>9 DEF NameHeld

\* A write of another attempt: b is overtaken, or none of its business.
LEMMA OvertakenKeeps ==
    ASSUME TypeOK, NEW a \in Attempts, NEW by \in By, WriteUsersAuth(a, by),
           NEW b \in Attempts, b # a, NameHeld(b)
    PROVE  NameHeld(b)'
<1> DEFINE s == saves[a][by]
<1>0. UNCHANGED <<at, key, edited>>
  BY DEF WriteUsersAuth
<1>1. \A x \in By : saves'[b][x] = saves[b][x]
  BY WriteFacts DEF Others
<1>2. ASSUME ~ overtaken'[b], at[b] \notin {"idle", "name"},
             NEW f \in {key[b]} \cup Pending(b)
      PROVE  ~ overtaken[b] /\ s.fields.name # f.name /\ s.uid # f.number
  <2>1. overtaken' = Overtaken(a, s.uid, s.fields)
    BY DEF WriteUsersAuth
  <2>2. ~ overtaken[b] /\ ~ (s.fields.name = f.name \/ s.fields.number = f.number
                                \/ s.uid = f.number)
    BY <1>2, <2>1 DEF Overtaken
  <2>3. QED  BY <2>2
<1>3. ~ overtaken'[b] => ~ overtaken[b]
  BY DEF WriteUsersAuth, Overtaken
<1>4. Started(b)'
  BY <1>0, <1>1 DEF NameHeld, Started
<1>5. PairHeld(b)'
  BY <1>1 DEF NameHeld, PairHeld, Waiting
<1>6. Clean(b)' => ~ overtaken'[b] /\ Clean(b)
  BY <1>0, <1>3 DEF Clean
<1>7. ASSUME at'[b] = "number", Clean(b)'
      PROVE  \A n \in Accounts' : usersAuth'[n].name # key'[b].name
  <2>1. s.fields.name # key[b].name
    BY <1>0, <1>2, <1>6, <1>7
  <2>2. \A n \in Accounts : usersAuth[n].name # key[b].name
    BY <1>0, <1>6, <1>7 DEF NameHeld, CheckedHeld
  <2>3. ASSUME NEW n \in Accounts' PROVE usersAuth'[n].name # key[b].name
    <3>1. CASE n = s.uid
      BY <2>1, <3>1, WriteFacts
    <3>2. CASE n # s.uid
      <4>1. n \in Accounts /\ n \in Numbers
        BY <3>2, WriteFacts DEF Accounts
      <4>2. QED  BY <2>2, <3>2, <4>1, WriteFacts
    <3>3. QED  BY <3>1, <3>2
  <2>4. QED  BY <1>0, <2>3
<1>8. ASSUME at'[b] \in {"image", "sms", "otp"}, Clean(b)'
      PROVE  Free(key[b])'
  <2>1. s.fields.name # key[b].name /\ s.uid # key[b].number
    BY <1>0, <1>2, <1>6, <1>8
  <2>2. Free(key[b])
    BY <1>0, <1>6, <1>8 DEF NameHeld, CheckedHeld
  <2>3. PICK k : k = key[b]
    OBVIOUS
  <2>4. Free(k)'
    BY <2>1, <2>2, <2>3, WriteFree
  <2>5. QED  BY <1>0, <2>3, <2>4 DEF Free
<1>9. CheckedHeld(b)'
  BY <1>7, <1>8 DEF CheckedHeld
<1>10. ASSUME NEW x \in By PROVE WaitHeld(b, x)'
  <2> SUFFICES ASSUME Waiting(b, x)'
               PROVE  /\ ~ overtaken'[b] => Free(saves[b][x].fields)'
                      /\ saves[b][x].fields.number = saves[b][x].uid
                      /\ at[b] \in {"sms", "otp"} /\ (\E y \in By : edited[b][y] = "nothing")
                            => saves[b][x].fields = key[b]
    BY <1>0, <1>1 DEF WaitHeld
  <2>1. Waiting(b, x) /\ WaitHeld(b, x)
    BY <1>1 DEF Waiting, NameHeld
  <2>2. ASSUME ~ overtaken'[b] PROVE Free(saves[b][x].fields)'
    <3>1. PICK k : k = saves[b][x].fields
      OBVIOUS
    <3>2. k \in Pending(b)
      BY <2>1, <3>1 DEF Pending, Waiting
    <3>3. saves[b][x] # NoSave
      BY <2>1 DEF Waiting, NoSave
    <3>4. at[b] \notin {"idle", "name"}
      BY <3>3 DEF NameHeld, Started
    <3>5. ~ overtaken[b] /\ s.fields.name # k.name /\ s.uid # k.number
      BY <1>2, <2>2, <3>2, <3>4
    <3>6. Free(k)
      BY <2>1, <3>1, <3>5 DEF WaitHeld
    <3>7. Free(k)'
      BY <3>5, <3>6, WriteFree
    <3>8. QED  BY <1>1, <3>1, <3>7 DEF Free
  <2>3. QED  BY <2>1, <2>2 DEF WaitHeld
<1>11. QED  BY <1>4, <1>5, <1>9, <1>10 DEF NameHeld

\* A write of its own: it stores what was checked, or spoils the account.
LEMMA OwnWriteKeeps ==
    ASSUME TypeOK, NEW a \in Attempts, NEW by \in By, WriteUsersAuth(a, by), NameHeld(a)
    PROVE  NameHeld(a)'
<1> DEFINE s == saves[a][by]
<1>0. UNCHANGED <<at, key, edited>> /\ overtaken'[a] = overtaken[a]
  <2>1. UNCHANGED <<at, key, edited>>
    BY DEF WriteUsersAuth
  <2>2. overtaken' = Overtaken(a, s.uid, s.fields)
    BY DEF WriteUsersAuth
  <2>3. QED  BY <2>1, <2>2 DEF Overtaken, TypeOK
<1>1. /\ \A x \in By : x # by => saves'[a][x] = saves[a][x]
      /\ s.at = "usersAuth" /\ s # NoSave
      /\ ~ Waiting(a, by)'
  BY WriteFacts DEF Others, Waiting, NoSave
<1>2. Started(a)'
  BY <1>0, <1>1 DEF NameHeld, Started
<1>3. at[a] \in {"sms", "otp", "ended"}
  BY <1>1 DEF NameHeld, Started
<1>4. PairHeld(a)'
  <2>1. ASSUME NEW y \in By, NEW x \in By, Waiting(a, y)', Waiting(a, x)'
        PROVE  saves'[a][y].fields = saves'[a][x].fields
    <3>1. y # by /\ x # by
      BY <1>1, <2>1
    <3>2. QED  BY <1>1, <2>1, <3>1 DEF NameHeld, PairHeld, Waiting
  <2>2. QED  BY <2>1 DEF PairHeld
<1>5. s.edited # "nothing" => dirty'[s.uid] # "nothing"
  BY WriteFacts
<1>6. ASSUME at'[a] \in {"image", "sms", "otp"}, Clean(a)'
      PROVE  Free(key[a])'
  <2>1. at[a] \in {"sms", "otp"} /\ Clean(a)
    BY <1>0, <1>3, <1>6 DEF Clean
  <2>2. PICK k : k = key[a]
    OBVIOUS
  <2>3. Free(k)
    BY <2>1, <2>2 DEF NameHeld, CheckedHeld
  <2>4. s.edited = "nothing" => s.fields = k /\ s.uid = k.number
    BY <1>1, <2>1, <2>2 DEF NameHeld, WaitHeld, Waiting, Clean
  <2>5. Free(k)'
    BY <1>5, <2>3, <2>4, WriteFree
  <2>6. QED  BY <1>0, <2>2, <2>5 DEF Free
<1>7. CheckedHeld(a)'
  BY <1>0, <1>3, <1>6 DEF CheckedHeld
<1>8. ASSUME NEW x \in By PROVE WaitHeld(a, x)'
  <2>1. CASE x = by
    BY <1>1, <2>1 DEF WaitHeld
  <2>2. CASE x # by
    <3> SUFFICES ASSUME Waiting(a, x)'
                 PROVE  /\ ~ overtaken[a] => Free(saves[a][x].fields)'
                        /\ saves[a][x].fields.number = saves[a][x].uid
                        /\ at[a] \in {"sms", "otp"} /\ (\E y \in By : edited[a][y] = "nothing")
                              => saves[a][x].fields = key[a]
      BY <1>0, <1>1, <2>2 DEF WaitHeld
    <3>1. Waiting(a, x) /\ WaitHeld(a, x) /\ saves'[a][x] = saves[a][x]
      BY <1>1, <2>2 DEF Waiting, NameHeld
    <3>2. ASSUME ~ overtaken[a] PROVE Free(saves[a][x].fields)'
      <4>1. PICK k : k = saves[a][x].fields
        OBVIOUS
      <4>2. Free(k)
        BY <3>1, <3>2, <4>1 DEF WaitHeld
      <4>3. s.edited = "nothing" => s.fields = k /\ s.uid = k.number
        BY <1>1, <3>1, <4>1 DEF NameHeld, PairHeld, WaitHeld, Waiting
      <4>4. Free(k)'
        BY <1>5, <4>2, <4>3, WriteFree
      <4>5. QED  BY <3>1, <4>1, <4>4 DEF Free
    <3>3. QED  BY <3>1, <3>2 DEF WaitHeld
  <2>3. QED  BY <2>1, <2>2
<1>9. QED  BY <1>2, <1>4, <1>7, <1>8 DEF NameHeld

\* What a write stores soundly, no other sound account has.
LEMMA WriteUnique ==
    ASSUME TypeOK, NameInv, NEW a \in Attempts, NEW by \in By, WriteUsersAuth(a, by)
    PROVE  /\ NamesUnique'
           /\ \A n \in Sound : usersAuth'[n] # usersAuth[n] => n \notin Sound'
<1> DEFINE s == saves[a][by]
<1>1. ASSUME s.uid \in Sound'
      PROVE  \A n \in Sound : usersAuth[n].name = s.fields.name \/ n = s.uid
                 => n = s.uid /\ usersAuth[n] = s.fields
  <2>1. s.edited = "nothing" /\ ~ overtaken[a]
    BY <1>1, WriteFacts DEF Sound
  <2>2. WaitHeld(a, by) /\ Waiting(a, by)
    BY <2>1, WriteFacts DEF NameInv, NameHeld, Waiting
  <2>3. Free(s.fields) /\ s.fields.number = s.uid
    BY <2>1, <2>2 DEF WaitHeld
  <2>4. QED  BY <2>3 DEF Free
<1>2. \A n \in Sound' : n # s.uid => n \in Sound /\ usersAuth'[n] = usersAuth[n]
  BY WriteFacts DEF Sound, Accounts
<1>3. usersAuth'[s.uid] = s.fields
  BY WriteFacts
<1>4. NamesUnique'
  <2> SUFFICES ASSUME NEW m \in Sound', NEW n \in Sound',
                      usersAuth'[m].name = usersAuth'[n].name
               PROVE  m = n
    BY DEF NamesUnique
  <2>1. CASE m = s.uid \/ n = s.uid
    BY <1>1, <1>2, <1>3, <2>1
  <2>2. CASE m # s.uid /\ n # s.uid
    BY <1>2, <2>2 DEF NameInv, NamesUnique
  <2>3. QED  BY <2>1, <2>2
<1>5. ASSUME NEW n \in Sound, usersAuth'[n] # usersAuth[n], n \in Sound'
      PROVE  FALSE
  BY <1>1, <1>2, <1>3, <1>5
<1>6. QED  BY <1>4, <1>5

\* Only a write of UsersAuth changes an account or its record.
LEMMA StoreKept ==
    ASSUME [Next]_vars, ~ \E a \in Attempts, by \in By : WriteUsersAuth(a, by)
    PROVE  usersAuth' = usersAuth /\ dirty' = dirty
BY DEF Next, vars, store, history, Kill, Edit, Tap, CheckUser, CheckPhone, ImageUploaded,
       AttemptFails, GoOn, Stop, CodeSent, Resend, Back, VerifiedByForm, VerifiedByPage,
       Start, WriteUsers, SaveFails

LEMMA NextNameHeld ==
    ASSUME TypeOK, NumberInv, NameInv, [Next]_vars, NEW b \in Attempts
    PROVE  NameHeld(b)'
<1>0. NameHeld(b) /\ PageInv
  BY DEF NameInv, NumberInv
<1>1. ASSUME NEW d \in Devices, Kill(d) PROVE NameHeld(b)'
  <2>1. at'[b] \in {at[b], "ended"}
    BY <1>1 DEF Kill
  <2>2. QED  BY <1>0, <1>1, <2>1, QuietKeeps DEF Kill, Quiet, store, history
<1>2. ASSUME NEW d \in Devices, NEW f \in Fields, Edit(d, f) PROVE NameHeld(b)'
  <2>1. ASSUME NEW y \in By, edited'[b][y] = "nothing" PROVE edited[b][y] = "nothing"
    <3>1. edited'[b][y] \in {edited[b][y], Spoils(b, y)}
      BY <1>2 DEF Edit
    <3>2. Spoils(b, y) \in {"name", "number", edited[b][y]}
      BY DEF Spoils
    <3>3. QED  BY <2>1, <3>1, <3>2
  <2>2. QED  BY <1>0, <1>2, <2>1, QuietKeeps DEF Edit, Quiet, store, attempt
<1>3. ASSUME NEW a \in Attempts,
             Tap(a) \/ CheckUser(a) \/ CheckPhone(a) \/ ImageUploaded(a) \/ AttemptFails(a)
      PROVE  NameHeld(b)'
  <2>1. UNCHANGED <<usersAuth, dirty, edited, overtaken, saves>>
    BY <1>3 DEF Tap, CheckUser, CheckPhone, ImageUploaded, AttemptFails, GoOn, Stop,
       store, history
  <2>2. CASE b # a
    <3>1. at'[b] = at[b] /\ key'[b] = key[b]
      BY <1>3, <2>2 DEF Tap, CheckUser, CheckPhone, ImageUploaded, AttemptFails, GoOn,
         Stop, TypeOK
    <3>2. QED  BY <1>0, <2>1, <3>1, QuietKeeps DEF Quiet
  <2>3. CASE b = a /\ Stop(a)
    <3>1. at'[b] = "ended" /\ key'[b] = key[b]
      BY <2>3 DEF Stop, TypeOK
    <3>2. QED  BY <1>0, <2>1, <3>1, QuietKeeps DEF Quiet
  <2>4. CASE b = a /\ Tap(a)
    <3>1. at[b] = "idle" /\ at'[b] = "name"
      BY <2>4 DEF Tap, TypeOK
    <3>2. CheckedHeld(b)'
      BY <3>1 DEF CheckedHeld
    <3>3. QED  BY <1>0, <2>1, <3>1, <3>2, EarlyKeeps
  <2>5. CASE b = a /\ ~ Stop(a) /\ ~ Tap(a)
    BY <1>0, <1>3, <2>5, CheckKeeps DEF CheckUser, CheckPhone, ImageUploaded, AttemptFails
  <2>6. QED  BY <2>2, <2>3, <2>4, <2>5
<1>4. ASSUME NEW a \in Attempts, CodeSent(a) PROVE NameHeld(b)'
  <2>1. at'[b] = at[b] \/ (at[b] = "sms" /\ at'[b] = "otp")
    BY <1>4 DEF CodeSent, TypeOK
  <2>2. QED  BY <1>0, <1>4, <2>1, QuietKeeps DEF CodeSent, Quiet, store, history
<1>5. ASSUME NEW a \in Attempts, Resend(a) PROVE NameHeld(b)'
  <2>1. CASE b # a
    <3>1. key'[b] = key[b]
      BY <1>5, <2>1 DEF Resend, TypeOK
    <3>2. QED  BY <1>0, <1>5, <3>1, QuietKeeps DEF Resend, Quiet, store, history
  <2>2. CASE b = a
    BY <1>0, <1>5, <2>2, ResendKeeps
  <2>3. QED  BY <2>1, <2>2
<1>6. ASSUME NEW a \in Attempts, VerifiedByForm(a) \/ VerifiedByPage(a)
      PROVE  NameHeld(b)'
  <2>1. PICK by \in By : /\ at[a] \in {"sms", "otp"}
                         /\ Start(a, by, Given(a, by))
                         /\ Given(a, by) \in Fields
    BY <1>0, <1>6, VerifiedFacts
  <2>2. CASE b # a
    <3>1. \A y \in By : saves'[b][y] = saves[b][y]
      BY <2>1, <2>2, StartFacts, ZenonT(60) DEF Others
    <3>2. UNCHANGED <<usersAuth, dirty, key, at, edited, overtaken>>
      BY <2>1 DEF Start, store, history
    <3>3. QED  BY <1>0, <3>1, <3>2, QuietKeeps DEF Quiet
  <2>3. CASE b = a
    BY <1>0, <2>1, <2>3, VerifiedKeeps
  <2>4. QED  BY <2>2, <2>3
<1>7. ASSUME NEW a \in Attempts, NEW by \in By, WriteUsersAuth(a, by)
      PROVE  NameHeld(b)'
  BY <1>0, <1>7, OvertakenKeeps, OwnWriteKeeps
<1>8. ASSUME NEW a \in Attempts, NEW by \in By, WriteUsers(a, by) \/ SaveFails(a, by)
      PROVE  NameHeld(b)'
  <2>1. UNCHANGED <<usersAuth, dirty, at, key, edited, overtaken>>
    BY <1>8 DEF WriteUsers, SaveFails, store, history
  <2>2. Others(a, by) /\ saves'[a][by].at = "settled" /\ saves[a][by] # NoSave
    <3>1. Others(a, by) /\ saves'[a][by].at = "settled"
      BY <1>8, SettleFacts DEF WriteUsers, SaveFails
    <3>2. QED  BY <1>8, <3>1 DEF WriteUsers, SaveFails, NoSave
  <2>3. Quiet(b)
    BY <2>1, <2>2 DEF Quiet, Others
  <2>4. QED  BY <1>0, <2>3, QuietKeeps
<1>9. CASE UNCHANGED <<store, attempt, history>>
  BY <1>0, <1>9, QuietKeeps DEF Quiet, store, attempt, history
<1>10. QED
  BY <1>1, <1>2, <1>3, <1>4, <1>5, <1>6, <1>7, <1>8, <1>9 DEF Next, vars, Back

LEMMA NextName == TypeOK /\ NumberInv /\ NameInv /\ [Next]_vars => NameInv'
<1> SUFFICES ASSUME TypeOK, NumberInv, NameInv, [Next]_vars PROVE NameInv'
  OBVIOUS
<1>1. \A b \in Attempts : NameHeld(b)'
  BY NextNameHeld
<1>2. CASE \E a \in Attempts, by \in By : WriteUsersAuth(a, by)
  BY <1>1, <1>2, WriteUnique DEF NameInv
<1>3. CASE ~ \E a \in Attempts, by \in By : WriteUsersAuth(a, by)
  <2>1. usersAuth' = usersAuth /\ dirty' = dirty
    BY <1>3, StoreKept
  <2>2. NamesUnique'
    BY <2>1 DEF NameInv, NamesUnique, Sound, Accounts
  <2>3. QED  BY <1>1, <2>2 DEF NameInv
<1>4. QED  BY <1>2, <1>3

\* What was checked stays free, and what is saved is what was checked, for
\* every attempt that was neither edited nor overtaken.
THEOREM NamesHeld == Spec => []NameInv
<1>1. QED  BY InitName, NextName, NumbersHeld, TypeCorrect, PTL DEF Spec

\* Of two accounts with one name, one was stored by an attempt that was
\* overtaken between its check and its write, or whose form was edited
\* (checkUser and saveUser of lib/Signup.dart).
THEOREM Unique == Spec => []NamesUnique
<1>1. NameInv => NamesUnique
  BY DEF NameInv
<1>2. QED  BY <1>1, NamesHeld, PTL

\* Nobody's account is stored over but by such an attempt, although a second
\* sign-up with its number has its uid (checkPhone and saveUser).
THEOREM Kept == Spec => AccountKept
<1>1. TypeOK /\ NameInv /\ [Next]_vars =>
         [\A n \in Sound : usersAuth'[n] # usersAuth[n] => n \notin Sound']_vars
  BY StoreKept, WriteUnique
<1>2. QED  BY <1>1, NamesHeld, TypeCorrect, PTL DEF Spec, AccountKept
=============================================================================
