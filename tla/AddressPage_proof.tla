------------------------- MODULE AddressPage_proof -------------------------
(***************************************************************************)
(* Proofs about AddressPage, for any phones and addresses and any number   *)
(* of saves and confirmations under way.                                   *)
(***************************************************************************)
EXTENDS AddressPage, SequenceTheorems, TLAPS

LEMMA FrontFacts ==
    ASSUME NEW S, NEW s \in Seq(S), s # <<>>
    PROVE  /\ Front(s) \in Seq(S)
           /\ Len(Front(s)) = Len(s) - 1
           /\ \A i \in 1 .. Len(s) - 1 : Front(s)[i] = s[i]
BY EmptySeq, SubSeqProperties, LenProperties, SMTT(40) DEF Front

LEMMA TailFacts ==
    ASSUME NEW S, NEW s \in Seq(S), s # <<>>
    PROVE  /\ Tail(s) \in Seq(S) /\ Head(s) \in S
           /\ Len(s) \in Nat \ {0} /\ Head(s) = s[1]
           /\ Len(Tail(s)) = Len(s) - 1
           /\ \A i \in 1 .. Len(s) - 1 : Tail(s)[i] = s[i + 1]
BY EmptySeq, HeadTailProperties, LenProperties

-----------------------------------------------------------------------------
(***************************************************************************)
(* Types                                                                   *)
(***************************************************************************)
LEMMA InitType == Init => TypeOK
<1> SUFFICES ASSUME Init PROVE TypeOK
  OBVIOUS
<1>1. <<>> \in Seq(Pages) /\ <<>> \in Seq(Writes)
  BY EmptySeq
<1>2. PICK a \in Addresses \cup {NoAddress} :
          userAddress = a /\ prefs = [p \in Phones |-> a]
  BY DEF Init
<1>3. /\ stack = [p \in Phones |-> <<>>] /\ exiting = [p \in Phones |-> {}]
      /\ shown = [p \in Phones |-> NoAddress] /\ saves = [p \in Phones |-> <<>>]
      /\ pops = [p \in Phones |-> 0] /\ lost = FALSE
  BY DEF Init
<1>4. QED  BY <1>1, <1>2, <1>3 DEF TypeOK

LEMMA PushType ==
    ASSUME TypeOK, NEW p \in Phones, NEW name \in Pages, Push(p, name)
    PROVE  stack' \in [Phones -> Seq(Pages)]
<1>1. Append(stack[p], name) \in Seq(Pages)
  BY AppendProperties DEF TypeOK
<1>2. QED  BY <1>1 DEF TypeOK, Push

LEMMA PopType ==
    ASSUME TypeOK, NEW p \in Phones, Pop(p)
    PROVE  /\ stack' \in [Phones -> Seq(Pages)]
           /\ exiting' \in [Phones -> SUBSET Pages]
           /\ shown' \in [Phones -> Addresses \cup {NoAddress}]
<1>1. stack[p] \in Seq(Pages) /\ stack[p] # <<>>
  BY DEF TypeOK, Pop
<1>2. Front(stack[p]) \in Seq(Pages)
  BY <1>1, FrontFacts
<1>3. Top(p) \in Pages
  BY <1>1, LenProperties, EmptySeq DEF Top, Last
<1>4. QED  BY <1>2, <1>3 DEF Pop, TypeOK

LEMMA DetachedType ==
    ASSUME TypeOK, NEW p \in Phones
    PROVE  Detached(p) \in Seq(Writes)
<1>1. saves[p] \in Seq(Writes)
  BY DEF TypeOK
<1>2. DOMAIN saves[p] = 1 .. Len(saves[p]) /\ Len(saves[p]) \in Nat
  BY <1>1, LenProperties
<1>3. ASSUME NEW i \in DOMAIN saves[p]
      PROVE  [saves[p][i] EXCEPT !.mounted = FALSE] \in Writes
  <2>1. saves[p][i] \in Writes  BY <1>1, <1>2, ElementOfSeq
  <2>2. QED  BY <2>1 DEF Writes
<1>4. QED  BY <1>2, <1>3 DEF Detached

LEMMA NextType == TypeOK /\ [Next]_vars => TypeOK'
<1> SUFFICES ASSUME TypeOK, [Next]_vars PROVE TypeOK'
  OBVIOUS
<1>0. {"order", "address", "placed"} \subseteq Pages
  BY DEF Pages
<1>w. saves \in [Phones -> Seq(Writes)]
  BY DEF TypeOK
<1>1. ASSUME NEW p \in Phones, OpenOrder(p) PROVE TypeOK'
  BY <1>0, <1>1, PushType DEF OpenOrder, TypeOK
<1>2. ASSUME NEW p \in Phones, OpenAddress(p) PROVE TypeOK'
  BY <1>0, <1>2, PushType DEF OpenAddress, TypeOK
<1>3. ASSUME NEW p \in Phones, Confirmed(p) PROVE TypeOK'
  BY <1>0, <1>3, PushType DEF Confirmed, TypeOK
<1>4. ASSUME NEW p \in Phones, Back(p) PROVE TypeOK'
  BY <1>4, PopType DEF Back, TypeOK
<1>5. ASSUME NEW p \in Phones, EndExit(p) PROVE TypeOK'
  <2>1. Detached(p) \in Seq(Writes)
    BY DetachedType
  <2>2. saves' \in [Phones -> Seq(Writes)]
    BY <1>5, <2>1, <1>w DEF EndExit
  <2>2a. pops' \in [Phones -> Nat]
    BY <1>5 DEF EndExit, TypeOK
  <2>3. exiting' \in [Phones -> SUBSET Pages]
    BY <1>5 DEF EndExit, TypeOK
  <2>4. QED  BY <1>5, <2>2, <2>2a, <2>3 DEF EndExit, TypeOK
<1>6. ASSUME NEW p \in Phones, NEW a \in Addresses, Save(p, a) PROVE TypeOK'
  <2>1. Append(saves[p], [address |-> a, mounted |-> TRUE]) \in Seq(Writes)
    BY AppendProperties DEF TypeOK, Writes
  <2>2. QED  BY <1>6, <2>1 DEF Save, TypeOK
<1>7. ASSUME NEW p \in Phones, Saved(p) PROVE TypeOK'
  <2>1. Tail(saves[p]) \in Seq(Writes) /\ Head(saves[p]) \in Writes
    BY <1>7, TailFacts DEF Saved, TypeOK, Writes
  <2>2. /\ saves' \in [Phones -> Seq(Writes)]
        /\ userAddress' \in Addresses \cup {NoAddress}
    BY <1>7, <2>1, <1>w DEF Saved, Writes
  <2>3. pops' \in [Phones -> Nat]
    BY <1>7 DEF Saved, TypeOK
  <2>4. QED  BY <1>7, <2>2, <2>3 DEF Saved, TypeOK
<1>8. ASSUME NEW p \in Phones, SaveFails(p) PROVE TypeOK'
  <2>1. Tail(saves[p]) \in Seq(Writes)
    BY <1>8, TailFacts DEF SaveFails, TypeOK
  <2>2. saves' \in [Phones -> Seq(Writes)]
    BY <1>8, <2>1, <1>w DEF SaveFails
  <2>3. QED  BY <1>8, <2>2 DEF SaveFails, TypeOK
<1>9. ASSUME NEW p \in Phones, DelayedPop(p) PROVE TypeOK'
  BY <1>9, PopType DEF DelayedPop, TypeOK
<1>10. ASSUME NEW p \in Phones, Kill(p) PROVE TypeOK'
  <2>1. \A s \in ToSet(saves[p]) : s.address \in Addresses
    <3>1. saves[p] \in Seq(Writes)
      BY DEF TypeOK
    <3>2. \A i \in DOMAIN saves[p] : saves[p][i] \in Writes
      BY <3>1, ElementOfSeq, LenProperties
    <3>3. QED  BY <3>2 DEF ToSet, Writes
  <2>2. userAddress' \in Addresses \cup {NoAddress}
    BY <1>10, <2>1 DEF Kill, TypeOK
  <2>3. /\ stack' \in [Phones -> Seq(Pages)]
        /\ exiting' \in [Phones -> SUBSET Pages]
        /\ shown' \in [Phones -> Addresses \cup {NoAddress}]
        /\ saves' \in [Phones -> Seq(Writes)]
        /\ pops' \in [Phones -> Nat]
    BY <1>10, EmptySeq DEF Kill, TypeOK
  <2>4. QED  BY <1>10, <2>2, <2>3 DEF Kill, TypeOK
<1>11. CASE UNCHANGED vars
  BY <1>11 DEF vars, TypeOK
<1>12. QED
  BY <1>1, <1>2, <1>3, <1>4, <1>5, <1>6, <1>7, <1>8, <1>9, <1>10, <1>11 DEF Next

\* Stacks have pages of this part only, and no timer is counted twice.
THEOREM TypeCorrect == Spec => []TypeOK
<1>1. QED  BY InitType, NextType, PTL DEF Spec

-----------------------------------------------------------------------------
(***************************************************************************)
(* The stack                                                               *)
(***************************************************************************)
\* The order page is at the bottom and the address page on top of it, if there;
\* whatever else is above them is a confirmation.
Shaped(s)  == \A i \in 1 .. Len(s) : (s[i] = "order" <=> i = 1) /\ (s[i] = "address" => i = 2)
OnStack(p) == \E i \in 1 .. Len(stack[p]) : stack[p][i] = "address"

LEMMA TopFacts ==
    ASSUME TypeOK, NEW p \in Phones
    PROVE  /\ Len(stack[p]) \in Nat
           /\ stack[p] # <<>> => Len(stack[p]) > 0 /\ Top(p) = stack[p][Len(stack[p])]
           /\ Top(p) \in {"order", "address"} => stack[p] # <<>>
           /\ stack[p] = <<>> => Len(stack[p]) = 0
<1>1. stack[p] \in Seq(Pages)
  BY DEF TypeOK
<1>2. Len(stack[p]) \in Nat /\ (stack[p] = <<>> <=> Len(stack[p]) = 0)
  BY <1>1, LenProperties, EmptySeq
<1>3. stack[p] = <<>> => Top(p) = "gift"
  BY DEF Top
<1>4. stack[p] # <<>> => Top(p) = stack[p][Len(stack[p])]
  BY DEF Top, Last
<1>5. QED  BY <1>2, <1>3, <1>4

LEMMA TopKnown ==
    ASSUME TypeOK, NEW p \in Phones, Shaped(stack[p])
    PROVE  /\ Top(p) = "order" => Len(stack[p]) = 1 /\ stack[p] # <<>> /\ ~ OnStack(p)
           /\ Top(p) = "address" => Len(stack[p]) = 2 /\ OnStack(p)
<1> DEFINE n == Len(stack[p])
<1>1. n \in Nat
  BY TopFacts
<1>2. ASSUME Top(p) = "order"
      PROVE  n = 1 /\ stack[p] # <<>> /\ ~ OnStack(p)
  <2>1. stack[p] # <<>> /\ n > 0 /\ stack[p][n] = "order"
    BY <1>2, TopFacts
  <2>2. n \in 1 .. n
    BY <1>1, <2>1
  <2>3. n = 1
    BY <2>1, <2>2 DEF Shaped
  <2>4. \A i \in 1 .. n : stack[p][i] # "address"
    BY <2>1, <2>3
  <2>5. QED  BY <2>1, <2>3, <2>4 DEF OnStack
<1>3. ASSUME Top(p) = "address"
      PROVE  n = 2 /\ OnStack(p)
  <2>1. n > 0 /\ stack[p][n] = "address"
    BY <1>3, TopFacts
  <2>2. n \in 1 .. n
    BY <1>1, <2>1
  <2>3. QED  BY <2>1, <2>2 DEF Shaped, OnStack
<1>4. QED  BY <1>2, <1>3

\* A page is pushed where the code pushes it.
LEMMA PushShape ==
    ASSUME TypeOK, NEW p \in Phones, NEW name \in Pages, Shaped(stack[p]), Push(p, name),
           name = "order" => stack[p] = <<>>,
           name = "address" => Len(stack[p]) = 1,
           name = "placed" => stack[p] # <<>>
    PROVE  /\ Shaped(stack'[p])
           /\ stack'[p] # <<>>
           /\ OnStack(p)' <=> OnStack(p) \/ name = "address"
<1> DEFINE s == stack[p]
           t == Append(s, name)
<1>1. s \in Seq(Pages) /\ stack'[p] = t
  BY DEF TypeOK, Push
<1>2. Len(s) \in Nat /\ (s = <<>> <=> Len(s) = 0)
  BY TopFacts
<1>3. /\ Len(t) = Len(s) + 1
      /\ t[Len(s) + 1] = name
      /\ \A i \in 1 .. Len(s) : t[i] = s[i]
      /\ t # <<>>
  BY <1>1, AppendProperties
<1> HIDE DEF t
<1>4. Shaped(t)
  <2> SUFFICES ASSUME NEW i \in 1 .. Len(t)
               PROVE  (t[i] = "order" <=> i = 1) /\ (t[i] = "address" => i = 2)
    BY DEF Shaped
  <2>1. CASE i \in 1 .. Len(s)
    <3>1. t[i] = s[i]
      BY <1>3, <2>1
    <3>2. (s[i] = "order" <=> i = 1) /\ (s[i] = "address" => i = 2)
      BY <2>1 DEF Shaped
    <3> HIDE DEF s
    <3>3. QED  BY <3>1, <3>2
  <2>2. CASE i = Len(s) + 1
    <3>1. t[i] = name
      BY <1>3, <2>2
    <3>2. CASE name = "order"
      BY <1>2, <2>2, <3>1, <3>2
    <3>3. CASE name = "address"
      <4>1. Len(s) = 1
        BY <3>3
      <4>2. i = 2
        BY <2>2, <4>1
      <4>3. QED  BY <3>1, <3>3, <4>2
    <3>4. CASE name = "placed"
      <4>1. Len(s) > 0 /\ i # 1
        BY <1>2, <2>2, <3>4
      <4>2. QED  BY <3>1, <3>4, <4>1
    <3>5. QED  BY <3>2, <3>3, <3>4 DEF Pages
  <2>3. i \in 1 .. Len(s) \/ i = Len(s) + 1
    BY <1>2, <1>3
  <2>4. QED  BY <2>1, <2>2, <2>3
<1>5. (\E i \in 1 .. Len(t) : t[i] = "address") <=> OnStack(p) \/ name = "address"
  BY <1>2, <1>3 DEF OnStack
<1>6. QED  BY <1>1, <1>3, <1>4, <1>5 DEF OnStack

\* A page is popped: the address page is gone only when it was on top.
LEMMA PopShape ==
    ASSUME TypeOK, NEW p \in Phones, Shaped(stack[p]), Pop(p)
    PROVE  /\ Shaped(stack'[p])
           /\ OnStack(p)' <=> OnStack(p) /\ Top(p) # "address"
           /\ stack'[p] # <<>> => stack[p] # <<>>
<1> DEFINE s == stack[p]
           t == Front(s)
<1>1. s \in Seq(Pages) /\ s # <<>> /\ stack'[p] = t
  BY DEF TypeOK, Pop
<1>2. Len(s) \in Nat /\ Len(s) > 0 /\ Top(p) = s[Len(s)]
  BY <1>1, TopFacts
<1>3. Len(t) = Len(s) - 1 /\ \A i \in 1 .. Len(s) - 1 : t[i] = s[i]
  BY <1>1, FrontFacts
<1> HIDE DEF t
<1>4. Shaped(t)
  BY <1>2, <1>3 DEF Shaped
<1>5. (\E i \in 1 .. Len(t) : t[i] = "address") <=> OnStack(p) /\ Top(p) # "address"
  <2>1. ASSUME NEW i \in 1 .. Len(t), t[i] = "address"
        PROVE  OnStack(p) /\ Top(p) # "address"
    <3>1. i \in 1 .. Len(s) - 1 /\ s[i] = "address"
      BY <1>2, <1>3, <2>1
    <3>2. i = 2 /\ Len(s) # 2
      BY <1>2, <3>1 DEF Shaped
    <3>3. QED  BY <1>2, <3>1, <3>2 DEF Shaped, OnStack
  <2>2. ASSUME OnStack(p), Top(p) # "address"
        PROVE  \E i \in 1 .. Len(t) : t[i] = "address"
    <3>1. PICK i \in 1 .. Len(s) : s[i] = "address"
      BY <2>2 DEF OnStack
    <3>2. i \in 1 .. Len(s) - 1
      BY <1>2, <2>2, <3>1
    <3>3. QED  BY <1>3, <3>1, <3>2
  <2>3. QED  BY <2>1, <2>2
<1>6. QED  BY <1>1, <1>4, <1>5 DEF OnStack

-----------------------------------------------------------------------------
(***************************************************************************)
(* The invariant of a phone                                                *)
(***************************************************************************)
Mounted(p) == \E i \in 1 .. Len(saves[p]) : saves[p][i].mounted

\* The order page has the address of the preferences unless an address page
\* may still change them; the last write under way is that of the preferences;
\* a timer, or a write that will start one, has its page on the stack or leaving.
ShownHeld(p) == stack[p] # <<>> /\ ~ OnStack(p) => shown[p] = prefs[p]
LastHeld(p)  == saves[p] # <<>> => saves[p][Len(saves[p])].address = prefs[p]
TimerHeld(p) == pops[p] > 0 \/ Mounted(p) => OnStack(p) \/ "address" \in exiting[p]
PhoneInv(p)  == Shaped(stack[p]) /\ ShownHeld(p) /\ LastHeld(p) /\ TimerHeld(p)

\* A write that is neither lost nor under way is of some phone.
ServerInv == ~ lost => \E p \in Phones : saves[p] # <<>> \/ userAddress = prefs[p]

AddressInv == (\A p \in Phones : PhoneInv(p)) /\ ServerInv

LEMMA InitAddress == Init => AddressInv
<1> SUFFICES ASSUME Init PROVE AddressInv
  OBVIOUS
<1>1. \A p \in Phones : /\ stack[p] = <<>> /\ saves[p] = <<>> /\ pops[p] = 0
                        /\ userAddress = prefs[p]
  BY DEF Init
<1>2. Len(<<>>) = 0
  BY EmptySeq
<1>3. \A p \in Phones : PhoneInv(p)
  BY <1>1, <1>2 DEF PhoneInv, Shaped, ShownHeld, LastHeld, TimerHeld, Mounted
<1>4. ServerInv
  BY <1>1, PhonesAssumption DEF ServerInv
<1>5. QED  BY <1>3, <1>4 DEF AddressInv

\* A phone that takes no step keeps its invariant.
Step(p) == \/ OpenOrder(p) \/ OpenAddress(p) \/ Confirmed(p) \/ Back(p) \/ EndExit(p)
           \/ \E a \in Addresses : Save(p, a)
           \/ Saved(p) \/ SaveFails(p) \/ DelayedPop(p) \/ Kill(p)

LEMMA OthersKept ==
    ASSUME TypeOK, NEW p \in Phones, Step(p), NEW q \in Phones, q # p, PhoneInv(q)
    PROVE  /\ PhoneInv(q)'
           /\ saves'[q] = saves[q] /\ prefs'[q] = prefs[q]
<1>1. /\ stack'[q] = stack[q] /\ exiting'[q] = exiting[q] /\ shown'[q] = shown[q]
      /\ prefs'[q] = prefs[q] /\ saves'[q] = saves[q] /\ pops'[q] = pops[q]
  BY DEF Step, OpenOrder, OpenAddress, Confirmed, Back, EndExit, Save, Saved, SaveFails,
         DelayedPop, Kill, Push, Pop, TypeOK
<1>2. QED
  BY <1>1 DEF PhoneInv, ShownHeld, LastHeld, TimerHeld, OnStack, Mounted

\* The writes under way, with one more and with the oldest answered
LEMMA WritesAppend ==
    ASSUME NEW s \in Seq(Writes), NEW w \in Writes
    PROVE  /\ Append(s, w) # <<>>
           /\ Append(s, w)[Len(Append(s, w))] = w
BY AppendProperties

LEMMA WritesTail ==
    ASSUME NEW s \in Seq(Writes), s # <<>>
    PROVE  /\ Tail(s) # <<>> => Tail(s)[Len(Tail(s))] = s[Len(s)]
           /\ Tail(s) = <<>> => Head(s) = s[Len(s)]
           /\ \A i \in 1 .. Len(Tail(s)) : i + 1 \in 1 .. Len(s) /\ Tail(s)[i] = s[i + 1]
           /\ 1 \in 1 .. Len(s) /\ Head(s) = s[1]
<1>1. /\ Tail(s) \in Seq(Writes)
      /\ Len(s) \in Nat \ {0} /\ Head(s) = s[1]
      /\ Len(Tail(s)) = Len(s) - 1
      /\ \A i \in 1 .. Len(s) - 1 : Tail(s)[i] = s[i + 1]
  BY TailFacts
<1>2. Tail(s) = <<>> <=> Len(Tail(s)) = 0
  BY <1>1, EmptySeq, LenProperties
<1>3. QED  BY <1>1, <1>2

LEMMA OpenOrderKeeps ==
    ASSUME TypeOK, NEW p \in Phones, PhoneInv(p), OpenOrder(p)
    PROVE  PhoneInv(p)'
<1>1. stack[p] = <<>> /\ Push(p, "order")
  BY DEF OpenOrder
<1>2. Shaped(stack'[p]) /\ (OnStack(p)' <=> OnStack(p))
  BY <1>1, PushShape DEF PhoneInv, Pages
<1>3. shown'[p] = prefs'[p] /\ saves'[p] = saves[p] /\ prefs'[p] = prefs[p]
      /\ pops'[p] = pops[p] /\ exiting'[p] = exiting[p]
  BY DEF OpenOrder, TypeOK
<1>4. QED
  BY <1>2, <1>3 DEF PhoneInv, ShownHeld, LastHeld, TimerHeld, Mounted

LEMMA OpenAddressKeeps ==
    ASSUME TypeOK, NEW p \in Phones, PhoneInv(p), OpenAddress(p)
    PROVE  PhoneInv(p)'
<1>1. Len(stack[p]) = 1 /\ Push(p, "address")
  BY TopKnown DEF OpenAddress, PhoneInv
<1>2. Shaped(stack'[p]) /\ OnStack(p)'
  BY <1>1, PushShape DEF PhoneInv, Pages
<1>3. saves'[p] = saves[p] /\ prefs'[p] = prefs[p]
  BY DEF OpenAddress
<1>4. QED
  BY <1>2, <1>3 DEF PhoneInv, ShownHeld, LastHeld, TimerHeld

LEMMA ConfirmedKeeps ==
    ASSUME TypeOK, NEW p \in Phones, PhoneInv(p), Confirmed(p)
    PROVE  PhoneInv(p)'
<1>1. stack[p] # <<>> /\ Push(p, "placed")
  BY DEF Confirmed, ToSet
<1>2. Shaped(stack'[p]) /\ (OnStack(p)' <=> OnStack(p))
  BY <1>1, PushShape DEF PhoneInv, Pages
<1>3. shown'[p] = shown[p] /\ saves'[p] = saves[p] /\ prefs'[p] = prefs[p]
      /\ pops'[p] = pops[p] /\ exiting'[p] = exiting[p]
  BY DEF Confirmed
<1>4. QED
  BY <1>1, <1>2, <1>3 DEF PhoneInv, ShownHeld, LastHeld, TimerHeld, Mounted

\* Back and the timer pop alike; the timer is one less.
LEMMA PopKeeps ==
    ASSUME TypeOK, NEW p \in Phones, PhoneInv(p), Pop(p),
           pops'[p] > 0 => pops[p] > 0, saves'[p] = saves[p], prefs'[p] = prefs[p]
    PROVE  PhoneInv(p)'
<1>1. /\ Shaped(stack'[p])
      /\ OnStack(p)' <=> OnStack(p) /\ Top(p) # "address"
      /\ stack[p] # <<>>
  BY PopShape DEF PhoneInv, Pop
<1>2. /\ exiting'[p] = exiting[p] \cup {Top(p)}
      /\ shown'[p] = IF Top(p) = "address" THEN prefs[p] ELSE shown[p]
  BY DEF Pop, TypeOK
<1>3. ShownHeld(p)'
  BY <1>1, <1>2 DEF ShownHeld, PhoneInv
<1>4. LastHeld(p)'
  BY DEF LastHeld, PhoneInv
<1>5. TimerHeld(p)'
  BY <1>1, <1>2 DEF TimerHeld, PhoneInv, Mounted
<1>6. QED  BY <1>1, <1>3, <1>4, <1>5 DEF PhoneInv

LEMMA EndExitKeeps ==
    ASSUME TypeOK, NEW p \in Phones, PhoneInv(p), EndExit(p)
    PROVE  PhoneInv(p)' /\ (saves'[p] = <<>> <=> saves[p] = <<>>)
<1>1. stack'[p] = stack[p] /\ shown'[p] = shown[p] /\ prefs'[p] = prefs[p]
  BY DEF EndExit
<1>2. CASE "address" \notin exiting[p]
  BY <1>1, <1>2 DEF EndExit, PhoneInv, ShownHeld, LastHeld, TimerHeld, OnStack, Mounted
<1>3. CASE "address" \in exiting[p]
  <2>1. pops'[p] = 0 /\ saves'[p] = Detached(p)
    BY <1>3 DEF EndExit, TypeOK
  <2>2. saves[p] \in Seq(Writes)
    BY DEF TypeOK
  <2>3. Len(saves[p]) \in Nat /\ DOMAIN saves[p] = 1 .. Len(saves[p])
        /\ (saves[p] = <<>> <=> Len(saves[p]) = 0)
    BY <2>2, LenProperties, EmptySeq
  <2>4. /\ DOMAIN Detached(p) = 1 .. Len(saves[p])
        /\ \A i \in 1 .. Len(saves[p]) :
              Detached(p)[i] = [saves[p][i] EXCEPT !.mounted = FALSE]
    BY <2>3 DEF Detached
  <2>5. Detached(p) \in Seq(Writes) /\ Len(Detached(p)) = Len(saves[p])
        /\ (Detached(p) = <<>> <=> Len(Detached(p)) = 0)
    <3>1. Detached(p) \in Seq(Writes)
      BY DetachedType
    <3>2. QED  BY <2>3, <2>4, <3>1, LenProperties, EmptySeq
  <2>6. \A i \in 1 .. Len(saves[p]) : /\ Detached(p)[i].mounted = FALSE
                                      /\ Detached(p)[i].address = saves[p][i].address
    <3>1. \A i \in 1 .. Len(saves[p]) : saves[p][i] \in Writes
      BY <2>2, ElementOfSeq
    <3>2. QED  BY <2>4, <3>1 DEF Writes
  <2>7. LastHeld(p)'
    BY <1>1, <2>1, <2>3, <2>5, <2>6 DEF LastHeld, PhoneInv
  <2>8. TimerHeld(p)'
    BY <2>1, <2>5, <2>6 DEF TimerHeld, Mounted
  <2>9. ShownHeld(p)' /\ Shaped(stack'[p])
    BY <1>1 DEF ShownHeld, OnStack, PhoneInv
  <2>10. QED  BY <2>1, <2>3, <2>5, <2>7, <2>8, <2>9 DEF PhoneInv
<1>4. QED  BY <1>2, <1>3

LEMMA SaveKeeps ==
    ASSUME TypeOK, NEW p \in Phones, PhoneInv(p), NEW a \in Addresses, Save(p, a)
    PROVE  PhoneInv(p)' /\ saves'[p] # <<>>
<1> DEFINE w == [address |-> a, mounted |-> TRUE]
<1>1. saves'[p] = Append(saves[p], w) /\ prefs'[p] = a /\ stack'[p] = stack[p]
  BY DEF Save, TypeOK
<1>2. saves[p] \in Seq(Writes) /\ w \in Writes
  BY DEF TypeOK, Writes
<1>3. saves'[p] # <<>> /\ saves'[p][Len(saves'[p])] = w
  BY <1>1, <1>2, WritesAppend
<1>4. OnStack(p)
  BY TopKnown DEF Save, PhoneInv
<1>5. QED
  BY <1>1, <1>3, <1>4 DEF PhoneInv, ShownHeld, LastHeld, TimerHeld, OnStack

\* The oldest write is answered or fails.
LEMMA AnswerKeeps ==
    ASSUME TypeOK, NEW p \in Phones, PhoneInv(p), Saved(p) \/ SaveFails(p)
    PROVE  /\ PhoneInv(p)'
           /\ saves[p] # <<>> /\ prefs'[p] = prefs[p]
           /\ saves'[p] = <<>> => Head(saves[p]).address = prefs[p]
<1>1. /\ saves[p] # <<>> /\ saves'[p] = Tail(saves[p])
      /\ prefs'[p] = prefs[p] /\ stack'[p] = stack[p] /\ shown'[p] = shown[p]
      /\ exiting'[p] = exiting[p]
  BY DEF Saved, SaveFails, TypeOK
<1>2. saves[p] \in Seq(Writes)
  BY DEF TypeOK
<1>3. pops'[p] > 0 => pops[p] > 0 \/ Head(saves[p]).mounted
  BY DEF Saved, SaveFails, TypeOK
<1>4. LastHeld(p)' /\ (saves'[p] = <<>> => Head(saves[p]).address = prefs[p])
  BY <1>1, <1>2, WritesTail DEF LastHeld, PhoneInv
<1>5. Mounted(p)' \/ Head(saves[p]).mounted => Mounted(p)
  BY <1>1, <1>2, WritesTail DEF Mounted
<1>6. TimerHeld(p)'
  BY <1>1, <1>3, <1>5 DEF TimerHeld, OnStack, PhoneInv
<1>7. ShownHeld(p)' /\ Shaped(stack'[p])
  BY <1>1 DEF ShownHeld, OnStack, PhoneInv
<1>8. QED  BY <1>1, <1>4, <1>6, <1>7 DEF PhoneInv

LEMMA KillKeeps ==
    ASSUME TypeOK, NEW p \in Phones, Kill(p)
    PROVE  PhoneInv(p)'
<1>1. stack'[p] = <<>> /\ saves'[p] = <<>> /\ pops'[p] = 0
  BY DEF Kill, TypeOK
<1>2. Len(<<>>) = 0
  BY EmptySeq
<1>3. QED
  BY <1>1, <1>2 DEF PhoneInv, Shaped, ShownHeld, LastHeld, TimerHeld, Mounted

LEMMA StepKeeps ==
    ASSUME TypeOK, NEW p \in Phones, PhoneInv(p), Step(p)
    PROVE  PhoneInv(p)'
<1>1. CASE Back(p)
  BY <1>1, PopKeeps DEF Back
<1>2. CASE DelayedPop(p)
  <2>1. pops[p] > 0 /\ saves'[p] = saves[p] /\ prefs'[p] = prefs[p] /\ Pop(p)
    BY <1>2 DEF DelayedPop
  <2>2. QED  BY <2>1, PopKeeps
<1>3. QED
  BY <1>1, <1>2, OpenOrderKeeps, OpenAddressKeeps, ConfirmedKeeps, EndExitKeeps,
     SaveKeeps, AnswerKeeps, KillKeeps DEF Step

\* The document keeps its phone: only an answered write changes it, and the
\* last one of a phone is that of its preferences.
LEMMA StepServer ==
    ASSUME TypeOK, AddressInv, NEW p \in Phones, Step(p)
    PROVE  ServerInv'
<1> SUFFICES ASSUME ~ lost'
             PROVE  \E q \in Phones : saves'[q] # <<>> \/ userAddress' = prefs'[q]
  BY DEF ServerInv
<1>0. /\ ~ lost => \E q \in Phones : saves[q] # <<>> \/ userAddress = prefs[q]
      /\ \A q \in Phones : PhoneInv(q)
  BY DEF AddressInv, ServerInv
<1>1. \A q \in Phones : q # p => saves'[q] = saves[q] /\ prefs'[q] = prefs[q]
  BY <1>0, OthersKept
<1>2. CASE saves'[p] # <<>>
  BY <1>2
<1>3. CASE Saved(p)
  <2>1. userAddress' = Head(saves[p]).address
    BY <1>3 DEF Saved
  <2>2. prefs'[p] = prefs[p] /\ (saves'[p] = <<>> => Head(saves[p]).address = prefs[p])
    BY <1>0, <1>3, AnswerKeeps
  <2>3. QED  BY <1>2, <2>1, <2>2
<1>4. CASE SaveFails(p)
  BY <1>4 DEF SaveFails
<1>5. CASE Kill(p) /\ saves'[p] = <<>>
  <2>1. saves[p] = <<>> /\ ~ lost
    BY <1>5 DEF Kill
  <2>2. ToSet(saves[p]) = {}
    BY <2>1 DEF ToSet
  <2>3. userAddress' = userAddress /\ prefs' = prefs
    BY <1>5, <2>2 DEF Kill
  <2>4. QED  BY <1>0, <1>1, <2>1, <2>3
<1>6. ASSUME NEW a \in Addresses, Save(p, a)
      PROVE  \E q \in Phones : saves'[q] # <<>> \/ userAddress' = prefs'[q]
  BY <1>0, <1>2, <1>6, SaveKeeps
<1>7. CASE EndExit(p)
  <2>1. userAddress' = userAddress /\ prefs' = prefs /\ ~ lost
        /\ (saves'[p] = <<>> <=> saves[p] = <<>>)
    BY <1>0, <1>7, EndExitKeeps DEF EndExit
  <2>2. QED  BY <1>0, <1>1, <2>1
<1>8. CASE OpenOrder(p) \/ OpenAddress(p) \/ Confirmed(p) \/ Back(p) \/ DelayedPop(p)
  <2>1. UNCHANGED <<userAddress, prefs, saves, lost>>
    BY <1>8 DEF OpenOrder, OpenAddress, Confirmed, Back, DelayedPop
  <2>2. QED  BY <1>0, <2>1
<1>9. QED
  BY <1>2, <1>3, <1>4, <1>5, <1>6, <1>7, <1>8 DEF Step

LEMMA NextAddress == TypeOK /\ AddressInv /\ [Next]_vars => AddressInv'
<1> SUFFICES ASSUME TypeOK, AddressInv, [Next]_vars PROVE AddressInv'
  OBVIOUS
<1>1. ASSUME NEW p \in Phones, Step(p) PROVE AddressInv'
  <2>1. \A q \in Phones : PhoneInv(q)
    BY DEF AddressInv
  <2>2. PhoneInv(p)'
    BY <1>1, <2>1, StepKeeps
  <2>3. \A q \in Phones : q # p => PhoneInv(q)'
    BY <1>1, <2>1, OthersKept
  <2>4. QED  BY <1>1, <2>2, <2>3, StepServer DEF AddressInv
<1>2. CASE UNCHANGED vars
  BY <1>2 DEF vars, AddressInv, ServerInv, PhoneInv, ShownHeld, LastHeld, TimerHeld,
     OnStack, Mounted
<1>3. QED  BY <1>1, <1>2 DEF Next, Step

\* A phone's stack keeps its shape, its order page and its last write follow
\* its preferences, and its timers their page (lib/AddAddress.dart, Save).
THEOREM PhonesAgree == Spec => []AddressInv
<1>1. QED  BY InitAddress, NextAddress, TypeCorrect, PTL DEF Spec

\* The order page, the preferences and the user's document have one address,
\* however pages are popped, writes answered, refused and lost, and apps end
\* (lib/AddAddress.dart, Save, and _refresh of lib/OrderPage.dart).
THEOREM Agree == Spec => []AddressesAgree
<1>1. TypeOK /\ AddressInv => AddressesAgree
  BY TopKnown DEF AddressInv, ServerInv, PhoneInv, ShownHeld, AddressesAgree
<1>2. QED  BY <1>1, TypeCorrect, PhonesAgree, PTL

\* A step that takes the order page away as a timer fires finds the address
\* page on its way out: no timer outlives its page (Future.delayed of Save).
LEMMA TimerStep ==
    ASSUME TypeOK, AddressInv, [Next]_vars, NEW p \in Phones,
           pops'[p] < pops[p], Top(p) = "order", stack'[p] = Front(stack[p])
    PROVE  "address" \in exiting[p]
<1>1. pops[p] > 0
  <2>1. pops[p] \in Nat /\ pops'[p] \in Nat
    BY NextType DEF TypeOK
  <2>2. QED  BY <2>1
<1>2. PhoneInv(p)
  BY DEF AddressInv
<1>3. ~ OnStack(p)
  BY <1>2, TopKnown DEF PhoneInv
<1>4. QED  BY <1>1, <1>2, <1>3 DEF PhoneInv, TimerHeld

THEOREM TimerSpares == Spec => TimerSparesOrderPage
<1>1. TypeOK /\ AddressInv /\ [Next]_vars =>
         [\A p \in Phones :
            pops'[p] < pops[p] /\ Top(p) = "order" /\ stack'[p] = Front(stack[p])
               => "address" \in exiting[p]]_vars
  BY TimerStep
<1>2. QED  BY <1>1, TypeCorrect, PhonesAgree, PTL DEF Spec, TimerSparesOrderPage
=============================================================================
