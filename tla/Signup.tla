------------------------------- MODULE Signup -------------------------------
(***************************************************************************)
(* Signing up by phone: the form (lib/Signup.dart) and the page that asks  *)
(* for the code (lib/CustomOtp.dart), on several devices.                  *)
(*                                                                         *)
(* The form's fields stay editable while its handler checks the name, then *)
(* the number, uploads a picture and has a code sent; each step reads the  *)
(* fields anew.  Firebase gives every phone number one uid, so a uid is    *)
(* the number that was verified.                                           *)
(***************************************************************************)
EXTENDS Integers, SequencesExt

CONSTANTS
    Devices,
    Names, Numbers,     \* usernames and mobile numbers
    Attempts,           \* identities for the taps on SIGN UP
    DeviceOf,           \* the device an attempt is made on
    MaxEdits            \* bound: changes of a field

ASSUME DeviceOfAssumption == DeviceOf \in [Attempts -> Devices]
ASSUME MaxEditsAssumption == MaxEdits \in Nat

Fields == [name : Names, number : Numbers]
NoDoc  == [name |-> "none"]

VARIABLES
    \* Firestore
    usersAuth,      \* UsersAuth: uid |-> username and Mobile
    users,          \* Users: the uids with a document
    \* a device
    form,           \* the fields of its form
    otps,           \* the code pages above the form, by attempt, last on top
    home,           \* it has reached the home page
    \* an attempt
    at,             \* the call it awaits
    key,            \* what that call was given
    otp,            \* what its code page was given
    saves,          \* the calls of saveUser: by the form's callback, by the page
    killed,         \* its app is gone
    \* history, read by no action
    edited,         \* what a change of the form since the tap may spoil
    overtaken,      \* its name or number was stored after it was checked
    dirty,          \* what such an attempt may have spoilt of an account
    edits           \* changes made so far

store   == <<usersAuth, users>>
device  == <<form, otps, home>>
attempt == <<at, key, otp, saves, killed>>
history == <<edited, overtaken, dirty, edits>>
vars    == <<store, device, attempt, history>>

Checking == {"name", "number"}
Places   == {"idle", "image", "sms", "otp", "ended"} \cup Checking
By       == {"form", "page"}
NoSave   == [at |-> "none"]
Settled  == [at |-> "settled"]  \* done, failed, or its app died
Spoilt   == {"nothing", "name", "number"}   \* "number": name and number
Saves    == {NoSave, Settled} \cup
              [at : {"usersAuth", "users"}, uid : Numbers, fields : Fields, edited : Spoilt]

Init ==
    /\ usersAuth = [n \in Numbers |-> NoDoc]
    /\ users = {}
    /\ form \in [Devices -> Fields]
    /\ otps = [d \in Devices |-> <<>>]
    /\ home = [d \in Devices |-> FALSE]
    /\ at = [a \in Attempts |-> "idle"]
    /\ key = [a \in Attempts |-> form[DeviceOf[a]]]
    /\ otp = key
    /\ edits = 0
    /\ saves = [a \in Attempts |-> [by \in By |-> NoSave]]
    /\ killed = [a \in Attempts |-> FALSE]
    /\ edited = [a \in Attempts |-> [by \in By |-> "nothing"]]
    /\ overtaken = [a \in Attempts |-> FALSE]
    /\ dirty = [n \in Numbers |-> "nothing"]

FormOf(a) == form[DeviceOf[a]]
Accounts  == {n \in Numbers : usersAuth[n] # NoDoc}
Sound     == {n \in Accounts : dirty[n] = "nothing"}

-----------------------------------------------------------------------------
(***************************************************************************)
(* The form                                                                *)
(***************************************************************************)
AtForm(d) == otps[d] = <<>> /\ ~ home[d]

\* An edit before verifyPhone reads the number may bypass the two checks; a
\* later one changes the number after it was sent its code.  What the code
\* page was given does not change.
Spoils(a, by) ==
    CASE at[a] \in {"name", "number", "image"} /\ edited[a][by] # "number" -> "name"
      [] at[a] = "sms" \/ (by = "form" /\ at[a] = "otp") -> "number"
      [] OTHER -> edited[a][by]

\* onChanged of a field.
Edit(d, f) ==
    /\ AtForm(d)
    /\ f # form[d]
    /\ edits < MaxEdits
    /\ edits' = edits + 1
    /\ form' = [form EXCEPT ![d] = f]
    /\ edited' = [a \in Attempts |->
         IF DeviceOf[a] = d THEN [by \in By |-> Spoils(a, by)] ELSE edited[a]]
    /\ UNCHANGED <<store, otps, home, attempt, overtaken, dirty>>

\* SIGN UP with every field filled; it takes taps while a check runs.
Tap(a) ==
    /\ AtForm(DeviceOf[a])
    /\ at[a] = "idle" /\ ~ killed[a]
    /\ at' = [at EXCEPT ![a] = "name"]
    /\ key' = [key EXCEPT ![a] = FormOf(a)]
    /\ UNCHANGED <<store, device, otp, saves, killed, history>>

\* An attempt goes on with the fields as they are now.
GoOn(a, next) ==
    /\ at' = [at EXCEPT ![a] = next]
    /\ key' = [key EXCEPT ![a] = FormOf(a)]
    /\ UNCHANGED <<store, device, otp, saves, killed, history>>

\* Rejected or failed: the user reads why and may tap again.
Stop(a) ==
    /\ at' = [at EXCEPT ![a] = "ended"]
    /\ UNCHANGED <<store, device, key, otp, saves, killed, history>>

\* Mutants: the answer of a check is not looked at.
CheckUser_Ignored(a) == at[a] = "name" /\ GoOn(a, "number")
CheckPhone_Ignored(a) == at[a] = "number" /\ GoOn(a, "sms")

CheckUser(a) ==
    /\ at[a] = "name"
    /\ \/ /\ \E n \in Accounts : usersAuth[n].name = key[a].name
          /\ Stop(a)
       \/ /\ \A n \in Accounts : usersAuth[n].name # key[a].name
          /\ GoOn(a, "number")

\* Mutant: verifyPhone is given the number that was checked.
CheckPhone_OldNumber(a) ==
    /\ at[a] = "number"
    /\ \A n \in Accounts : usersAuth[n].number # key[a].number
    /\ at' = [at EXCEPT ![a] = "sms"]
    /\ UNCHANGED <<store, device, key, otp, saves, killed, history>>

\* With a picture chosen, it is uploaded before verifyPhone is called.
CheckPhone(a) ==
    /\ at[a] = "number"
    /\ \/ /\ \E n \in Accounts : usersAuth[n].number = key[a].number
          /\ Stop(a)
       \/ /\ \A n \in Accounts : usersAuth[n].number # key[a].number
          /\ GoOn(a, "image") \/ GoOn(a, "sms")

ImageUploaded(a) == at[a] = "image" /\ GoOn(a, "sms")

\* A get or the upload fails; Firebase refuses the number.
AttemptFails(a) ==
    /\ at[a] \in {"image", "sms"} \cup Checking
    /\ Stop(a)

\* codeSent: the code page is opened with the fields as they are now.
CodeSent(a) ==
    /\ at[a] = "sms"
    /\ at' = [at EXCEPT ![a] = "otp"]
    /\ otp' = [otp EXCEPT ![a] = FormOf(a)]
    /\ otps' = [otps EXCEPT ![DeviceOf[a]] = Append(@, a)]
    /\ UNCHANGED <<store, form, home, key, saves, killed, history>>

-----------------------------------------------------------------------------
(***************************************************************************)
(* The code page                                                           *)
(***************************************************************************)
OnTop(a) == /\ otps[DeviceOf[a]] # <<>>
            /\ Last(otps[DeviceOf[a]]) = a
            /\ ~ home[DeviceOf[a]]

\* resendVerificationCode: the page's number is the one verified from now on.
Resend(a) ==
    /\ OnTop(a)
    /\ key' = [key EXCEPT ![a] = otp[a]]
    /\ UNCHANGED <<store, device, at, otp, saves, killed, history>>

Back(a) ==
    /\ OnTop(a)
    /\ otps' = [otps EXCEPT ![DeviceOf[a]] = Front(@)]
    /\ UNCHANGED <<store, form, home, attempt, history>>

-----------------------------------------------------------------------------
(***************************************************************************)
(* saveUser, for the uid of the number that was verified                   *)
(***************************************************************************)
\* Mutant: the documents are named after the username.
Start_ByName(a, by, fields) ==
    /\ saves[a][by] = NoSave
    /\ saves' = [saves EXCEPT ![a][by] =
          [at |-> "usersAuth", uid |-> fields.name, fields |-> fields,
           edited |-> edited[a][by]]]
    /\ UNCHANGED <<store, device, at, key, otp, killed, history>>

Start(a, by, fields) ==
    /\ saves[a][by] = NoSave
    /\ saves' = [saves EXCEPT ![a][by] =
          [at |-> "usersAuth", uid |-> key[a].number, fields |-> fields,
           edited |-> edited[a][by]]]
    /\ UNCHANGED <<store, device, at, key, otp, killed, history>>

\* verificationCompleted of the form: the phone read the code by itself.
VerifiedByForm(a) ==
    /\ at[a] \in {"sms", "otp"}
    /\ Start(a, "form", FormOf(a))

\* Six digits, and they are right: the page saves what it was given.
VerifiedByPage(a) == OnTop(a) /\ Start(a, "page", otp[a])

Settle(a, by) == saves' = [saves EXCEPT ![a][by] = Settled]

\* Nobody awaits the answer in a killed app.
Advance(a, by) ==
    IF killed[a] THEN Settle(a, by)
    ELSE saves' = [saves EXCEPT ![a][by].at = "users"]

\* What an attempt is about to store
Pending(b) == {saves[b][by].fields : by \in {x \in By : saves[b][x].at = "usersAuth"}}

\* The attempts that checked a name or number which is being stored
Overtaken(a, uid, fields) == [b \in Attempts |->
    \/ overtaken[b]
    \/ /\ b # a
       /\ at[b] \notin {"idle", "name"}
       /\ \E f \in {key[b]} \cup Pending(b) :
            fields.name = f.name \/ fields.number = f.number \/ uid = f.number]

WriteUsersAuth(a, by) == LET s == saves[a][by] IN
    /\ s.at = "usersAuth"
    /\ usersAuth' = [usersAuth EXCEPT ![s.uid] = s.fields]
    /\ Advance(a, by)
    /\ overtaken' = Overtaken(a, s.uid, s.fields)
    /\ dirty' = [dirty EXCEPT ![s.uid] =
                   IF s.edited = "nothing" /\ overtaken[a] THEN "name" ELSE s.edited]
    /\ UNCHANGED <<users, device, at, key, otp, killed, edited, edits>>

\* Then the home page is pushed, by a page that is still there.
WriteUsers(a, by) == LET s == saves[a][by]  d == DeviceOf[a] IN
    /\ s.at = "users"
    /\ users' = users \cup {s.uid}
    /\ Settle(a, by)
    /\ home' = [home EXCEPT ![d] = @ \/ /\ ~ killed[a]
                                        /\ by = "form" \/ a \in ToSet(otps[d])]
    /\ UNCHANGED <<usersAuth, form, otps, at, key, otp, killed, history>>

SaveFails(a, by) ==
    /\ saves[a][by].at \in {"usersAuth", "users"}
    /\ Settle(a, by)
    /\ UNCHANGED <<store, device, at, key, otp, killed, history>>

\* The app is killed: the write under way may still take effect.
Kill(d) ==
    /\ \E a \in Attempts : DeviceOf[a] = d /\ at[a] # "idle" /\ ~ killed[a]
    /\ killed' = [a \in Attempts |->
                    killed[a] \/ (DeviceOf[a] = d /\ at[a] # "idle")]
    /\ at' = [a \in Attempts |->
                IF DeviceOf[a] = d /\ at[a] # "idle" THEN "ended" ELSE at[a]]
    /\ otps' = [otps EXCEPT ![d] = <<>>]
    /\ home' = [home EXCEPT ![d] = FALSE]
    /\ UNCHANGED <<store, form, key, otp, saves, history>>

Next ==
    \/ \E d \in Devices : Kill(d) \/ \E f \in Fields : Edit(d, f)
    \/ \E a \in Attempts :
         \/ Tap(a) \/ CheckUser(a) \/ CheckPhone(a) \/ ImageUploaded(a)
         \/ AttemptFails(a) \/ CodeSent(a) \/ Resend(a) \/ Back(a)
         \/ VerifiedByForm(a) \/ VerifiedByPage(a)
         \/ \E by \in By : \/ WriteUsersAuth(a, by) \/ WriteUsers(a, by)
                           \/ SaveFails(a, by)

Spec == Init /\ [][Next]_vars

-----------------------------------------------------------------------------
TypeOK ==
    /\ usersAuth \in [Numbers -> Fields \cup {NoDoc}]
    /\ users \subseteq Numbers
    /\ form \in [Devices -> Fields]
    /\ otps \in [Devices -> Seq(Attempts)]
    /\ home \in [Devices -> BOOLEAN]
    /\ at \in [Attempts -> Places]
    /\ key \in [Attempts -> Fields]
    /\ otp \in [Attempts -> Fields]
    /\ saves \in [Attempts -> [By -> Saves]]
    /\ killed \in [Attempts -> BOOLEAN]
    /\ edited \in [Attempts -> [By -> Spoilt]]
    /\ overtaken \in [Attempts -> BOOLEAN]
    /\ dirty \in [Numbers -> Spoilt]
    /\ edits \in 0 .. MaxEdits

\* Whoever has a user document, which the rest of the app reads, has the entry
\* in UsersAuth to sign in by, whichever of two saves got how far.  It carries
\* the number that was verified, whatever was edited while the checks ran:
\* only an edit after verifyPhone read the number can part the two, and none
\* once the code page has its copy.
MobileIsVerified ==
    /\ users \subseteq Accounts
    /\ \A n \in Accounts : dirty[n] # "number" => usersAuth[n].number = n

\* Two accounts share a name only if one of them was stored by an attempt
\* that was overtaken after its check, or whose form was edited.
NamesUnique ==
    \A m, n \in Sound : usersAuth[m].name = usersAuth[n].name => m = n

\* Nobody signs up over such an account, but by an attempt that was itself
\* overtaken after its check or edited.
AccountKept ==
    [][\A n \in Sound : usersAuth'[n] # usersAuth[n] => n \notin Sound']_vars

\* "Cant use the same mobile number with more than one account", says the
\* form when its check finds the number (lib/Signup.dart:685).
OneAccountPerMobile ==
    \A m, n \in Accounts : usersAuth[m].number = usersAuth[n].number => m = n
=============================================================================
