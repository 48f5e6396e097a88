-------------------------- MODULE DeviceRegistration --------------------------
(***************************************************************************)
(* The limit of two registered devices per account: the login form         *)
(* (lib/screens/login/components/body.dart), its two dialogs               *)
(* (devNew_dialog.dart, devOveruse_dialog.dart), the confirm button of the *)
(* one-time-code form (otp_form.dart) and the backend's device registry.   *)
(*                                                                         *)
(* A device decides what to do from an answer about the registry, then its *)
(* user reads dialogs and types a code, and only then is the registration  *)
(* sent. Meanwhile other devices of the account do the same.               *)
(*                                                                         *)
(* External, modelled from how the code uses it: login_proc.asp and        *)
(* select_device.asp read the registry, device_register.asp takes out      *)
(* delete_device and puts device_id in. Whether the backend refuses a      *)
(* registration beyond the limit cannot be seen in the code, which ignores *)
(* the answer: both are allowed.                                           *)
(***************************************************************************)
EXTENDS Integers, FiniteSets

CONSTANTS
  Devices,     \* the devices the account's user signs in on
  NoDevice     \* the UUID placeholders " " and ".", which name no device

ASSUME DeviceAssumption == IsFiniteSet(Devices) /\ NoDevice \notin Devices

Limit == 2     \* res["CountUUID"] == "2"

VARIABLES
  registered,  \* external: the registry
  stage,       \* per device: what its screen shows or which answer it awaits
  under,       \* per device: the route below the home screen or the code form
  sheet,       \* per device: deviceUUID1 and deviceUUID2
  choice,      \* per device: deleteDeviceUUID of its code form
  stale,       \* history: the registry changed since this device read it
  excused      \* history: devices the registry dropped or refused

vars == <<registered, stage, under, sheet, choice, stale, excused>>

-----------------------------------------------------------------------------
Stages == {"login", "asking", "isRegistered", "isFull", "isNew",
           "overuse", "fetching", "fetched", "sheet", "new",
           "otp", "registering", "answered", "home"}

Uuids == Devices \cup {NoDevice}

TypeOK ==
  /\ registered \subseteq Devices
  /\ stage \in [Devices -> Stages]
  /\ under \in [Devices -> [otp : {"new", "sheet"}, home : {"login", "otp"}]]
  /\ sheet \in [Devices -> Uuids \X Uuids]
  /\ choice \in [Devices -> Uuids]
  /\ stale \in [Devices -> BOOLEAN]
  /\ excused \subseteq Devices

\* Device d goes from a stage in the set from to the stage to.
Goes(d, from, to) == stage[d] \in from /\ stage' = [stage EXCEPT ![d] = to]

NoSheet == <<NoDevice, NoDevice>>
NoUnder == [otp |-> "new", home |-> "login"]

\* Back at the login form: the closed routes took their data with them.
Forget(d) ==
  /\ under' = [under EXCEPT ![d] = NoUnder]
  /\ sheet' = [sheet EXCEPT ![d] = NoSheet]
  /\ choice' = [choice EXCEPT ![d] = NoDevice]
  /\ stale' = [stale EXCEPT ![d] = FALSE]

-----------------------------------------------------------------------------
(* The login form.                                                         *)

LoginPressed(d) ==
  /\ Goes(d, {"login"}, "asking")
  /\ UNCHANGED <<registered, under, sheet, choice, stale, excused>>

\* Mutant: the answer's CountUUID is not looked at.
LoginVerdictUncounted(d) == IF d \in registered THEN "isRegistered" ELSE "isNew"

\* IsRegister and CountUUID of the answer. The count is compared for equality.
LoginVerdict(d) ==
  CASE d \in registered                                      -> "isRegistered"
    [] d \notin registered /\ Cardinality(registered) = Limit -> "isFull"
    [] d \notin registered /\ Cardinality(registered) # Limit -> "isNew"

\* External: the backend reads the registry.
ServeLogin(d) ==
  /\ Goes(d, {"asking"}, LoginVerdict(d))
  /\ stale' = [stale EXCEPT ![d] = FALSE]
  /\ UNCHANGED <<registered, under, sheet, choice, excused>>

\* IsRegister: straight to the home screen.
EnterRegistered(d) ==
  /\ Goes(d, {"isRegistered"}, "home")
  /\ under' = [under EXCEPT ![d].home = "login"]
  /\ UNCHANGED <<registered, sheet, choice, stale, excused>>

\* CountUUID is "2": the "two devices already" dialog.
AskReplace(d) ==
  /\ Goes(d, {"isFull"}, "overuse")
  /\ UNCHANGED <<registered, under, sheet, choice, stale, excused>>

\* Otherwise the "new device" dialog, with nothing to delete.
AskNew(d) ==
  /\ Goes(d, {"isNew"}, "new")
  /\ choice' = [choice EXCEPT ![d] = NoDevice]
  /\ UNCHANGED <<registered, under, sheet, stale, excused>>

\* No answer, a status in 201 .. 399, or an account the backend does not know.
LoginFails(d) ==
  /\ Goes(d, {"asking", "isRegistered", "isFull", "isNew"}, "login")
  /\ Forget(d)
  /\ UNCHANGED <<registered, excused>>

-----------------------------------------------------------------------------
(* The dialogs.                                                            *)

\* OK of the "two devices already" dialog: it pops itself and asks which.
OveruseOk(d) ==
  /\ Goes(d, {"overuse"}, "fetching")
  /\ UNCHANGED <<registered, under, sheet, choice, stale, excused>>

\* External: the backend names two registered devices.
ServeDevices(d) ==
  /\ Goes(d, {"fetching"}, "fetched")
  /\ \E a, b \in registered : a # b /\ sheet' = [sheet EXCEPT ![d] = <<a, b>>]
  /\ stale' = [stale EXCEPT ![d] = FALSE]
  /\ UNCHANGED <<registered, under, choice, excused>>

\* A status in 201 .. 399: the sheet opens all the same, with "." twice.
DevicesNotRead(d) ==
  /\ Goes(d, {"fetching"}, "fetched")
  /\ sheet' = [sheet EXCEPT ![d] = NoSheet]
  /\ UNCHANGED <<registered, under, choice, stale, excused>>

SheetOpens(d) ==
  /\ Goes(d, {"fetched"}, "sheet")
  /\ UNCHANGED <<registered, under, sheet, choice, stale, excused>>

\* The request fails, a field is missing, or the popped dialog's context is
\* out of the tree when the answer comes: there is no sheet.
SheetFails(d) ==
  /\ Goes(d, {"fetching", "fetched"}, "login")
  /\ Forget(d)
  /\ UNCHANGED <<registered, excused>>

\* Mutant: the number of the ticked device is passed on, not its UUID.
SelectDeviceByNumber(d, i) ==
  /\ Goes(d, {"sheet"}, "otp")
  /\ choice' = [choice EXCEPT ![d] = i]
  /\ under' = [under EXCEPT ![d].otp = "sheet"]
  /\ UNCHANGED <<registered, sheet, stale, excused>>

\* Mutant: OK is let through with nothing ticked.
SelectDeviceUnticked(d, i) ==
  /\ Goes(d, {"sheet"}, "otp")
  /\ choice' = [choice EXCEPT ![d] = NoDevice]
  /\ under' = [under EXCEPT ![d].otp = "sheet"]
  /\ UNCHANGED <<registered, sheet, stale, excused>>

\* One of the two is ticked and OK is pressed; the sheet stays below.
SelectDevice(d, i) ==
  /\ Goes(d, {"sheet"}, "otp")
  /\ choice' = [choice EXCEPT ![d] = sheet[d][i]]
  /\ under' = [under EXCEPT ![d].otp = "sheet"]
  /\ UNCHANGED <<registered, sheet, stale, excused>>

\* OK of the "new device" dialog, which stays below.
NewOk(d) ==
  /\ Goes(d, {"new"}, "otp")
  /\ choice' = [choice EXCEPT ![d] = NoDevice]
  /\ under' = [under EXCEPT ![d].otp = "new"]
  /\ UNCHANGED <<registered, sheet, stale, excused>>

Dismiss(d) ==
  /\ Goes(d, {"new", "overuse", "sheet"}, "login")
  /\ Forget(d)
  /\ UNCHANGED <<registered, excused>>

-----------------------------------------------------------------------------
(* The code form.                                                          *)

\* The code is right: device_register.asp is asked for.
ConfirmCode(d) ==
  /\ Goes(d, {"otp"}, "registering")
  /\ UNCHANGED <<registered, under, sheet, choice, stale, excused>>

\* Stages that hold nothing read from the registry.
Settled == {"login", "asking"}

\* External: the registration is carried out, or refused beyond the limit.
ServeRegister(d) ==
  LET replaced == (registered \ {choice[d]}) \cup {d} IN
  /\ Goes(d, {"registering"}, "answered")
  /\ \/ /\ registered' = replaced
        /\ excused' = (excused \cup (registered \ replaced)) \ {d}
        /\ stale' = [e \in Devices |->
                        stale[e] \/ (replaced # registered /\ stage[e] \notin Settled)]
     \/ /\ Cardinality(replaced) > Limit
        /\ excused' = excused \cup ({d} \ registered)
        /\ UNCHANGED <<registered, stale>>
  /\ UNCHANGED <<under, sheet, choice>>

\* Mutant: the home screen is pushed without waiting for the backend.
EnterHomeUnawaited(d) ==
  /\ Goes(d, {"registering", "answered"}, "home")
  /\ under' = [under EXCEPT ![d].home = "otp"]
  /\ UNCHANGED <<registered, sheet, choice, stale, excused>>

\* Whatever the answer says, the home screen is pushed.
EnterHome(d) ==
  /\ Goes(d, {"answered"}, "home")
  /\ under' = [under EXCEPT ![d].home = "otp"]
  /\ UNCHANGED <<registered, sheet, choice, stale, excused>>

\* The request or its answer is lost: the "wrong code" dialog over the form.
RegisterFails(d) ==
  /\ Goes(d, {"registering", "answered"}, "otp")
  /\ UNCHANGED <<registered, under, sheet, choice, stale, excused>>

BackFromHome(d) ==
  /\ Goes(d, {"home"}, under[d].home)
  /\ IF under[d].home = "login" THEN Forget(d) ELSE UNCHANGED <<under, sheet, choice, stale>>
  /\ UNCHANGED <<registered, excused>>

BackFromOtp(d) ==
  /\ Goes(d, {"otp"}, under[d].otp)
  /\ UNCHANGED <<registered, under, sheet, choice, stale, excused>>

\* The app is killed and started again, and shows the login form; a request not
\* yet served is lost.
Restart(d) ==
  /\ Goes(d, Stages \ {"login"}, "login")
  /\ Forget(d)
  /\ UNCHANGED <<registered, excused>>

-----------------------------------------------------------------------------
Init ==
  /\ registered \in {R \in SUBSET Devices : Cardinality(R) <= Limit}
  /\ stage = [d \in Devices |-> "login"]
  /\ under = [d \in Devices |-> NoUnder]
  /\ sheet = [d \in Devices |-> NoSheet]
  /\ choice = [d \in Devices |-> NoDevice]
  /\ stale = [d \in Devices |-> FALSE]
  /\ excused = {}

\* What one device, and the backend for it, can do.
Step(d) ==
  \/ LoginPressed(d)
  \/ ServeLogin(d)
  \/ EnterRegistered(d)
  \/ AskReplace(d)
  \/ AskNew(d)
  \/ LoginFails(d)
  \/ OveruseOk(d)
  \/ ServeDevices(d)
  \/ DevicesNotRead(d)
  \/ SheetOpens(d)
  \/ SheetFails(d)
  \/ \E i \in {1, 2} : SelectDevice(d, i)
  \/ NewOk(d)
  \/ Dismiss(d)
  \/ ConfirmCode(d)
  \/ ServeRegister(d)
  \/ EnterHome(d)
  \/ RegisterFails(d)
  \/ BackFromHome(d)
  \/ BackFromOtp(d)
  \/ Restart(d)

Next == \E d \in Devices : Step(d)

Spec == Init /\ [][Next]_vars

-----------------------------------------------------------------------------
(* Properties.                                                             *)

\* What the app's own check is worth. The registry first exceeds the limit
\* only through a device that registers on an answer another registration has
\* overtaken, or that was shown a device list which was never read.
OverLimitNeedsStaleAnswer ==
  [][Cardinality(registered) <= Limit /\ Cardinality(registered') > Limit
       => \E d \in Devices : /\ stage[d] = "registering" /\ stage'[d] = "answered"
                             /\ \/ stale[d]
                                \/ under[d].otp = "sheet" /\ choice[d] = NoDevice]_vars

\* A device that came to its home screen through the login form is registered,
\* unless the registry has since dropped it for another device, or refused it
\* and the app did not look. (The auto-login's way there is not in this module.)
HomeIsAccountedFor ==
  \A d \in Devices : stage[d] = "home" => d \in registered \cup excused

\* Device d shows its code form, or the home screen above it.
AtForm(d) ==
  \/ stage[d] \in {"otp", "registering", "answered"}
  \/ stage[d] = "home" /\ under[d].home = "otp"

\* What a device was told and has not forgotten: that there is room, or which
\* two devices are registered.
HoldsRoom(d) == stage[d] \in {"isNew", "new"}     \/ (AtForm(d) /\ under[d].otp = "new")
HoldsList(d) == stage[d] \in {"fetched", "sheet"} \/ (AtForm(d) /\ under[d].otp = "sheet")

OfferTo(d) == IF HoldsList(d) THEN {sheet[d][1], sheet[d][2]}
              ELSE IF HoldsRoom(d) THEN {NoDevice} ELSE {}

\* The abstract admission (Admission.tla), seen in this state.
Door == INSTANCE Admission WITH
  members <- registered,
  offer   <- [d \in Devices |-> OfferTo(d)],
  blind   <- {d \in Devices : HoldsList(d) /\ sheet[d] = NoSheet},
  cleared <- {d \in Devices : stage[d] \in {"isRegistered", "answered"}},
  inside  <- {d \in Devices : stage[d] = "home"}

\* Dialogs, forms, late answers, lost requests and restarts of several devices
\* add up to no more than the abstract admission: a device is dropped only for
\* one whose user was shown it and ticked it, a home screen opens only after
\* the backend has decided, and nobody is told there is room while the registry
\* is at its limit; above it the abstract step OverlookExcess says that they are
\* (devOveruse_dialog.dart:26-269, otp_form.dart:229-238, body.dart:123-158).
ImplementsAdmission == Door!Spec

\* Claim of README.md:101-102 (two devices are registered at most, and with two
\* or more the user is asked which one to remove): who is told there is room was
\* looked up below the limit.
RoomOnlyBelowLimit ==
  [][\A d \in Devices : stage[d] = "asking" /\ stage'[d] = "isNew"
                           => Cardinality(registered) < Limit]_vars
=============================================================================
